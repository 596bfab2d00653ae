----------------------------- MODULE WebSocket -----------------------------
(***************************************************************************)
(* A guest WebSocket and the host's entry for it, over the bridge          *)
(* (examples/capabilities/websocket-guest.js, websocket-host.mjs).         *)
(*                                                                         *)
(* The guest's commands form a chain: one bridge call at a time, whose     *)
(* answer is a report of the host's entry.  The host's events form a chain *)
(* of their own, and carry reports too.  Answers and events travel         *)
(* independently, so a report may reach the guest after a later one.  The  *)
(* close that #fail asks for bypasses the chain of commands.               *)
(*                                                                         *)
(* The native socket opens, receives, sends and closes as it likes, as long *)
(* as somebody listens; an event may fail to be delivered, before or after  *)
(* the guest has seen it (at most MaxLost times).  Of the other sockets two *)
(* things are seen: they may push this one's record out of the closed table, *)
(* and their events may take the room this one's need.                      *)
(***************************************************************************)
EXTENDS Integers, Sequences

CONSTANTS
    MaxBuffered,     \* maxBufferedBytes, in chunks
    MaxQueued,       \* maxQueuedEvents
    SendSizes,       \* sizes of the guest's messages, in chunks
    MessageSizes,    \* sizes of the peer's messages
    MaxSends,        \* bound: messages the guest sends
    MaxMessages,     \* bound: messages the peer sends
    MaxPolls,        \* bound: reports of the polling timer
    MaxLost          \* bound: events that cannot be delivered

ASSUME LimitsAssumption == MaxBuffered \in Nat \ {0} /\ MaxQueued \in Nat \ {0}
ASSUME SizesAssumption == SendSizes \cup MessageSizes \subseteq Nat

Guest == INSTANCE WebSocketGuest
Host == INSTANCE WebSocketHost

VARIABLES
    guest,       \* the guest's WebSocket
    host,        \* the host's entry
    call,        \* the bridge call of the first command
    emission,    \* what the chain of events is doing
    sends, polls, lost,  \* counters of the bounds
    unheard      \* the last close event there was is lost (history)

bounds == <<sends, polls, lost>>
vars == <<guest, host, call, emission, bounds, unheard>>

NoCall == [phase |-> "idle", part |-> 0, ok |-> TRUE, report |-> Host!NoReport]
NoEmission == [stage |-> "idle", event |-> Host!None, arrived |-> FALSE]

Init ==
    /\ guest = Guest!NewSocket /\ host = Host!NoEntry
    /\ call = NoCall /\ emission = NoEmission
    /\ sends = 0 /\ polls = 0 /\ lost = 0 /\ unheard = FALSE
-----------------------------------------------------------------------------
(* The guest program.  A send to a closed socket does what one to a closing *)
(* socket does.                                                            *)

Send(size) ==
    /\ guest.state \in {"open", "closing"} /\ sends < MaxSends
    /\ guest' = Guest!Send(guest, size) /\ sends' = sends + 1
    /\ UNCHANGED <<host, call, emission, polls, lost, unheard>>

Close ==
    /\ guest.state \in {"connecting", "open"}
    /\ guest' = Guest!Close(guest)
    /\ UNCHANGED <<host, call, emission, bounds, unheard>>
-----------------------------------------------------------------------------
(* The chain of commands.                                                  *)

Command == Head(guest.commands)
Done(g) == [g EXCEPT !.commands = Tail(@)]

Issue ==
    /\ call.phase = "idle" /\ guest.commands # <<>>
    /\ IF Guest!Inert(guest)
       THEN guest' = [guest EXCEPT !.commands = <<>>] /\ UNCHANGED call
       ELSE call' = [NoCall EXCEPT !.phase = "sent"] /\ UNCHANGED guest
    /\ UNCHANGED <<host, emission, bounds, unheard>>

(* What the host may answer to the call on its way: a disposed capability   *)
(* refuses every call, and an open may be refused for its URL, its origin, *)
(* the number of sockets or of their events.  The record of a closed socket may have been   *)
(* pushed out by other sockets' by now.                                    *)
Forgotten(h) == [h EXCEPT !.record = Host!None]

Answered(h) ==
    LET unit == Guest!Unit(Command.size)
    IN  IF h.disposed THEN {Host!Refuse(h)}
        ELSE IF Command.op = "open" THEN {Host!Open(h), Host!Refuse(h)}
        ELSE IF Command.op = "close" THEN {Host!Close(h)}
        ELSE IF call.part = 0 THEN {Host!SendStart(h, Command.sequence, Command.size)}
        ELSE {Host!SendChunk(h, Command.sequence, (call.part - 1) * unit, unit)}

Answers == Answered(host) \cup Answered(Forgotten(host))

HostAnswers ==
    /\ call.phase = "sent"
    /\ \E a \in Answers :
          /\ host' = a.host
          /\ call' = [call EXCEPT !.phase = "answered", !.ok = a.ok, !.report = a.report]
    /\ UNCHANGED <<guest, emission, bounds, unheard>>

(* The answer arrives: the next part of the message, or the next command.   *)
Return ==
    /\ call.phase = "answered"
    /\ LET g == Guest!Ack(guest, call.report)
           more == Command.op = "send" /\ call.part < Guest!Chunks(Command.size) /\ ~Guest!Inert(g)
       IN  IF ~call.ok THEN guest' = Done(Guest!Fail(guest)) /\ call' = NoCall
           ELSE IF more THEN guest' = g /\ call' = [NoCall EXCEPT !.phase = "sent", !.part = call.part + 1]
           ELSE guest' = Done(g) /\ call' = NoCall
    /\ UNCHANGED <<host, emission, bounds, unheard>>

(* The close that #fail asked for.                                         *)
Farewell ==
    /\ guest.farewell
    /\ guest' = [guest EXCEPT !.farewell = FALSE]
    /\ host' = IF host.disposed THEN host ELSE Host!Close(host).host
    /\ UNCHANGED <<call, emission, bounds, unheard>>
-----------------------------------------------------------------------------
(* The chain of events.                                                    *)

(* A message crosses in chunks, each with the report of the whole.         *)
PartialOf(e, offset) ==
    [e EXCEPT !.offset = offset, !.done = offset + Guest!Unit(e.size) = e.size]
Part(e, offset) == IF e.type = "message" THEN PartialOf(e, offset) ELSE e

Emit(stage, e) == emission' = [stage |-> stage, event |-> e, arrived |-> FALSE]

(* On to the next event; those before it are not emitted once the socket    *)
(* has failed, or the capability is disposed of.                           *)
Skipped(h, e) == h.disposed \/ (h.failed /\ ~e.terminal)

Proceed(h) ==
    LET left == {i \in DOMAIN h.queue : ~Skipped(h, h.queue[i])}
    IN  IF left = {} THEN host' = [h EXCEPT !.queue = <<>>] /\ emission' = NoEmission
        ELSE \E next \in left :
                /\ \A i \in left : next <= i
                /\ host' = [h EXCEPT !.queue = SubSeq(@, next, Len(@))]
                /\ Emit("event", Part(h.queue[next], 0))

EndEvent(h) == Proceed([h EXCEPT !.queue = IF @ = <<>> THEN @ ELSE Tail(@)])

(* One of the two last events, outside the chain.                          *)
Tell(h, stage, type) ==
    LET s == Host!Snapshot(h)
    IN  /\ host' = s
        /\ Emit(stage, Host!Event(type, 0, 0, TRUE, Host!Report(s)))

StartEvent ==
    /\ emission.stage = "idle" /\ host.queue # <<>>
    /\ Proceed(host)
    /\ UNCHANGED <<guest, call, bounds, unheard>>

Dispatch ==
    /\ emission.stage # "idle" /\ ~emission.arrived
    /\ guest' = Guest!Dispatch(guest, emission.event)
    /\ emission' = [emission EXCEPT !.arrived = TRUE]
    /\ UNCHANGED <<host, call, bounds, unheard>>

AfterTelling(h) ==
    IF emission.stage = "tellError" /\ ~h.disposed THEN Tell(h, "tellClose", "close") ELSE EndEvent(h)

Emitted ==
    /\ emission.stage # "idle" /\ emission.arrived
    /\ LET e == emission.event
       IN  IF emission.stage # "event" THEN AfterTelling(host)
           ELSE IF e.type = "message" /\ ~e.done /\ ~host.disposed /\ ~host.failed
           THEN Emit("event", Part(e, e.offset + 1)) /\ UNCHANGED host
           ELSE EndEvent(host)
    /\ UNCHANGED <<guest, call, bounds, unheard>>

(* Another close event follows the one on its way.                          *)
CloseFollows ==
    \/ emission.stage = "event" /\ ~host.deliveryFailed
    \/ \E i \in 2 .. Len(host.queue) : host.queue[i].type = "close"

(* An event is lost, or its acknowledgement: deliveryFailure, once.  Of what *)
(* it tells in its turn, a loss is swallowed.                               *)
EmitFails ==
    /\ emission.stage # "idle" /\ lost < MaxLost /\ ~host.disposed
    /\ IF emission.stage # "event" THEN AfterTelling(host)
       ELSE IF host.deliveryFailed THEN EndEvent(host)
       ELSE Tell(Host!DeliveryFailure(host), "tellError", "error")
    /\ lost' = lost + 1
    /\ unheard' = (unheard \/ (emission.event.type = "close" /\ ~emission.arrived /\ ~CloseFollows))
    /\ UNCHANGED <<guest, call, sends, polls>>
-----------------------------------------------------------------------------
(* The native socket and the timer.                                       *)

Native(h) == host' = h /\ UNCHANGED <<guest, call, emission, bounds, unheard>>

NativeOpens(crowded) ==
    host.native = "connecting" /\ host.live /\ Native(Host!OnOpen(host, crowded))

NativeMessage(size, crowded) ==
    /\ host.native = "open" /\ host.live /\ host.messages < MaxMessages
    /\ Native(Host!OnMessage(host, size, crowded))

NativeError(crowded) ==
    host.native \in {"connecting", "open"} /\ host.live /\ Native(Host!OnError(host, crowded))

NativeCloses == host.native \in {"open", "closing"} /\ host.live /\ Native(Host!OnClose(host))

Transmit ==
    /\ host.native \in {"open", "closing"} /\ host.buffered > 0 /\ host.live
    /\ Native([host EXCEPT !.buffered = 0, !.transmitted = @ + host.buffered])

PollFires(crowded) ==
    /\ host.poll /\ polls < MaxPolls
    /\ host' = Host!PollFires(host, crowded) /\ polls' = polls + 1
    /\ UNCHANGED <<guest, call, emission, sends, lost, unheard>>

(* The capability is disposed of: the host's side first.                   *)
DisposeHost == ~host.disposed /\ Native(Host!Dispose(host))
DisposeGuest ==
    /\ host.disposed /\ ~guest.disposed
    /\ guest' = Guest!Dispose(guest)
    /\ UNCHANGED <<host, call, emission, bounds, unheard>>
-----------------------------------------------------------------------------
GuestStep == Issue \/ Return \/ Farewell \/ Dispatch \/ DisposeGuest
HostStep == HostAnswers \/ StartEvent \/ Emitted

Next ==
    \/ \E size \in SendSizes : Send(size)
    \/ Close \/ GuestStep \/ HostStep \/ EmitFails
    \/ \E crowded \in BOOLEAN :
          \/ NativeOpens(crowded) \/ NativeError(crowded) \/ PollFires(crowded)
          \/ \E size \in MessageSizes : NativeMessage(size, crowded)
    \/ NativeCloses \/ Transmit \/ DisposeHost

(* Promises are reacted to on both sides, calls and events arrive, and a    *)
(* native socket that is to close does, if only by its own timeout.         *)
Fairness ==
    /\ WF_vars(Issue) /\ WF_vars(Return) /\ WF_vars(Farewell) /\ WF_vars(Dispatch) /\ WF_vars(DisposeGuest)
    /\ WF_vars(HostAnswers) /\ WF_vars(StartEvent) /\ WF_vars(Emitted)
    /\ WF_vars(host.native = "closing" /\ NativeCloses)

Spec == Init /\ [][Next]_vars /\ Fairness
-----------------------------------------------------------------------------
(* bufferedAmount counts every byte that send() took and the network has    *)
(* not: whatever order reports arrive in, no byte is counted twice, and     *)
(* none is missing unless it was transmitted.                              *)
BufferedAmountCovers ==
    ~host.deliveryFailed =>
        /\ guest.accepted - host.transmitted <= Guest!BufferedAmount(guest)
        /\ Guest!BufferedAmount(guest) <= guest.accepted

(* The events of a socket: open first, then the peer's messages in their    *)
(* order and without a gap, whole; after the close event nothing, so that   *)
(* it is the only one, and the socket is closed from then on.              *)
EventsInOrder ==
    LET seen == guest.seen
    IN  /\ ~guest.broken
        /\ \A i \in DOMAIN seen :
               /\ seen[i].type = "open" => i = 1
               /\ seen[i].type = "message" => seen[1].type = "open" /\ seen[i].message = i - 1
               /\ seen[i].type = "close" => i = Len(seen) /\ guest.state = "closed"

(* A command that meets a socket that has just closed is answered from its  *)
(* record: the host refuses one only when the socket failed, was forgotten  *)
(* or never existed, or when the guest has closed it since.                *)
RacesAnswered ==
    call.phase = "answered" /\ ~call.ok =>
        \/ Command.op = "open" \/ host.failed \/ host.disposed
        \/ guest.state = "closed"
        \/ (~host.live /\ host.record = Host!None)

(* A socket that the guest closes, or that fails, is closed in the end: the  *)
(* host keeps neither its native socket nor its listeners, and the guest is *)
(* told, unless the last close event there was for it has been lost, which  *)
(* nothing repeats (deliveryFailure: one best-effort attempt).              *)
BothEndsClose ==
    guest.state \in {"closing", "closed"} ~> (guest.state = "closed" \/ unheard) /\ ~host.live
=============================================================================
