--------------------------- MODULE WebSocketHost ---------------------------
(***************************************************************************)
(* The host's entry for one socket (examples/capabilities/websocket-host.mjs): *)
(* its native socket, the chain of events to emit and the record that      *)
(* outlives it, as operators from the entry to the entry.                  *)
(*                                                                         *)
(* A definition marked "fault" is a plausible mistake in the one below it. *)
(* No action uses it: it is there to show that a property can fail.        *)
(***************************************************************************)
EXTENDS Integers, Sequences

LOCAL INSTANCE SequencesExt   \* FoldSeq

CONSTANTS
    MaxBuffered,   \* maxBufferedBytes
    MaxQueued      \* maxQueuedEvents

None == [kind |-> "none"]
NoReport == [snapshot |-> 0, ack |-> 0, buffered |-> 0]

(* "live": in the sockets map, with its listeners.  "native" and "buffered" *)
(* are the native socket's state and bufferedAmount, "transmitted" what it  *)
(* has sent (history).  "record" is the entry of the closed map.           *)
NoEntry ==
    [live |-> FALSE, native |-> "none", buffered |-> 0, transmitted |-> 0, snapshot |-> 0, ack |-> 0,
     messages |-> 0, transfer |-> None, queue |-> <<>>, failed |-> FALSE, deliveryFailed |-> FALSE,
     poll |-> FALSE, record |-> None, disposed |-> FALSE]

Snapshot(h) == [h EXCEPT !.snapshot = @ + 1]
Report(h) == [snapshot |-> h.snapshot, ack |-> h.ack, buffered |-> h.buffered]

Detach(h) == [h EXCEPT !.live = FALSE, !.poll = FALSE]
CloseNative(h) == [h EXCEPT !.native = IF @ \in {"connecting", "open"} THEN "closing" ELSE @]

RememberReport(h) ==   \* fault
    LET s == Snapshot(h) IN [s EXCEPT !.record = [kind |-> "record", report |-> Report(s), transfer |-> None]]
RememberClosed(h) ==
    LET s == Snapshot(h) IN [s EXCEPT !.record = [kind |-> "record", report |-> Report(s), transfer |-> s.transfer]]

Event(type, message, size, terminal, report) ==
    [type |-> type, message |-> message, size |-> size, offset |-> 0, done |-> FALSE,
     terminal |-> terminal, report |-> report]

(* An event for the chain carries a report made when it is queued.         *)
Put(h, type, message, size, terminal) ==
    LET s == Snapshot(h) IN [s EXCEPT !.queue = Append(@, Event(type, message, size, terminal, Report(s)))]
Ordinary(h, type) == Put(h, type, 0, 0, FALSE)   \* fault
Terminal(h, type) == Put(h, type, 0, 0, TRUE)

FailHost(h) ==
    IF h.failed \/ h.disposed THEN h
    ELSE LET closing == CloseNative([Detach(h) EXCEPT !.failed = TRUE])
         IN  RememberClosed(Terminal(Terminal(closing, "error"), "close"))

QueuedBytes(h) == FoldSeq(LAMBDA e, sum : sum + e.size, 0, h.queue)

(* queuedEvents and queuedBytes count what all sockets have queued: the     *)
(* rest of the room is the others', and may be taken (crowded).             *)
QueueFull(h, size, crowded) ==
    crowded \/ Len(h.queue) >= MaxQueued \/ QueuedBytes(h) + size > MaxBuffered

Queue(h, type, message, size, crowded) ==
    IF h.disposed \/ h.failed THEN Snapshot(h)
    ELSE IF QueueFull(h, size, crowded) THEN FailHost(Snapshot(h))
    ELSE Put(h, type, message, size, FALSE)

QueueTerminal(h, type) == IF h.disposed THEN Snapshot(h) ELSE Terminal(h, type)
-----------------------------------------------------------------------------
(* The native socket's listeners, which detach removes.                    *)

OnOpen(h, crowded) == Queue([h EXCEPT !.native = "open"], "open", 0, 0, crowded)

OnMessage(h, size, crowded) ==
    IF size > MaxBuffered THEN FailHost(h)
    ELSE LET n == h.messages + 1 IN Queue([h EXCEPT !.messages = n], "message", n, size, crowded)

OnError(h, crowded) == Queue([h EXCEPT !.native = "closing"], "error", 0, 0, crowded)
OnClose(h) == RememberClosed(QueueTerminal(Detach([h EXCEPT !.native = "closed"]), "close"))

(* The timer that reports the buffer until it is empty.                    *)
Poll(h) == IF h.disposed \/ h.failed THEN h ELSE [h EXCEPT !.poll = TRUE]
PollFires(h, crowded) ==
    LET q == Queue([h EXCEPT !.poll = FALSE], "buffer", 0, 0, crowded)
    IN  IF q.buffered > 0 THEN Poll(q) ELSE q
-----------------------------------------------------------------------------
(* The guest's calls: the entry they leave, and the answer.                *)

Answer(h, report) == [host |-> h, ok |-> TRUE, report |-> report]
Refuse(h) == [host |-> h, ok |-> FALSE, report |-> NoReport]
AnswerNow(h) == LET s == Snapshot(h) IN Answer(s, Report(s))

Open(h) == AnswerNow([h EXCEPT !.live = TRUE, !.native = "connecting"])

Transfer(sequence, size) == [kind |-> "transfer", sequence |-> sequence, size |-> size, received |-> 0]

(* A socket that has closed keeps its place in the conversation in its      *)
(* record, which answers in its stead.                                      *)
Recorded(h, record) ==
    LET r == [record EXCEPT !.report.snapshot = @ + 1] IN Answer([h EXCEPT !.record = r], r.report)

SendStart(h, sequence, size) ==
    LET past == h.record # None
        ack == IF past THEN h.record.report.ack ELSE h.ack
        transfer == IF past THEN h.record.transfer ELSE h.transfer
    IN  IF (~past /\ ~h.live) \/ sequence <= ack \/ transfer # None THEN Refuse(h)
        ELSE IF past THEN Recorded(h, [h.record EXCEPT !.transfer = Transfer(sequence, size)])
        ELSE IF size + h.buffered > MaxBuffered THEN Refuse(FailHost(h))
        ELSE AnswerNow([h EXCEPT !.transfer = Transfer(sequence, size)])

SendNative(h, t) ==
    LET sent == [h EXCEPT !.transfer = None, !.ack = t.sequence, !.buffered = @ + t.size]
    IN  AnswerNow(Poll(sent))

SendRecorded(h, t) ==
    LET report == [h.record.report EXCEPT !.ack = t.sequence, !.buffered = @ + t.size]
    IN  Recorded(h, [h.record EXCEPT !.transfer = None, !.report = report])

SendChunk(h, sequence, offset, bytes) ==
    LET past == h.record # None
        t == IF past THEN h.record.transfer ELSE h.transfer
        received == [t EXCEPT !.received = @ + bytes]
    IN  IF (~past /\ ~h.live) \/ t = None THEN Refuse(h)
        ELSE IF t.sequence # sequence \/ t.received # offset \/ offset + bytes > t.size THEN Refuse(h)
        ELSE IF offset + bytes < t.size
        THEN IF past THEN Recorded(h, [h.record EXCEPT !.transfer = received])
             ELSE AnswerNow([h EXCEPT !.transfer = received])
        ELSE IF past THEN SendRecorded(h, t)
        ELSE IF t.size + h.buffered > MaxBuffered THEN Refuse(FailHost([h EXCEPT !.transfer = None]))
        ELSE SendNative(h, t)

Close(h) ==
    IF h.record # None
    THEN LET g == [h EXCEPT !.record.transfer = None] IN Answer(g, g.record.report)
    ELSE IF ~h.live THEN Refuse(h)
    ELSE AnswerNow(CloseNative([h EXCEPT !.transfer = None]))

(* deliveryFailure: the socket ends, and its last two events are told       *)
(* outside the chain.                                                       *)
DeliveryFailure(h) ==
    CloseNative(RememberClosed(Detach([h EXCEPT !.deliveryFailed = TRUE, !.failed = TRUE])))

(* Nothing of a disposed capability's entry is read again.                 *)
Dispose(h) ==
    [NoEntry EXCEPT !.disposed = TRUE, !.native = CloseNative(h).native,
                    !.transmitted = h.transmitted, !.deliveryFailed = h.deliveryFailed]
=============================================================================
