--------------------------- MODULE WebSocketGuest ---------------------------
(***************************************************************************)
(* One guest WebSocket object (examples/capabilities/websocket-guest.js):  *)
(* what its methods, and the reports and events that reach it from the     *)
(* host, do to it.  Every operator maps the object to the object; WebSocket *)
(* makes the steps of them.  Sizes are in chunks of CHUNK_SIZE bytes.      *)
(*                                                                         *)
(* A definition marked "fault" is a plausible mistake in the one below it. *)
(* No action uses it: it is there to show that a property can fail.        *)
(***************************************************************************)
EXTENDS Integers, Sequences

LOCAL INSTANCE Functions   \* Restrict, SumFunctionOnSet

CONSTANT MaxBuffered       \* maxBufferedBytes

None == [kind |-> "none"]
Command(op, sequence, size) == [op |-> op, sequence |-> sequence, size |-> size]
Chunks(size) == IF size = 0 THEN 1 ELSE size
Unit(size) == IF size = 0 THEN 0 ELSE 1

(* The constructor has run.  "seen" are the DOM events dispatched, errors   *)
(* left out, and "accepted" the bytes send() took: they are history.        *)
(* "farewell" is the close that #fail asks of the host, and "broken" tells   *)
(* that an event of the host was malformed.                                 *)
NewSocket ==
    [state |-> "connecting", pending |-> <<>>, pendingBytes |-> 0, hostBuffered |-> 0,
     discarded |-> 0, sequence |-> 0, snapshot |-> 0, commands |-> <<Command("open", 0, 0)>>,
     incoming |-> None, disposed |-> FALSE, farewell |-> FALSE,
     seen |-> <<>>, accepted |-> 0, broken |-> FALSE]

BufferedAmount(g) == g.pendingBytes + g.hostBuffered + g.discarded
Inert(g) == g.disposed \/ g.state = "closed"
See(g, event) == [g EXCEPT !.seen = Append(@, event)]
Plain(type) == [type |-> type, message |-> 0]

Anyone(g, report) == TRUE   \* fault
Newest(g, report) == report.snapshot > g.snapshot

Ack(g, report) ==
    IF g.state = "closed" \/ ~Newest(g, report) THEN g
    ELSE LET acked == {s \in DOMAIN g.pending : s <= report.ack}
         IN  [g EXCEPT !.snapshot = report.snapshot, !.hostBuffered = report.buffered,
                       !.pendingBytes = @ - SumFunctionOnSet(g.pending, acked),
                       !.pending = Restrict(@, DOMAIN @ \ acked)]

Retire(g) ==
    [g EXCEPT !.state = "closed", !.incoming = None, !.discarded = @ + g.pendingBytes,
              !.pendingBytes = 0, !.pending = <<>>]

FailAnyway(g) ==
    See([Retire(g) EXCEPT !.farewell = TRUE], Plain("close"))
Fail(g) == IF Inert(g) THEN g ELSE FailAnyway(g)

Enqueue(g, command) == [g EXCEPT !.commands = Append(@, command)]

Close(g) ==
    IF g.state \in {"closing", "closed"} THEN g
    ELSE Enqueue([g EXCEPT !.state = "closing", !.incoming = None], Command("close", 0, 0))

(* send() of a socket that is not connecting: there it throws.             *)
Send(g, size) ==
    LET s == g.sequence + 1
    IN  IF g.state # "open" THEN [g EXCEPT !.discarded = @ + size, !.accepted = @ + size]
        ELSE IF BufferedAmount(g) + size > MaxBuffered THEN Fail(Close(g))
        ELSE Enqueue([g EXCEPT !.sequence = s, !.pendingBytes = @ + size, !.accepted = @ + size,
                               !.pending = [t \in DOMAIN @ \cup {s} |-> IF t = s THEN size ELSE @[t]]],
                     Command("send", s, size))

(* A part of a message: the first begins it, each must follow the last, and *)
(* the one that completes it dispatches it, whole.                          *)
Begin(g, e) ==
    IF e.offset > 0 THEN g.incoming
    ELSE [kind |-> "message", message |-> e.message, size |-> e.size, offset |-> 0]

Follows(incoming, e) ==
    /\ incoming.kind = "message" /\ incoming.message = e.message
    /\ incoming.offset = e.offset /\ incoming.size = e.size
    /\ e.done <=> incoming.offset + Unit(e.size) = incoming.size

Receive(g, e) ==
    LET incoming == Begin(g, e)
    IN  IF g.state # "open" THEN [g EXCEPT !.incoming = None]
        ELSE IF (e.offset = 0 /\ g.incoming # None) \/ ~Follows(incoming, e)
        THEN Fail([g EXCEPT !.broken = TRUE])
        ELSE IF ~e.done THEN [g EXCEPT !.incoming = [incoming EXCEPT !.offset = @ + 1]]
        ELSE See([g EXCEPT !.incoming = None], [type |-> "message", message |-> e.message])

Dispatch(g, e) ==
    LET h == Ack(g, e.report)
    IN  CASE Inert(g) -> g
          [] ~Inert(g) /\ e.type = "open" ->
                IF h.state = "connecting" THEN See([h EXCEPT !.state = "open"], Plain("open")) ELSE h
          [] ~Inert(g) /\ e.type = "message" -> Receive(h, e)
          [] ~Inert(g) /\ e.type \in {"error", "buffer"} -> h
          [] ~Inert(g) /\ e.type = "close" -> See(Retire(h), Plain("close"))

Dispose(g) == [Retire(g) EXCEPT !.disposed = TRUE]
=============================================================================
