-------------------------- MODULE WebSocketProofs --------------------------
(***************************************************************************)
(* What holds of a WebSocket for every limit, every size of message and    *)
(* every number of them: its events reach the program in order, and a      *)
(* command that races with the closing of the socket is answered.          *)
(*                                                                         *)
(* The invariant says where each chain is.  The events: the queue is the   *)
(* rest of what the guest is to see, counted by c, and the part of a       *)
(* message that crosses follows what the guest has of it.  The commands:   *)
(* what the host, or the record it left, holds of the transfer and of the  *)
(* acknowledged sequence is what the call on its way expects.  Once the     *)
(* socket has failed on one side, the other's place does not count.         *)
(***************************************************************************)
EXTENDS WebSocket, TLAPS

None == [kind |-> "none"]

Reports == [snapshot : Nat, ack : Nat, buffered : Nat]
Transfers == [kind : {"transfer"}, sequence : Nat, size : Nat, received : Nat]
Records == [kind : {"record"}, report : Reports, transfer : Transfers \cup {None}]
EventTypes == {"open", "message", "error", "buffer", "close"}
Events == [type : EventTypes, message : Nat, size : Nat, offset : Nat, done : BOOLEAN,
           terminal : BOOLEAN, report : Reports]
Queued == {e \in Events : e.offset = 0 /\ (e.terminal => e.type \in {"error", "close"})}
Commands == [op : {"open", "send", "close"}, sequence : Nat, size : Nat]
Incomings == [kind : {"message"}, message : Nat, size : Nat, offset : Nat]
Sights == [type : {"open", "message", "close"}, message : Nat]

IsEntry(h) ==
    /\ DOMAIN h = {"live", "native", "buffered", "transmitted", "snapshot", "ack", "messages",
                   "transfer", "queue", "failed", "deliveryFailed", "poll", "record", "disposed"}
    /\ h.live \in BOOLEAN /\ h.failed \in BOOLEAN /\ h.disposed \in BOOLEAN
    /\ h.deliveryFailed => h.failed \/ h.disposed
    /\ h.native \in {"none", "connecting", "open", "closing", "closed"}
    /\ h.buffered \in Nat /\ h.snapshot \in Nat /\ h.ack \in Nat /\ h.messages \in Nat
    /\ h.transfer \in Transfers \cup {None}
    /\ h.queue \in Seq(Queued)
    /\ h.record \in Records \cup {None}

IsSocket(g) ==
    /\ DOMAIN g = {"state", "pending", "pendingBytes", "hostBuffered", "discarded", "sequence",
                   "snapshot", "commands", "incoming", "disposed", "farewell", "seen", "accepted",
                   "broken"}
    /\ g.state \in {"connecting", "open", "closing", "closed"}
    /\ g.disposed \in BOOLEAN /\ g.farewell \in BOOLEAN /\ g.broken \in BOOLEAN
    /\ g.sequence \in Nat
    /\ g.commands \in Seq(Commands)
    /\ g.incoming \in Incomings \cup {None}
    /\ g.seen \in Seq(Sights)

Calls == [phase : {"idle", "sent", "answered"}, part : Nat, ok : BOOLEAN, report : Reports]
ChainsTyped ==
    /\ call \in Calls
    /\ call.phase # "idle" => guest.commands # <<>>
    /\ DOMAIN emission = {"stage", "event", "arrived"}
    /\ emission.stage \in {"idle", "event", "tellError", "tellClose"}
    /\ emission.arrived \in BOOLEAN
    /\ emission.stage # "idle" => emission.event \in Events
    /\ emission.stage \in {"tellError", "tellClose"} => emission.event.type \in {"error", "close"}

Typed == IsEntry(host) /\ IsSocket(guest) /\ ChainsTyped

(* What the guest has seen, and what its state says of it.                 *)
InOrder(g) ==
    /\ ~g.broken
    /\ \A i \in DOMAIN g.seen :
          /\ g.seen[i].type = "open" => i = 1
          /\ g.seen[i].type = "message" => g.seen[1].type = "open" /\ g.seen[i].message = i - 1
          /\ g.seen[i].type = "close" => i = Len(g.seen) /\ g.state = "closed"
    /\ g.state = "connecting" => g.seen = <<>>
    /\ g.state = "open" => g.seen # <<>>
    /\ g.state # "open" => g.incoming = None
    /\ g.disposed \/ g.farewell => g.state = "closed"

(* The message that crosses is the one the guest expects, and the guest has *)
(* of it what has arrived.                                                  *)
Crossing == emission.stage = "event" /\ emission.event.type = "message"
Crossed == Crossing /\ emission.arrived /\ emission.event.done
Begun(e, offset) == [kind |-> "message", message |-> e.message, size |-> e.size, offset |-> offset]
HasOf(e) ==
    IF emission.arrived THEN IF e.done THEN None ELSE Begun(e, e.offset + 1)
    ELSE IF e.offset = 0 THEN None ELSE Begun(e, e.offset)

Emitting ==
    Crossing =>
        LET e == emission.event
        IN  /\ e.done <=> e.offset + Guest!Unit(e.size) = e.size
            /\ guest.state = "open" =>
                  /\ Len(guest.seen) = IF Crossed THEN e.message + 1 ELSE e.message
                  /\ guest.incoming = HasOf(e)

(* c counts the messages before each event of the queue.                   *)
Counts(c, q) ==
    \A i \in DOMAIN q :
        IF q[i].type = "message" THEN c[i + 1] = c[i] + 1 /\ q[i].message = c[i + 1]
        ELSE c[i + 1] = c[i]

(* The place of the open event in the queue, or behind it when it is still *)
(* to come: no message is before it.                                       *)
OpensAt(p, c) ==
    /\ \A i \in 1 .. p : c[i] = 0
    /\ p = Len(host.queue) + 1 => host.native # "open"
    /\ p <= Len(host.queue) => /\ host.queue[p].type = "open"
                               /\ p = 1 => ~(emission.stage = "event" /\ emission.arrived)

Counted(c) ==
    /\ Counts(c, host.queue)
    /\ c[Len(host.queue) + 1] = host.messages
    /\ guest.state = "open" => Len(guest.seen) = c[1] + IF Crossed THEN 2 ELSE 1
    /\ guest.state = "connecting" => \E p \in 1 .. Len(host.queue) + 1 : OpensAt(p, c)

HeadCrosses ==
    emission.stage = "event" =>
        /\ host.queue # <<>>
        /\ host.queue[1].type = emission.event.type
        /\ host.queue[1].message = emission.event.message
        /\ host.queue[1].size = emission.event.size

Streaming ==
    ~host.failed /\ ~host.disposed =>
        /\ emission.stage \in {"idle", "event"}
        /\ HeadCrosses
        /\ guest.state = "open" /\ ~Crossing => guest.incoming = None
        /\ \E c \in [1 .. Len(host.queue) + 1 -> Nat] : Counted(c)

(* The guest's commands, and what the host holds of the one it is served.  *)
Numbered ==
    /\ \A i \in DOMAIN guest.commands :
          /\ guest.commands[i].op = "open" => i = 1
          /\ guest.commands[i].op = "send" => guest.commands[i].sequence \in 1 .. guest.sequence
    /\ \A i, j \in DOMAIN guest.commands :
          guest.commands[i].op = "send" /\ guest.commands[j].op = "send" /\ i < j
             => guest.commands[i].sequence < guest.commands[j].sequence
    /\ call.phase # "idle" =>
          IF Command.op = "send" THEN call.part <= Guest!Chunks(Command.size) ELSE call.part = 0

Talking(h) == h.live \/ h.record # None
TransferHeld(h) == IF h.record # None THEN h.record.transfer ELSE h.transfer
AckHeld(h) == IF h.record # None THEN h.record.report.ack ELSE h.ack

Partly(c, parts) == [kind |-> "transfer", sequence |-> c.sequence, size |-> c.size,
                     received |-> parts * Guest!Unit(c.size)]
Expected ==
    IF call.phase = "idle" THEN None
    ELSE IF Command.op # "send" THEN None
    ELSE IF call.phase = "sent"
    THEN IF call.part = 0 THEN None ELSE Partly(Command, call.part - 1)
    ELSE IF call.part < Guest!Chunks(Command.size) THEN Partly(Command, call.part) ELSE None

Sent(i) ==
    i = 1 /\ call.phase = "answered" /\ call.part = Guest!Chunks(guest.commands[i].size)

NotOpened ==
    guest.commands # <<>> /\ Command.op = "open" /\ call.phase # "answered" =>
        ~Talking(host) /\ host.transfer = None /\ host.ack = 0

Conversing ==
    /\ host.live => host.record = None
    /\ NotOpened
    /\ Talking(host) =>
          /\ call.phase = "answered" => call.ok
          /\ TransferHeld(host) = Expected
          /\ AckHeld(host) <= guest.sequence
          /\ \A i \in DOMAIN guest.commands :
                guest.commands[i].op = "send" => AckHeld(host) < guest.commands[i].sequence \/ Sent(i)
    /\ call.phase = "answered" /\ ~call.ok => Command.op = "open" \/ ~Talking(host)

Conversation ==
    ~host.failed /\ ~host.disposed /\ guest.state # "closed" => Conversing

IInv == Typed /\ InOrder(guest) /\ Emitting /\ Streaming /\ Numbered /\ Conversation
-----------------------------------------------------------------------------
(* The host's entry: what each operation keeps.                            *)

SameTalk(g, h) ==
    g.live = h.live /\ g.record = h.record /\ g.transfer = h.transfer /\ g.ack = h.ack
SameStream(g, h) ==
    /\ g.queue = h.queue /\ g.messages = h.messages /\ g.native = h.native
    /\ g.failed = h.failed /\ g.disposed = h.disposed

LEMMA SnapshotIs ==
    ASSUME NEW h, IsEntry(h)
    PROVE  LET s == Host!Snapshot(h)
           IN  /\ IsEntry(s) /\ SameTalk(s, h) /\ SameStream(s, h) /\ s.buffered = h.buffered
               /\ Host!Report(s) \in Reports /\ Host!Report(s).ack = h.ack
<1>1. h.snapshot + 1 \in Nat
  BY DEF IsEntry
<1> QED
  BY <1>1 DEF Host!Snapshot, Host!Report, IsEntry, SameTalk, SameStream, Reports

LEMMA RememberIs ==
    ASSUME NEW h, IsEntry(h)
    PROVE  LET r == Host!RememberClosed(h)
           IN  /\ IsEntry(r) /\ SameStream(r, h) /\ r.live = h.live
               /\ r.record # None /\ r.record.transfer = h.transfer /\ r.record.report.ack = h.ack
<1> DEFINE s == Host!Snapshot(h)
           record == [kind |-> "record", report |-> Host!Report(s), transfer |-> s.transfer]
<1>1. /\ IsEntry(s) /\ SameTalk(s, h) /\ SameStream(s, h)
      /\ Host!Report(s) \in Reports /\ Host!Report(s).ack = h.ack
  BY SnapshotIs
<1>2. Host!RememberClosed(h) = [s EXCEPT !.record = record]
  BY DEF Host!RememberClosed
<1> HIDE DEF s
<1>3. /\ record \in Records /\ record # None
      /\ record.transfer = h.transfer /\ record.report.ack = h.ack
  BY <1>1 DEF Records, None, IsEntry, SameTalk
<1> HIDE DEF record
<1> QED
  BY <1>1, <1>2, <1>3 DEF IsEntry, SameStream, SameTalk

LEMMA TerminalIs ==
    ASSUME NEW h, IsEntry(h), NEW type \in {"error", "close"}
    PROVE  LET p == Host!Terminal(h, type)
           IN  /\ IsEntry(p) /\ SameTalk(p, h)
               /\ p.messages = h.messages /\ p.native = h.native
               /\ p.failed = h.failed /\ p.disposed = h.disposed
               /\ \E e \in Queued : e.type = type /\ p.queue = Append(h.queue, e)
<1> DEFINE s == Host!Snapshot(h)
           e == Host!Event(type, 0, 0, TRUE, Host!Report(s))
<1>1. IsEntry(s) /\ SameTalk(s, h) /\ SameStream(s, h) /\ Host!Report(s) \in Reports
  BY SnapshotIs
<1>2. Host!Terminal(h, type) = [s EXCEPT !.queue = Append(@, e)]
  BY DEF Host!Terminal, Host!Put
<1> HIDE DEF s
<1>3. e \in Queued /\ e.type = type
  BY <1>1 DEF Host!Event, Queued, Events, EventTypes
<1> HIDE DEF e
<1>4. Append(s.queue, e) \in Seq(Queued) /\ s.queue = h.queue
  BY <1>1, <1>3 DEF IsEntry, SameStream
<1> QED
  BY <1>1, <1>2, <1>3, <1>4 DEF IsEntry, SameStream, SameTalk

LEMMA FailHostIs ==
    ASSUME NEW h, IsEntry(h)
    PROVE  LET f == Host!FailHost(h)
           IN  IsEntry(f) /\ f.disposed = h.disposed /\ (f.failed \/ f.disposed)
<1>1. CASE h.failed \/ h.disposed
  BY <1>1 DEF Host!FailHost
<1>2. CASE ~(h.failed \/ h.disposed)
  <2> DEFINE c == Host!CloseNative([Host!Detach(h) EXCEPT !.failed = TRUE])
             d == Host!Terminal(c, "error")
             e == Host!Terminal(d, "close")
  <2>1. IsEntry(c) /\ c.failed /\ c.disposed = h.disposed
    BY DEF Host!CloseNative, Host!Detach, IsEntry
  <2>2. Host!FailHost(h) = Host!RememberClosed(e)
    BY <1>2 DEF Host!FailHost
  <2> HIDE DEF c
  <2>3. IsEntry(d) /\ d.failed /\ d.disposed = h.disposed
    BY <2>1, TerminalIs
  <2> HIDE DEF d
  <2>4. IsEntry(e) /\ e.failed /\ e.disposed = h.disposed
    BY <2>3, TerminalIs
  <2> HIDE DEF e
  <2> QED
    BY <2>2, <2>4, RememberIs DEF SameStream
<1> QED
  BY <1>1, <1>2

(* An event is queued, unless the socket fails: its queue is full.         *)
Queues(q, h, type, message, size) ==
    /\ IsEntry(q) /\ q.disposed = h.disposed
    /\ ~q.failed /\ ~q.disposed =>
          /\ ~h.failed /\ SameTalk(q, h) /\ q.messages = h.messages /\ q.native = h.native
          /\ \E e \in Queued : /\ e.type = type /\ e.message = message /\ e.size = size
                               /\ q.queue = Append(h.queue, e)

LEMMA QueueIs ==
    ASSUME NEW h, IsEntry(h), NEW type \in EventTypes, NEW message \in Nat, NEW size \in Nat,
           NEW crowded \in BOOLEAN
    PROVE  Queues(Host!Queue(h, type, message, size, crowded), h, type, message, size)
<1>1. CASE h.disposed \/ h.failed
  BY <1>1, SnapshotIs DEF Host!Queue, Queues, SameStream
<1>2. CASE ~(h.disposed \/ h.failed) /\ Host!QueueFull(h, size, crowded)
  <2> DEFINE s == Host!Snapshot(h)
             f == Host!FailHost(s)
  <2>1. IsEntry(s) /\ s.disposed = h.disposed
    BY SnapshotIs DEF SameStream
  <2>2. Host!Queue(h, type, message, size, crowded) = f
    BY <1>2 DEF Host!Queue
  <2> HIDE DEF s
  <2>3. IsEntry(f) /\ f.disposed = h.disposed /\ (f.failed \/ f.disposed)
    BY <2>1, FailHostIs
  <2> QED
    BY <2>2, <2>3 DEF Queues
<1>3. CASE ~(h.disposed \/ h.failed) /\ ~Host!QueueFull(h, size, crowded)
  <2> DEFINE s == Host!Snapshot(h)
             e == Host!Event(type, message, size, FALSE, Host!Report(s))
  <2>1. /\ IsEntry(s) /\ SameTalk(s, h) /\ SameStream(s, h) /\ Host!Report(s) \in Reports
    BY SnapshotIs
  <2>2. Host!Queue(h, type, message, size, crowded) = [s EXCEPT !.queue = Append(@, e)]
    BY <1>3 DEF Host!Queue, Host!Put
  <2> HIDE DEF s
  <2>3. e \in Queued /\ e.type = type /\ e.message = message /\ e.size = size
    BY <2>1 DEF Host!Event, Queued, Events
  <2> HIDE DEF e
  <2>4. Append(s.queue, e) \in Seq(Queued) /\ s.queue = h.queue
    BY <2>1, <2>3 DEF IsEntry, SameStream
  <2> QED
    BY <1>3, <2>1, <2>2, <2>3, <2>4 DEF Queues, IsEntry, SameStream, SameTalk
<1> QED
  BY <1>1, <1>2, <1>3
-----------------------------------------------------------------------------
(* The host's answers.  What they do to the conversation counts as long as *)
(* the socket has not failed.                                              *)

Quiet(g, h) ==
    ~g.failed /\ ~g.disposed =>
        /\ ~h.failed /\ ~h.disposed /\ g.queue = h.queue /\ g.messages = h.messages
        /\ g.native = "open" => h.native = "open"

SameSide(g, h) == g.live = h.live /\ (g.record = None <=> h.record = None)

(* An answer in the conversation leaves the transfer and the              *)
(* acknowledgement given, and is refused outside of it.                   *)
AnswerTyped(a) == IsEntry(a.host) /\ a.ok \in BOOLEAN /\ a.report \in Reports

AnswersWith(a, h, transfer, ack) ==
    ~a.host.failed /\ ~a.host.disposed =>
        IF Talking(h)
        THEN a.ok /\ SameSide(a.host, h) /\ TransferHeld(a.host) = transfer /\ AckHeld(a.host) = ack
        ELSE ~a.ok /\ a.host = h

LEMMA RefuseIs ==
    ASSUME NEW h, IsEntry(h)
    PROVE  LET a == Host!Refuse(h) IN AnswerTyped(a) /\ ~a.ok /\ a.host = h
  BY DEF Host!Refuse, Host!NoReport, AnswerTyped, Reports

LEMMA AnswerNowIs ==
    ASSUME NEW h, IsEntry(h)
    PROVE  LET a == Host!AnswerNow(h)
           IN  AnswerTyped(a) /\ a.ok /\ SameTalk(a.host, h) /\ SameStream(a.host, h)
<1> DEFINE s == Host!Snapshot(h)
<1>1. IsEntry(s) /\ SameTalk(s, h) /\ SameStream(s, h) /\ Host!Report(s) \in Reports
  BY SnapshotIs
<1>2. Host!AnswerNow(h) = [host |-> s, ok |-> TRUE, report |-> Host!Report(s)]
  BY DEF Host!AnswerNow, Host!Answer
<1> HIDE DEF s
<1> QED
  BY <1>1, <1>2 DEF AnswerTyped

LEMMA RecordedIs ==
    ASSUME NEW h, IsEntry(h), NEW record \in Records
    PROVE  LET a == Host!Recorded(h, record)
           IN  /\ AnswerTyped(a) /\ a.ok /\ SameStream(a.host, h)
               /\ a.host.live = h.live /\ a.host.record # None
               /\ a.host.record.transfer = record.transfer
               /\ a.host.record.report.ack = record.report.ack
<1> DEFINE r == [record EXCEPT !.report.snapshot = @ + 1]
           g == [h EXCEPT !.record = r]
<1>1. /\ r \in Records /\ r.report \in Reports /\ r.transfer = record.transfer
      /\ r.report.ack = record.report.ack /\ r # None
  <2>1. /\ record.report.snapshot + 1 \in Nat
        /\ record = [kind |-> "record", report |-> record.report, transfer |-> record.transfer]
        /\ record.report = [snapshot |-> record.report.snapshot, ack |-> record.report.ack,
                            buffered |-> record.report.buffered]
        /\ record.report \in Reports
    BY DEF Records, Reports
  <2>2. r = [kind |-> "record",
             report |-> [snapshot |-> record.report.snapshot + 1, ack |-> record.report.ack,
                         buffered |-> record.report.buffered],
             transfer |-> record.transfer]
    BY <2>1
  <2> QED
    BY <2>1, <2>2 DEF Records, Reports, None
<1>2. Host!Recorded(h, record) = [host |-> g, ok |-> TRUE, report |-> r.report]
  BY DEF Host!Recorded, Host!Answer
<1> HIDE DEF r
<1>3. IsEntry(g) /\ SameStream(g, h) /\ g.live = h.live /\ g.record = r
  BY <1>1 DEF IsEntry, SameStream
<1> HIDE DEF g
<1> QED
  BY <1>1, <1>2, <1>3 DEF AnswerTyped

LEMMA RecordParts ==
    ASSUME NEW record \in Records
    PROVE  /\ record.report \in Reports /\ record.report.ack \in Nat /\ record.report.buffered \in Nat
           /\ record.transfer \in Transfers \cup {None}
           /\ \A t \in Transfers \cup {None} :
                 LET r == [record EXCEPT !.transfer = t]
                 IN  r \in Records /\ r.transfer = t /\ r.report = record.report /\ r # None
  BY DEF Records, Reports, None

LEMMA SendStartIs ==
    ASSUME NEW h, IsEntry(h), NEW sequence \in Nat, NEW size \in Nat
    PROVE  LET a == Host!SendStart(h, sequence, size)
           IN  /\ AnswerTyped(a) /\ Quiet(a.host, h)
               /\ (Talking(h) => TransferHeld(h) = None /\ AckHeld(h) < sequence)
                     => AnswersWith(a, h, Host!Transfer(sequence, size), AckHeld(h))
<1> DEFINE t == Host!Transfer(sequence, size)
           a == Host!SendStart(h, sequence, size)
           ready == TransferHeld(h) = None /\ AckHeld(h) < sequence
<1>0. AckHeld(h) \in Nat
  BY DEF AckHeld, IsEntry, Records, Reports, None
<1>1. t \in Transfers /\ t # None
  BY DEF Host!Transfer, Transfers, None
<1> HIDE DEF t
<1>2. CASE ~Talking(h)
  <2>1. a = Host!Refuse(h)
    BY <1>2 DEF Host!SendStart, Talking, Host!None, None
  <2> QED
    BY <1>2, <2>1, RefuseIs DEF Quiet, AnswersWith
<1>6. CASE Talking(h) /\ ~ready
  <2>1. sequence <= AckHeld(h) \/ TransferHeld(h) # None
    BY <1>0, <1>6
  <2>2. a = Host!Refuse(h)
    BY <2>1 DEF Host!SendStart, TransferHeld, AckHeld, Host!None, None
  <2> QED
    BY <1>6, <2>2, RefuseIs DEF Quiet
<1>3. CASE h.record # None /\ ready
  <2> ~(sequence <= AckHeld(h))
    BY <1>0, <1>3
  <2> DEFINE r == [h.record EXCEPT !.transfer = t]
  <2>1. h.record \in Records /\ h.record.report.ack \in Nat
    BY <1>3, RecordParts DEF IsEntry
  <2>2. r \in Records /\ r.transfer = t /\ r.report = h.record.report
    BY <1>1, <2>1, RecordParts
  <2>3. a = Host!Recorded(h, r)
    BY <1>3, <2>1 DEF Host!SendStart, Talking, TransferHeld, AckHeld, Host!None, None, t
  <2> HIDE DEF r, a
  <2>4. /\ AnswerTyped(a) /\ a.ok /\ SameStream(a.host, h)
        /\ a.host.live = h.live /\ a.host.record # None
        /\ a.host.record.transfer = t /\ a.host.record.report.ack = h.record.report.ack
    BY <2>2, <2>3, RecordedIs
  <2>5. Quiet(a.host, h)
    BY <2>4 DEF Quiet, SameStream
  <2>6. AnswersWith(a, h, t, AckHeld(h))
    BY <1>3, <2>4 DEF AnswersWith, Talking, SameSide, TransferHeld, AckHeld
  <2> QED
    BY <2>4, <2>5, <2>6 DEF a, t
<1>4. CASE Talking(h) /\ ready /\ h.record = None /\ size + h.buffered > MaxBuffered
  <2> ~(sequence <= AckHeld(h))
    BY <1>0, <1>4
  <2>1. a = Host!Refuse(Host!FailHost(h))
    BY <1>4 DEF Host!SendStart, Talking, TransferHeld, AckHeld, Host!None, None, IsEntry
  <2> DEFINE f == Host!FailHost(h)
  <2>2. IsEntry(f) /\ f.disposed = h.disposed /\ (f.failed \/ f.disposed)
    BY FailHostIs
  <2> HIDE DEF f, a
  <2>3. AnswerTyped(a) /\ a.host = f
    BY <2>1, <2>2, RefuseIs DEF f
  <2> QED
    BY <2>2, <2>3 DEF Quiet, AnswersWith, a
<1>5. CASE Talking(h) /\ ready /\ h.record = None /\ ~(size + h.buffered > MaxBuffered)
  <2> ~(sequence <= AckHeld(h))
    BY <1>0, <1>5
  <2> DEFINE g == [h EXCEPT !.transfer = t]
  <2>1. a = Host!AnswerNow(g)
    BY <1>5 DEF Host!SendStart, Talking, TransferHeld, AckHeld, Host!None, None, IsEntry, t
  <2>2. /\ IsEntry(g) /\ SameStream(g, h) /\ g.live = h.live /\ g.record = h.record
        /\ g.transfer = t /\ g.ack = h.ack
    BY <1>1 DEF IsEntry, SameStream
  <2> HIDE DEF g, a
  <2>3. AnswerTyped(a) /\ a.ok /\ SameTalk(a.host, g) /\ SameStream(a.host, g)
    BY <2>1, <2>2, AnswerNowIs
  <2>4. Quiet(a.host, h)
    BY <2>2, <2>3 DEF Quiet, SameStream
  <2>5. AnswersWith(a, h, t, AckHeld(h))
    BY <1>5, <2>2, <2>3 DEF AnswersWith, Talking, SameSide, SameTalk, TransferHeld, AckHeld
  <2> QED
    BY <2>3, <2>4, <2>5 DEF a, t
<1> QED
  BY <1>2, <1>3, <1>4, <1>5, <1>6 DEF Talking

LEMMA HostCloseIs ==
    ASSUME NEW h, IsEntry(h)
    PROVE  LET a == Host!Close(h)
           IN  AnswerTyped(a) /\ Quiet(a.host, h) /\ AnswersWith(a, h, None, AckHeld(h))
<1> DEFINE a == Host!Close(h)
<1>1. CASE h.record # None
  <2> DEFINE r == [h.record EXCEPT !.transfer = None]
             g == [h EXCEPT !.record = r]
  <2>1. h.record \in Records
    BY <1>1 DEF IsEntry
  <2>2. r \in Records /\ r.transfer = None /\ r.report = h.record.report /\ r # None /\ r.report \in Reports
    BY <2>1, RecordParts
  <2>3. [h EXCEPT !.record.transfer = Host!None] = g
    BY DEF Host!None, None, IsEntry
  <2>4. a = [host |-> g, ok |-> TRUE, report |-> g.record.report]
    BY <1>1, <2>3 DEF Host!Close, Host!Answer, Host!None, None
  <2> HIDE DEF r
  <2>5. IsEntry(g) /\ SameStream(g, h) /\ g.live = h.live /\ g.record = r
    BY <2>2 DEF IsEntry, SameStream
  <2> HIDE DEF g, a
  <2>6. AnswerTyped(a) /\ a.ok /\ a.host = g
    BY <2>2, <2>4, <2>5 DEF AnswerTyped
  <2>7. Quiet(a.host, h)
    BY <2>5, <2>6 DEF Quiet, SameStream
  <2>8. AnswersWith(a, h, None, AckHeld(h))
    BY <1>1, <2>2, <2>5, <2>6 DEF AnswersWith, Talking, SameSide, TransferHeld, AckHeld
  <2> QED
    BY <2>6, <2>7, <2>8 DEF a
<1>2. CASE h.record = None /\ ~h.live
  <2>1. a = Host!Refuse(h)
    BY <1>2 DEF Host!Close, Host!None, None
  <2> QED
    BY <1>2, <2>1, RefuseIs DEF Quiet, AnswersWith, Talking
<1>3. CASE h.record = None /\ h.live
  <2> DEFINE g == Host!CloseNative([h EXCEPT !.transfer = None])
  <2>1. a = Host!AnswerNow(g)
    BY <1>3 DEF Host!Close, Host!None, None
  <2>2. /\ IsEntry(g) /\ g.queue = h.queue /\ g.messages = h.messages /\ g.failed = h.failed
        /\ g.disposed = h.disposed /\ g.native # "open"
        /\ g.live = h.live /\ g.record = h.record /\ g.transfer = None /\ g.ack = h.ack
    BY DEF Host!CloseNative, IsEntry
  <2> HIDE DEF g, a
  <2>3. AnswerTyped(a) /\ a.ok /\ SameTalk(a.host, g) /\ SameStream(a.host, g)
    BY <2>1, <2>2, AnswerNowIs
  <2>4. Quiet(a.host, h)
    BY <2>2, <2>3 DEF Quiet, SameStream
  <2>5. AnswersWith(a, h, None, AckHeld(h))
    BY <1>3, <2>2, <2>3 DEF AnswersWith, Talking, SameSide, SameTalk, TransferHeld, AckHeld
  <2> QED
    BY <2>3, <2>4, <2>5 DEF a
<1> QED
  BY <1>1, <1>2, <1>3

LEMMA SendNativeIs ==
    ASSUME NEW h, IsEntry(h), h.live, h.record = None, NEW t \in Transfers
    PROVE  LET a == Host!SendNative(h, t)
           IN  AnswerTyped(a) /\ Quiet(a.host, h) /\ AnswersWith(a, h, None, t.sequence)
<1> DEFINE s == [h EXCEPT !.transfer = Host!None, !.ack = t.sequence, !.buffered = @ + t.size]
           g == Host!Poll(s)
           a == Host!SendNative(h, t)
<1>1. /\ IsEntry(s) /\ SameStream(s, h) /\ s.live = h.live /\ s.record = h.record
      /\ s.transfer = None /\ s.ack = t.sequence
  <2>1. t.sequence \in Nat /\ t.size \in Nat /\ h.buffered + t.size \in Nat
    BY DEF Transfers, IsEntry
  <2> QED
    BY <2>1 DEF IsEntry, SameStream, Host!None, None
<1>2. a = Host!AnswerNow(g)
  BY DEF Host!SendNative
<1> HIDE DEF s
<1>3. IsEntry(g) /\ SameStream(g, s) /\ SameTalk(g, s)
  BY <1>1 DEF Host!Poll, IsEntry, SameStream, SameTalk
<1> HIDE DEF g, a
<1>4. AnswerTyped(a) /\ a.ok /\ SameTalk(a.host, g) /\ SameStream(a.host, g)
  BY <1>2, <1>3, AnswerNowIs
<1>5. Quiet(a.host, h)
  BY <1>1, <1>3, <1>4 DEF Quiet, SameStream
<1>6. AnswersWith(a, h, None, t.sequence)
  BY <1>1, <1>3, <1>4 DEF AnswersWith, Talking, SameSide, SameTalk, TransferHeld, AckHeld
<1> QED
  BY <1>4, <1>5, <1>6 DEF a

LEMMA SendRecordedIs ==
    ASSUME NEW h, IsEntry(h), h.record # None, NEW t \in Transfers
    PROVE  LET a == Host!SendRecorded(h, t)
           IN  AnswerTyped(a) /\ Quiet(a.host, h) /\ AnswersWith(a, h, None, t.sequence)
<1> DEFINE a == Host!SendRecorded(h, t)
           record == h.record
           p == [record.report EXCEPT !.ack = t.sequence, !.buffered = @ + t.size]
           r == [record EXCEPT !.transfer = Host!None, !.report = p]
<1>1. r \in Records /\ r.transfer = None /\ r.report.ack = t.sequence
  <2>1. record \in Records /\ t.sequence \in Nat /\ t.size \in Nat
    BY DEF Transfers, IsEntry
  <2> HIDE DEF record
  <2>2. record.report \in Reports /\ record.report.buffered + t.size \in Nat
    BY <2>1 DEF Records, Reports
  <2>3. p \in Reports /\ p.ack = t.sequence
    BY <2>1, <2>2 DEF Reports
  <2> HIDE DEF p
  <2> QED
    BY <2>1, <2>3 DEF Records, Host!None, None
<1>2. a = Host!Recorded(h, r)
  BY DEF Host!SendRecorded
<1> HIDE DEF r, a
<1>3. /\ AnswerTyped(a) /\ a.ok /\ SameStream(a.host, h)
      /\ a.host.live = h.live /\ a.host.record # None
      /\ a.host.record.transfer = None /\ a.host.record.report.ack = t.sequence
  BY <1>1, <1>2, RecordedIs
<1>4. Quiet(a.host, h)
  BY <1>3 DEF Quiet, SameStream
<1>5. AnswersWith(a, h, None, t.sequence)
  BY <1>3 DEF AnswersWith, Talking, SameSide, TransferHeld, AckHeld
<1> QED
  BY <1>3, <1>4, <1>5 DEF a

(* The part of a transfer that the host waits for.                         *)
Awaits(t, sequence, offset, bytes) ==
    /\ t \in Transfers /\ t.sequence = sequence /\ t.received = offset
    /\ offset + bytes <= t.size

LEMMA SendChunkIs ==
    ASSUME NEW h, IsEntry(h), NEW sequence \in Nat, NEW offset \in Nat, NEW bytes \in Nat
    PROVE  LET a == Host!SendChunk(h, sequence, offset, bytes)
               t == TransferHeld(h)
           IN  /\ AnswerTyped(a) /\ Quiet(a.host, h)
               /\ (Talking(h) => Awaits(t, sequence, offset, bytes)) =>
                     IF offset + bytes < t.size
                     THEN AnswersWith(a, h, [t EXCEPT !.received = offset + bytes], AckHeld(h))
                     ELSE AnswersWith(a, h, None, sequence)
<1> DEFINE a == Host!SendChunk(h, sequence, offset, bytes)
           t == TransferHeld(h)
           u == [t EXCEPT !.received = offset + bytes]
           past == h.record # None
<1>1. t \in Transfers \cup {None} /\ t = IF past THEN h.record.transfer ELSE h.transfer
  BY DEF TransferHeld, IsEntry, Records
<1> HIDE DEF t
<1>2. CASE ~Talking(h)
  <2>1. a = Host!Refuse(h)
    BY <1>2 DEF Host!SendChunk, Talking, Host!None, None
  <2> HIDE DEF a
  <2>2. AnswerTyped(a) /\ ~a.ok /\ a.host = h
    BY <2>1, RefuseIs
  <2> QED
    BY <1>2, <2>2 DEF Quiet, AnswersWith, a
<1>3. CASE Talking(h) /\ ~Awaits(t, sequence, offset, bytes)
  <2>1. \/ t = None
        \/ t # None /\ (t.sequence # sequence \/ t.received # offset \/ offset + bytes > t.size)
    BY <1>1, <1>3 DEF Awaits, Transfers
  <2>2. a = Host!Refuse(h)
    BY <1>1, <2>1 DEF Host!SendChunk, Host!None, None
  <2> HIDE DEF a
  <2>3. AnswerTyped(a) /\ a.host = h
    BY <2>2, RefuseIs
  <2> QED
    BY <1>3, <2>3 DEF Quiet, a, t
<1>4. CASE Talking(h) /\ Awaits(t, sequence, offset, bytes)
  <2> DEFINE size == t.size
  <2>0. /\ t \in Transfers /\ t # None /\ t.sequence = sequence /\ t.received = offset
        /\ ~(offset + bytes > size) /\ size \in Nat
        /\ u \in Transfers /\ u # None /\ u = [t EXCEPT !.received = @ + bytes]
    BY <1>4 DEF Awaits, Transfers, None
  <2> HIDE DEF u
  <2>2. a = IF offset + bytes < size
            THEN IF past THEN Host!Recorded(h, [h.record EXCEPT !.transfer = u])
                 ELSE Host!AnswerNow([h EXCEPT !.transfer = u])
            ELSE IF past THEN Host!SendRecorded(h, t)
            ELSE IF size + h.buffered > MaxBuffered
                 THEN Host!Refuse(Host!FailHost([h EXCEPT !.transfer = Host!None]))
            ELSE Host!SendNative(h, t)
    BY <1>1, <1>4, <2>0 DEF Host!SendChunk, Talking, Host!None, None
  <2> HIDE DEF a
  <2>3. CASE offset + bytes < size /\ past
    <3> DEFINE r == [h.record EXCEPT !.transfer = u]
    <3>1. h.record \in Records
      BY <2>3 DEF IsEntry
    <3>2. r \in Records /\ r.transfer = u /\ r.report = h.record.report
      BY <2>0, <3>1, RecordParts
    <3>3. a = Host!Recorded(h, r)
      BY <2>2, <2>3
    <3> HIDE DEF r
    <3>4. /\ AnswerTyped(a) /\ a.ok /\ SameStream(a.host, h)
          /\ a.host.live = h.live /\ a.host.record # None
          /\ a.host.record.transfer = u /\ a.host.record.report.ack = h.record.report.ack
      BY <3>2, <3>3, RecordedIs
    <3>5. Quiet(a.host, h)
      BY <3>4 DEF Quiet, SameStream
    <3>6. AnswersWith(a, h, u, AckHeld(h))
      BY <2>3, <3>4 DEF AnswersWith, Talking, SameSide, TransferHeld, AckHeld
    <3> QED
      BY <2>3, <3>4, <3>5, <3>6 DEF a, t, u
  <2>4. CASE offset + bytes < size /\ ~past
    <3> DEFINE g == [h EXCEPT !.transfer = u]
    <3>1. a = Host!AnswerNow(g)
      BY <2>2, <2>4
    <3>2. /\ IsEntry(g) /\ SameStream(g, h) /\ g.live = h.live /\ g.record = h.record
          /\ g.transfer = u /\ g.ack = h.ack
      BY <2>0 DEF IsEntry, SameStream
    <3> HIDE DEF g
    <3>3. AnswerTyped(a) /\ a.ok /\ SameTalk(a.host, g) /\ SameStream(a.host, g)
      BY <3>1, <3>2, AnswerNowIs
    <3>4. Quiet(a.host, h)
      BY <3>2, <3>3 DEF Quiet, SameStream
    <3>5. AnswersWith(a, h, u, AckHeld(h))
      BY <1>4, <2>4, <3>2, <3>3 DEF AnswersWith, Talking, SameSide, SameTalk, TransferHeld, AckHeld
    <3> QED
      BY <2>4, <3>3, <3>4, <3>5 DEF a, t, u
  <2>5. CASE ~(offset + bytes < size) /\ past
    <3>1. a = Host!SendRecorded(h, t)
      BY <2>2, <2>5
    <3>2. AnswerTyped(a) /\ Quiet(a.host, h) /\ AnswersWith(a, h, None, sequence)
      BY <2>0, <2>5, <3>1, SendRecordedIs
    <3> QED
      BY <2>5, <3>2 DEF a, t
  <2>6. CASE ~(offset + bytes < size) /\ ~past /\ size + h.buffered > MaxBuffered
    <3> DEFINE g == [h EXCEPT !.transfer = Host!None]
               f == Host!FailHost(g)
    <3>1. a = Host!Refuse(f)
      BY <2>2, <2>6
    <3>2. IsEntry(g)
      BY DEF IsEntry, Host!None, None
    <3> HIDE DEF g
    <3>3. IsEntry(f) /\ (f.failed \/ f.disposed)
      BY <3>2, FailHostIs
    <3> HIDE DEF f
    <3>4. AnswerTyped(a) /\ a.host = f
      BY <3>1, <3>3, RefuseIs
    <3> QED
      BY <2>6, <3>3, <3>4 DEF Quiet, AnswersWith, a, t
  <2>7. CASE ~(offset + bytes < size) /\ ~past /\ ~(size + h.buffered > MaxBuffered)
    <3>1. a = Host!SendNative(h, t)
      BY <2>2, <2>7
    <3>2. h.live /\ h.record = None
      BY <1>4, <2>7 DEF Talking
    <3>3. AnswerTyped(a) /\ Quiet(a.host, h) /\ AnswersWith(a, h, None, sequence)
      BY <2>0, <3>1, <3>2, SendNativeIs
    <3> QED
      BY <2>7, <3>3 DEF a, t
  <2> QED
    BY <2>3, <2>4, <2>5, <2>6, <2>7
<1> QED
  BY <1>2, <1>3, <1>4

LEMMA OpenIs ==
    ASSUME NEW h, IsEntry(h)
    PROVE  LET a == Host!Open(h)
           IN  /\ AnswerTyped(a) /\ a.ok /\ Quiet(a.host, h)
               /\ a.host.live /\ a.host.record = h.record /\ a.host.transfer = h.transfer
               /\ a.host.ack = h.ack
<1> DEFINE g == [h EXCEPT !.live = TRUE, !.native = "connecting"]
           a == Host!Open(h)
<1>1. a = Host!AnswerNow(g)
  BY DEF Host!Open
<1>2. /\ IsEntry(g) /\ g.queue = h.queue /\ g.messages = h.messages /\ g.failed = h.failed
      /\ g.disposed = h.disposed /\ g.native = "connecting" /\ g.live /\ g.record = h.record
      /\ g.transfer = h.transfer /\ g.ack = h.ack
  BY DEF IsEntry
<1> HIDE DEF g, a
<1>3. AnswerTyped(a) /\ a.ok /\ SameTalk(a.host, g) /\ SameStream(a.host, g)
  BY <1>1, <1>2, AnswerNowIs
<1> QED
  BY <1>2, <1>3 DEF Quiet, SameStream, SameTalk, a
-----------------------------------------------------------------------------
(* The guest's socket: what each operation keeps.                          *)

SameChat(g, h) == g.commands = h.commands /\ g.sequence = h.sequence
SameView(g, h) ==
    /\ g.state = h.state /\ g.incoming = h.incoming /\ g.disposed = h.disposed
    /\ g.farewell = h.farewell /\ g.seen = h.seen /\ g.broken = h.broken

LEMMA AckIs ==
    ASSUME NEW g, IsSocket(g), NEW report \in Reports
    PROVE  LET a == Guest!Ack(g, report) IN IsSocket(a) /\ SameView(a, g) /\ SameChat(a, g)
  BY DEF Guest!Ack, IsSocket, SameView, SameChat

LEMMA RetireIs ==
    ASSUME NEW g, IsSocket(g)
    PROVE  LET r == Guest!Retire(g)
           IN  /\ IsSocket(r) /\ r.state = "closed" /\ r.incoming = None /\ SameChat(r, g)
               /\ r.disposed = g.disposed /\ r.farewell = g.farewell
               /\ r.seen = g.seen /\ r.broken = g.broken
  BY DEF Guest!Retire, Guest!None, None, IsSocket, SameChat

(* An event that the program sees comes after all that it has seen.        *)
Sees(g, s, event) ==
    /\ IsSocket(s) /\ s.state = g.state /\ s.incoming = g.incoming
    /\ s.disposed = g.disposed /\ s.farewell = g.farewell /\ s.broken = g.broken
    /\ s.commands = g.commands /\ s.sequence = g.sequence
    /\ Len(s.seen) = Len(g.seen) + 1
    /\ s.seen[Len(g.seen) + 1] = event
    /\ \A i \in DOMAIN g.seen : s.seen[i] = g.seen[i]
    /\ DOMAIN s.seen = 1 .. Len(g.seen) + 1 /\ DOMAIN g.seen = 1 .. Len(g.seen)
    /\ Len(g.seen) \in Nat

LEMMA SeeIs ==
    ASSUME NEW g, IsSocket(g), NEW event \in Sights
    PROVE  Sees(g, Guest!See(g, event), event)
<1> DEFINE s == Guest!See(g, event)
<1>1. s = [g EXCEPT !.seen = Append(g.seen, event)]
  BY DEF Guest!See
<1>2. g.seen \in Seq(Sights)
  BY DEF IsSocket
<1>3. /\ Append(g.seen, event) \in Seq(Sights)
      /\ Len(Append(g.seen, event)) = Len(g.seen) + 1
      /\ Append(g.seen, event)[Len(g.seen) + 1] = event
      /\ \A i \in DOMAIN g.seen : Append(g.seen, event)[i] = g.seen[i]
      /\ DOMAIN Append(g.seen, event) = 1 .. Len(g.seen) + 1 /\ DOMAIN g.seen = 1 .. Len(g.seen)
      /\ Len(g.seen) \in Nat
  BY <1>2
<1> DEFINE seen == Append(g.seen, event)
<1> HIDE DEF seen
<1>4. s = [g EXCEPT !.seen = seen]
  BY <1>1 DEF seen
<1> HIDE DEF s
<1>5. /\ IsSocket(s) /\ s.state = g.state /\ s.incoming = g.incoming
      /\ s.disposed = g.disposed /\ s.farewell = g.farewell /\ s.broken = g.broken
      /\ s.commands = g.commands /\ s.sequence = g.sequence /\ s.seen = seen
  BY <1>3, <1>4 DEF IsSocket, seen
<1>6. Sees(g, s, event)
  BY <1>3, <1>5 DEF Sees, seen
<1> QED
  BY <1>6 DEF s

(* The close event is the first one, and the last, of a socket that was not *)
(* closed before.                                                          *)
LEMMA CloseSeen ==
    ASSUME NEW g, IsSocket(g), InOrder(g), g.state # "closed",
           NEW r, IsSocket(r), r.state = "closed", r.incoming = None, r.seen = g.seen,
           r.broken = g.broken
    PROVE  LET s == Guest!See(r, Guest!Plain("close"))
           IN  IsSocket(s) /\ InOrder(s) /\ s.state = "closed" /\ SameChat(s, r)
<1> DEFINE s == Guest!See(r, Guest!Plain("close"))
<1>1. Guest!Plain("close") \in Sights /\ Guest!Plain("close").type = "close"
  BY DEF Guest!Plain, Sights
<1>2. /\ IsSocket(s) /\ s.state = r.state /\ s.incoming = r.incoming
      /\ s.disposed = r.disposed /\ s.farewell = r.farewell /\ s.broken = r.broken
      /\ s.commands = r.commands /\ s.sequence = r.sequence
      /\ Len(s.seen) = Len(r.seen) + 1
      /\ s.seen[Len(r.seen) + 1] = Guest!Plain("close")
      /\ \A i \in DOMAIN r.seen : s.seen[i] = r.seen[i]
      /\ DOMAIN s.seen = 1 .. Len(r.seen) + 1 /\ DOMAIN r.seen = 1 .. Len(r.seen)
      /\ Len(r.seen) \in Nat
  <2>1. Sees(r, s, Guest!Plain("close"))
    BY <1>1, SeeIs
  <2> HIDE DEF s
  <2> QED
    BY <2>1 DEF Sees
<1> HIDE DEF s
<1>3. ASSUME NEW i \in DOMAIN s.seen
      PROVE  /\ s.seen[i].type = "open" => i = 1
             /\ s.seen[i].type = "message" => s.seen[1].type = "open" /\ s.seen[i].message = i - 1
             /\ s.seen[i].type = "close" => i = Len(s.seen) /\ s.state = "closed"
  <2>1. CASE i = Len(r.seen) + 1
    BY <1>1, <1>2, <2>1
  <2>2. CASE i \in DOMAIN r.seen
    <3>1. 1 \in DOMAIN r.seen /\ s.seen[1] = g.seen[1] /\ s.seen[i] = g.seen[i]
      BY <1>2, <2>2
    <3> QED
      BY <2>2, <3>1 DEF InOrder
  <2> QED
    BY <1>2, <1>3, <2>1, <2>2
<1>4. InOrder(s)
  BY <1>2, <1>3 DEF InOrder
<1> QED
  BY <1>2, <1>4 DEF SameChat, s

LEMMA FailIs ==
    ASSUME NEW g, IsSocket(g), InOrder(g)
    PROVE  LET f == Guest!Fail(g)
           IN  IsSocket(f) /\ InOrder(f) /\ f.state = "closed" /\ SameChat(f, g)
<1>1. CASE Guest!Inert(g)
  BY <1>1 DEF Guest!Fail, Guest!Inert, InOrder, SameChat
<1>2. CASE ~Guest!Inert(g)
  <2> DEFINE r == Guest!Retire(g)
             q == [r EXCEPT !.farewell = TRUE]
  <2>1. /\ IsSocket(r) /\ r.state = "closed" /\ r.incoming = None /\ SameChat(r, g)
        /\ r.seen = g.seen /\ r.broken = g.broken
    BY RetireIs
  <2>2. Guest!Fail(g) = Guest!See(q, Guest!Plain("close"))
    BY <1>2 DEF Guest!Fail, Guest!FailAnyway
  <2> HIDE DEF r
  <2>3. /\ IsSocket(q) /\ q.state = "closed" /\ q.incoming = None /\ SameChat(q, g)
        /\ q.seen = g.seen /\ q.broken = g.broken
    BY <2>1 DEF IsSocket, SameChat
  <2> HIDE DEF q
  <2>4. g.state # "closed"
    BY <1>2 DEF Guest!Inert
  <2> DEFINE f == Guest!See(q, Guest!Plain("close"))
  <2>5. IsSocket(f) /\ InOrder(f) /\ f.state = "closed" /\ SameChat(f, q)
    BY <2>3, <2>4, CloseSeen
  <2> HIDE DEF f
  <2> QED
    BY <2>2, <2>3, <2>5 DEF SameChat, f
<1> QED
  BY <1>1, <1>2

LEMMA EnqueueIs ==
    ASSUME NEW g, IsSocket(g), NEW command \in Commands
    PROVE  LET e == Guest!Enqueue(g, command)
           IN  /\ IsSocket(e) /\ SameView(e, g) /\ e.sequence = g.sequence
               /\ e.commands = Append(g.commands, command)
  BY DEF Guest!Enqueue, IsSocket, SameView

LEMMA GuestCloseIs ==
    ASSUME NEW g, IsSocket(g), InOrder(g), g.state \in {"connecting", "open"}
    PROVE  LET c == Guest!Close(g)
           IN  /\ IsSocket(c) /\ InOrder(c) /\ c.state = "closing" /\ c.sequence = g.sequence
               /\ c.commands = Append(g.commands, Guest!Command("close", 0, 0))
<1> DEFINE p == [g EXCEPT !.state = "closing", !.incoming = Guest!None]
           c == Guest!Close(g)
<1>1. /\ IsSocket(p) /\ p.state = "closing" /\ p.incoming = None /\ p.disposed = g.disposed
      /\ p.farewell = g.farewell /\ p.seen = g.seen /\ p.broken = g.broken
      /\ p.sequence = g.sequence /\ p.commands = g.commands
  BY DEF IsSocket, Guest!None, None
<1>2. c = Guest!Enqueue(p, Guest!Command("close", 0, 0))
  BY DEF Guest!Close
<1> HIDE DEF p, c
<1>3. Guest!Command("close", 0, 0) \in Commands
  BY DEF Guest!Command, Commands
<1>4. /\ IsSocket(c) /\ SameView(c, p) /\ c.sequence = p.sequence
      /\ c.commands = Append(p.commands, Guest!Command("close", 0, 0))
  BY <1>1, <1>2, <1>3, EnqueueIs
<1>5. InOrder(c)
  BY <1>1, <1>4 DEF InOrder, SameView
<1> QED
  BY <1>1, <1>4, <1>5 DEF SameView, c

LEMMA GuestSendIs ==
    ASSUME NEW g, IsSocket(g), InOrder(g), g.state \in {"open", "closing"}, NEW size \in Nat
    PROVE  LET s == Guest!Send(g, size)
           IN  /\ IsSocket(s) /\ InOrder(s)
               /\ \/ SameView(s, g) /\ SameChat(s, g)
                  \/ /\ s.state = "closed" /\ s.sequence = g.sequence
                     /\ s.commands = Append(g.commands, Guest!Command("close", 0, 0))
                  \/ /\ SameView(s, g) /\ s.sequence = g.sequence + 1
                     /\ s.commands = Append(g.commands, Guest!Command("send", s.sequence, size))
<1> DEFINE s == Guest!Send(g, size)
<1>1. CASE g.state = "closing"
  <2>1. s = [g EXCEPT !.discarded = @ + size, !.accepted = @ + size]
    BY <1>1 DEF Guest!Send
  <2> HIDE DEF s
  <2>2. IsSocket(s) /\ SameView(s, g) /\ SameChat(s, g)
    BY <2>1 DEF IsSocket, SameView, SameChat
  <2> QED
    BY <2>2 DEF SameView, InOrder, s
<1>2. CASE g.state = "open" /\ Guest!BufferedAmount(g) + size > MaxBuffered
  <2> DEFINE c == Guest!Close(g)
             f == Guest!Fail(c)
  <2>1. s = f
    BY <1>2 DEF Guest!Send
  <2>2. /\ IsSocket(c) /\ InOrder(c) /\ c.sequence = g.sequence
        /\ c.commands = Append(g.commands, Guest!Command("close", 0, 0))
    BY <1>2, GuestCloseIs
  <2> HIDE DEF c
  <2>3. IsSocket(f) /\ InOrder(f) /\ f.state = "closed" /\ SameChat(f, c)
    BY <2>2, FailIs
  <2> HIDE DEF f
  <2> QED
    BY <2>1, <2>2, <2>3 DEF SameChat
<1>3. CASE g.state = "open" /\ ~(Guest!BufferedAmount(g) + size > MaxBuffered)
  <2> DEFINE n == g.sequence + 1
             pending == [t \in DOMAIN g.pending \cup {n} |-> IF t = n THEN size ELSE g.pending[t]]
             p == [g EXCEPT !.sequence = n, !.pendingBytes = @ + size, !.accepted = @ + size,
                            !.pending = pending]
             command == Guest!Command("send", n, size)
  <2>1. s = Guest!Enqueue(p, command)
    BY <1>3 DEF Guest!Send
  <2>2. n \in Nat
    BY DEF IsSocket
  <2>3. command \in Commands
    BY <2>2 DEF Guest!Command, Commands
  <2> HIDE DEF n, pending
  <2>4. IsSocket(p) /\ SameView(p, g) /\ p.commands = g.commands /\ p.sequence = n
    BY <2>2 DEF IsSocket, SameView
  <2> HIDE DEF p, s, command
  <2>5. /\ IsSocket(s) /\ SameView(s, p) /\ s.sequence = p.sequence
        /\ s.commands = Append(p.commands, command)
    BY <2>1, <2>3, <2>4, EnqueueIs
  <2>6. SameView(s, g) /\ InOrder(s)
    BY <2>4, <2>5 DEF SameView, InOrder
  <2> QED
    BY <2>4, <2>5, <2>6 DEF s, n, command
<1> QED
  BY <1>1, <1>2, <1>3

LEMMA UnitIs ==
    ASSUME NEW size \in Nat
    PROVE  /\ Guest!Unit(size) = IF size = 0 THEN 0 ELSE 1
           /\ Guest!Chunks(size) = IF size = 0 THEN 1 ELSE size
  BY DEF Guest!Unit, Guest!Chunks

(* A part of the message that the socket waits for is taken, and the message *)
(* is seen when it is whole.                                                *)
LEMMA ReceiveIs ==
    ASSUME NEW g, IsSocket(g), InOrder(g), g.state = "open", NEW e \in Events,
           e.done <=> e.offset + Guest!Unit(e.size) = e.size,
           Len(g.seen) = e.message,
           g.incoming = IF e.offset = 0 THEN None ELSE Begun(e, e.offset)
    PROVE  LET r == Guest!Receive(g, e)
           IN  /\ IsSocket(r) /\ InOrder(r) /\ r.state = "open" /\ SameChat(r, g)
               /\ IF e.done THEN r.incoming = None /\ Len(r.seen) = e.message + 1
                  ELSE r.incoming = Begun(e, e.offset + 1) /\ r.seen = g.seen
<1> DEFINE b == Begun(e, e.offset)
           r == Guest!Receive(g, e)
<1>1. /\ e.offset \in Nat /\ e.size \in Nat /\ e.message \in Nat /\ e.done \in BOOLEAN
  BY DEF Events
<1>2. /\ b \in Incomings /\ b # None /\ b.kind = "message" /\ b.message = e.message
      /\ b.offset = e.offset /\ b.size = e.size
      /\ [b EXCEPT !.offset = @ + 1] = Begun(e, e.offset + 1)
      /\ Begun(e, e.offset + 1) \in Incomings
  BY <1>1 DEF Begun, Incomings, None
<1>3. Guest!Begin(g, e) = b
  BY <1>1 DEF Guest!Begin, Begun
<1> HIDE DEF b
<1>4. Guest!Follows(b, e)
  BY <1>2 DEF Guest!Follows
<1>5. ~(e.offset = 0 /\ g.incoming # Guest!None)
  BY DEF Guest!None, None
<1>6. r = IF ~e.done THEN [g EXCEPT !.incoming = [b EXCEPT !.offset = @ + 1]]
          ELSE Guest!See([g EXCEPT !.incoming = Guest!None], [type |-> "message", message |-> e.message])
  BY <1>3, <1>4, <1>5 DEF Guest!Receive
<1> HIDE DEF r
<1>7. CASE ~e.done
  <2>1. r = [g EXCEPT !.incoming = Begun(e, e.offset + 1)]
    BY <1>2, <1>6, <1>7
  <2>2. /\ IsSocket(r) /\ r.state = "open" /\ SameChat(r, g) /\ r.seen = g.seen
        /\ r.incoming = Begun(e, e.offset + 1) /\ r.broken = g.broken
        /\ r.disposed = g.disposed /\ r.farewell = g.farewell
    BY <1>2, <2>1 DEF IsSocket, SameChat
  <2>3. InOrder(r)
    BY <2>2 DEF InOrder
  <2> QED
    BY <1>7, <2>2, <2>3 DEF r
<1>8. CASE e.done
  <2> DEFINE p == [g EXCEPT !.incoming = Guest!None]
             event == [type |-> "message", message |-> e.message]
  <2>1. /\ IsSocket(p) /\ p.state = "open" /\ p.seen = g.seen /\ p.incoming = None
        /\ p.broken = g.broken /\ p.disposed = g.disposed /\ p.farewell = g.farewell
        /\ SameChat(p, g)
    BY DEF IsSocket, SameChat, Guest!None, None
  <2>2. r = Guest!See(p, event)
    BY <1>6, <1>8
  <2>3. event \in Sights /\ event.type = "message" /\ event.message = e.message
    BY <1>1 DEF Sights
  <2> HIDE DEF p, event
  <2>4. /\ IsSocket(r) /\ r.state = p.state /\ r.incoming = p.incoming
        /\ r.disposed = p.disposed /\ r.farewell = p.farewell /\ r.broken = p.broken
        /\ r.commands = p.commands /\ r.sequence = p.sequence
        /\ Len(r.seen) = Len(p.seen) + 1
        /\ r.seen[Len(p.seen) + 1] = event
        /\ \A i \in DOMAIN p.seen : r.seen[i] = p.seen[i]
        /\ DOMAIN r.seen = 1 .. Len(p.seen) + 1 /\ DOMAIN p.seen = 1 .. Len(p.seen)
        /\ Len(p.seen) \in Nat
    <3>1. Sees(p, r, event)
      BY <2>1, <2>2, <2>3, SeeIs
    <3> QED
      BY <3>1 DEF Sees
  <2>5. 1 \in DOMAIN g.seen /\ g.seen[1].type = "open" /\ r.seen[1] = g.seen[1]
    <3>1. g.seen # <<>> /\ g.seen \in Seq(Sights)
      BY DEF InOrder, IsSocket
    <3>2. 1 \in DOMAIN g.seen /\ g.seen[1] \in Sights
      BY <3>1
    <3> QED
      BY <2>1, <2>4, <3>2 DEF InOrder, Sights
  <2>6. ASSUME NEW i \in DOMAIN r.seen
        PROVE  /\ r.seen[i].type = "open" => i = 1
               /\ r.seen[i].type = "message" => r.seen[1].type = "open" /\ r.seen[i].message = i - 1
               /\ r.seen[i].type = "close" => i = Len(r.seen) /\ r.state = "closed"
    <3>1. CASE i = Len(p.seen) + 1
      BY <1>1, <2>1, <2>3, <2>4, <2>5, <3>1
    <3>2. CASE i \in DOMAIN p.seen
      BY <2>1, <2>4, <2>5, <3>2 DEF InOrder
    <3> QED
      BY <2>4, <2>6, <3>1, <3>2
  <2>7. InOrder(r)
    <3>1. r.seen # <<>>
      BY <2>4
    <3> QED
      BY <2>1, <2>4, <2>6, <3>1 DEF InOrder
  <2> QED
    BY <1>1, <1>8, <2>1, <2>4, <2>7 DEF SameChat, r
<1> QED
  BY <1>1, <1>7, <1>8
-----------------------------------------------------------------------------
(* The two chains: the events stay in order while ...                      *)

LookSame ==
    \/ guest'.state \in {"closing", "closed"}
    \/ guest'.state = guest.state /\ guest'.seen = guest.seen /\ guest'.incoming = guest.incoming

(* ... the queue is left alone,                                            *)
LEMMA StreamKeeps ==
    ASSUME Emitting, Streaming, emission' = emission, LookSame, Quiet(host', host)
    PROVE  Emitting' /\ Streaming'
<1>1. Emitting'
  BY DEF Emitting, Crossing, Crossed, HasOf, LookSame
<1>2. ASSUME ~host'.failed, ~host'.disposed
      PROVE  /\ emission'.stage \in {"idle", "event"}
             /\ HeadCrosses'
             /\ guest'.state = "open" /\ ~Crossing' => guest'.incoming = None
             /\ \E c \in [1 .. Len(host'.queue) + 1 -> Nat] : Counted(c)'
  <2>1. /\ ~host.failed /\ ~host.disposed /\ host'.queue = host.queue
        /\ host'.messages = host.messages /\ (host'.native = "open" => host.native = "open")
    BY <1>2 DEF Quiet
  <2>2. PICK c \in [1 .. Len(host.queue) + 1 -> Nat] : Counted(c)
    BY <2>1 DEF Streaming
  <2>3. HeadCrosses' /\ (guest'.state = "open" /\ ~Crossing' => guest'.incoming = None)
    BY <2>1 DEF Streaming, HeadCrosses, Crossing, LookSame
  <2>4. Counts(c, host'.queue) /\ c[Len(host'.queue) + 1] = host'.messages
    BY <2>1, <2>2 DEF Counted
  <2>5. guest'.state = "open" => Len(guest'.seen) = c[1] + IF Crossed' THEN 2 ELSE 1
    BY <2>2 DEF Counted, Crossed, Crossing, LookSame
  <2>6. guest'.state = "connecting" => \E p \in 1 .. Len(host'.queue) + 1 : OpensAt(p, c)'
    BY <2>1, <2>2 DEF Counted, OpensAt, LookSame
  <2>7. Counted(c)'
    BY <2>4, <2>5, <2>6 DEF Counted
  <2> QED
    BY <2>1, <2>2, <2>3, <2>7 DEF Streaming
<1> QED
  BY <1>1, <1>2 DEF Streaming

(* ... an event is put at its end, the open event only once, by a native   *)
(* socket that then is open, and messages only by an open one,             *)
Grows(e) ==
    /\ ~host.failed /\ ~host.disposed /\ host'.queue = Append(host.queue, e)
    /\ IF e.type = "message"
       THEN host.native = "open" /\ host'.messages = host.messages + 1 /\ e.message = host'.messages
       ELSE host'.messages = host.messages
    /\ e.type = "open" \/ (host'.native = "open" => host.native = "open")

LEMMA StreamGrows ==
    ASSUME Typed, Emitting, Streaming, emission' = emission, guest' = guest,
           ~host'.failed /\ ~host'.disposed => \E e \in Queued : Grows(e)
    PROVE  Emitting' /\ Streaming'
<1>1. Emitting'
  BY DEF Emitting, Crossing, Crossed, HasOf
<1>2. ASSUME ~host'.failed, ~host'.disposed
      PROVE  /\ emission'.stage \in {"idle", "event"}
             /\ HeadCrosses'
             /\ guest'.state = "open" /\ ~Crossing' => guest'.incoming = None
             /\ \E c \in [1 .. Len(host'.queue) + 1 -> Nat] : Counted(c)'
  <2>1. PICK e \in Queued : Grows(e)
    BY <1>2
  <2>2. PICK c \in [1 .. Len(host.queue) + 1 -> Nat] : Counted(c)
    BY <2>1 DEF Streaming, Grows
  <2> DEFINE n == Len(host.queue)
             q == host'.queue
  <2>3. /\ host.queue \in Seq(Queued) /\ host.messages \in Nat
    BY DEF Typed, IsEntry
  <2> q = Append(host.queue, e)
    BY <2>1 DEF Grows
  <2>4. /\ n \in Nat /\ DOMAIN host.queue = 1 .. n /\ Len(q) = n + 1 /\ DOMAIN q = 1 .. n + 1
        /\ q[n + 1] = e /\ (\A i \in 1 .. n : q[i] = host.queue[i])
        /\ (host.queue # <<>> => n >= 1) /\ q # <<>>
    <3> HIDE DEF q
    <3> QED
      BY <2>3
  <2>5. host'.messages \in Nat /\ c[n + 1] = host.messages
    BY <2>1, <2>2, <2>3 DEF Grows, Counted
  <2>6. PICK d \in [1 .. n + 2 -> Nat] :
               d[n + 2] = host'.messages /\ \A i \in 1 .. n + 1 : d[i] = c[i]
    <3> DEFINE f == [i \in 1 .. n + 2 |-> IF i = n + 2 THEN host'.messages ELSE c[i]]
    <3>1. /\ f \in [1 .. n + 2 -> Nat] /\ f[n + 2] = host'.messages
          /\ \A i \in 1 .. n + 1 : f[i] = c[i]
      BY <2>2, <2>4, <2>5
    <3> HIDE DEF f
    <3> QED
      BY <3>1
  <2> HIDE DEF n, q
  <2>7. HeadCrosses'
    BY <2>1, <2>4 DEF Streaming, HeadCrosses, Grows, q
  <2>8. Counts(d, q)
    <3> SUFFICES ASSUME NEW i \in 1 .. n + 1
                 PROVE  IF q[i].type = "message" THEN d[i + 1] = d[i] + 1 /\ q[i].message = d[i + 1]
                        ELSE d[i + 1] = d[i]
      BY <2>4 DEF Counts
    <3>1. CASE i = n + 1
      BY <2>1, <2>4, <2>5, <2>6, <3>1 DEF Grows
    <3>2. CASE i \in 1 .. n
      <4>1. d[i] = c[i] /\ d[i + 1] = c[i + 1] /\ q[i] = host.queue[i]
        BY <2>4, <2>6, <3>2
      <4> QED
        BY <2>2, <2>4, <3>2, <4>1 DEF Counted, Counts
    <3> QED
      BY <2>4, <3>1, <3>2
  <2>9. guest'.state = "open" => Len(guest'.seen) = d[1] + IF Crossed' THEN 2 ELSE 1
    BY <2>2, <2>4, <2>6 DEF Counted, Crossed, Crossing
  <2>10. guest'.state = "connecting" => \E p \in 1 .. n + 2 : OpensAt(p, d)'
    <3> SUFFICES ASSUME guest.state = "connecting"
                 PROVE  \E p \in 1 .. n + 2 : OpensAt(p, d)'
      OBVIOUS
    <3>1. PICK p \in 1 .. n + 1 : OpensAt(p, c)
      BY <2>2 DEF Counted, n
    <3>2. \A i \in 1 .. p : d[i] = 0
      BY <2>4, <2>6, <3>1 DEF OpensAt
    <3>3. CASE p <= n
      <4>1. OpensAt(p, d)'
        BY <2>4, <3>1, <3>2, <3>3 DEF OpensAt, n, q
      <4> QED
        BY <2>4, <4>1
    <3>4. CASE p = n + 1 /\ e.type = "open"
      <4>1. p = 1 => ~(emission'.stage = "event" /\ emission'.arrived)
        BY <2>1, <2>4, <3>4 DEF Streaming, HeadCrosses, Grows, n
      <4>2. OpensAt(p, d)'
        BY <2>4, <3>2, <3>4, <4>1 DEF OpensAt, q
      <4> QED
        BY <2>4, <4>2
    <3>5. CASE p = n + 1 /\ e.type # "open"
      <4>1. host.native # "open"
        BY <3>1, <3>5 DEF OpensAt, n
      <4>2. host'.native # "open" /\ host'.messages = host.messages
        BY <2>1, <3>5, <4>1 DEF Grows
      <4>3. d[n + 2] = 0
        BY <2>4, <2>5, <2>6, <3>2, <3>5, <4>2
      <4>4. \A i \in 1 .. n + 2 : d[i] = 0
        BY <2>4, <3>2, <3>5, <4>3
      <4>5. PICK m \in 1 .. n + 2 : m = n + 2
        BY <2>4
      <4>6. OpensAt(m, d)'
        BY <2>4, <4>2, <4>4, <4>5 DEF OpensAt, q
      <4> QED
        BY <4>6
    <3> QED
      BY <2>4, <3>1, <3>3, <3>4, <3>5
  <2>11. Counted(d)'
    BY <2>4, <2>6, <2>8, <2>9, <2>10 DEF Counted, q
  <2>12. d \in [1 .. Len(host'.queue) + 1 -> Nat]
    BY <2>4, <2>6 DEF q
  <2> QED
    BY <2>1, <2>7, <2>11, <2>12 DEF Streaming, Crossing, Grows
<1> QED
  BY <1>1, <1>2 DEF Streaming

(* ... and what the host holds of the conversation stays.                   *)
KeepsTalk ==
    ~host'.failed /\ ~host'.disposed =>
        /\ ~host.failed /\ ~host.disposed
        /\ host'.live => host'.record = None
        /\ Talking(host') <=> Talking(host)
        /\ TransferHeld(host') = TransferHeld(host) /\ AckHeld(host') = AckHeld(host)

LEMMA TalkKeeps ==
    ASSUME Numbered, Conversation, call' = call, SameChat(guest', guest),
           guest'.state = "closed" \/ guest.state # "closed",
           guest.state # "closed" => KeepsTalk
    PROVE  Numbered' /\ Conversation'
<1>1. Numbered'
  BY DEF Numbered, SameChat, Command
<1>2. ASSUME ~host'.failed, ~host'.disposed, guest'.state # "closed"
      PROVE  Conversing'
  <2>1. /\ Conversing
        /\ host'.live => host'.record = None
        /\ Talking(host') <=> Talking(host)
        /\ TransferHeld(host') = TransferHeld(host) /\ AckHeld(host') = AckHeld(host)
    BY <1>2 DEF Conversation, KeepsTalk
  <2>2. guest'.commands = guest.commands /\ guest'.sequence = guest.sequence /\ Command' = Command
    BY DEF SameChat, Command
  <2>3. NotOpened'
    BY <2>1, <2>2 DEF Conversing, NotOpened, Talking, TransferHeld, AckHeld
  <2>4. Expected' = Expected /\ \A i : Sent(i)' <=> Sent(i)
    BY <2>2 DEF Expected, Sent
  <2> QED
    BY <2>1, <2>2, <2>3, <2>4 DEF Conversing, Talking, TransferHeld, AckHeld
<1> QED
  BY <1>1, <1>2 DEF Conversation

(* A command that the program adds is the last one, and so is its number.   *)
LEMMA TalkGrows ==
    ASSUME Typed, Numbered, Conversation, call' = call, host' = host, guest.state # "closed",
           NEW c \in Commands, guest'.commands = Append(guest.commands, c),
           \/ c.op = "close" /\ guest'.sequence = guest.sequence
           \/ c.op = "send" /\ guest'.sequence = guest.sequence + 1 /\ c.sequence = guest'.sequence
    PROVE  Numbered' /\ Conversation'
<1> DEFINE n == Len(guest.commands)
           q == guest'.commands
<1>0. q = Append(guest.commands, c)
  OBVIOUS
<1>1. guest.commands \in Seq(Commands) /\ guest.sequence \in Nat /\ c.op \in {"send", "close"}
  BY DEF Typed, IsSocket
<1>2. /\ n \in Nat /\ DOMAIN guest.commands = 1 .. n /\ DOMAIN q = 1 .. n + 1 /\ q # <<>>
      /\ q[n + 1] = c /\ (\A i \in 1 .. n : q[i] = guest.commands[i])
      /\ (guest.commands # <<>> => n >= 1 /\ Head(q) = Head(guest.commands))
      /\ (guest.commands = <<>> => n = 0 /\ Head(q) = c)
  <2> HIDE DEF q
  <2> QED
    BY <1>0, <1>1
<1>3. call.phase # "idle" => Command' = Command
  BY <1>2 DEF Typed, ChainsTyped, Command
<1> HIDE DEF n
<1>4. /\ \A i \in 1 .. n + 1 :
            /\ q[i].op = "open" => i = 1
            /\ q[i].op = "send" => q[i].sequence \in 1 .. guest'.sequence
      /\ \A i \in 1 .. n + 1 : i <= n => q[i] = guest.commands[i]
      /\ \A i \in 1 .. n : q[i].op = "send" => q[i].sequence \in 1 .. guest.sequence
  <2> HIDE DEF q
  <2>1. /\ \A i \in 1 .. n + 1 : i = n + 1 \/ i \in 1 .. n
        /\ \A i \in 1 .. n + 1 : i <= n => i \in 1 .. n
    BY <1>2
  <2>2. \A i \in 1 .. n :
            /\ q[i].op = "open" => i = 1
            /\ q[i].op = "send" => q[i].sequence \in 1 .. guest.sequence
    BY <1>2 DEF Numbered
  <2>3. /\ \A s \in 1 .. guest.sequence : s \in 1 .. guest'.sequence
        /\ q[n + 1].op # "open"
        /\ q[n + 1].op = "send" => q[n + 1].sequence \in 1 .. guest'.sequence
    BY <1>1, <1>2
  <2>4. ASSUME NEW i \in 1 .. n + 1
        PROVE  /\ q[i].op = "open" => i = 1
               /\ q[i].op = "send" => q[i].sequence \in 1 .. guest'.sequence
    <3>1. CASE i = n + 1
      BY <2>3, <3>1
    <3>2. CASE i \in 1 .. n
      <4>1. /\ q[i].op = "open" => i = 1
            /\ q[i].op = "send" => q[i].sequence \in 1 .. guest.sequence
        BY <2>2, <3>2
      <4> QED
        BY <2>3, <4>1
    <3> QED
      BY <2>1, <3>1, <3>2
  <2>5. \A i \in 1 .. n + 1 : i <= n => q[i] = guest.commands[i]
    BY <1>2, <2>1
  <2> QED
    BY <2>2, <2>4, <2>5
<1>5. ASSUME NEW i \in 1 .. n + 1, NEW j \in 1 .. n + 1, q[i].op = "send", q[j].op = "send", i < j
      PROVE  q[i].sequence < q[j].sequence
  <2>1. i \in 1 .. n
    BY <1>2, <1>5
  <2>2. CASE j = n + 1
    BY <1>1, <1>2, <1>4, <1>5, <2>1, <2>2
  <2>3. CASE j \in 1 .. n
    BY <1>2, <1>5, <2>1, <2>3 DEF Numbered
  <2> QED
    BY <1>2, <2>2, <2>3
<1>6. Numbered'
  BY <1>2, <1>3, <1>4, <1>5 DEF Numbered, q
<1>7. ASSUME ~host.failed, ~host.disposed
      PROVE  Conversing'
  <2>1. Conversing
    BY <1>7 DEF Conversation
  <2>2. NotOpened'
    BY <1>1, <1>2, <1>3, <2>1 DEF Conversing, NotOpened, Command, q, Talking
  <2>3. Expected' = Expected
    BY <1>3 DEF Expected
  <2>4. ASSUME Talking(host), NEW i \in 1 .. n + 1, q[i].op = "send"
        PROVE  AckHeld(host) < q[i].sequence \/ Sent(i)'
    <3>1. CASE i = n + 1
      <4>1. AckHeld(host) \in Nat
        BY DEF AckHeld, Typed, IsEntry, Records, Reports, None
      <4> QED
        BY <1>1, <1>2, <2>1, <2>4, <3>1, <4>1 DEF Conversing
    <3>2. CASE i \in 1 .. n
      <4>1. q[i] = guest.commands[i]
        BY <1>2, <3>2
      <4> QED
        BY <1>2, <2>1, <2>4, <3>2, <4>1 DEF Conversing, Sent, q
    <3> QED
      BY <1>2, <3>1, <3>2
  <2>5. AckHeld(host) <= guest.sequence => AckHeld(host) <= guest'.sequence
    <3>1. AckHeld(host) \in Nat
      BY DEF AckHeld, Typed, IsEntry, Records, Reports, None
    <3> QED
      BY <1>1, <3>1
  <2>6. call'.phase = "answered" /\ ~call'.ok => Command'.op = "open" \/ ~Talking(host)
    BY <1>3, <2>1 DEF Conversing
  <2> QED
    BY <1>2, <2>1, <2>2, <2>3, <2>4, <2>5, <2>6 DEF Conversing, Talking, TransferHeld, AckHeld, q
<1> QED
  BY <1>6, <1>7 DEF Conversation
-----------------------------------------------------------------------------
(* The steps of the guest program.                                         *)

LEMMA SendKeeps ==
    ASSUME IInv, NEW size \in SendSizes, Send(size)
    PROVE  IInv'
<1>1. /\ guest.state \in {"open", "closing"} /\ guest' = Guest!Send(guest, size)
      /\ host' = host /\ call' = call /\ emission' = emission
  BY DEF Send
<1>2. size \in Nat
  BY SizesAssumption
<1>3. /\ IsSocket(guest') /\ InOrder(guest')
      /\ \/ SameView(guest', guest) /\ SameChat(guest', guest)
         \/ /\ guest'.state = "closed" /\ guest'.sequence = guest.sequence
            /\ guest'.commands = Append(guest.commands, Guest!Command("close", 0, 0))
         \/ /\ SameView(guest', guest) /\ guest'.sequence = guest.sequence + 1
            /\ guest'.commands = Append(guest.commands, Guest!Command("send", guest'.sequence, size))
  BY <1>1, <1>2, GuestSendIs DEF IInv, Typed
<1>4. Emitting' /\ Streaming'
  BY <1>1, <1>3, StreamKeeps DEF IInv, LookSame, SameView, Quiet
<1>5. Numbered' /\ Conversation'
  <2>1. CASE SameChat(guest', guest) /\ SameView(guest', guest)
    <3>1. guest.state # "closed" => KeepsTalk \/ host.failed \/ host.disposed
      BY <1>1 DEF IInv, Conversation, Conversing, KeepsTalk
    <3> QED
      BY <1>1, <2>1, <3>1, TalkKeeps DEF IInv, KeepsTalk
  <2>2. CASE /\ guest'.sequence = guest.sequence
             /\ guest'.commands = Append(guest.commands, Guest!Command("close", 0, 0))
    <3>1. Guest!Command("close", 0, 0) \in Commands /\ Guest!Command("close", 0, 0).op = "close"
      BY DEF Guest!Command, Commands
    <3> QED
      BY <1>1, <2>2, <3>1, TalkGrows DEF IInv
  <2>3. CASE /\ guest'.sequence = guest.sequence + 1
             /\ guest'.commands = Append(guest.commands, Guest!Command("send", guest'.sequence, size))
    <3> DEFINE c == Guest!Command("send", guest'.sequence, size)
    <3>1. c \in Commands /\ c.op = "send" /\ c.sequence = guest'.sequence
      BY <1>2, <1>3 DEF Guest!Command, Commands, IsSocket
    <3> HIDE DEF c
    <3>2. guest'.commands = Append(guest.commands, c)
      BY <2>3 DEF c
    <3> QED
      BY <1>1, <2>3, <3>1, <3>2, TalkGrows DEF IInv
  <2> QED
    BY <1>3, <2>1, <2>2, <2>3
<1>6. ChainsTyped'
  <2>1. guest.commands # <<>> => guest'.commands # <<>>
    <3>1. guest.commands \in Seq(Commands)
      BY DEF IInv, Typed, IsSocket
    <3> QED
      BY <1>3, <3>1 DEF SameChat
  <2> QED
    BY <1>1, <2>1 DEF IInv, Typed, ChainsTyped
<1> QED
  BY <1>1, <1>3, <1>4, <1>5, <1>6 DEF IInv, Typed

LEMMA CloseKeeps ==
    ASSUME IInv, Close
    PROVE  IInv'
<1>1. /\ guest.state \in {"connecting", "open"} /\ guest' = Guest!Close(guest)
      /\ host' = host /\ call' = call /\ emission' = emission
  BY DEF Close
<1> DEFINE c == Guest!Command("close", 0, 0)
<1>2. c \in Commands /\ c.op = "close"
  BY DEF Guest!Command, Commands
<1>3. /\ IsSocket(guest') /\ InOrder(guest') /\ guest'.state = "closing"
      /\ guest'.sequence = guest.sequence /\ guest'.commands = Append(guest.commands, c)
  BY <1>1, GuestCloseIs DEF IInv, Typed
<1> HIDE DEF c
<1>4. Emitting' /\ Streaming'
  BY <1>1, <1>3, StreamKeeps DEF IInv, LookSame, Quiet
<1>5. Numbered' /\ Conversation'
  BY <1>1, <1>2, <1>3, TalkGrows DEF IInv
<1>6. ChainsTyped'
  <2>1. guest.commands \in Seq(Commands)
    BY DEF IInv, Typed, IsSocket
  <2>2. guest'.commands # <<>>
    BY <1>2, <1>3, <2>1
  <2> QED
    BY <1>1, <2>2 DEF IInv, Typed, ChainsTyped
<1> QED
  BY <1>1, <1>3, <1>4, <1>5, <1>6 DEF IInv, Typed
-----------------------------------------------------------------------------
(* The steps of the native socket, of the timer and of the disposal.       *)

(* Only the host's entry moves.                                            *)
LEMMA HostMoves ==
    ASSUME IInv, IsEntry(host'), UNCHANGED <<guest, call, emission>>,
           Quiet(host', host) \/ (~host'.failed /\ ~host'.disposed => \E e \in Queued : Grows(e)),
           guest.state # "closed" => KeepsTalk
    PROVE  IInv'
<1>1. Emitting' /\ Streaming'
  <2>1. CASE Quiet(host', host)
    BY <2>1, StreamKeeps DEF IInv, LookSame
  <2>2. CASE ~host'.failed /\ ~host'.disposed => \E e \in Queued : Grows(e)
    BY <2>2, StreamGrows DEF IInv
  <2> QED
    BY <2>1, <2>2
<1>2. Numbered' /\ Conversation'
  BY TalkKeeps DEF IInv, SameChat
<1>3. ChainsTyped' /\ IsSocket(guest') /\ InOrder(guest')
  BY DEF IInv, Typed, ChainsTyped
<1> QED
  BY <1>1, <1>2, <1>3 DEF IInv, Typed

(* An event of the native socket, or of the timer, is queued.              *)
LEMMA QueueMoves ==
    ASSUME IInv, UNCHANGED <<guest, call, emission>>, NEW h, IsEntry(h), SameTalk(h, host),
           h.queue = host.queue, h.failed = host.failed, h.disposed = host.disposed,
           NEW type \in EventTypes, NEW message \in Nat, NEW size \in Nat,
           NEW q, Queues(q, h, type, message, size),
           IsEntry(host'), SameTalk(host', q), SameStream(host', q),
           IF type = "message"
           THEN host.native = "open" /\ h.messages = host.messages + 1 /\ message = h.messages
           ELSE h.messages = host.messages,
           type = "open" \/ (h.native = "open" => host.native = "open")
    PROVE  IInv'
<1>1. ~host'.failed /\ ~host'.disposed =>
         /\ ~host.failed /\ ~host.disposed
         /\ SameTalk(host', host) /\ \E e \in Queued : Grows(e)
  BY DEF Queues, SameTalk, SameStream, Grows
<1>2. guest.state # "closed" => KeepsTalk
  BY <1>1 DEF KeepsTalk, SameTalk, Talking, TransferHeld, AckHeld, IInv, Conversation, Conversing
<1> QED
  BY <1>1, <1>2, HostMoves

LEMMA NativeOpensKeeps ==
    ASSUME IInv, NEW crowded \in BOOLEAN, NativeOpens(crowded)
    PROVE  IInv'
<1> DEFINE h == [host EXCEPT !.native = "open"]
<1>1. host' = Host!Queue(h, "open", 0, 0, crowded) /\ UNCHANGED <<guest, call, emission>>
  BY DEF NativeOpens, Native, Host!OnOpen
<1>2. /\ IsEntry(h) /\ SameTalk(h, host) /\ h.queue = host.queue /\ h.failed = host.failed
      /\ h.disposed = host.disposed /\ h.messages = host.messages
  BY DEF IInv, Typed, IsEntry, SameTalk
<1> HIDE DEF h
<1>3. Queues(host', h, "open", 0, 0)
  BY <1>1, <1>2, QueueIs DEF EventTypes
<1>4. IsEntry(host') /\ SameTalk(host', host') /\ SameStream(host', host')
  BY <1>3 DEF Queues, SameTalk, SameStream
<1>5. "open" \in EventTypes
  BY DEF EventTypes
<1> QED
  BY <1>1, <1>2, <1>3, <1>4, <1>5, QueueMoves

LEMMA NativeMessageKeeps ==
    ASSUME IInv, NEW size \in MessageSizes, NEW crowded \in BOOLEAN, NativeMessage(size, crowded)
    PROVE  IInv'
<1> DEFINE n == host.messages + 1
           h == [host EXCEPT !.messages = n]
<1>1. /\ host.native = "open" /\ host' = Host!OnMessage(host, size, crowded) /\ size \in Nat
      /\ UNCHANGED <<guest, call, emission>>
  BY SizesAssumption DEF NativeMessage, Native
<1>2. CASE size > MaxBuffered
  <2>1. host' = Host!FailHost(host)
    BY <1>1, <1>2 DEF Host!OnMessage
  <2>2. IsEntry(host') /\ (host'.failed \/ host'.disposed)
    BY <2>1, FailHostIs DEF IInv, Typed
  <2> QED
    BY <1>1, <2>2, HostMoves DEF Quiet, KeepsTalk
<1>3. CASE ~(size > MaxBuffered)
  <2>1. host' = Host!Queue(h, "message", n, size, crowded)
    BY <1>1, <1>3 DEF Host!OnMessage
  <2>2. n \in Nat /\ "message" \in EventTypes
    BY DEF IInv, Typed, IsEntry, EventTypes
  <2>3. /\ IsEntry(h) /\ SameTalk(h, host) /\ h.queue = host.queue /\ h.failed = host.failed
        /\ h.disposed = host.disposed /\ h.messages = n /\ h.native = host.native
    BY <2>2 DEF IInv, Typed, IsEntry, SameTalk
  <2> HIDE DEF h
  <2>4. Queues(host', h, "message", n, size)
    BY <1>1, <2>1, <2>2, <2>3, QueueIs
  <2>5. IsEntry(host') /\ SameTalk(host', host') /\ SameStream(host', host')
    BY <2>4 DEF Queues, SameTalk, SameStream
  <2> QED
    BY <1>1, <2>2, <2>3, <2>4, <2>5, QueueMoves
<1> QED
  BY <1>2, <1>3

LEMMA NativeErrorKeeps ==
    ASSUME IInv, NEW crowded \in BOOLEAN, NativeError(crowded)
    PROVE  IInv'
<1> DEFINE h == [host EXCEPT !.native = "closing"]
<1>1. host' = Host!Queue(h, "error", 0, 0, crowded) /\ UNCHANGED <<guest, call, emission>>
  BY DEF NativeError, Native, Host!OnError
<1>2. /\ IsEntry(h) /\ SameTalk(h, host) /\ h.queue = host.queue /\ h.failed = host.failed
      /\ h.disposed = host.disposed /\ h.messages = host.messages /\ h.native = "closing"
  BY DEF IInv, Typed, IsEntry, SameTalk
<1> HIDE DEF h
<1>3. Queues(host', h, "error", 0, 0)
  BY <1>1, <1>2, QueueIs DEF EventTypes
<1>4. IsEntry(host') /\ SameTalk(host', host') /\ SameStream(host', host')
  BY <1>3 DEF Queues, SameTalk, SameStream
<1>5. "error" \in EventTypes
  BY DEF EventTypes
<1> QED
  BY <1>1, <1>2, <1>3, <1>4, <1>5, QueueMoves

LEMMA PollFiresKeeps ==
    ASSUME IInv, NEW crowded \in BOOLEAN, PollFires(crowded)
    PROVE  IInv'
<1> DEFINE h == [host EXCEPT !.poll = FALSE]
           q == Host!Queue(h, "buffer", 0, 0, crowded)
<1>1. /\ host' = IF q.buffered > 0 THEN Host!Poll(q) ELSE q
      /\ UNCHANGED <<guest, call, emission>>
  BY DEF PollFires, Host!PollFires
<1>2. /\ IsEntry(h) /\ SameTalk(h, host) /\ h.queue = host.queue /\ h.failed = host.failed
      /\ h.disposed = host.disposed /\ h.messages = host.messages /\ h.native = host.native
  BY DEF IInv, Typed, IsEntry, SameTalk
<1> HIDE DEF h
<1>3. Queues(q, h, "buffer", 0, 0)
  BY <1>2, QueueIs DEF EventTypes
<1> HIDE DEF q
<1>4. IsEntry(host') /\ SameTalk(host', q) /\ SameStream(host', q)
  BY <1>1, <1>3 DEF Host!Poll, Queues, IsEntry, SameTalk, SameStream
<1>5. "buffer" \in EventTypes
  BY DEF EventTypes
<1> QED
  BY <1>1, <1>2, <1>3, <1>4, <1>5, QueueMoves

(* A socket that closes leaves its place in the conversation in its record. *)
LEMMA NativeClosesKeeps ==
    ASSUME IInv, NativeCloses
    PROVE  IInv'
<1> DEFINE d == Host!Detach([host EXCEPT !.native = "closed"])
           t == Host!QueueTerminal(d, "close")
<1>1. host.live /\ host' = Host!RememberClosed(t) /\ UNCHANGED <<guest, call, emission>>
  BY DEF NativeCloses, Native, Host!OnClose
<1>2. /\ IsEntry(d) /\ d.queue = host.queue /\ d.failed = host.failed /\ d.disposed = host.disposed
      /\ d.messages = host.messages /\ d.native = "closed" /\ ~d.live
      /\ d.transfer = host.transfer /\ d.ack = host.ack
  BY DEF Host!Detach, IInv, Typed, IsEntry
<1> HIDE DEF d
<1>3. /\ IsEntry(t) /\ SameTalk(t, d) /\ t.messages = d.messages /\ t.native = d.native
      /\ t.failed = d.failed /\ t.disposed = d.disposed
      /\ d.disposed \/ \E e \in Queued : e.type = "close" /\ t.queue = Append(d.queue, e)
  BY <1>2, SnapshotIs, TerminalIs DEF Host!QueueTerminal, SameStream
<1> HIDE DEF t
<1>4. /\ IsEntry(host') /\ SameStream(host', t) /\ host'.live = t.live
      /\ host'.record # None /\ host'.record.transfer = t.transfer
      /\ host'.record.report.ack = t.ack
  BY <1>1, <1>3, RememberIs
<1>5. ~host'.failed /\ ~host'.disposed => \E e \in Queued : Grows(e)
  BY <1>2, <1>3, <1>4 DEF Grows, SameStream
<1>6. guest.state # "closed" => KeepsTalk
  <2> SUFFICES ASSUME guest.state # "closed", ~host'.failed, ~host'.disposed
               PROVE  KeepsTalk
    BY DEF KeepsTalk
  <2>1. ~host.failed /\ ~host.disposed
    BY <1>2, <1>3, <1>4 DEF SameStream
  <2>2. host.record = None
    BY <1>1, <2>1 DEF IInv, Conversation, Conversing
  <2> QED
    BY <1>1, <1>2, <1>3, <1>4, <2>1, <2>2
       DEF KeepsTalk, Talking, TransferHeld, AckHeld, SameTalk, SameStream
<1> QED
  BY <1>1, <1>4, <1>5, <1>6, HostMoves

LEMMA TransmitKeeps ==
    ASSUME IInv, Transmit
    PROVE  IInv'
<1>1. /\ host' = [host EXCEPT !.buffered = 0, !.transmitted = @ + host.buffered]
      /\ UNCHANGED <<guest, call, emission>>
  BY DEF Transmit, Native
<1>2. IsEntry(host') /\ SameTalk(host', host) /\ SameStream(host', host)
  BY <1>1 DEF IInv, Typed, IsEntry, SameTalk, SameStream
<1>3. Quiet(host', host)
  BY <1>2 DEF Quiet, SameStream
<1>4. guest.state # "closed" => KeepsTalk
  BY <1>2 DEF KeepsTalk, SameTalk, SameStream, Talking, TransferHeld, AckHeld, IInv, Conversation,
              Conversing
<1> QED
  BY <1>1, <1>2, <1>3, <1>4, HostMoves

LEMMA DisposeHostKeeps ==
    ASSUME IInv, DisposeHost
    PROVE  IInv'
<1> DEFINE native == Host!CloseNative(host).native
<1>1. host' = Host!Dispose(host) /\ UNCHANGED <<guest, call, emission>>
  BY DEF DisposeHost, Native
<1>2. native \in {"none", "connecting", "open", "closing", "closed"}
  BY DEF Host!CloseNative, IInv, Typed, IsEntry
<1>3. host' = [live |-> FALSE, native |-> native, buffered |-> 0, transmitted |-> host.transmitted,
               snapshot |-> 0, ack |-> 0, messages |-> 0, transfer |-> None, queue |-> <<>>,
               failed |-> FALSE, deliveryFailed |-> host.deliveryFailed, poll |-> FALSE,
               record |-> None, disposed |-> TRUE]
  BY <1>1 DEF Host!Dispose, Host!NoEntry, Host!None, None
<1> HIDE DEF native
<1>4. IsEntry(host') /\ host'.disposed
  BY <1>2, <1>3 DEF IsEntry
<1> QED
  BY <1>1, <1>4, HostMoves DEF Quiet, KeepsTalk

LEMMA DisposeGuestKeeps ==
    ASSUME IInv, DisposeGuest
    PROVE  IInv'
<1> DEFINE r == Guest!Retire(guest)
<1>1. /\ host.disposed /\ guest' = [r EXCEPT !.disposed = TRUE]
      /\ host' = host /\ call' = call /\ emission' = emission
  BY DEF DisposeGuest, Guest!Dispose
<1>2. /\ IsSocket(r) /\ r.state = "closed" /\ r.incoming = None /\ SameChat(r, guest)
      /\ r.seen = guest.seen /\ r.broken = guest.broken
  BY RetireIs DEF IInv, Typed
<1> HIDE DEF r
<1>3. /\ IsSocket(guest') /\ guest'.state = "closed" /\ guest'.incoming = None
      /\ SameChat(guest', guest) /\ guest'.seen = guest.seen /\ guest'.broken = guest.broken
  BY <1>1, <1>2 DEF IsSocket, SameChat
<1>4. InOrder(guest')
  BY <1>3 DEF IInv, InOrder
<1>5. Emitting' /\ Streaming'
  BY <1>1, <1>3, StreamKeeps DEF IInv, LookSame, Quiet
<1>6. Numbered' /\ Conversation'
  BY <1>1, <1>3, TalkKeeps DEF IInv, KeepsTalk
<1>7. ChainsTyped'
  BY <1>1, <1>3 DEF IInv, Typed, ChainsTyped, SameChat
<1> QED
  BY <1>1, <1>3, <1>4, <1>5, <1>6, <1>7 DEF IInv, Typed
-----------------------------------------------------------------------------
(* The steps of the chain of commands.                                     *)

LEMMA NoCallIs ==
    /\ NoCall \in Calls /\ NoCall.phase = "idle"
    /\ \A part \in Nat :
          LET c == [NoCall EXCEPT !.phase = "sent", !.part = part]
          IN  c \in Calls /\ c.phase = "sent" /\ c.part = part /\ c.ok
    /\ LET c == [NoCall EXCEPT !.phase = "sent"]
       IN  c \in Calls /\ c.phase = "sent" /\ c.part = 0 /\ c.ok
  BY DEF NoCall, Host!NoReport, Reports, Calls

LEMMA IssueKeeps ==
    ASSUME IInv, Issue
    PROVE  IInv'
<1>1. /\ call.phase = "idle" /\ guest.commands # <<>> /\ host' = host /\ emission' = emission
  BY DEF Issue
<1>2. CASE Guest!Inert(guest)
  <2>1. guest' = [guest EXCEPT !.commands = <<>>] /\ call' = call /\ guest.state = "closed"
    BY <1>2 DEF Issue, Guest!Inert, IInv, InOrder
  <2>2. /\ IsSocket(guest') /\ SameView(guest', guest) /\ guest'.state = "closed"
        /\ guest'.commands = <<>> /\ guest'.sequence = guest.sequence
    BY <2>1 DEF IInv, Typed, IsSocket, SameView
  <2>3. InOrder(guest')
    BY <2>2 DEF IInv, InOrder, SameView
  <2>4. Emitting' /\ Streaming'
    BY <1>1, <2>2, StreamKeeps DEF IInv, LookSame, Quiet
  <2>5. Numbered' /\ Conversation'
    BY <1>1, <2>1, <2>2 DEF Numbered, Conversation
  <2>6. ChainsTyped'
    BY <1>1, <2>1 DEF IInv, Typed, ChainsTyped
  <2> QED
    BY <1>1, <2>2, <2>3, <2>4, <2>5, <2>6 DEF IInv, Typed
<1>3. CASE ~Guest!Inert(guest)
  <2>1. /\ guest' = guest /\ call' \in Calls /\ call'.phase = "sent" /\ call'.part = 0 /\ call'.ok
    BY <1>3, NoCallIs DEF Issue
  <2>2. Emitting' /\ Streaming'
    BY <1>1, <2>1, StreamKeeps DEF IInv, LookSame, Quiet
  <2>3. ChainsTyped'
    BY <1>1, <2>1 DEF IInv, Typed, ChainsTyped
  <2>4. guest.commands \in Seq(Commands) /\ Command \in Commands /\ Command' = Command
    BY <1>1, <2>1 DEF IInv, Typed, IsSocket, Command
  <2>5. Numbered'
    BY <1>1, <2>1, <2>4, UnitIs DEF IInv, Numbered, Commands
  <2>6. ASSUME ~host.failed, ~host.disposed, guest.state # "closed"
        PROVE  Conversing'
    <3>1. Conversing
      BY <2>6 DEF IInv, Conversation
    <3>2. Expected' = Expected
      BY <1>1, <2>1 DEF Expected
    <3>3. \A i : Sent(i)' <=> Sent(i)
      BY <1>1, <2>1 DEF Sent
    <3>4. NotOpened'
      BY <1>1, <2>1, <2>4, <3>1 DEF Conversing, NotOpened, Talking
    <3> QED
      BY <1>1, <2>1, <2>4, <3>1, <3>2, <3>3, <3>4 DEF Conversing, Talking, TransferHeld, AckHeld
  <2>7. Conversation'
    BY <1>1, <2>1, <2>6 DEF Conversation
  <2> QED
    BY <1>1, <2>1, <2>2, <2>3, <2>5, <2>7 DEF IInv, Typed
<1> QED
  BY <1>2, <1>3

LEMMA DoneIs ==
    ASSUME NEW g, IsSocket(g), InOrder(g), g.commands # <<>>
    PROVE  LET d == Done(g)
           IN  /\ IsSocket(d) /\ InOrder(d) /\ SameView(d, g) /\ d.sequence = g.sequence
               /\ d.commands = Tail(g.commands)
<1> DEFINE d == Done(g)
<1>1. Tail(g.commands) \in Seq(Commands)
  BY DEF IsSocket
<1>2. /\ IsSocket(d) /\ SameView(d, g) /\ d.sequence = g.sequence /\ d.commands = Tail(g.commands)
  BY <1>1 DEF Done, IsSocket, SameView
<1> HIDE DEF d
<1>3. InOrder(d)
  BY <1>2 DEF InOrder, SameView
<1> QED
  BY <1>2, <1>3 DEF d

(* The next command finds what the one before it has left.                  *)
LEMMA TailTalks ==
    ASSUME Typed, Numbered, Conversation, call.phase = "answered", host' = host, call' = NoCall,
           guest'.commands = Tail(guest.commands), guest'.sequence = guest.sequence,
           guest'.state # "closed" => guest.state # "closed" /\ Expected = None
    PROVE  Numbered' /\ Conversation'
<1> DEFINE n == Len(guest.commands)
           q == guest'.commands
<1> q = Tail(guest.commands)
  OBVIOUS
<1>1. guest.commands \in Seq(Commands) /\ guest.commands # <<>> /\ guest.sequence \in Nat
  BY DEF Typed, ChainsTyped, IsSocket
<1>2. /\ n \in Nat /\ DOMAIN guest.commands = 1 .. n /\ n >= 1 /\ DOMAIN q = 1 .. n - 1
      /\ \A i \in 1 .. n - 1 : q[i] = guest.commands[i + 1]
      /\ q # <<>> => Head(q) = q[1] /\ n >= 2
      /\ Head(guest.commands) = guest.commands[1]
  <2> HIDE DEF q
  <2> QED
    BY <1>1
<1>3. call'.phase = "idle"
  BY NoCallIs
<1> HIDE DEF n, q
<1>4. ASSUME NEW i \in 1 .. n - 1
      PROVE  /\ i + 1 \in 1 .. n /\ q[i] = guest.commands[i + 1] /\ q[i].op # "open"
             /\ q[i].op = "send" => q[i].sequence \in 1 .. guest.sequence
  <2>1. i + 1 \in 1 .. n /\ i + 1 # 1
    BY <1>2
  <2> QED
    BY <1>2, <2>1 DEF Numbered
<1>5. ASSUME NEW i \in 1 .. n - 1, NEW j \in 1 .. n - 1, q[i].op = "send", q[j].op = "send", i < j
      PROVE  q[i].sequence < q[j].sequence
  <2>1. /\ i + 1 \in 1 .. n /\ q[i] = guest.commands[i + 1] /\ j + 1 \in 1 .. n
        /\ q[j] = guest.commands[j + 1] /\ i + 1 < j + 1
    BY <1>2, <1>4, <1>5
  <2> QED
    BY <1>2, <1>5, <2>1 DEF Numbered
<1>6. Numbered'
  BY <1>2, <1>3, <1>4, <1>5 DEF Numbered, q
<1>7. ASSUME ~host.failed, ~host.disposed, guest'.state # "closed"
      PROVE  Conversing'
  <2>1. Conversing /\ Expected = None
    BY <1>7 DEF Conversation
  <2>2. NotOpened'
    <3>1. q # <<>> => q[1].op # "open"
      BY <1>2, <1>4
    <3> QED
      BY <1>2, <3>1 DEF NotOpened, Command, q
  <2>3. Expected' = None
    BY <1>3 DEF Expected
  <2>4. ASSUME Talking(host), NEW i \in 1 .. n - 1, q[i].op = "send"
        PROVE  AckHeld(host) < q[i].sequence
    <3>1. i + 1 \in DOMAIN guest.commands /\ q[i] = guest.commands[i + 1] /\ i + 1 # 1
      BY <1>2, <1>4
    <3>2. AckHeld(host) < guest.commands[i + 1].sequence \/ Sent(i + 1)
      BY <2>1, <2>4, <3>1 DEF Conversing
    <3> QED
      BY <3>1, <3>2 DEF Sent
  <2> QED
    BY <1>2, <1>3, <2>1, <2>2, <2>3, <2>4 DEF Conversing, Talking, TransferHeld, AckHeld, q
<1> QED
  BY <1>6, <1>7 DEF Conversation

LEMMA ReturnKeeps ==
    ASSUME IInv, Return
    PROVE  IInv'
<1> DEFINE g == Guest!Ack(guest, call.report)
           more == /\ Command.op = "send" /\ call.part < Guest!Chunks(Command.size)
                   /\ ~Guest!Inert(g)
           f == Guest!Fail(guest)
<1>1. /\ call.phase = "answered" /\ host' = host /\ emission' = emission
      /\ IF ~call.ok THEN guest' = Done(f) /\ call' = NoCall
         ELSE IF more
         THEN guest' = g /\ call' = [NoCall EXCEPT !.phase = "sent", !.part = call.part + 1]
         ELSE guest' = Done(g) /\ call' = NoCall
  BY DEF Return
<1>2. guest.commands # <<>> /\ guest.commands \in Seq(Commands) /\ Command \in Commands
  BY <1>1 DEF IInv, Typed, ChainsTyped, IsSocket, Command
<1>3. IsSocket(g) /\ SameView(g, guest) /\ SameChat(g, guest) /\ InOrder(g)
  <2>1. IsSocket(g) /\ SameView(g, guest) /\ SameChat(g, guest)
    BY AckIs DEF IInv, Typed, ChainsTyped, Calls
  <2> HIDE DEF g
  <2> QED
    BY <2>1 DEF IInv, InOrder, SameView
<1>4. IsSocket(f) /\ InOrder(f) /\ f.state = "closed" /\ SameChat(f, guest)
  BY FailIs DEF IInv, Typed
<1>5. CASE ~call.ok
  <2>1. guest' = Done(f) /\ call' = NoCall
    BY <1>1, <1>5
  <2> HIDE DEF f
  <2>2. /\ IsSocket(guest') /\ InOrder(guest') /\ guest'.state = "closed"
        /\ guest'.commands = Tail(guest.commands) /\ guest'.sequence = guest.sequence
    BY <1>2, <1>4, <2>1, DoneIs DEF SameChat, SameView
  <2>3. Emitting' /\ Streaming'
    BY <1>1, <2>2, StreamKeeps DEF IInv, LookSame, Quiet
  <2>4. Numbered' /\ Conversation'
    BY <1>1, <2>1, <2>2, TailTalks DEF IInv
  <2>5. ChainsTyped'
    BY <1>1, <2>1, NoCallIs DEF IInv, Typed, ChainsTyped
  <2> QED
    BY <1>1, <2>2, <2>3, <2>4, <2>5 DEF IInv, Typed
<1>6. CASE call.ok /\ ~more
  <2>1. guest' = Done(g) /\ call' = NoCall
    BY <1>1, <1>6
  <2>2. guest.state # "closed" => Expected = None
    <3>1. g.state # "closed" => ~Guest!Inert(g)
      BY <1>3 DEF Guest!Inert, InOrder
    <3> HIDE DEF g
    <3> QED
      BY <1>1, <1>3, <1>6, <3>1 DEF Expected, SameView
  <2> HIDE DEF g, more
  <2>3. /\ IsSocket(guest') /\ InOrder(guest') /\ SameView(guest', guest)
        /\ guest'.commands = Tail(guest.commands) /\ guest'.sequence = guest.sequence
    BY <1>2, <1>3, <2>1, DoneIs DEF SameChat, SameView
  <2>4. Emitting' /\ Streaming'
    BY <1>1, <2>3, StreamKeeps DEF IInv, LookSame, Quiet, SameView
  <2>5. Numbered' /\ Conversation'
    BY <1>1, <2>1, <2>2, <2>3, TailTalks DEF IInv, SameView
  <2>6. ChainsTyped'
    BY <1>1, <2>1, NoCallIs DEF IInv, Typed, ChainsTyped
  <2> QED
    BY <1>1, <2>3, <2>4, <2>5, <2>6 DEF IInv, Typed
<1>7. CASE call.ok /\ more
  <2> DEFINE n == call.part + 1
  <2>1. /\ guest' = g /\ call' = [NoCall EXCEPT !.phase = "sent", !.part = n]
        /\ Command.op = "send" /\ call.part < Guest!Chunks(Command.size) /\ call.part \in Nat
    BY <1>1, <1>7 DEF IInv, Typed, ChainsTyped, Calls
  <2> HIDE DEF g, more
  <2>2. n \in Nat /\ n <= Guest!Chunks(Command.size) /\ n # 0 /\ n - 1 = call.part
    BY <1>2, <2>1, UnitIs DEF Commands
  <2> HIDE DEF n
  <2>3. call' \in Calls /\ call'.phase = "sent" /\ call'.part = n /\ call'.ok
    BY <2>1, <2>2, NoCallIs
  <2>4. /\ guest'.commands = guest.commands /\ guest'.sequence = guest.sequence
        /\ Command' = Command
    BY <1>3, <2>1 DEF SameChat, Command
  <2>5. Emitting' /\ Streaming'
    BY <1>1, <1>3, <2>1, StreamKeeps DEF IInv, LookSame, Quiet, SameView
  <2>6. ChainsTyped'
    BY <1>1, <1>2, <2>2, <2>3, <2>4 DEF IInv, Typed, ChainsTyped
  <2>7. Numbered'
    BY <2>1, <2>2, <2>3, <2>4 DEF IInv, Numbered
  <2>8. ASSUME ~host.failed, ~host.disposed, guest.state # "closed"
        PROVE  Conversing'
    <3>1. Conversing
      BY <2>8 DEF IInv, Conversation
    <3>2. Expected' = Expected
      BY <1>1, <2>1, <2>2, <2>3, <2>4 DEF Expected
    <3>3. NotOpened'
      BY <2>1, <2>4 DEF NotOpened
    <3>4. \A i \in DOMAIN guest.commands : ~Sent(i)
      BY <1>2, <2>1, UnitIs DEF Sent, Command, Commands
    <3> QED
      BY <1>1, <2>3, <2>4, <3>1, <3>2, <3>3, <3>4 DEF Conversing, Talking, TransferHeld, AckHeld
  <2>9. Conversation'
    BY <1>1, <1>3, <2>1, <2>8 DEF Conversation, SameView
  <2> QED
    BY <1>1, <1>3, <2>1, <2>5, <2>6, <2>7, <2>9 DEF IInv, Typed
<1> QED
  BY <1>5, <1>6, <1>7

LEMMA FarewellKeeps ==
    ASSUME IInv, Farewell
    PROVE  IInv'
<1> DEFINE c == Host!Close(host)
<1>1. /\ guest.farewell /\ guest' = [guest EXCEPT !.farewell = FALSE]
      /\ host' = IF host.disposed THEN host ELSE c.host
      /\ call' = call /\ emission' = emission
  BY DEF Farewell
<1>2. AnswerTyped(c) /\ Quiet(c.host, host)
  BY HostCloseIs DEF IInv, Typed
<1> HIDE DEF c
<1>3. IsEntry(host') /\ Quiet(host', host)
  BY <1>1, <1>2 DEF AnswerTyped, Quiet, IInv, Typed
<1>4. /\ IsSocket(guest') /\ guest'.state = guest.state /\ guest'.incoming = guest.incoming
      /\ guest'.disposed = guest.disposed /\ guest'.farewell = FALSE
      /\ guest'.seen = guest.seen /\ guest'.broken = guest.broken /\ SameChat(guest', guest)
  BY <1>1 DEF IInv, Typed, IsSocket, SameChat
<1>5. InOrder(guest') /\ guest'.state = "closed"
  BY <1>1, <1>4 DEF IInv, InOrder
<1>6. Emitting' /\ Streaming'
  BY <1>1, <1>3, <1>4, StreamKeeps DEF IInv, LookSame
<1>7. Numbered' /\ Conversation'
  BY <1>1, <1>4, <1>5, TalkKeeps DEF IInv
<1>8. ChainsTyped'
  BY <1>1, <1>4 DEF IInv, Typed, ChainsTyped, SameChat
<1> QED
  BY <1>3, <1>4, <1>5, <1>6, <1>7, <1>8 DEF IInv, Typed

(* The host answers: h is its entry, or what is left of it when its record  *)
(* was pushed out.                                                          *)
Left(h) ==
    /\ IsEntry(h) /\ SameStream(h, host) /\ h.live = host.live
    /\ h.transfer = host.transfer /\ h.ack = host.ack
    /\ h.record \in {host.record, None}

LEMMA LeftIs ==
    ASSUME Typed
    PROVE  Left(host) /\ Left(Forgotten(host))
<1>1. Left(host)
  BY DEF Left, SameStream, Typed
<1>2. Left(Forgotten(host))
  BY DEF Left, SameStream, Typed, Forgotten, IsEntry, Host!None, None
<1> QED
  BY <1>1, <1>2

(* What its answer has to leave when the command is served, and refused.    *)
Served(a) ==
    /\ a.ok /\ Talking(a.host) /\ (a.host.live => a.host.record = None)
    /\ TransferHeld(a.host) =
         IF Command.op = "send" /\ call.part < Guest!Chunks(Command.size)
         THEN Partly(Command, call.part) ELSE None
    /\ AckHeld(a.host) <= guest.sequence
    /\ \A i \in DOMAIN guest.commands :
          guest.commands[i].op = "send" =>
             \/ AckHeld(a.host) < guest.commands[i].sequence
             \/ i = 1 /\ call.part = Guest!Chunks(guest.commands[i].size)
Refused(a) == ~a.ok /\ ~Talking(a.host)

LEMMA AnswerKeeps ==
    ASSUME IInv, call.phase = "sent", UNCHANGED <<guest, emission>>,
           NEW h, Left(h), NEW a, AnswerTyped(a), Quiet(a.host, h), host' = a.host,
           call' = [call EXCEPT !.phase = "answered", !.ok = a.ok, !.report = a.report],
           ~a.host.failed /\ ~a.host.disposed /\ Conversing => Served(a) \/ Refused(a)
    PROVE  IInv'
<1>1. /\ call' \in Calls /\ call'.phase = "answered" /\ call'.part = call.part
      /\ call'.ok = a.ok
  BY DEF AnswerTyped, IInv, Typed, ChainsTyped, Calls
<1>2. Quiet(host', host) /\ IsEntry(host')
  BY DEF Quiet, Left, SameStream, AnswerTyped
<1>3. Emitting' /\ Streaming'
  BY <1>2, StreamKeeps DEF IInv, LookSame
<1>4. ChainsTyped' /\ Numbered' /\ Command' = Command
  BY <1>1 DEF IInv, Typed, ChainsTyped, Numbered, Command
<1>5. ASSUME ~host'.failed, ~host'.disposed, guest.state # "closed"
      PROVE  Conversing'
  <2>1. Conversing
    BY <1>2, <1>5 DEF Quiet, IInv, Conversation
  <2>2. NotOpened'
    BY <1>1 DEF NotOpened
  <2>3. CASE Served(a)
    <3>1. TransferHeld(host') = Expected'
      BY <1>1, <1>4, <2>3 DEF Served, Expected
    <3> QED
      BY <1>1, <2>2, <2>3, <3>1 DEF Served, Conversing, Sent, Talking, TransferHeld, AckHeld
  <2>4. CASE Refused(a)
    BY <1>1, <2>2, <2>4 DEF Refused, Conversing, Talking
  <2> QED
    BY <1>5, <2>1, <2>3, <2>4
<1>6. Conversation'
  BY <1>5 DEF Conversation
<1> QED
  BY <1>2, <1>3, <1>4, <1>6 DEF IInv, Typed

(* What a conversation tells of the entry that answers.                     *)
LEMMA TalksOf ==
    ASSUME Typed, Conversing, NEW h, Left(h), Talking(h)
    PROVE  /\ Talking(host) /\ TransferHeld(h) = TransferHeld(host) /\ AckHeld(h) = AckHeld(host)
           /\ h.live => h.record = None
  BY DEF Conversing, Left, Talking, TransferHeld, AckHeld

LEMMA HostAnswersKeeps ==
    ASSUME IInv, HostAnswers
    PROVE  IInv'
<1>1. PICK a \in Answers : /\ call.phase = "sent" /\ host' = a.host
                           /\ call' = [call EXCEPT !.phase = "answered", !.ok = a.ok,
                                                   !.report = a.report]
                           /\ UNCHANGED <<guest, emission>>
  BY DEF HostAnswers
<1>2. PICK h : Left(h) /\ a \in Answered(h)
  BY LeftIs DEF Answers, IInv
<1> DEFINE c == Command
           unit == Guest!Unit(c.size)
<1>3. /\ guest.commands \in Seq(Commands) /\ guest.commands # <<>> /\ c \in Commands
      /\ c = guest.commands[1] /\ 1 \in DOMAIN guest.commands
      /\ c.sequence \in Nat /\ c.size \in Nat /\ guest.sequence \in Nat /\ call.part \in Nat
  <2>1. /\ guest.commands \in Seq(Commands) /\ guest.commands # <<>>
        /\ guest.sequence \in Nat /\ call.part \in Nat
    BY <1>1 DEF IInv, Typed, ChainsTyped, Calls, IsSocket
  <2>2. c \in Commands /\ c = guest.commands[1] /\ 1 \in DOMAIN guest.commands
    BY <2>1 DEF Command
  <2> QED
    BY <2>1, <2>2 DEF Commands
<1>4. /\ unit = IF c.size = 0 THEN 0 ELSE 1
      /\ Guest!Chunks(c.size) = IF c.size = 0 THEN 1 ELSE c.size
  BY <1>3, UnitIs
<1>5. IsEntry(h)
  BY <1>2 DEF Left
<1>6. Conversing => \A i \in DOMAIN guest.commands :
                       Talking(host) /\ guest.commands[i].op = "send"
                          => AckHeld(host) < guest.commands[i].sequence
  BY <1>1 DEF Conversing, Sent
<1>7. SUFFICES /\ AnswerTyped(a) /\ Quiet(a.host, h)
               /\ ~a.host.failed /\ ~a.host.disposed /\ Conversing => Served(a) \/ Refused(a)
  BY <1>1, <1>2, AnswerKeeps
<1>8. CASE h.disposed
  <2>1. a = Host!Refuse(h)
    BY <1>2, <1>8 DEF Answered
  <2> QED
    BY <1>5, <1>8, <2>1, RefuseIs DEF Quiet
<1>9. CASE ~h.disposed /\ c.op = "open"
  <2>1. a = Host!Open(h) \/ a = Host!Refuse(h)
    BY <1>2, <1>9 DEF Answered
  <2>2. ASSUME Conversing
        PROVE  ~Talking(h) /\ h.record = None /\ h.transfer = None /\ h.ack = 0
    BY <1>1, <1>2, <1>3, <1>9, <2>2 DEF Conversing, NotOpened, Left, Talking
  <2>3. CASE a = Host!Refuse(h)
    BY <1>5, <2>2, <2>3, RefuseIs DEF Quiet, Refused
  <2>4. CASE a = Host!Open(h)
    <3>1. /\ AnswerTyped(a) /\ a.ok /\ Quiet(a.host, h)
          /\ a.host.live /\ a.host.record = h.record /\ a.host.transfer = h.transfer
          /\ a.host.ack = h.ack
      BY <1>5, <2>4, OpenIs
    <3>2. ASSUME Conversing
          PROVE  Served(a)
      <4>1. /\ Talking(a.host) /\ a.host.record = None
            /\ TransferHeld(a.host) = None /\ AckHeld(a.host) = 0
        BY <2>2, <3>1, <3>2 DEF Talking, TransferHeld, AckHeld
      <4>2. \A i \in DOMAIN guest.commands :
               guest.commands[i].op = "send" => 0 < guest.commands[i].sequence
        BY <1>3 DEF IInv, Numbered
      <4> QED
        BY <1>3, <1>9, <3>1, <4>1, <4>2 DEF Served
    <3> QED
      BY <3>1, <3>2
  <2> QED
    BY <2>1, <2>3, <2>4
<1>10. CASE ~h.disposed /\ c.op = "close"
  <2>1. a = Host!Close(h)
    BY <1>2, <1>10 DEF Answered
  <2>2. AnswerTyped(a) /\ Quiet(a.host, h) /\ AnswersWith(a, h, None, AckHeld(h))
    BY <1>5, <2>1, HostCloseIs
  <2>3. ASSUME Conversing, ~a.host.failed, ~a.host.disposed
        PROVE  Served(a) \/ Refused(a)
    <3>1. CASE Talking(h)
      <4>1. /\ Talking(host) /\ TransferHeld(h) = TransferHeld(host) /\ AckHeld(h) = AckHeld(host)
            /\ h.live => h.record = None
        BY <1>2, <2>3, <3>1, TalksOf DEF IInv
      <4>2. /\ a.ok /\ SameSide(a.host, h) /\ TransferHeld(a.host) = None
            /\ AckHeld(a.host) = AckHeld(host)
        BY <2>2, <2>3, <3>1, <4>1 DEF AnswersWith
      <4>3. Talking(a.host) /\ (a.host.live => a.host.record = None)
        BY <3>1, <4>1, <4>2 DEF SameSide, Talking
      <4> QED
        BY <1>6, <1>10, <2>3, <4>1, <4>2, <4>3 DEF Served, Conversing
    <3>2. CASE ~Talking(h)
      BY <2>2, <2>3, <3>2 DEF AnswersWith, Refused
    <3> QED
      BY <3>1, <3>2
  <2> QED
    BY <2>2, <2>3
<1>11. CASE ~h.disposed /\ c.op = "send" /\ call.part = 0
  <2> DEFINE t == Host!Transfer(c.sequence, c.size)
  <2>1. a = Host!SendStart(h, c.sequence, c.size)
    BY <1>2, <1>11 DEF Answered
  <2>2. /\ AnswerTyped(a) /\ Quiet(a.host, h)
        /\ (Talking(h) => TransferHeld(h) = None /\ AckHeld(h) < c.sequence)
              => AnswersWith(a, h, t, AckHeld(h))
    BY <1>3, <1>5, <2>1, SendStartIs
  <2>3. t = Partly(c, 0)
    BY <1>3, <1>4 DEF Partly, Host!Transfer
  <2> HIDE DEF t
  <2>4. ASSUME Conversing, ~a.host.failed, ~a.host.disposed
        PROVE  Served(a) \/ Refused(a)
    <3>1. CASE Talking(h)
      <4>1. /\ Talking(host) /\ TransferHeld(h) = TransferHeld(host) /\ AckHeld(h) = AckHeld(host)
            /\ h.live => h.record = None
        BY <1>2, <2>4, <3>1, TalksOf DEF IInv
      <4>2. TransferHeld(h) = None /\ AckHeld(h) < c.sequence
        <5>1. Expected = None
          BY <1>1, <1>11 DEF Expected
        <5> QED
          BY <1>3, <1>6, <1>11, <2>4, <4>1, <5>1 DEF Conversing
      <4>3. /\ a.ok /\ SameSide(a.host, h) /\ TransferHeld(a.host) = t
            /\ AckHeld(a.host) = AckHeld(host)
        BY <2>2, <2>4, <3>1, <4>1, <4>2 DEF AnswersWith
      <4>4. Talking(a.host) /\ (a.host.live => a.host.record = None)
        BY <3>1, <4>1, <4>3 DEF SameSide, Talking
      <4>5. call.part < Guest!Chunks(c.size)
        BY <1>3, <1>4, <1>11
      <4> QED
        BY <1>6, <1>11, <2>3, <2>4, <4>1, <4>3, <4>4, <4>5 DEF Served, Conversing
    <3>2. CASE ~Talking(h)
      BY <2>2, <2>4, <3>2 DEF AnswersWith, Refused
    <3> QED
      BY <3>1, <3>2
  <2> QED
    BY <2>2, <2>4
<1>12. CASE ~h.disposed /\ c.op = "send" /\ call.part # 0
  <2> DEFINE offset == (call.part - 1) * unit
             t == TransferHeld(h)
             u == [t EXCEPT !.received = offset + unit]
             done == ~(call.part < Guest!Chunks(c.size))
  <2>1. a = Host!SendChunk(h, c.sequence, offset, unit)
    BY <1>2, <1>12 DEF Answered
  <2>2. /\ offset \in Nat /\ unit \in Nat /\ offset + unit <= c.size
        /\ offset + unit < c.size <=> call.part < Guest!Chunks(c.size)
        /\ offset + unit = call.part * unit
        /\ done => call.part = Guest!Chunks(c.size)
    <3>1. call.part <= Guest!Chunks(c.size) /\ call.part >= 1
      BY <1>1, <1>3, <1>12 DEF IInv, Numbered
    <3> HIDE DEF unit, c
    <3>2. CASE c.size = 0
      <4>1. unit = 0 /\ call.part = 1 /\ Guest!Chunks(c.size) = 1
        BY <1>3, <1>4, <3>1, <3>2
      <4>2. offset = 0
        BY <4>1
      <4> QED
        BY <3>2, <4>1, <4>2
    <3>3. CASE c.size # 0
      <4>1. unit = 1 /\ Guest!Chunks(c.size) = c.size
        BY <1>4, <3>3
      <4>2. offset = call.part - 1 /\ call.part * unit = call.part
        BY <1>3, <4>1
      <4> HIDE DEF offset
      <4> QED
        BY <1>3, <3>1, <4>1, <4>2
    <3> QED
      BY <3>2, <3>3
  <2> HIDE DEF offset, unit, done
  <2>3. /\ AnswerTyped(a) /\ Quiet(a.host, h)
        /\ (Talking(h) => Awaits(t, c.sequence, offset, unit)) =>
              IF offset + unit < t.size THEN AnswersWith(a, h, u, AckHeld(h))
              ELSE AnswersWith(a, h, None, c.sequence)
    BY <1>3, <1>5, <2>1, <2>2, SendChunkIs
  <2>4. ASSUME Conversing, ~a.host.failed, ~a.host.disposed
        PROVE  Served(a) \/ Refused(a)
    <3>1. CASE Talking(h)
      <4>1. /\ Talking(host) /\ t = TransferHeld(host) /\ AckHeld(h) = AckHeld(host)
            /\ h.live => h.record = None
        BY <1>2, <2>4, <3>1, TalksOf DEF IInv
      <4>2. t = Partly(c, call.part - 1)
        <5>1. Expected = Partly(c, call.part - 1)
          BY <1>1, <1>12 DEF Expected
        <5> QED
          BY <2>4, <4>1, <5>1 DEF Conversing
      <4>3. /\ Awaits(t, c.sequence, offset, unit) /\ t.size = c.size
            /\ u = Partly(c, call.part)
        <5>1. t = [kind |-> "transfer", sequence |-> c.sequence, size |-> c.size, received |-> offset]
          BY <4>2 DEF Partly, offset, unit
        <5>2. u = [kind |-> "transfer", sequence |-> c.sequence, size |-> c.size,
                   received |-> call.part * unit]
          BY <2>2, <5>1
        <5> HIDE DEF t, u
        <5> QED
          BY <1>3, <2>2, <5>1, <5>2 DEF Awaits, Partly, Transfers, unit
      <4>4. CASE ~done
        <5>1. /\ a.ok /\ SameSide(a.host, h) /\ TransferHeld(a.host) = u
              /\ AckHeld(a.host) = AckHeld(host)
          BY <2>2, <2>3, <2>4, <3>1, <4>1, <4>3, <4>4 DEF AnswersWith, done
        <5>2. Talking(a.host) /\ (a.host.live => a.host.record = None)
          BY <3>1, <4>1, <5>1 DEF SameSide, Talking
        <5> QED
          BY <1>6, <1>12, <2>4, <4>1, <4>3, <4>4, <5>1, <5>2 DEF Served, Conversing, done
      <4>5. CASE done
        <5>1. /\ a.ok /\ SameSide(a.host, h) /\ TransferHeld(a.host) = None
              /\ AckHeld(a.host) = c.sequence
          BY <2>2, <2>3, <2>4, <3>1, <4>3, <4>5 DEF AnswersWith, done
        <5>2. Talking(a.host) /\ (a.host.live => a.host.record = None)
          BY <3>1, <4>1, <5>1 DEF SameSide, Talking
        <5>3. ASSUME NEW i \in DOMAIN guest.commands, guest.commands[i].op = "send"
              PROVE  \/ c.sequence < guest.commands[i].sequence
                     \/ i = 1 /\ call.part = Guest!Chunks(guest.commands[i].size)
          <6>1. CASE i = 1
            BY <1>3, <2>2, <4>5, <6>1
          <6>2. CASE i # 1
            BY <1>3, <1>12, <5>3, <6>2 DEF IInv, Numbered
          <6> QED
            BY <6>1, <6>2
        <5>4. c.sequence <= guest.sequence
          BY <1>3, <1>12 DEF IInv, Numbered
        <5> QED
          BY <4>5, <5>1, <5>2, <5>3, <5>4 DEF Served, done
      <4> QED
        BY <4>4, <4>5
    <3>2. CASE ~Talking(h)
      BY <2>3, <2>4, <3>2 DEF AnswersWith, Refused
    <3> QED
      BY <3>1, <3>2
  <2> QED
    BY <2>3, <2>4
<1> QED
  BY <1>3, <1>8, <1>9, <1>10, <1>11, <1>12 DEF Commands
-----------------------------------------------------------------------------
(* The steps of the chain of events.                                       *)

LEMMA PartIs ==
    ASSUME NEW e \in Events, NEW offset \in Nat
    PROVE  LET p == Part(e, offset)
           IN  /\ p \in Events /\ p.type = e.type /\ p.message = e.message /\ p.size = e.size
               /\ p.type = "message" =>
                     p.offset = offset /\ (p.done <=> offset + Guest!Unit(e.size) = e.size)
<1> DEFINE p == Part(e, offset)
           done == offset + Guest!Unit(e.size) = e.size
<1>1. CASE e.type = "message"
  <2>1. p = [e EXCEPT !.offset = offset, !.done = done]
    BY <1>1 DEF Part, PartialOf
  <2>2. done \in BOOLEAN
    OBVIOUS
  <2> HIDE DEF done, p
  <2>3. p \in Events /\ p.type = e.type /\ p.message = e.message /\ p.size = e.size
        /\ p.offset = offset /\ p.done = done
    BY <2>1, <2>2 DEF Events
  <2> QED
    BY <2>3 DEF done, p
<1>2. CASE e.type # "message"
  BY <1>2 DEF Part
<1> QED
  BY <1>1, <1>2

(* The entry's side of a step in the chain: only the queue may change.      *)
SameEntry(g, h) ==
    /\ SameTalk(g, h) /\ g.messages = h.messages /\ g.native = h.native
    /\ g.failed = h.failed /\ g.disposed = h.disposed

(* Nothing is skipped, unless the socket has failed: then no message is     *)
(* emitted any more.                                                       *)
LEMMA ProceedIs ==
    ASSUME NEW h, IsEntry(h), Proceed(h)
    PROVE  /\ IsEntry(host') /\ SameEntry(host', h)
           /\ DOMAIN emission' = {"stage", "event", "arrived"}
           /\ emission'.stage \in {"idle", "event"} /\ emission'.arrived \in BOOLEAN
           /\ ~emission'.arrived
           /\ emission'.stage = "event" => emission'.event \in Events
           /\ h.failed \/ h.disposed =>
                 ~(emission'.stage = "event" /\ emission'.event.type = "message")
           /\ ~h.failed /\ ~h.disposed =>
                 /\ host'.queue = h.queue
                 /\ h.queue # <<>> => /\ emission'.stage = "event"
                                      /\ emission'.event = Part(h.queue[1], 0)
                 /\ h.queue = <<>> => emission'.stage = "idle"
<1> DEFINE left == {i \in DOMAIN h.queue : ~Skipped(h, h.queue[i])}
<1>1. h.queue \in Seq(Queued)
  BY DEF IsEntry
<1>2. CASE left = {}
  <2>1. host' = [h EXCEPT !.queue = <<>>] /\ emission' = NoEmission
    BY <1>2 DEF Proceed
  <2>2. IsEntry(host') /\ SameEntry(host', h) /\ host'.queue = <<>>
    BY <2>1 DEF IsEntry, SameEntry, SameTalk
  <2>3. /\ DOMAIN emission' = {"stage", "event", "arrived"} /\ emission'.stage = "idle"
        /\ emission'.arrived \in BOOLEAN /\ ~emission'.arrived
    BY <2>1 DEF NoEmission
  <2>4. ~h.failed /\ ~h.disposed => h.queue = <<>>
    <3>1. ASSUME ~h.failed, ~h.disposed, h.queue # <<>>
          PROVE  FALSE
      <4>1. 1 \in DOMAIN h.queue
        BY <1>1, <3>1
      <4> QED
        BY <1>2, <3>1, <4>1 DEF Skipped
    <3> QED
      BY <3>1
  <2> QED
    BY <2>2, <2>3, <2>4
<1>3. CASE left # {}
  <2>1. PICK next \in left :
           /\ \A i \in left : next <= i
           /\ host' = [h EXCEPT !.queue = SubSeq(h.queue, next, Len(h.queue))]
           /\ Emit("event", Part(h.queue[next], 0))
    BY <1>3 DEF Proceed
  <2> DEFINE q == SubSeq(h.queue, next, Len(h.queue))
             e == h.queue[next]
  <2>2. /\ next \in 1 .. Len(h.queue) /\ e \in Queued /\ q \in Seq(Queued) /\ Len(h.queue) \in Nat
    BY <1>1
  <2>3. e \in Events /\ (e.terminal => e.type \in {"error", "close"})
    BY <2>2 DEF Queued
  <2>4. host' = [h EXCEPT !.queue = q]
    BY <2>1
  <2>5. ~Skipped(h, e)
    OBVIOUS
  <2>6. ~h.failed /\ ~h.disposed => next = 1 /\ q = h.queue
    <3>1. ASSUME ~h.failed, ~h.disposed
          PROVE  next = 1
      <4>1. 1 \in left
        BY <1>1, <2>2, <3>1 DEF Skipped
      <4>2. next <= 1
        BY <2>1, <4>1
      <4> QED
        BY <2>2, <4>2
    <3>2. SubSeq(h.queue, 1, Len(h.queue)) = h.queue
      BY <1>1
    <3> QED
      BY <3>1, <3>2
  <2> HIDE DEF q, e, left
  <2>7. IsEntry(host') /\ SameEntry(host', h) /\ host'.queue = q
    BY <2>2, <2>4 DEF IsEntry, SameEntry, SameTalk
  <2>8. emission' = [stage |-> "event", event |-> Part(e, 0), arrived |-> FALSE]
    BY <2>1 DEF Emit, e
  <2>9. Part(e, 0) \in Events /\ Part(e, 0).type = e.type
    BY <2>3, PartIs
  <2>10. /\ DOMAIN emission' = {"stage", "event", "arrived"} /\ emission'.stage = "event"
         /\ emission'.arrived \in BOOLEAN /\ ~emission'.arrived /\ emission'.event = Part(e, 0)
    BY <2>8
  <2>11. h.failed \/ h.disposed => e.type # "message"
    BY <2>3, <2>5 DEF Skipped
  <2>12. ~h.failed /\ ~h.disposed => h.queue # <<>> /\ e = h.queue[1]
    BY <1>1, <2>2, <2>6 DEF e
  <2> QED
    BY <2>6, <2>7, <2>9, <2>10, <2>11, <2>12
<1> QED
  BY <1>2, <1>3

(* Of a socket that has failed, only what is typed counts.                  *)
LEMMA DeadMoves ==
    ASSUME IInv, guest' = guest, call' = call, IsEntry(host'), host'.failed \/ host'.disposed,
           DOMAIN emission' = {"stage", "event", "arrived"},
           emission'.stage \in {"idle", "event", "tellError", "tellClose"},
           emission'.arrived \in BOOLEAN,
           emission'.stage # "idle" => emission'.event \in Events,
           emission'.stage \in {"tellError", "tellClose"} => emission'.event.type \in {"error", "close"},
           ~(emission'.stage = "event" /\ emission'.event.type = "message")
    PROVE  IInv'
<1>1. Emitting' /\ Streaming' /\ Conversation'
  BY DEF Emitting, Crossing, Streaming, Conversation
<1>2. Numbered'
  BY DEF IInv, Numbered, Command
<1>3. Typed' /\ InOrder(guest)'
  BY DEF IInv, Typed, ChainsTyped, InOrder
<1> QED
  BY <1>1, <1>2, <1>3 DEF IInv

LEMMA DeadProceeds ==
    ASSUME IInv, guest' = guest, call' = call, NEW h, IsEntry(h), h.failed \/ h.disposed, Proceed(h)
    PROVE  IInv'
  BY ProceedIs, DeadMoves DEF SameEntry

(* One of the two last events: the socket has failed.                      *)
LEMMA TellKeeps ==
    ASSUME IInv, guest' = guest, call' = call, NEW h, IsEntry(h), h.failed \/ h.disposed,
           NEW stage \in {"tellError", "tellClose"}, NEW type \in {"error", "close"},
           Tell(h, stage, type)
    PROVE  IInv'
<1> DEFINE s == Host!Snapshot(h)
           e == Host!Event(type, 0, 0, TRUE, Host!Report(s))
<1>1. /\ IsEntry(s) /\ Host!Report(s) \in Reports /\ s.failed = h.failed /\ s.disposed = h.disposed
  BY SnapshotIs DEF SameStream
<1>2. host' = s /\ emission' = [stage |-> stage, event |-> e, arrived |-> FALSE]
  BY DEF Tell, Emit
<1> HIDE DEF s
<1>3. e \in Events /\ e.type = type
  BY <1>1 DEF Host!Event, Events, EventTypes
<1> HIDE DEF e
<1>4. /\ DOMAIN emission' = {"stage", "event", "arrived"} /\ emission'.stage = stage
      /\ emission'.event = e /\ emission'.arrived \in BOOLEAN
  BY <1>2
<1> QED
  BY <1>1, <1>2, <1>3, <1>4, DeadMoves

(* The events that are left are in order, and the next one crosses.         *)
Opening(p, c, h) ==
    /\ \A i \in 1 .. p : c[i] = 0
    /\ p = Len(h.queue) + 1 => h.native # "open"
    /\ p <= Len(h.queue) => h.queue[p].type = "open"

LEMMA LiveProceeds ==
    ASSUME IInv, guest' = guest, call' = call, NEW h, IsEntry(h), SameEntry(h, host),
           ~h.failed, ~h.disposed, Proceed(h),
           NEW c \in [1 .. Len(h.queue) + 1 -> Nat], Counts(c, h.queue),
           c[Len(h.queue) + 1] = h.messages,
           guest.state = "open" => Len(guest.seen) = c[1] + 1 /\ guest.incoming = None,
           guest.state = "connecting" => \E p \in 1 .. Len(h.queue) + 1 : Opening(p, c, h)
    PROVE  IInv'
<1>1. /\ IsEntry(host') /\ SameEntry(host', h) /\ host'.queue = h.queue
      /\ DOMAIN emission' = {"stage", "event", "arrived"}
      /\ emission'.stage \in {"idle", "event"} /\ emission'.arrived \in BOOLEAN /\ ~emission'.arrived
      /\ emission'.stage = "event" => emission'.event \in Events
      /\ h.queue # <<>> => emission'.stage = "event" /\ emission'.event = Part(h.queue[1], 0)
      /\ h.queue = <<>> => emission'.stage = "idle"
  BY ProceedIs
<1>2. ~host.failed /\ ~host.disposed
  BY DEF SameEntry
<1>3. ASSUME emission'.stage = "event"
      PROVE  LET e == h.queue[1]
                 p == emission'.event
             IN  /\ h.queue # <<>> /\ p.type = e.type /\ p.message = e.message /\ p.size = e.size
                 /\ p.type = "message" => /\ p.offset = 0
                                          /\ p.done <=> p.offset + Guest!Unit(p.size) = p.size
                                          /\ p.message = c[1] + 1
  <2>1. h.queue # <<>> /\ h.queue \in Seq(Queued)
    BY <1>1, <1>3 DEF IsEntry
  <2>2. 1 \in DOMAIN h.queue /\ h.queue[1] \in Queued
    BY <2>1
  <2>3. h.queue[1].type = "message" => h.queue[1].message = c[1] + 1
    BY <2>2 DEF Counts
  <2> DEFINE e == h.queue[1]
  <2>4. e \in Events /\ emission'.event = Part(e, 0)
    BY <1>1, <2>1, <2>2 DEF Queued
  <2> HIDE DEF e
  <2>5. LET p == Part(e, 0)
        IN  /\ p.type = e.type /\ p.message = e.message /\ p.size = e.size
            /\ p.type = "message" => p.offset = 0 /\ (p.done <=> 0 + Guest!Unit(e.size) = e.size)
    BY <2>4, PartIs
  <2> QED
    BY <2>1, <2>3, <2>4, <2>5 DEF e
<1>4. ~Crossed' /\ (emission'.stage = "event" => emission'.event \in Events)
  BY <1>1 DEF Crossed
<1>5. Emitting'
  BY <1>1, <1>3 DEF Emitting, Crossing, Crossed, HasOf
<1>6. HeadCrosses'
  BY <1>1, <1>3 DEF HeadCrosses
<1>7. Counted(c)'
  <2>1. guest'.state = "connecting" => \E p \in 1 .. Len(host'.queue) + 1 : OpensAt(p, c)'
    BY <1>1 DEF Opening, OpensAt, SameEntry
  <2>2. Counts(c, host'.queue) /\ c[Len(host'.queue) + 1] = host'.messages
    BY <1>1 DEF SameEntry
  <2> QED
    BY <1>4, <2>1, <2>2 DEF Counted
<1>8. Streaming'
  BY <1>1, <1>6, <1>7 DEF Streaming
<1>9. guest.state # "closed" => KeepsTalk
  BY <1>1, <1>2 DEF KeepsTalk, SameEntry, SameTalk, Talking, TransferHeld, AckHeld, IInv,
                    Conversation, Conversing
<1>10. Numbered' /\ Conversation'
  BY <1>9, TalkKeeps DEF IInv, SameChat
<1>11. Typed' /\ InOrder(guest)'
  BY <1>1 DEF IInv, Typed, ChainsTyped, InOrder
<1> QED
  BY <1>5, <1>8, <1>10, <1>11 DEF IInv

LEMMA StartEventKeeps ==
    ASSUME IInv, StartEvent
    PROVE  IInv'
<1>1. emission.stage = "idle" /\ Proceed(host) /\ guest' = guest /\ call' = call
  BY DEF StartEvent
<1>2. CASE host.failed \/ host.disposed
  BY <1>1, <1>2, DeadProceeds DEF IInv, Typed
<1>3. CASE ~host.failed /\ ~host.disposed
  <2>1. PICK c \in [1 .. Len(host.queue) + 1 -> Nat] : Counted(c)
    BY <1>3 DEF IInv, Streaming
  <2>2. guest.state = "open" => Len(guest.seen) = c[1] + 1 /\ guest.incoming = None
    BY <1>1, <1>3, <2>1 DEF IInv, Streaming, Counted, Crossed, Crossing
  <2>3. guest.state = "connecting" => \E p \in 1 .. Len(host.queue) + 1 : Opening(p, c, host)
    BY <2>1 DEF Counted, OpensAt, Opening
  <2>4. SameEntry(host, host) /\ IsEntry(host)
    BY DEF SameEntry, SameTalk, IInv, Typed
  <2> QED
    BY <1>1, <1>3, <2>1, <2>2, <2>3, <2>4, LiveProceeds DEF Counted
<1> QED
  BY <1>2, <1>3

(* The event at the head of the queue has crossed, or is given up.          *)
LEMMA EndEventKeeps ==
    ASSUME IInv, guest' = guest, call' = call, EndEvent(host),
           ~host.failed /\ ~host.disposed =>
              /\ emission.stage = "event" /\ emission.arrived
              /\ emission.event.type = "message" => emission.event.done
    PROVE  IInv'
<1> DEFINE h == [host EXCEPT !.queue = IF @ = <<>> THEN @ ELSE Tail(@)]
<1>1. Proceed(h)
  BY DEF EndEvent
<1>2. host.queue \in Seq(Queued) /\ IsEntry(host)
  BY DEF IInv, Typed, IsEntry
<1>3. (IF host.queue = <<>> THEN host.queue ELSE Tail(host.queue)) \in Seq(Queued)
  BY <1>2
<1>4. /\ IsEntry(h) /\ SameEntry(h, host)
      /\ h.queue = IF host.queue = <<>> THEN host.queue ELSE Tail(host.queue)
  BY <1>2, <1>3 DEF IsEntry, SameEntry, SameTalk
<1> HIDE DEF h
<1>5. CASE host.failed \/ host.disposed
  BY <1>1, <1>4, <1>5, DeadProceeds DEF SameEntry
<1>6. CASE ~host.failed /\ ~host.disposed
  <2> DEFINE n == Len(host.queue)
             q == host.queue
  <2>1. PICK c \in [1 .. n + 1 -> Nat] : Counted(c)
    BY <1>6 DEF IInv, Streaming
  <2>2. /\ q # <<>> /\ q[1].type = emission.event.type
    BY <1>6 DEF IInv, Streaming, HeadCrosses
  <2>3. /\ n \in Nat /\ n >= 1 /\ DOMAIN q = 1 .. n /\ h.queue = Tail(q) /\ Len(h.queue) = n - 1
        /\ DOMAIN h.queue = 1 .. n - 1
        /\ \A i \in 1 .. n - 1 : h.queue[i] = q[i + 1]
    BY <1>2, <1>4, <2>2
  <2>4. PICK d \in [1 .. n -> Nat] : \A i \in 1 .. n : d[i] = c[i + 1]
    <3> DEFINE f == [i \in 1 .. n |-> c[i + 1]]
    <3>1. f \in [1 .. n -> Nat] /\ \A i \in 1 .. n : f[i] = c[i + 1]
      BY <2>3
    <3> HIDE DEF f
    <3> QED
      BY <3>1
  <2> HIDE DEF n, q
  <2>5. Len(h.queue) + 1 = n
    BY <2>3
  <2>6. Counts(d, h.queue)
    <3> SUFFICES ASSUME NEW i \in 1 .. n - 1
                 PROVE  IF h.queue[i].type = "message"
                        THEN d[i + 1] = d[i] + 1 /\ h.queue[i].message = d[i + 1]
                        ELSE d[i + 1] = d[i]
      BY <2>3 DEF Counts
    <3>1. i + 1 \in 1 .. n /\ i \in 1 .. n /\ h.queue[i] = q[i + 1]
      BY <2>3
    <3>2. d[i] = c[i + 1] /\ d[i + 1] = c[(i + 1) + 1]
      BY <2>4, <3>1
    <3>3. IF q[i + 1].type = "message"
          THEN c[(i + 1) + 1] = c[i + 1] + 1 /\ q[i + 1].message = c[(i + 1) + 1]
          ELSE c[(i + 1) + 1] = c[i + 1]
      BY <2>1, <2>3, <3>1 DEF Counted, Counts, q
    <3> QED
      BY <3>1, <3>2, <3>3
  <2>7. d[n] = h.messages
    BY <1>4, <2>1, <2>3, <2>4 DEF Counted, SameEntry, n
  <2>8. guest.state = "open" => Len(guest.seen) = d[1] + 1 /\ guest.incoming = None
    <3> SUFFICES ASSUME guest.state = "open"
                 PROVE  Len(guest.seen) = d[1] + 1 /\ guest.incoming = None
      OBVIOUS
    <3>1. 1 \in DOMAIN q /\ d[1] = c[2] /\ c[1] \in Nat
      BY <2>1, <2>3, <2>4
    <3>2. CASE emission.event.type = "message"
      <4>1. Crossing /\ Crossed
        BY <1>6, <3>2 DEF Crossing, Crossed
      <4>2. c[2] = c[1] + 1
        BY <2>1, <2>2, <3>1, <3>2 DEF Counted, Counts, q
      <4>3. guest.incoming = None
        BY <4>1 DEF IInv, Emitting, HasOf, Crossed
      <4> QED
        BY <2>1, <3>1, <4>1, <4>2, <4>3 DEF Counted
    <3>3. CASE emission.event.type # "message"
      <4>1. ~Crossing /\ ~Crossed
        BY <3>3 DEF Crossing, Crossed
      <4>2. c[2] = c[1]
        BY <2>1, <2>2, <3>1, <3>3 DEF Counted, Counts, q
      <4> QED
        BY <1>6, <2>1, <3>1, <4>1, <4>2 DEF Counted, IInv, Streaming
    <3> QED
      BY <3>2, <3>3
  <2>9. guest.state = "connecting" => \E p \in 1 .. n : Opening(p, d, h)
    <3> SUFFICES ASSUME guest.state = "connecting"
                 PROVE  \E p \in 1 .. n : Opening(p, d, h)
      OBVIOUS
    <3>1. PICK p \in 1 .. n + 1 : OpensAt(p, c)
      BY <2>1 DEF Counted, n
    <3>2. p # 1
      BY <1>6, <2>3, <3>1 DEF OpensAt, n
    <3>3. p - 1 \in 1 .. n /\ p \in Nat /\ p > 1
      BY <2>3, <3>1, <3>2
    <3>4. \A i \in 1 .. p - 1 : d[i] = 0
      <4> TAKE i \in 1 .. p - 1
      <4>1. i + 1 \in 1 .. p /\ i \in 1 .. n
        BY <2>3, <3>3
      <4> QED
        BY <2>4, <3>1, <4>1 DEF OpensAt
    <3>5. p - 1 = Len(h.queue) + 1 => h.native # "open"
      BY <1>4, <2>3, <2>5, <3>1, <3>3 DEF OpensAt, SameEntry, n
    <3>6. p - 1 <= Len(h.queue) => h.queue[p - 1].type = "open"
      <4> SUFFICES ASSUME p - 1 <= n - 1
                   PROVE  h.queue[p - 1].type = "open"
        BY <2>3
      <4>1. h.queue[p - 1] = q[(p - 1) + 1] /\ (p - 1) + 1 = p
        BY <2>3, <3>3
      <4> QED
        BY <2>3, <3>1, <3>3, <4>1 DEF OpensAt, n, q
    <3>7. Opening(p - 1, d, h)
      BY <3>4, <3>5, <3>6 DEF Opening
    <3> QED
      BY <3>3, <3>7
  <2> QED
    BY <1>1, <1>4, <1>6, <2>4, <2>5, <2>6, <2>7, <2>8, <2>9, LiveProceeds DEF SameEntry
<1> QED
  BY <1>5, <1>6

LEMMA AfterTellingKeeps ==
    ASSUME IInv, guest' = guest, call' = call, emission.stage \notin {"idle", "event"},
           AfterTelling(host)
    PROVE  IInv'
<1>1. host.failed \/ host.disposed
  BY DEF IInv, Streaming
<1>2. CASE emission.stage = "tellError" /\ ~host.disposed
  <2>1. Tell(host, "tellClose", "close")
    BY <1>2 DEF AfterTelling
  <2> QED
    BY <1>1, <2>1, TellKeeps DEF IInv, Typed
<1>3. CASE ~(emission.stage = "tellError" /\ ~host.disposed)
  <2>1. EndEvent(host)
    BY <1>3 DEF AfterTelling
  <2> QED
    BY <1>1, <2>1, EndEventKeeps
<1> QED
  BY <1>2, <1>3

(* The next part of a message begins where the guest is.                    *)
LEMMA NextPartKeeps ==
    ASSUME IInv, guest' = guest, call' = call, host' = host,
           emission.stage = "event", emission.arrived,
           emission.event.type = "message", ~emission.event.done,
           Emit("event", Part(emission.event, emission.event.offset + 1))
    PROVE  IInv'
<1> DEFINE e == emission.event
           p == Part(e, e.offset + 1)
<1>1. e \in Events /\ e.offset + 1 \in Nat /\ e.offset \in Nat
  BY DEF IInv, Typed, ChainsTyped, Events
<1>2. /\ p \in Events /\ p.type = "message" /\ p.message = e.message /\ p.size = e.size
      /\ p.offset = e.offset + 1 /\ (p.done <=> p.offset + Guest!Unit(p.size) = p.size)
  BY <1>1, PartIs
<1>3. emission' = [stage |-> "event", event |-> p, arrived |-> FALSE]
  BY DEF Emit
<1> HIDE DEF p
<1>4. /\ DOMAIN emission' = {"stage", "event", "arrived"} /\ emission'.stage = "event"
      /\ emission'.event = p /\ emission'.arrived \in BOOLEAN /\ ~emission'.arrived
  BY <1>3
<1>5. Crossing /\ ~Crossed /\ Crossing' /\ ~Crossed'
  BY <1>2, <1>4 DEF Crossing, Crossed
<1>6. Emitting'
  <2>1. guest.state = "open" =>
           Len(guest.seen) = e.message /\ guest.incoming = Begun(e, e.offset + 1)
    BY <1>5 DEF IInv, Emitting, HasOf
  <2>2. Begun(e, e.offset + 1) = Begun(p, p.offset) /\ p.offset # 0
    BY <1>1, <1>2 DEF Begun
  <2> QED
    BY <1>2, <1>4, <1>5, <2>1, <2>2 DEF Emitting, HasOf
<1>7. Streaming'
  <2> SUFFICES ASSUME ~host.failed, ~host.disposed
               PROVE  /\ emission'.stage \in {"idle", "event"} /\ HeadCrosses'
                      /\ guest'.state = "open" /\ ~Crossing' => guest'.incoming = None
                      /\ \E c \in [1 .. Len(host'.queue) + 1 -> Nat] : Counted(c)'
    BY DEF Streaming
  <2>1. PICK c \in [1 .. Len(host.queue) + 1 -> Nat] : Counted(c)
    BY DEF IInv, Streaming
  <2>2. HeadCrosses'
    BY <1>2, <1>4 DEF IInv, Streaming, HeadCrosses
  <2>3. guest'.state = "connecting" => \E q \in 1 .. Len(host'.queue) + 1 : OpensAt(q, c)'
    BY <1>4, <2>1 DEF Counted, OpensAt
  <2>4. Counted(c)'
    BY <1>5, <2>1, <2>3 DEF Counted
  <2> QED
    BY <1>4, <1>5, <2>1, <2>2, <2>4
<1>8. Numbered' /\ Conversation'
  <2>1. guest.state # "closed" => KeepsTalk
    BY DEF KeepsTalk, IInv, Conversation, Conversing
  <2> QED
    BY <2>1, TalkKeeps DEF IInv, SameChat
<1>9. Typed' /\ InOrder(guest)'
  BY <1>2, <1>4 DEF IInv, Typed, ChainsTyped, InOrder
<1> QED
  BY <1>6, <1>7, <1>8, <1>9 DEF IInv

LEMMA EmittedKeeps ==
    ASSUME IInv, Emitted
    PROVE  IInv'
<1> DEFINE e == emission.event
<1>1. emission.stage # "idle" /\ emission.arrived /\ guest' = guest /\ call' = call
  BY DEF Emitted
<1>2. CASE emission.stage # "event"
  <2>1. AfterTelling(host)
    BY <1>2 DEF Emitted
  <2> QED
    BY <1>1, <1>2, <2>1, AfterTellingKeeps
<1>3. CASE emission.stage = "event" /\ e.type = "message" /\ ~e.done /\ ~host.disposed /\ ~host.failed
  <2>1. Emit("event", Part(e, e.offset + 1)) /\ host' = host
    BY <1>3 DEF Emitted
  <2> QED
    BY <1>1, <1>3, <2>1, NextPartKeeps
<1>4. CASE emission.stage = "event" /\ ~(e.type = "message" /\ ~e.done /\ ~host.disposed /\ ~host.failed)
  <2>1. EndEvent(host)
    BY <1>4 DEF Emitted
  <2> QED
    BY <1>1, <1>4, <2>1, EndEventKeeps
<1> QED
  BY <1>2, <1>3, <1>4

LEMMA EmitFailsKeeps ==
    ASSUME IInv, EmitFails
    PROVE  IInv'
<1>1. emission.stage # "idle" /\ ~host.disposed /\ guest' = guest /\ call' = call
  BY DEF EmitFails
<1>2. CASE emission.stage # "event"
  <2>1. AfterTelling(host)
    BY <1>2 DEF EmitFails
  <2> QED
    BY <1>1, <1>2, <2>1, AfterTellingKeeps
<1>3. CASE emission.stage = "event" /\ host.deliveryFailed
  <2>1. EndEvent(host) /\ (host.failed \/ host.disposed)
    BY <1>3 DEF EmitFails, IInv, Typed, IsEntry
  <2> QED
    BY <1>1, <2>1, EndEventKeeps
<1>4. CASE emission.stage = "event" /\ ~host.deliveryFailed
  <2> DEFINE d == Host!Detach([host EXCEPT !.deliveryFailed = TRUE, !.failed = TRUE])
             r == Host!RememberClosed(d)
             f == Host!DeliveryFailure(host)
  <2>1. Tell(f, "tellError", "error")
    BY <1>4 DEF EmitFails
  <2>2. IsEntry(d) /\ d.failed
    BY DEF Host!Detach, IInv, Typed, IsEntry
  <2>3. f = Host!CloseNative(r)
    BY DEF Host!DeliveryFailure
  <2> HIDE DEF d, f
  <2>4. IsEntry(r) /\ r.failed
    BY <2>2, RememberIs DEF SameStream
  <2> HIDE DEF r
  <2>5. IsEntry(f) /\ f.failed
    BY <2>3, <2>4 DEF Host!CloseNative, IsEntry
  <2> QED
    BY <1>1, <2>1, <2>5, TellKeeps
<1> QED
  BY <1>2, <1>3, <1>4

(* What the guest's socket becomes when the event that crosses arrives: it  *)
(* is closed, or it has taken the event that its place in the stream calls  *)
(* for.                                                                     *)
Takes(g, e) ==
    /\ IsSocket(g) /\ InOrder(g) /\ SameChat(g, guest)
    /\ g.state # "closed" => guest.state # "closed"
    /\ \/ g.state = "closed"
       \/ /\ e.type # "message" \/ guest.state # "open"
          /\ g.state = guest.state /\ g.seen = guest.seen /\ g.incoming = guest.incoming
          /\ g.state = "connecting" => e.type # "open"
       \/ /\ e.type = "open" /\ guest.state = "connecting" /\ g.state = "open"
          /\ Len(g.seen) = 1 /\ g.incoming = None
       \/ /\ e.type = "message" /\ guest.state = "open" /\ g.state = "open"
          /\ IF e.done THEN g.incoming = None /\ Len(g.seen) = Len(guest.seen) + 1
             ELSE g.incoming = Begun(e, e.offset + 1) /\ g.seen = guest.seen

LEMMA DispatchTakes ==
    ASSUME IInv, Dispatch
    PROVE  Takes(guest', emission.event)
<1> DEFINE e == emission.event
           h == Guest!Ack(guest, e.report)
<1>1. /\ emission.stage # "idle" /\ ~emission.arrived /\ guest' = Guest!Dispatch(guest, e)
      /\ IsSocket(guest) /\ InOrder(guest) /\ e \in Events
  BY DEF Dispatch, IInv, Typed, ChainsTyped
<1>2. IsSocket(h) /\ SameView(h, guest) /\ SameChat(h, guest)
  BY <1>1, AckIs DEF Events
<1>3. CASE Guest!Inert(guest)
  <2>1. guest' = guest
    BY <1>1, <1>3 DEF Guest!Dispatch
  <2>2. guest.state = "closed"
    BY <1>1, <1>3 DEF Guest!Inert, InOrder
  <2> QED
    BY <1>1, <2>1, <2>2 DEF Takes, SameChat
<1>4. CASE ~Guest!Inert(guest)
  <2>1. guest.state # "closed" /\ e.type \in EventTypes
    BY <1>1, <1>4 DEF Guest!Inert, Events
  <2>2. /\ e.type = "open" =>
             guest' = IF h.state = "connecting"
                      THEN Guest!See([h EXCEPT !.state = "open"], Guest!Plain("open")) ELSE h
        /\ e.type = "message" => guest' = Guest!Receive(h, e)
        /\ e.type \in {"error", "buffer"} => guest' = h
        /\ e.type = "close" => guest' = Guest!See(Guest!Retire(h), Guest!Plain("close"))
    BY <1>1, <1>4 DEF Guest!Dispatch
  <2> HIDE DEF h
  <2>3. InOrder(h)
    BY <1>1, <1>2 DEF InOrder, SameView
  <2>4. CASE guest' = h /\ (e.type # "message" \/ guest.state # "open") /\ (guest.state = "connecting" => e.type # "open")
    BY <1>2, <2>1, <2>3, <2>4 DEF Takes, SameView
  <2>5. CASE e.type = "open" /\ h.state = "connecting"
    <3> DEFINE o == [h EXCEPT !.state = "open"]
               event == Guest!Plain("open")
    <3>1. guest' = Guest!See(o, event)
      BY <2>2, <2>5
    <3>2. /\ IsSocket(o) /\ o.state = "open" /\ o.incoming = h.incoming /\ o.disposed = h.disposed
          /\ o.farewell = h.farewell /\ o.broken = h.broken /\ o.seen = h.seen /\ SameChat(o, h)
      BY <1>2 DEF IsSocket, SameChat
    <3>3. event \in Sights /\ event.type = "open"
      BY DEF Guest!Plain, Sights
    <3>4. h.seen = <<>> /\ h.incoming = None /\ ~h.broken /\ ~h.disposed /\ ~h.farewell
      BY <2>3, <2>5 DEF InOrder
    <3> HIDE DEF o, event
    <3>5. /\ IsSocket(guest') /\ guest'.state = "open" /\ guest'.incoming = None
          /\ ~guest'.disposed /\ ~guest'.farewell /\ ~guest'.broken
          /\ SameChat(guest', guest)
          /\ Len(guest'.seen) = 1 /\ guest'.seen[1] = event /\ DOMAIN guest'.seen = 1 .. 1
      <4>1. Len(o.seen) = 0
        BY <3>2, <3>4
      <4>2. /\ IsSocket(guest') /\ guest'.state = o.state /\ guest'.incoming = o.incoming
            /\ guest'.disposed = o.disposed /\ guest'.farewell = o.farewell
            /\ guest'.broken = o.broken
            /\ guest'.commands = o.commands /\ guest'.sequence = o.sequence
            /\ Len(guest'.seen) = Len(o.seen) + 1
            /\ guest'.seen[Len(o.seen) + 1] = event
            /\ DOMAIN guest'.seen = 1 .. Len(o.seen) + 1
        <5>1. Sees(o, guest', event)
          BY <3>1, <3>2, <3>3, SeeIs
        <5> QED
          BY <5>1 DEF Sees
      <4>3. Len(o.seen) + 1 = 1
        BY <4>1
      <4>4. Len(guest'.seen) = 1 /\ guest'.seen[1] = event /\ DOMAIN guest'.seen = 1 .. 1
        BY <4>2, <4>3
      <4> QED
        BY <1>2, <3>2, <3>4, <4>2, <4>4 DEF SameChat
    <3>6. InOrder(guest')
      BY <3>3, <3>5 DEF InOrder
    <3> QED
      BY <1>2, <2>1, <2>5, <3>5, <3>6 DEF Takes, SameView
  <2>6. CASE e.type = "message" /\ guest.state # "open"
    <3>1. guest' = [h EXCEPT !.incoming = Guest!None]
      BY <1>2, <2>2, <2>6 DEF Guest!Receive, SameView
    <3>2. h.incoming = None
      BY <1>2, <2>3, <2>6 DEF InOrder, SameView
    <3>3. /\ IsSocket(guest') /\ guest'.state = h.state /\ guest'.incoming = None
          /\ guest'.disposed = h.disposed /\ guest'.farewell = h.farewell
          /\ guest'.broken = h.broken /\ guest'.seen = h.seen /\ SameChat(guest', h)
      BY <1>2, <3>1 DEF IsSocket, SameChat, Guest!None, None
    <3>4. InOrder(guest')
      BY <2>3, <3>2, <3>3 DEF InOrder
    <3> QED
      BY <1>2, <2>1, <2>6, <3>2, <3>3, <3>4 DEF Takes, SameView, SameChat
  <2>7. CASE e.type = "message" /\ guest.state = "open"
    <3>1. Crossing /\ ~Crossed
      BY <1>1, <2>7 DEF Crossing, Crossed, IInv, Typed, ChainsTyped
    <3>2. /\ e.done <=> e.offset + Guest!Unit(e.size) = e.size
          /\ Len(h.seen) = e.message /\ h.state = "open"
          /\ h.incoming = IF e.offset = 0 THEN None ELSE Begun(e, e.offset)
      BY <1>1, <1>2, <2>7, <3>1 DEF IInv, Emitting, HasOf, SameView
    <3>3. /\ IsSocket(guest') /\ InOrder(guest') /\ guest'.state = "open" /\ SameChat(guest', h)
          /\ IF e.done THEN guest'.incoming = None /\ Len(guest'.seen) = e.message + 1
             ELSE guest'.incoming = Begun(e, e.offset + 1) /\ guest'.seen = h.seen
      BY <1>1, <1>2, <2>2, <2>3, <2>7, <3>2, ReceiveIs
    <3> QED
      BY <1>2, <2>1, <2>7, <3>2, <3>3 DEF Takes, SameView, SameChat
  <2>8. CASE e.type = "close"
    <3> DEFINE r == Guest!Retire(h)
    <3>1. /\ IsSocket(r) /\ r.state = "closed" /\ r.incoming = None /\ SameChat(r, h)
          /\ r.seen = h.seen /\ r.broken = h.broken
      BY <1>2, RetireIs
    <3>2. guest' = Guest!See(r, Guest!Plain("close"))
      BY <2>2, <2>8
    <3> HIDE DEF r
    <3>3. h.state # "closed"
      BY <1>2, <2>1 DEF SameView
    <3>4. IsSocket(guest') /\ InOrder(guest') /\ guest'.state = "closed" /\ SameChat(guest', r)
      BY <1>2, <2>3, <3>1, <3>2, <3>3, CloseSeen
    <3> QED
      BY <1>2, <3>1, <3>4 DEF Takes, SameChat
  <2> QED
    BY <1>2, <2>1, <2>2, <2>4, <2>5, <2>6, <2>7, <2>8 DEF EventTypes, SameView
<1> QED
  BY <1>3, <1>4

LEMMA DispatchKeeps ==
    ASSUME IInv, Dispatch
    PROVE  IInv'
<1> DEFINE e == emission.event
<1>1. /\ emission.stage # "idle" /\ ~emission.arrived /\ host' = host /\ call' = call
      /\ emission' = [emission EXCEPT !.arrived = TRUE]
  BY DEF Dispatch
<1>2. Takes(guest', e)
  BY DispatchTakes
<1>3. /\ DOMAIN emission' = {"stage", "event", "arrived"} /\ emission'.stage = emission.stage
      /\ emission'.event = e /\ emission'.arrived \in BOOLEAN /\ emission'.arrived
  BY <1>1 DEF IInv, Typed, ChainsTyped
<1>4. /\ Crossing' <=> Crossing
      /\ ~Crossed /\ (Crossed' <=> Crossing /\ e.done)
  BY <1>1, <1>3 DEF Crossing, Crossed
<1>5. Emitting'
  <2>1. Crossing => (e.done <=> e.offset + Guest!Unit(e.size) = e.size)
    BY DEF IInv, Emitting
  <2>2. ASSUME Crossing, guest'.state = "open"
        PROVE  /\ Len(guest'.seen) = IF Crossed' THEN e.message + 1 ELSE e.message
               /\ guest'.incoming = IF e.done THEN None ELSE Begun(e, e.offset + 1)
    <3>1. e.type = "message"
      BY <2>2 DEF Crossing
    <3>2. /\ guest.state = "open" /\ IF e.done
             THEN guest'.incoming = None /\ Len(guest'.seen) = Len(guest.seen) + 1
             ELSE guest'.incoming = Begun(e, e.offset + 1) /\ guest'.seen = guest.seen
      BY <1>2, <2>2, <3>1 DEF Takes
    <3>3. Len(guest.seen) = e.message
      BY <1>4, <2>2, <3>2 DEF IInv, Emitting
    <3> QED
      BY <1>4, <2>2, <3>2, <3>3
  <2> QED
    BY <1>3, <1>4, <2>1, <2>2 DEF Emitting, HasOf
<1>6. Streaming'
  <2> SUFFICES ASSUME ~host.failed, ~host.disposed
               PROVE  /\ emission'.stage \in {"idle", "event"} /\ HeadCrosses'
                      /\ guest'.state = "open" /\ ~Crossing' => guest'.incoming = None
                      /\ \E c \in [1 .. Len(host'.queue) + 1 -> Nat] : Counted(c)'
    BY <1>1 DEF Streaming
  <2>1. PICK c \in [1 .. Len(host.queue) + 1 -> Nat] : Counted(c)
    BY DEF IInv, Streaming
  <2>2. HeadCrosses /\ emission.stage = "event"
    BY <1>1 DEF IInv, Streaming
  <2>3. HeadCrosses'
    BY <1>1, <1>3, <2>2 DEF HeadCrosses
  <2>4. Crossing <=> e.type = "message"
    BY <2>2 DEF Crossing
  <2>5. guest'.state = "open" /\ ~Crossing' => guest'.incoming = None
    BY <1>2, <1>4, <2>4 DEF Takes, IInv, Streaming
  <2>6. c[1] \in Nat
    BY <2>1 DEF IInv, Typed, IsEntry
  <2>7. guest'.state = "open" => Len(guest'.seen) = c[1] + IF Crossed' THEN 2 ELSE 1
    <3> SUFFICES ASSUME guest'.state = "open"
                 PROVE  Len(guest'.seen) = c[1] + IF Crossed' THEN 2 ELSE 1
      OBVIOUS
    <3>1. CASE guest.state = "open"
      BY <1>2, <1>4, <2>1, <2>4, <2>6, <3>1 DEF Takes, Counted
    <3>2. CASE guest.state # "open"
      <4>1. e.type = "open" /\ guest.state = "connecting" /\ Len(guest'.seen) = 1
        BY <1>2, <3>2 DEF Takes
      <4>2. c[1] = 0
        <5>1. PICK p \in 1 .. Len(host.queue) + 1 : OpensAt(p, c)
          BY <2>1, <4>1 DEF Counted
        <5>2. 1 \in 1 .. p
          BY <5>1
        <5> QED
          BY <5>1, <5>2 DEF OpensAt
      <4> QED
        BY <1>4, <2>4, <4>1, <4>2
    <3> QED
      BY <3>1, <3>2
  <2>8. guest'.state = "connecting" => \E p \in 1 .. Len(host'.queue) + 1 : OpensAt(p, c)'
    <3> SUFFICES ASSUME guest'.state = "connecting"
                 PROVE  \E p \in 1 .. Len(host'.queue) + 1 : OpensAt(p, c)'
      OBVIOUS
    <3>1. guest.state = "connecting" /\ e.type # "open"
      BY <1>2 DEF Takes
    <3>2. PICK p \in 1 .. Len(host.queue) + 1 : OpensAt(p, c)
      BY <2>1, <3>1 DEF Counted
    <3>3. p <= Len(host.queue) => p # 1
      BY <2>2, <3>1, <3>2 DEF OpensAt, HeadCrosses
    <3>4. OpensAt(p, c)'
      BY <1>1, <3>2, <3>3 DEF OpensAt
    <3> QED
      BY <1>1, <3>4
  <2>9. Counted(c)'
    BY <1>1, <2>1, <2>7, <2>8 DEF Counted
  <2> QED
    BY <1>1, <1>3, <2>1, <2>2, <2>3, <2>5, <2>9
<1>7. Numbered' /\ Conversation'
  <2>1. guest.state # "closed" => KeepsTalk
    BY <1>1 DEF KeepsTalk, IInv, Conversation, Conversing
  <2> QED
    BY <1>1, <1>2, <2>1, TalkKeeps DEF IInv, Takes
<1>8. Typed' /\ InOrder(guest)'
  BY <1>1, <1>2, <1>3 DEF IInv, Typed, ChainsTyped, Takes, SameChat
<1> QED
  BY <1>5, <1>6, <1>7, <1>8 DEF IInv
-----------------------------------------------------------------------------
LEMMA IInvInit ==
    ASSUME Init
    PROVE  IInv
<1> DEFINE open == Guest!Command("open", 0, 0)
<1>1. open = [op |-> "open", sequence |-> 0, size |-> 0] /\ open \in Commands
  BY DEF Guest!Command, Commands
<1>2. /\ guest = Guest!NewSocket /\ host = Host!NoEntry /\ call = NoCall /\ emission = NoEmission
  BY DEF Init
<1>3. /\ guest = [state |-> "connecting", pending |-> <<>>, pendingBytes |-> 0, hostBuffered |-> 0,
                  discarded |-> 0, sequence |-> 0, snapshot |-> 0, commands |-> <<open>>,
                  incoming |-> None, disposed |-> FALSE, farewell |-> FALSE,
                  seen |-> <<>>, accepted |-> 0, broken |-> FALSE]
      /\ host = [live |-> FALSE, native |-> "none", buffered |-> 0, transmitted |-> 0, snapshot |-> 0,
                 ack |-> 0, messages |-> 0, transfer |-> None, queue |-> <<>>, failed |-> FALSE,
                 deliveryFailed |-> FALSE, poll |-> FALSE, record |-> None, disposed |-> FALSE]
      /\ emission = [stage |-> "idle", event |-> None, arrived |-> FALSE]
  BY <1>2 DEF Guest!NewSocket, Host!NoEntry, NoEmission, Guest!None, Host!None, None
<1> HIDE DEF open
<1>4. IsEntry(host)
  BY <1>3 DEF IsEntry
<1>5. IsSocket(guest) /\ InOrder(guest)
  BY <1>1, <1>3 DEF IsSocket, InOrder
<1>6. ChainsTyped /\ call.phase = "idle"
  <2>1. /\ DOMAIN emission = {"stage", "event", "arrived"} /\ emission.stage = "idle"
        /\ emission.arrived \in BOOLEAN
    BY <1>3
  <2> QED
    BY <1>2, <2>1, NoCallIs DEF ChainsTyped
<1>7. Emitting
  BY <1>3 DEF Emitting, Crossing
<1>8. Streaming
  <2>1. PICK c \in [1 .. Len(host.queue) + 1 -> Nat] : c[1] = 0
    <3> DEFINE f == [i \in 1 .. Len(host.queue) + 1 |-> 0]
    <3>1. f \in [1 .. Len(host.queue) + 1 -> Nat] /\ f[1] = 0
      BY <1>3
    <3> HIDE DEF f
    <3> QED
      BY <3>1
  <2>2. Len(host.queue) = 0 /\ host.queue = <<>> /\ host.messages = 0 /\ host.native = "none"
        /\ guest.state = "connecting"
    BY <1>3
  <2>3. OpensAt(1, c)
    BY <2>1, <2>2 DEF OpensAt
  <2>4. Counted(c)
    BY <2>1, <2>2, <2>3 DEF Counted, Counts
  <2> QED
    BY <1>3, <2>1, <2>4 DEF Streaming, HeadCrosses
<1>9. Numbered
  BY <1>1, <1>3, <1>6 DEF Numbered
<1>10. Conversation
  <2>1. ~Talking(host) /\ host.transfer = None /\ host.ack = 0 /\ ~host.live
    BY <1>3 DEF Talking
  <2> QED
    BY <1>6, <2>1 DEF Conversation, Conversing, NotOpened
<1> QED
  BY <1>4, <1>5, <1>6, <1>7, <1>8, <1>9, <1>10 DEF IInv, Typed

LEMMA IInvStutters ==
    ASSUME IInv, UNCHANGED vars
    PROVE  IInv'
<1>1. host' = host /\ guest' = guest /\ call' = call /\ emission' = emission
  BY DEF vars
<1>2. guest.state # "closed" => KeepsTalk
  BY <1>1 DEF KeepsTalk, IInv, Conversation, Conversing
<1> QED
  BY <1>1, <1>2, HostMoves DEF IInv, Typed, Quiet

LEMMA IInvNext ==
    ASSUME IInv, [Next]_vars
    PROVE  IInv'
<1>1. CASE \E size \in SendSizes : Send(size)
  BY <1>1, SendKeeps
<1>2. CASE \E crowded \in BOOLEAN, size \in MessageSizes : NativeMessage(size, crowded)
  BY <1>2, NativeMessageKeeps
<1>3. CASE Close
  BY <1>3, CloseKeeps
<1>4. CASE GuestStep
  BY <1>4, IssueKeeps, ReturnKeeps, FarewellKeeps, DispatchKeeps, DisposeGuestKeeps DEF GuestStep
<1>5. CASE HostStep
  BY <1>5, HostAnswersKeeps, StartEventKeeps, EmittedKeeps DEF HostStep
<1>6. CASE EmitFails
  BY <1>6, EmitFailsKeeps
<1>7. CASE \E crowded \in BOOLEAN : NativeOpens(crowded) \/ NativeError(crowded) \/ PollFires(crowded)
  BY <1>7, NativeOpensKeeps, NativeErrorKeeps, PollFiresKeeps
<1>8. CASE NativeCloses \/ Transmit \/ DisposeHost
  BY <1>8, NativeClosesKeeps, TransmitKeeps, DisposeHostKeeps
<1>9. CASE UNCHANGED vars
  BY <1>9, IInvStutters
<1> QED
  BY <1>1, <1>2, <1>3, <1>4, <1>5, <1>6, <1>7, <1>8, <1>9 DEF Next

(* The invariant holds of every state.                                     *)
LEMMA IInvHolds == Spec => []IInv
<1>1. Init => IInv
  BY IInvInit
<1>2. IInv /\ [Next]_vars => IInv'
  BY IInvNext
<1> QED
  BY <1>1, <1>2, PTL DEF Spec

(* Whatever the sizes, the limits and the number of events lost, the        *)
(* program sees the open event first, then the peer's messages, each whole, *)
(* in their order and without a gap, and nothing after the close event.     *)
THEOREM EventsArriveInOrder == Spec => []EventsInOrder
<1>1. IInv => EventsInOrder
  BY DEF IInv, InOrder, EventsInOrder
<1> QED
  BY <1>1, IInvHolds, PTL

(* However the closing of a socket races with the guest's commands, the     *)
(* host refuses none of them but after a failure, or when nothing is left   *)
(* of the socket to answer for it.                                          *)
THEOREM RacesAreAnswered == Spec => []RacesAnswered
<1>1. IInv => RacesAnswered
  BY DEF IInv, Conversation, Conversing, Talking, RacesAnswered, Host!None, None
<1> QED
  BY <1>1, IInvHolds, PTL
=============================================================================
