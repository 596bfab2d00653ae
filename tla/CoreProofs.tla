---------------------------- MODULE CoreProofs -----------------------------
(***************************************************************************)
(* src/core.ts: the handles of a host callback, for any arguments and any  *)
(* operations, and the startup of a sandbox, for any number of globals.    *)
(*                                                                         *)
(* Callbacks: the settlement finds the value it is to convert, and only an *)
(* operation on a borrowed handle that nobody waits for can meet a dead    *)
(* operand.  What the host may still use is live in the bridge             *)
(* (UsableIsLive), because a release waits in the queue behind every       *)
(* operation that was sent before it (NoneReleasedBefore); and while the   *)
(* callback waits for an operation it cannot return, so that its scope     *)
(* ends after the operation (OneAwaited).                                  *)
(*                                                                         *)
(* Startup: what follows the race is one control flow (Stages), whatever   *)
(* jobs of initialization are still queued around it.  The timer is a task *)
(* of its own, so nothing can slip between it and the end of the race, and *)
(* an engine that comes later finds the sandbox closed (TimedOut).         *)
(***************************************************************************)
EXTENDS CallbackScope, Startup, SequenceTheorems, TLAPS

Kinds == {"use", "dup", "release"}
Commands == [kind : Kinds, on : Args \cup Copies, n : Nat \ {0}, awaited : BOOLEAN]
Results == Args \cup Copies \cup {Data, Failure}

ScopeTyped ==
    /\ phase \in {"running", "returning", "settled"}
    /\ returned \in known \cup {Data}
    /\ Args \subseteq known /\ known \subseteq Args \cup Copies
    /\ disposed \subseteq known
    /\ queue \in Seq(Commands)
    /\ controls \in Seq(Results) /\ Len(controls) <= 1
    /\ sent \in Nat /\ awaiting \in Nat
    /\ controls # <<>> => phase = "settled"
    /\ phase = "settled" => Args \subseteq disposed

(* What the host may still use has a value, and so has a result on its way *)
(* to the guest.                                                           *)
UsableIsLive == Usable \subseteq live
SettlesWithValue == controls # <<>> => Head(controls) \in live \cup {Data, Failure}

(* A release is queued once its handle is disposed of, and behind every    *)
(* operation on it.                                                        *)
NoneReleasedBefore ==
    \A i, j \in DOMAIN queue :
        queue[i].kind = "release" =>
            /\ queue[i].on \in disposed
            /\ queue[j].kind # "release" /\ i < j => queue[i].on # queue[j].on

(* The operand of a queued operation is live, but for a borrowed handle    *)
(* whose scope has ended.                                                  *)
OperandsLive ==
    \A i \in DOMAIN queue :
        queue[i].kind # "release" =>
            queue[i].on \in live \/ (queue[i].on \in Args /\ phase = "settled")

(* Commands are numbered.  The callback waits for one at most, and does    *)
(* not return before it has run.                                           *)
Numbered ==
    /\ \A i \in DOMAIN queue : queue[i].n <= sent
    /\ \A i, j \in DOMAIN queue : queue[i].n = queue[j].n => i = j
    /\ awaiting <= sent
OneAwaited ==
    /\ \A i \in DOMAIN queue : queue[i].awaited => queue[i].n = awaiting
    /\ awaiting # 0 => phase = "running"

IInv == /\ ScopeTyped /\ UsableIsLive /\ SettlesWithValue
        /\ NoneReleasedBefore /\ OperandsLive /\ Numbered /\ OneAwaited
        /\ ReturnedHandleConverts /\ AwaitedOperationsSucceed
-----------------------------------------------------------------------------
(* The queue after a command is sent, and after one has run.               *)
LEMMA QueueGrows ==
    ASSUME ScopeTyped, NEW op \in Commands, queue' = Append(queue, op)
    PROVE  /\ queue' \in Seq(Commands)
           /\ Len(queue) \in Nat /\ DOMAIN queue = 1 .. Len(queue)
           /\ DOMAIN queue' = 1 .. (Len(queue) + 1)
           /\ \A i \in 1 .. Len(queue) : queue'[i] = queue[i]
           /\ queue'[Len(queue) + 1] = op
    BY AppendProperties DEF ScopeTyped

LEMMA QueueShrinks ==
    ASSUME ScopeTyped, queue # <<>>, queue' = Tail(queue)
    PROVE  /\ queue' \in Seq(Commands)
           /\ Len(queue) \in Nat \ {0} /\ DOMAIN queue = 1 .. Len(queue)
           /\ Head(queue) = queue[1] /\ queue[1] \in Commands
           /\ DOMAIN queue' = 1 .. (Len(queue) - 1)
           /\ \A i \in 1 .. (Len(queue) - 1) : queue'[i] = queue[i + 1]
<1>1. queue \in Seq(Commands)
    BY DEF ScopeTyped
<1>2. Len(queue) \in Nat \ {0} /\ DOMAIN queue = 1 .. Len(queue)
    BY <1>1, EmptySeq
<1> QED
    BY <1>1, <1>2, HeadTailProperties

LEMMA QueuedAreNumbered ==
    ASSUME ScopeTyped
    PROVE  \A i \in DOMAIN queue : queue[i].n \in Nat \ {0}
<1> SUFFICES ASSUME NEW i \in DOMAIN queue PROVE queue[i].n \in Nat \ {0}
    OBVIOUS
<1>1. queue[i] \in Commands
    BY ElementOfSeq DEF ScopeTyped
<1> QED
    BY <1>1 DEF Commands

(* An operation is sent behind those that were sent before, with the next  *)
(* number and an operand the host may use.                                 *)
LEMMA OperateKeeps ==
    ASSUME IInv, NEW kind \in {"use", "dup"}, NEW h \in known, NEW wait \in BOOLEAN, Operate(kind, h, wait)
    PROVE  IInv'
<1> DEFINE op == [kind |-> kind, on |-> h, n |-> sent + 1, awaited |-> wait]
           last == Len(queue) + 1
<1>1. /\ ScopeTyped /\ sent \in Nat /\ h \in Usable /\ h \in live
    BY DEF IInv, ScopeTyped, Operate, UsableIsLive
<1>2. op \in Commands
    BY <1>1 DEF Commands, Kinds, ScopeTyped
<1>3. /\ queue' \in Seq(Commands)
      /\ Len(queue) \in Nat /\ DOMAIN queue = 1 .. Len(queue)
      /\ DOMAIN queue' = 1 .. last
      /\ \A i \in 1 .. Len(queue) : queue'[i] = queue[i]
      /\ queue'[last] = op
    BY <1>1, <1>2, QueueGrows DEF Operate
<1>4. /\ op.kind = kind /\ op.on = h /\ op.n = sent + 1 /\ op.awaited = wait
      /\ sent' = sent + 1
      /\ awaiting' = IF wait THEN sent + 1 ELSE awaiting
      /\ wait => phase = "running" /\ awaiting = 0
      /\ UNCHANGED <<phase, returned, known, disposed, controls, live, failed, delivered>>
    BY DEF Operate
<1> HIDE DEF op
<1>5. ScopeTyped'
    BY <1>1, <1>3, <1>4 DEF ScopeTyped
<1>6. UsableIsLive' /\ SettlesWithValue' /\ ReturnedHandleConverts' /\ AwaitedOperationsSucceed'
    BY <1>4 DEF IInv, UsableIsLive, Usable, SettlesWithValue, ReturnedHandleConverts, AwaitedOperationsSucceed
<1>7. NoneReleasedBefore'
    BY <1>1, <1>3, <1>4 DEF IInv, NoneReleasedBefore, Usable
<1>8. OperandsLive'
    BY <1>1, <1>3, <1>4 DEF IInv, OperandsLive
<1>9. Numbered'
  <2>1. \A i \in DOMAIN queue : queue[i].n \in Nat /\ queue[i].n <= sent
    BY <1>1, QueuedAreNumbered DEF IInv, Numbered
  <2>2. awaiting \in Nat /\ awaiting <= sent
    BY DEF IInv, Numbered, ScopeTyped
  <2> QED
    BY <1>1, <1>3, <1>4, <2>1, <2>2 DEF IInv, Numbered
<1>10. OneAwaited'
  <2>1. \A i \in DOMAIN queue : queue[i].n \in Nat \ {0}
    BY <1>1, QueuedAreNumbered
  <2>2. wait => \A i \in DOMAIN queue : ~queue[i].awaited
    BY <1>4, <2>1 DEF IInv, OneAwaited
  <2> QED
    BY <1>1, <1>3, <1>4, <2>2 DEF IInv, OneAwaited
<1> QED
    BY <1>5, <1>6, <1>7, <1>8, <1>9, <1>10 DEF IInv

(* A release is sent behind them too, and the handle is not used again.    *)
LEMMA DisposeKeeps ==
    ASSUME IInv, NEW h \in known, DisposeHandle(h)
    PROVE  IInv'
<1> DEFINE op == [kind |-> "release", on |-> h, n |-> sent + 1, awaited |-> FALSE]
           last == Len(queue) + 1
<1>1. ScopeTyped /\ sent \in Nat /\ h \in Usable
    BY DEF IInv, ScopeTyped, DisposeHandle
<1>2. op \in Commands
    BY <1>1 DEF Commands, Kinds, ScopeTyped
<1>3. /\ queue' \in Seq(Commands)
      /\ Len(queue) \in Nat /\ DOMAIN queue = 1 .. Len(queue)
      /\ DOMAIN queue' = 1 .. last
      /\ \A i \in 1 .. Len(queue) : queue'[i] = queue[i]
      /\ queue'[last] = op
    BY <1>1, <1>2, QueueGrows DEF DisposeHandle
<1>4. /\ op.kind = "release" /\ op.on = h /\ op.n = sent + 1 /\ ~op.awaited
      /\ sent' = sent + 1
      /\ disposed' = disposed \cup {h}
      /\ UNCHANGED <<phase, returned, known, controls, live, awaiting, failed, delivered>>
    BY DEF DisposeHandle
<1> HIDE DEF op
<1>5. ScopeTyped'
    BY <1>1, <1>3, <1>4 DEF ScopeTyped
<1>6. UsableIsLive' /\ SettlesWithValue' /\ ReturnedHandleConverts' /\ AwaitedOperationsSucceed'
    BY <1>4 DEF IInv, UsableIsLive, Usable, SettlesWithValue, ReturnedHandleConverts, AwaitedOperationsSucceed
<1>7. NoneReleasedBefore'
    BY <1>1, <1>3, <1>4 DEF IInv, NoneReleasedBefore
<1>8. OperandsLive'
    BY <1>1, <1>3, <1>4 DEF IInv, OperandsLive
<1>9. Numbered'
  <2>1. \A i \in DOMAIN queue : queue[i].n \in Nat /\ queue[i].n <= sent
    BY <1>1, QueuedAreNumbered DEF IInv, Numbered
  <2>2. awaiting \in Nat /\ awaiting <= sent
    BY DEF IInv, Numbered, ScopeTyped
  <2> QED
    BY <1>1, <1>3, <1>4, <2>1, <2>2 DEF IInv, Numbered
<1>10. OneAwaited'
    BY <1>1, <1>3, <1>4 DEF IInv, OneAwaited
<1> QED
    BY <1>5, <1>6, <1>7, <1>8, <1>9, <1>10 DEF IInv

(* The callback returns and its scope ends: it waits for nothing by then,  *)
(* and what it returned is disposed of or live.                            *)
LEMMA ReturnKeeps ==
    ASSUME IInv, NEW r \in known \cup {Data}, Return(r)
    PROVE  IInv'
<1>1. /\ phase = "running" /\ phase' = "returning" /\ returned' = r /\ awaiting = 0
      /\ UNCHANGED <<known, disposed, queue, controls, live, sent, awaiting, failed, delivered>>
    BY DEF Return
<1> QED
    BY <1>1 DEF IInv, ScopeTyped, UsableIsLive, Usable, SettlesWithValue, NoneReleasedBefore, OperandsLive,
                Numbered, OneAwaited, ReturnedHandleConverts, AwaitedOperationsSucceed

LEMMA SettleKeeps ==
    ASSUME IInv, SettleCall
    PROVE  IInv'
<1>1. /\ phase = "returning" /\ phase' = "settled"
      /\ controls' = Append(controls, Input(returned))
      /\ disposed' = disposed \cup Args
      /\ UNCHANGED <<returned, known, queue, live, sent, awaiting, failed, delivered>>
    BY DEF SettleCall, MaySettle, AfterReturn
<1>2. controls = <<>>
    BY <1>1 DEF IInv, ScopeTyped
<1>3. Input(returned) \in Results
    BY DEF IInv, ScopeTyped, Input, Results
<1>4. controls' = <<Input(returned)>>
    BY <1>1, <1>2
<1>5. controls' \in Seq(Results) /\ Len(controls') = 1 /\ Head(controls') = Input(returned)
    BY <1>3, <1>4
<1>6. Input(returned) \in live \cup {Data, Failure}
    BY DEF IInv, ScopeTyped, UsableIsLive, Usable, Input
<1>7. ScopeTyped'
    BY <1>1, <1>5 DEF IInv, ScopeTyped
<1>8. UsableIsLive' /\ SettlesWithValue'
    BY <1>1, <1>5, <1>6 DEF IInv, UsableIsLive, Usable, SettlesWithValue
<1> QED
    BY <1>1, <1>7, <1>8 DEF IInv, NoneReleasedBefore, OperandsLive, Numbered, OneAwaited,
                            ReturnedHandleConverts, AwaitedOperationsSucceed

LEMMA LenIsOne ==
    ASSUME NEW S, NEW s \in Seq(S), s # <<>>, Len(s) <= 1
    PROVE  Len(s) = 1
<1>1. Len(s) \in Nat /\ Len(s) # 0
    BY EmptySeq
<1> QED
    BY <1>1

(* The settlement runs: the borrowed handles go, and nobody uses them.     *)
LEMMA ControlKeeps ==
    ASSUME IInv, RunControl
    PROVE  IInv'
<1>1. /\ controls # <<>> /\ controls' = Tail(controls)
      /\ live' = live \ Args
      /\ UNCHANGED <<phase, returned, known, disposed, sent, queue, awaiting, failed>>
    BY DEF RunControl, AfterSettle, hostVars
<1>2. phase = "settled" /\ Args \subseteq disposed
    BY <1>1 DEF IInv, ScopeTyped
<1>3. controls' \in Seq(Results) /\ controls' = <<>>
  <2>1. controls \in Seq(Results) /\ Len(controls) = 1
    BY <1>1, LenIsOne DEF IInv, ScopeTyped
  <2>2. Tail(controls) \in Seq(Results) /\ Len(Tail(controls)) = 0
    BY <1>1, <2>1, HeadTailProperties
  <2> QED
    BY <1>1, <2>2, EmptySeq
<1>4. delivered' # "invalid"
    BY <1>1 DEF RunControl, AtConversion, IInv, SettlesWithValue
<1>5. ScopeTyped'
    BY <1>1, <1>3 DEF IInv, ScopeTyped
<1>6. UsableIsLive' /\ SettlesWithValue'
    BY <1>1, <1>2, <1>3 DEF IInv, UsableIsLive, Usable, SettlesWithValue
<1>7. OperandsLive'
    BY <1>1, <1>2 DEF IInv, OperandsLive
<1> QED
    BY <1>1, <1>4, <1>5, <1>6, <1>7 DEF IInv, NoneReleasedBefore, Numbered, OneAwaited,
                            ReturnedHandleConverts, AwaitedOperationsSucceed

(* A command runs.  What is left of the queue keeps its order; a release    *)
(* takes a value that nothing behind it needs, and an operand that is dead *)
(* is one of a scope that has ended.                                       *)
LEMMA CommandKeeps ==
    ASSUME IInv, RunCommand
    PROVE  IInv'
<1> DEFINE op == queue[1]
<1>1. /\ queue # <<>> /\ queue' = Tail(queue) /\ controls = <<>>
      /\ UNCHANGED <<phase, returned, disposed, sent, controls, delivered>>
    BY DEF RunCommand, CommandMayRun
<1>2. /\ ScopeTyped
      /\ queue' \in Seq(Commands)
      /\ Len(queue) \in Nat \ {0} /\ DOMAIN queue = 1 .. Len(queue)
      /\ Head(queue) = op /\ op \in Commands
      /\ DOMAIN queue' = 1 .. (Len(queue) - 1)
      /\ \A i \in 1 .. (Len(queue) - 1) : queue'[i] = queue[i + 1]
    BY <1>1, QueueShrinks DEF IInv
<1>3. awaiting' = IF awaiting = op.n THEN 0 ELSE awaiting
    BY <1>2 DEF RunCommand
<1>4. \/ /\ op.kind = "release" /\ live' = live \ {op.on} /\ UNCHANGED <<known, failed>>
      \/ /\ op.kind # "release" /\ op.on \notin live /\ failed' = failed \cup {op} /\ UNCHANGED <<known, live>>
      \/ /\ op.kind # "release" /\ UNCHANGED failed
         /\ \E more \in SUBSET Copies : known' = known \cup more /\ live' = live \cup more
  <2>1. CASE op.kind = "use" /\ op.on \in live /\ UNCHANGED <<known, live, failed>>
    <3>1. known' = known \cup {} /\ live' = live \cup {} /\ {} \in SUBSET Copies
      BY <2>1
    <3> QED
      BY <2>1, <3>1
  <2>2. CASE /\ op.kind = "dup" /\ op.on \in live /\ UNCHANGED failed
             /\ \E h \in Copies \ known : known' = known \cup {h} /\ live' = live \cup {h}
    <3>1. PICK h \in Copies : known' = known \cup {h} /\ live' = live \cup {h}
      BY <2>2
    <3>2. {h} \in SUBSET Copies
      OBVIOUS
    <3> QED
      BY <2>2, <3>1, <3>2
  <2> QED
    BY <1>2, <2>1, <2>2 DEF RunCommand
<1> HIDE DEF op
<1>5. known \subseteq known' /\ known' \subseteq known \cup Copies /\ known' \ known \subseteq live'
    BY <1>4
<1>6. \A i \in DOMAIN queue : queue[i].n \in Nat \ {0}
    BY <1>2, QueuedAreNumbered
<1>7. awaiting' \in Nat /\ awaiting' <= sent
    BY <1>2, <1>3 DEF IInv, ScopeTyped, Numbered
<1>8. ScopeTyped'
    BY <1>1, <1>2, <1>5, <1>7 DEF ScopeTyped
<1>9. op.kind = "release" => op.on \in disposed
    BY <1>2 DEF IInv, NoneReleasedBefore, op
<1>10. UsableIsLive'
    BY <1>1, <1>4, <1>9 DEF IInv, UsableIsLive, Usable
<1>11. NoneReleasedBefore'
  <2> SUFFICES ASSUME NEW i \in DOMAIN queue', NEW j \in DOMAIN queue', queue'[i].kind = "release"
               PROVE  /\ queue'[i].on \in disposed
                      /\ queue'[j].kind # "release" /\ i < j => queue'[i].on # queue'[j].on
    BY <1>1 DEF NoneReleasedBefore
  <2>1. /\ i + 1 \in DOMAIN queue /\ queue'[i] = queue[i + 1]
        /\ j + 1 \in DOMAIN queue /\ queue'[j] = queue[j + 1]
        /\ i \in Nat /\ j \in Nat
    BY <1>2
  <2> QED
    BY <2>1 DEF IInv, NoneReleasedBefore
<1>12. OperandsLive'
  <2> SUFFICES ASSUME NEW i \in DOMAIN queue', queue'[i].kind # "release"
               PROVE  queue'[i].on \in live' \/ (queue'[i].on \in Args /\ phase' = "settled")
    BY DEF OperandsLive
  <2>1. i + 1 \in DOMAIN queue /\ queue'[i] = queue[i + 1] /\ 1 < i + 1 /\ 1 \in DOMAIN queue
    BY <1>2
  <2>2. op.kind = "release" => op.on # queue[i + 1].on
    BY <2>1 DEF IInv, NoneReleasedBefore, op
  <2>3. queue[i + 1].on \in live \/ (queue[i + 1].on \in Args /\ phase = "settled")
    BY <2>1 DEF IInv, OperandsLive
  <2> QED
    BY <1>1, <1>4, <2>1, <2>2, <2>3
<1>13. Numbered'
  <2> SUFFICES ASSUME NEW i \in DOMAIN queue', NEW j \in DOMAIN queue'
               PROVE  queue'[i].n <= sent /\ (queue'[i].n = queue'[j].n => i = j)
    BY <1>1, <1>7 DEF Numbered
  <2>1. /\ i + 1 \in DOMAIN queue /\ queue'[i] = queue[i + 1]
        /\ j + 1 \in DOMAIN queue /\ queue'[j] = queue[j + 1]
        /\ i \in Nat /\ j \in Nat
    BY <1>2
  <2> QED
    BY <2>1 DEF IInv, Numbered
<1>14. OneAwaited'
  <2>1. ASSUME NEW i \in DOMAIN queue', queue'[i].awaited
        PROVE  queue'[i].n = awaiting'
    <3>1. i + 1 \in DOMAIN queue /\ queue'[i] = queue[i + 1] /\ i + 1 # 1 /\ 1 \in DOMAIN queue
      BY <1>2
    <3>2. queue[i + 1].n # op.n /\ queue[i + 1].n = awaiting
      BY <2>1, <3>1 DEF IInv, Numbered, OneAwaited, op
    <3> QED
      BY <1>3, <3>1, <3>2
  <2> QED
    BY <1>1, <1>3, <2>1 DEF IInv, OneAwaited
<1>15. op.kind # "release" /\ op.on \notin live => op.on \in Args /\ ~op.awaited
  <2>1. ASSUME op.kind # "release", op.on \notin live
        PROVE  op.on \in Args /\ phase = "settled"
    BY <1>2, <2>1 DEF IInv, OperandsLive, op
  <2>2. op.awaited => op.n = awaiting /\ op.n # 0
    BY <1>2, <1>6 DEF IInv, OneAwaited, op
  <2> QED
    BY <1>2, <2>1, <2>2 DEF IInv, OneAwaited, Commands
<1>16. AwaitedOperationsSucceed'
    BY <1>4, <1>15 DEF IInv, AwaitedOperationsSucceed
<1>17. SettlesWithValue' /\ ReturnedHandleConverts'
    BY <1>1 DEF IInv, SettlesWithValue, ReturnedHandleConverts
<1> QED
    BY <1>8, <1>10, <1>11, <1>12, <1>13, <1>14, <1>16, <1>17 DEF IInv

(* The invariant of the callback's scope.                                  *)
LEMMA ScopeInvariant == Spec => []IInv
<1>1. Init => IInv
  <2> SUFFICES ASSUME Init PROVE IInv
    OBVIOUS
  <2>1. DOMAIN queue = {}
    BY DEF Init
  <2> QED
    BY <2>1, EmptySeq DEF Init, IInv, ScopeTyped, UsableIsLive, Usable, SettlesWithValue, NoneReleasedBefore,
       OperandsLive, Numbered, OneAwaited, ReturnedHandleConverts, AwaitedOperationsSucceed
<1>2. IInv /\ [Next]_vars => IInv'
  <2>1. ASSUME IInv, Next PROVE IInv'
    BY <2>1, OperateKeeps, DisposeKeeps, ReturnKeeps, SettleKeeps, ControlKeeps, CommandKeeps DEF Next, Driver
  <2>2. ASSUME IInv, UNCHANGED vars PROVE IInv'
    BY <2>2 DEF vars, IInv, ScopeTyped, UsableIsLive, Usable, SettlesWithValue, NoneReleasedBefore,
       OperandsLive, Numbered, OneAwaited, ReturnedHandleConverts, AwaitedOperationsSucceed
  <2> QED
    BY <2>1, <2>2
<1> QED
    BY <1>1, <1>2, PTL DEF Spec

(* docs/design.md: "Convert the return value before releasing the callback *)
(* scope."  Whatever is disposed of in between, the guest's promise never  *)
(* settles with an invalid operand (core.ts: #hostCall; engine.c: settle). *)
THEOREM ReturnedHandlesConvert == Spec => []ReturnedHandleConverts
    BY ScopeInvariant, PTL DEF IInv

(* An operation that the callback waits for finds its operands, and so     *)
(* does every one on a handle that the host owns (core.ts: #hostCall;      *)
(* engine.ts: turn).                                                       *)
THEOREM OperandsOutliveTheWait == Spec => []AwaitedOperationsSucceed
    BY ScopeInvariant, PTL DEF IInv
-----------------------------------------------------------------------------
Ends == {"created", "hop", "failed"}
Control == {"resume", "throw", "retired"}
Jobs == Ends \cup Control \cup {"abort", "check", "win", "lost", "lose"}
Codes == {"ERR_ABORTED", "ERR_INIT_TIMEOUT"}

In(q, jobs) == \E i \in DOMAIN q : q[i] \in jobs
AtMostOne(q, jobs) == \A i, j \in DOMAIN q : q[i] \in jobs /\ q[j] \in jobs => i = j

StartupTyped ==
    /\ mode \in {"inline", "worker"}
    /\ micro \in Seq(Jobs)
    /\ creation \in {"pending", "fulfilled", "rejected"}
    /\ never \in {"pending"} \cup Codes
    /\ race \in {"pending", "won", "ERR_INITIALIZATION"} \cup Codes
    /\ runtime \in {"none", "live", "disposed"}
    /\ transport \in BOOLEAN /\ closed \in BOOLEAN
    /\ globals \in Nat
    /\ outcome \in {"pending", "resolved", "rejected"}

(* Initialization ends once, and its end reaches the race.                 *)
Creation ==
    /\ AtMostOne(micro, Ends)
    /\ In(micro, Ends) => creation = "pending"
    /\ creation = "pending" => \A j \in {"check", "win", "lost"} : ~In(micro, {j})
    /\ creation = "pending" /\ mode = "inline" => runtime # "live"
    /\ creation = "fulfilled" /\ ~closed => runtime = "live"
    /\ In(micro, {"win"}) => creation = "fulfilled"

(* The race ends with its first reaction, which is on its way as soon as   *)
(* one of its promises has settled.                                        *)
Raced ==
    /\ In(micro, {"lose"}) => never # "pending"
    /\ race = "pending" => /\ creation = "fulfilled" => In(micro, {"win"})
                           /\ creation = "rejected" => In(micro, {"lost"})
                           /\ never # "pending" => In(micro, {"lose"})
    /\ race = "won" => creation = "fulfilled"

(* What follows the race, one step after the other.                        *)
Stages ==
    /\ AtMostOne(micro, Control)
    /\ race = "pending" => /\ ~In(micro, Control) /\ globals = 0 /\ outcome = "pending"
                           /\ ~transport /\ ~closed
    /\ In(micro, Control) => globals = 0 /\ outcome = "pending"
    /\ In(micro, {"resume"}) => race = "won" /\ ~closed
    /\ globals > 0 => race = "won" /\ transport /\ ~closed /\ outcome = "pending"
    /\ In(micro, {"retired"}) => closed
    /\ outcome = "resolved" => race = "won" /\ transport /\ ~closed /\ globals = 0
    /\ outcome = "rejected" => globals = 0 /\ (mode = "worker" => runtime = "disposed")

(* The timer is a task of its own: whatever comes after it comes too late, *)
(* and finds the sandbox closed.                                           *)
TimedOut ==
    /\ race = "pending" /\ never = "ERR_INIT_TIMEOUT" => micro = <<"lose">> /\ creation = "pending"
    /\ race = "ERR_INIT_TIMEOUT" =>
        IF closed THEN mode = "inline" /\ runtime = "live" => In(micro, {"check"})
        ELSE micro = <<"throw">> /\ creation = "pending"

StartupInv == StartupTyped /\ Creation /\ Raced /\ Stages /\ TimedOut
-----------------------------------------------------------------------------
(* Queues: what is in one, after a step. *)
LEMMA AppendIn ==
    ASSUME NEW q \in Seq(Jobs), NEW j \in Jobs
    PROVE  /\ Append(q, j) \in Seq(Jobs)
           /\ \A jobs : In(Append(q, j), jobs) <=> (In(q, jobs) \/ j \in jobs)
           /\ \A jobs : AtMostOne(q, jobs) /\ (j \in jobs => ~In(q, jobs))
                          => AtMostOne(Append(q, j), jobs)
<1>1. /\ Append(q, j) \in Seq(Jobs) /\ Len(q) \in Nat
      /\ DOMAIN q = 1 .. Len(q)
      /\ DOMAIN Append(q, j) = 1 .. Len(q) + 1
      /\ \A i \in 1 .. Len(q) : Append(q, j)[i] = q[i]
      /\ Append(q, j)[Len(q) + 1] = j
  OBVIOUS
<1> QED
  BY <1>1 DEF In, AtMostOne

LEMMA TailIn ==
    ASSUME NEW q \in Seq(Jobs), q # <<>>
    PROVE  /\ Tail(q) \in Seq(Jobs) /\ Head(q) \in Jobs
           /\ \A jobs : In(q, jobs) <=> (Head(q) \in jobs \/ In(Tail(q), jobs))
           /\ \A jobs : AtMostOne(q, jobs)
                          => AtMostOne(Tail(q), jobs) /\ (Head(q) \in jobs => ~In(Tail(q), jobs))
<1>1. /\ Tail(q) \in Seq(Jobs) /\ Head(q) \in Jobs
      /\ Len(q) \in Nat \ {0}
      /\ DOMAIN q = 1 .. Len(q)
      /\ DOMAIN Tail(q) = 1 .. Len(q) - 1
      /\ \A i \in 1 .. Len(q) - 1 : Tail(q)[i] = q[i + 1]
      /\ Head(q) = q[1]
  OBVIOUS
<1>2. ASSUME NEW jobs PROVE In(q, jobs) <=> (Head(q) \in jobs \/ In(Tail(q), jobs))
  <2>1. \A i \in DOMAIN q : i = 1 \/ i - 1 \in DOMAIN Tail(q)
    BY <1>1
  <2>2. \A i \in DOMAIN q : i # 1 => Tail(q)[i - 1] = q[i]
    BY <1>1
  <2>3. \A i \in DOMAIN Tail(q) : i + 1 \in DOMAIN q
    BY <1>1
  <2>4. 1 \in DOMAIN q
    BY <1>1
  <2> QED
    BY <1>1, <2>1, <2>2, <2>3, <2>4 DEF In
<1>3. ASSUME NEW jobs, AtMostOne(q, jobs)
      PROVE  AtMostOne(Tail(q), jobs) /\ (Head(q) \in jobs => ~In(Tail(q), jobs))
  <2>1. AtMostOne(Tail(q), jobs)
    <3> SUFFICES ASSUME NEW i \in DOMAIN Tail(q), NEW j \in DOMAIN Tail(q),
                        Tail(q)[i] \in jobs, Tail(q)[j] \in jobs
                 PROVE  i = j
      BY DEF AtMostOne
    <3>1. i + 1 \in DOMAIN q /\ j + 1 \in DOMAIN q /\ q[i + 1] \in jobs /\ q[j + 1] \in jobs
      BY <1>1
    <3>2. i + 1 = j + 1
      BY <1>3, <3>1 DEF AtMostOne
    <3> QED
      BY <1>1, <3>2
  <2>2. ASSUME Head(q) \in jobs, NEW i \in DOMAIN Tail(q), Tail(q)[i] \in jobs
        PROVE  FALSE
    <3>1. i + 1 \in DOMAIN q /\ 1 \in DOMAIN q /\ q[i + 1] \in jobs /\ q[1] \in jobs
      BY <1>1, <2>2
    <3>2. i + 1 = 1
      BY <1>3, <3>1 DEF AtMostOne
    <3> QED
      BY <1>1, <3>2
  <2> QED
    BY <2>1, <2>2 DEF In
<1> QED
  BY <1>1, <1>2, <1>3

LEMMA NothingIn == \A jobs : ~In(<< >>, jobs) /\ AtMostOne(<< >>, jobs)
  BY DEF In, AtMostOne

LEMMA OnlyIn ==
    ASSUME NEW j
    PROVE  \A jobs : (In(<<j>>, jobs) <=> j \in jobs) /\ AtMostOne(<<j>>, jobs)
<1>1. DOMAIN <<j>> = {1} /\ <<j>>[1] = j
  OBVIOUS
<1> QED
  BY <1>1 DEF In, AtMostOne

(* The queue after its first job has run. *)
LEMMA RestIn ==
    ASSUME StartupTyped, NEW job, Runs(job)
    PROVE  /\ Rest \in Seq(Jobs)
           /\ \A jobs : In(micro, jobs) <=> (job \in jobs \/ In(Rest, jobs))
           /\ \A jobs : AtMostOne(micro, jobs)
                          => AtMostOne(Rest, jobs) /\ (job \in jobs => ~In(Rest, jobs))
  BY TailIn DEF StartupTyped, Runs, Rest

LEMMA StartupInitial == StartupInit => StartupInv
<1> SUFFICES ASSUME StartupInit PROVE StartupInv
  OBVIOUS
<1>1. micro \in Seq(Jobs) /\ micro = << >>
  BY DEF StartupInit
<1>2. StartupTyped
  BY <1>1 DEF StartupInit, StartupTyped
<1>3. Creation /\ Raced
  BY <1>1, NothingIn DEF StartupInit, Creation, Raced
<1>4. Stages /\ TimedOut
  BY <1>1, NothingIn DEF StartupInit, Stages, TimedOut
<1> QED
  BY <1>2, <1>3, <1>4 DEF StartupInv

LEMMA AbortKeepsStartup ==
    ASSUME StartupInv, Abort
    PROVE  StartupInv'
<1>1. Runs("abort")
  BY DEF Abort
<1>2. /\ Rest \in Seq(Jobs)
      /\ \A jobs : In(micro, jobs) <=> ("abort" \in jobs \/ In(Rest, jobs))
      /\ \A jobs : AtMostOne(micro, jobs)
                     => AtMostOne(Rest, jobs) /\ ("abort" \in jobs => ~In(Rest, jobs))
  BY <1>1, RestIn DEF StartupInv
<1>3. /\ Append(Rest, "lose") \in Seq(Jobs)
      /\ \A jobs : In(Append(Rest, "lose"), jobs) <=> (In(Rest, jobs) \/ "lose" \in jobs)
      /\ \A jobs : AtMostOne(Rest, jobs) /\ ("lose" \in jobs => ~In(Rest, jobs))
                     => AtMostOne(Append(Rest, "lose"), jobs)
  BY <1>2, AppendIn DEF Jobs, Ends, Control
<1>4. StartupTyped'
  <2>1. StartupTyped
    BY DEF StartupInv
  <2>2. micro' \in Seq(Jobs) /\ never' \in {"pending"} \cup Codes
    BY <1>2, <1>3, <2>1 DEF Abort, RejectStartup, StartupTyped, Codes
  <2> QED
    BY <2>1, <2>2 DEF Abort, StartupTyped
<1>5. Creation'
  BY <1>2, <1>3 DEF Abort, RejectStartup, StartupInv, Creation, Ends
<1>6. Raced'
  BY <1>1, <1>2, <1>3 DEF Abort, RejectStartup, Runs, StartupInv, StartupTyped, Creation, Raced, Stages, TimedOut, Codes, Ends, Control, Jobs
<1>7. Stages'
  BY <1>1, <1>2, <1>3 DEF Abort, RejectStartup, Runs, StartupInv, StartupTyped, Creation, Raced, Stages, TimedOut, Codes, Ends, Control, Jobs
<1>8. TimedOut'
  <2>1. micro # <<"lose">> /\ micro # <<"throw">>
    BY <1>1 DEF Runs
  <2> QED
    BY <2>1, <1>1, <1>2, <1>3 DEF Abort, RejectStartup, Runs, StartupInv, StartupTyped, Creation, Raced, Stages, TimedOut, Codes, Ends, Control, Jobs
<1> QED
  BY <1>4, <1>5, <1>6, <1>7, <1>8 DEF StartupInv

LEMMA HopKeepsStartup ==
    ASSUME StartupInv, Hop
    PROVE  StartupInv'
<1>1. Runs("hop")
  BY DEF Hop
<1>2. /\ Rest \in Seq(Jobs)
      /\ \A jobs : In(micro, jobs) <=> ("hop" \in jobs \/ In(Rest, jobs))
      /\ \A jobs : AtMostOne(micro, jobs)
                     => AtMostOne(Rest, jobs) /\ ("hop" \in jobs => ~In(Rest, jobs))
  BY <1>1, RestIn DEF StartupInv
<1>3. /\ Append(Rest, "created") \in Seq(Jobs)
      /\ \A jobs : In(Append(Rest, "created"), jobs) <=> (In(Rest, jobs) \/ "created" \in jobs)
      /\ \A jobs : AtMostOne(Rest, jobs) /\ ("created" \in jobs => ~In(Rest, jobs))
                     => AtMostOne(Append(Rest, "created"), jobs)
  BY <1>2, AppendIn DEF Jobs, Ends, Control
<1>4. StartupTyped'
  BY <1>1, <1>2, <1>3 DEF Hop, Runs, StartupInv, StartupTyped, Creation, Raced, Stages, TimedOut, Codes, Ends, Control, Jobs
<1>5. Creation'
  BY <1>1, <1>2, <1>3 DEF Hop, Runs, StartupInv, StartupTyped, Creation, Raced, Stages, TimedOut, Codes, Ends, Control, Jobs
<1>6. Raced'
  BY <1>1, <1>2, <1>3 DEF Hop, Runs, StartupInv, StartupTyped, Creation, Raced, Stages, TimedOut, Codes, Ends, Control, Jobs
<1>7. Stages'
  BY <1>1, <1>2, <1>3 DEF Hop, Runs, StartupInv, StartupTyped, Creation, Raced, Stages, TimedOut, Codes, Ends, Control, Jobs
<1>8. TimedOut'
  BY <1>1, <1>2, <1>3 DEF Hop, Runs, StartupInv, StartupTyped, Creation, Raced, Stages, TimedOut, Codes, Ends, Control, Jobs
<1> QED
  BY <1>4, <1>5, <1>6, <1>7, <1>8 DEF StartupInv

LEMMA CreatedKeepsStartup ==
    ASSUME StartupInv, Created
    PROVE  StartupInv'
<1>1. Runs("created")
  BY DEF Created
<1>2. /\ Rest \in Seq(Jobs)
      /\ \A jobs : In(micro, jobs) <=> ("created" \in jobs \/ In(Rest, jobs))
      /\ \A jobs : AtMostOne(micro, jobs)
                     => AtMostOne(Rest, jobs) /\ ("created" \in jobs => ~In(Rest, jobs))
  BY <1>1, RestIn DEF StartupInv
<1> DEFINE both == Append(Append(Rest, "check"), "win")
<1>3. /\ both \in Seq(Jobs) /\ both = Rest \o <<"check", "win">>
      /\ \A jobs : In(both, jobs) <=> (In(Rest, jobs) \/ "check" \in jobs \/ "win" \in jobs)
      /\ \A jobs : AtMostOne(Rest, jobs) /\ "check" \notin jobs /\ "win" \notin jobs
                     => AtMostOne(both, jobs)
  <2>1. "check" \in Jobs /\ "win" \in Jobs
    BY DEF Jobs
  <2>2. Append(Rest, "check") \in Seq(Jobs)
    BY <1>2, <2>1, AppendIn
  <2>3. both = Rest \o <<"check", "win">>
    BY <1>2
  <2> QED
    BY <1>2, <2>1, <2>2, <2>3, AppendIn
<1> HIDE DEF both
<1>4. StartupTyped'
  BY <1>1, <1>2, <1>3 DEF Created, Runs, StartupInv, StartupTyped, Creation, Raced, Stages, TimedOut, Codes, Ends, Control, Jobs
<1>5. Creation'
  BY <1>1, <1>2, <1>3 DEF Created, Runs, StartupInv, StartupTyped, Creation, Raced, Stages, TimedOut, Codes, Ends, Control, Jobs
<1>6. Raced'
  BY <1>1, <1>2, <1>3 DEF Created, Runs, StartupInv, StartupTyped, Creation, Raced, Stages, TimedOut, Codes, Ends, Control, Jobs
<1>7. Stages'
  BY <1>1, <1>2, <1>3 DEF Created, Runs, StartupInv, StartupTyped, Creation, Raced, Stages, TimedOut, Codes, Ends, Control, Jobs
<1>8. TimedOut'
  <2>1. micro # <<"lose">> /\ micro # <<"throw">>
    BY <1>1 DEF Runs
  <2> QED
    BY <2>1, <1>1, <1>2, <1>3 DEF Created, Runs, StartupInv, StartupTyped, Creation, Raced, Stages, TimedOut, Codes, Ends, Control, Jobs
<1> QED
  BY <1>4, <1>5, <1>6, <1>7, <1>8 DEF StartupInv

LEMMA FailedKeepsStartup ==
    ASSUME StartupInv, Failed
    PROVE  StartupInv'
<1>1. Runs("failed")
  BY DEF Failed
<1>2. /\ Rest \in Seq(Jobs)
      /\ \A jobs : In(micro, jobs) <=> ("failed" \in jobs \/ In(Rest, jobs))
      /\ \A jobs : AtMostOne(micro, jobs)
                     => AtMostOne(Rest, jobs) /\ ("failed" \in jobs => ~In(Rest, jobs))
  BY <1>1, RestIn DEF StartupInv
<1>3. /\ Append(Rest, "lost") \in Seq(Jobs)
      /\ \A jobs : In(Append(Rest, "lost"), jobs) <=> (In(Rest, jobs) \/ "lost" \in jobs)
      /\ \A jobs : AtMostOne(Rest, jobs) /\ ("lost" \in jobs => ~In(Rest, jobs))
                     => AtMostOne(Append(Rest, "lost"), jobs)
  BY <1>2, AppendIn DEF Jobs, Ends, Control
<1>4. StartupTyped'
  BY <1>1, <1>2, <1>3 DEF Failed, Runs, StartupInv, StartupTyped, Creation, Raced, Stages, TimedOut, Codes, Ends, Control, Jobs
<1>5. Creation'
  BY <1>1, <1>2, <1>3 DEF Failed, Runs, StartupInv, StartupTyped, Creation, Raced, Stages, TimedOut, Codes, Ends, Control, Jobs
<1>6. Raced'
  BY <1>1, <1>2, <1>3 DEF Failed, Runs, StartupInv, StartupTyped, Creation, Raced, Stages, TimedOut, Codes, Ends, Control, Jobs
<1>7. Stages'
  BY <1>1, <1>2, <1>3 DEF Failed, Runs, StartupInv, StartupTyped, Creation, Raced, Stages, TimedOut, Codes, Ends, Control, Jobs
<1>8. TimedOut'
  BY <1>1, <1>2, <1>3 DEF Failed, Runs, StartupInv, StartupTyped, Creation, Raced, Stages, TimedOut, Codes, Ends, Control, Jobs
<1> QED
  BY <1>4, <1>5, <1>6, <1>7, <1>8 DEF StartupInv

LEMMA CheckKeepsStartup ==
    ASSUME StartupInv, Check
    PROVE  StartupInv'
<1>1. Runs("check")
  BY DEF Check
<1>2. /\ Rest \in Seq(Jobs)
      /\ \A jobs : In(micro, jobs) <=> ("check" \in jobs \/ In(Rest, jobs))
      /\ \A jobs : AtMostOne(micro, jobs)
                     => AtMostOne(Rest, jobs) /\ ("check" \in jobs => ~In(Rest, jobs))
  BY <1>1, RestIn DEF StartupInv
<1>3. StartupTyped'
  BY <1>1, <1>2 DEF Check, AfterCheck, Runs, StartupInv, StartupTyped, Creation, Raced, Stages, TimedOut, Codes, Ends, Control, Jobs
<1>4. Creation'
  BY <1>1, <1>2 DEF Check, AfterCheck, Runs, StartupInv, StartupTyped, Creation, Raced, Stages, TimedOut, Codes, Ends, Control, Jobs
<1>5. Raced'
  BY <1>1, <1>2 DEF Check, AfterCheck, Runs, StartupInv, StartupTyped, Creation, Raced, Stages, TimedOut, Codes, Ends, Control, Jobs
<1>6. Stages'
  BY <1>1, <1>2 DEF Check, AfterCheck, Runs, StartupInv, StartupTyped, Creation, Raced, Stages, TimedOut, Codes, Ends, Control, Jobs
<1>7. TimedOut'
  BY <1>1, <1>2 DEF Check, AfterCheck, Runs, StartupInv, StartupTyped, Creation, Raced, Stages, TimedOut, Codes, Ends, Control, Jobs
<1> QED
  BY <1>3, <1>4, <1>5, <1>6, <1>7 DEF StartupInv

LEMMA WinKeepsStartup ==
    ASSUME StartupInv, Win
    PROVE  StartupInv'
<1>1. Runs("win")
  BY DEF Win, Race
<1>2. /\ Rest \in Seq(Jobs)
      /\ \A jobs : In(micro, jobs) <=> ("win" \in jobs \/ In(Rest, jobs))
      /\ \A jobs : AtMostOne(micro, jobs)
                     => AtMostOne(Rest, jobs) /\ ("win" \in jobs => ~In(Rest, jobs))
  BY <1>1, RestIn DEF StartupInv
<1>3. /\ Append(Rest, "resume") \in Seq(Jobs)
      /\ \A jobs : In(Append(Rest, "resume"), jobs) <=> (In(Rest, jobs) \/ "resume" \in jobs)
      /\ \A jobs : AtMostOne(Rest, jobs) /\ ("resume" \in jobs => ~In(Rest, jobs))
                     => AtMostOne(Append(Rest, "resume"), jobs)
  BY <1>2, AppendIn DEF Jobs, Ends, Control
<1>4. StartupTyped'
  BY <1>1, <1>2, <1>3 DEF Win, Race, FirstReaction, Runs, StartupInv, StartupTyped, Creation, Raced, Stages, TimedOut, Codes, Ends, Control, Jobs
<1>5. Creation'
  BY <1>1, <1>2, <1>3 DEF Win, Race, FirstReaction, Runs, StartupInv, StartupTyped, Creation, Raced, Stages, TimedOut, Codes, Ends, Control, Jobs
<1>6. Raced'
  BY <1>1, <1>2, <1>3 DEF Win, Race, FirstReaction, Runs, StartupInv, StartupTyped, Creation, Raced, Stages, TimedOut, Codes, Ends, Control, Jobs
<1>7. Stages'
  BY <1>1, <1>2, <1>3 DEF Win, Race, FirstReaction, Runs, StartupInv, StartupTyped, Creation, Raced, Stages, TimedOut, Codes, Ends, Control, Jobs
<1>8. TimedOut'
  BY <1>1, <1>2, <1>3 DEF Win, Race, FirstReaction, Runs, StartupInv, StartupTyped, Creation, Raced, Stages, TimedOut, Codes, Ends, Control, Jobs
<1> QED
  BY <1>4, <1>5, <1>6, <1>7, <1>8 DEF StartupInv

LEMMA ResumeKeepsStartup ==
    ASSUME StartupInv, Resume
    PROVE  StartupInv'
<1>1. Runs("resume")
  BY DEF Resume
<1>2. /\ Rest \in Seq(Jobs)
      /\ \A jobs : In(micro, jobs) <=> ("resume" \in jobs \/ In(Rest, jobs))
      /\ \A jobs : AtMostOne(micro, jobs)
                     => AtMostOne(Rest, jobs) /\ ("resume" \in jobs => ~In(Rest, jobs))
  BY <1>1, RestIn DEF StartupInv
<1>3. StartupTyped'
  BY <1>1, <1>2 DEF Resume, Runs, StartupInv, StartupTyped, Creation, Raced, Stages, TimedOut, Codes, Ends, Control, Jobs
<1>4. Creation'
  BY <1>1, <1>2 DEF Resume, Runs, StartupInv, StartupTyped, Creation, Raced, Stages, TimedOut, Codes, Ends, Control, Jobs
<1>5. Raced'
  BY <1>1, <1>2 DEF Resume, Runs, StartupInv, StartupTyped, Creation, Raced, Stages, TimedOut, Codes, Ends, Control, Jobs
<1>6. Stages'
  BY <1>1, <1>2 DEF Resume, Runs, StartupInv, StartupTyped, Creation, Raced, Stages, TimedOut, Codes, Ends, Control, Jobs
<1>7. TimedOut'
  BY <1>1, <1>2 DEF Resume, Runs, StartupInv, StartupTyped, Creation, Raced, Stages, TimedOut, Codes, Ends, Control, Jobs
<1> QED
  BY <1>3, <1>4, <1>5, <1>6, <1>7 DEF StartupInv

LEMMA ThrowKeepsStartup ==
    ASSUME StartupInv, Throw
    PROVE  StartupInv'
<1>1. Runs("throw")
  BY DEF Throw
<1>2. /\ Rest \in Seq(Jobs)
      /\ \A jobs : In(micro, jobs) <=> ("throw" \in jobs \/ In(Rest, jobs))
      /\ \A jobs : AtMostOne(micro, jobs)
                     => AtMostOne(Rest, jobs) /\ ("throw" \in jobs => ~In(Rest, jobs))
  BY <1>1, RestIn DEF StartupInv
<1>3. /\ Append(Rest, "retired") \in Seq(Jobs)
      /\ \A jobs : In(Append(Rest, "retired"), jobs) <=> (In(Rest, jobs) \/ "retired" \in jobs)
      /\ \A jobs : AtMostOne(Rest, jobs) /\ ("retired" \in jobs => ~In(Rest, jobs))
                     => AtMostOne(Append(Rest, "retired"), jobs)
  BY <1>2, AppendIn DEF Jobs, Ends, Control
<1>4. StartupTyped'
  BY <1>1, <1>2, <1>3 DEF Throw, AfterRetire, Runs, StartupInv, StartupTyped, Creation, Raced, Stages, TimedOut, Codes, Ends, Control, Jobs
<1>5. Creation'
  BY <1>1, <1>2, <1>3 DEF Throw, AfterRetire, Runs, StartupInv, StartupTyped, Creation, Raced, Stages, TimedOut, Codes, Ends, Control, Jobs
<1>6. Raced'
  BY <1>1, <1>2, <1>3 DEF Throw, AfterRetire, Runs, StartupInv, StartupTyped, Creation, Raced, Stages, TimedOut, Codes, Ends, Control, Jobs
<1>7. Stages'
  <2>1. ~In(Rest, {"resume"})
    BY <1>1, <1>2 DEF StartupInv, Stages, Control, In
  <2> QED
    BY <2>1, <1>1, <1>2, <1>3 DEF Throw, AfterRetire, Runs, StartupInv, StartupTyped, Creation, Raced, Stages, TimedOut, Codes, Ends, Control, Jobs
<1>8. TimedOut'
  BY <1>1, <1>2, <1>3 DEF Throw, AfterRetire, Runs, StartupInv, StartupTyped, Creation, Raced, Stages, TimedOut, Codes, Ends, Control, Jobs
<1> QED
  BY <1>4, <1>5, <1>6, <1>7, <1>8 DEF StartupInv

LEMMA RetiredKeepsStartup ==
    ASSUME StartupInv, Retired
    PROVE  StartupInv'
<1>1. Runs("retired")
  BY DEF Retired
<1>2. /\ Rest \in Seq(Jobs)
      /\ \A jobs : In(micro, jobs) <=> ("retired" \in jobs \/ In(Rest, jobs))
      /\ \A jobs : AtMostOne(micro, jobs)
                     => AtMostOne(Rest, jobs) /\ ("retired" \in jobs => ~In(Rest, jobs))
  BY <1>1, RestIn DEF StartupInv
<1>3. StartupTyped'
  BY <1>1, <1>2 DEF Retired, AfterTerminate, Runs, StartupInv, StartupTyped, Creation, Raced, Stages, TimedOut, Codes, Ends, Control, Jobs
<1>4. Creation'
  BY <1>1, <1>2 DEF Retired, AfterTerminate, Runs, StartupInv, StartupTyped, Creation, Raced, Stages, TimedOut, Codes, Ends, Control, Jobs
<1>5. Raced'
  BY <1>1, <1>2 DEF Retired, AfterTerminate, Runs, StartupInv, StartupTyped, Creation, Raced, Stages, TimedOut, Codes, Ends, Control, Jobs
<1>6. Stages'
  BY <1>1, <1>2 DEF Retired, AfterTerminate, Runs, StartupInv, StartupTyped, Creation, Raced, Stages, TimedOut, Codes, Ends, Control, Jobs
<1>7. TimedOut'
  BY <1>1, <1>2 DEF Retired, AfterTerminate, Runs, StartupInv, StartupTyped, Creation, Raced, Stages, TimedOut, Codes, Ends, Control, Jobs
<1> QED
  BY <1>3, <1>4, <1>5, <1>6, <1>7 DEF StartupInv

(* The race's other reactions: to a failed initialization, and to the      *)
(* timer or the signal.                                                    *)
LEMMA LoseKeepsStartup ==
    ASSUME StartupInv, Lose
    PROVE  StartupInv'
<1>0. PICK job, result :
           /\ Race(job, result, "throw")
           /\ \/ job = "lost" /\ result = "ERR_INITIALIZATION"
              \/ job = "lose" /\ result = never
  BY DEF Lose
<1>1. Runs(job)
  BY <1>0 DEF Race
<1>2. /\ Rest \in Seq(Jobs)
      /\ \A jobs : In(micro, jobs) <=> (job \in jobs \/ In(Rest, jobs))
      /\ \A jobs : AtMostOne(micro, jobs)
                     => AtMostOne(Rest, jobs) /\ (job \in jobs => ~In(Rest, jobs))
  BY <1>1, RestIn DEF StartupInv
<1>3. /\ Append(Rest, "throw") \in Seq(Jobs)
      /\ \A jobs : In(Append(Rest, "throw"), jobs) <=> (In(Rest, jobs) \/ "throw" \in jobs)
      /\ \A jobs : AtMostOne(Rest, jobs) /\ ("throw" \in jobs => ~In(Rest, jobs))
                     => AtMostOne(Append(Rest, "throw"), jobs)
  BY <1>2, AppendIn DEF Jobs, Ends, Control
<1>4. result # "pending" /\ result # "won" /\ (result = "ERR_INITIALIZATION" \/ result \in Codes)
  BY <1>0, <1>1, <1>2 DEF StartupInv, StartupTyped, Raced, Codes
<1>5. StartupTyped'
  BY <1>0, <1>2, <1>3, <1>4 DEF Race, StartupInv, StartupTyped
<1>6. Creation'
  BY <1>0, <1>2, <1>3 DEF Race, StartupInv, Creation, Ends, Control
<1>7. Raced'
  BY <1>0, <1>2, <1>3, <1>4 DEF Race, FirstReaction, StartupInv, Raced
<1>8. Stages'
  BY <1>0, <1>2, <1>3, <1>4 DEF Race, FirstReaction, StartupInv, Stages, Control
<1>9. TimedOut'
  <2>1. micro # <<"throw">>
    BY <1>0, <1>1 DEF Runs
  <2>2. ASSUME race = "pending", never = "ERR_INIT_TIMEOUT"
        PROVE  micro = <<"lose">> /\ job = "lose" /\ micro' = <<"throw">> /\ ~closed /\ creation = "pending"
    <3>1. micro = <<"lose">> /\ ~closed /\ creation = "pending"
      BY <2>2 DEF StartupInv, TimedOut, Stages
    <3>2. Tail(<<"lose">>) = << >> /\ Append(<< >>, "throw") = <<"throw">>
      OBVIOUS
    <3> QED
      BY <1>0, <1>1, <2>2, <3>1, <3>2 DEF Runs, Race, FirstReaction, Rest
  <2>3. CASE race = "pending"
    <3>1. never = "ERR_INIT_TIMEOUT" <=> race' = "ERR_INIT_TIMEOUT"
      BY <1>0, <1>1, <1>2, <2>2, <2>3 DEF Race, FirstReaction
    <3> QED
      BY <1>0, <1>4, <2>2, <2>3, <3>1 DEF Race, FirstReaction, TimedOut
  <2>4. CASE race # "pending"
    BY <1>0, <1>2, <1>3, <2>1, <2>4 DEF Race, FirstReaction, StartupInv, TimedOut
  <2> QED
    BY <2>3, <2>4
<1> QED
  BY <1>5, <1>6, <1>7, <1>8, <1>9 DEF StartupInv

(* A task: initialization ends, host code runs, or both. *)
LEMMA ArrivalsIn ==
    ASSUME NEW q \in Arrivals
    PROVE  /\ q \in Seq(Jobs) /\ AtMostOne(q, Ends)
           /\ \A jobs : In(q, jobs) => \E j \in jobs : j = "abort" \/ (j \in Ends /\ creation = "pending")
<1> DEFINE Arrived(j) == j = "abort" \/ (j \in Ends /\ creation = "pending")
<1>1. \/ \E j : Arrived(j) /\ q = <<j>>
      \/ \E j, k : /\ Arrived(j) /\ Arrived(k) /\ q = <<j, k>>
                   /\ j \in Ends <=> k = "abort"
  BY DEF Arrivals, Ends
<1>2. \A j : Arrived(j) => j \in Jobs
  BY DEF Jobs
<1>3. CASE \E j : Arrived(j) /\ q = <<j>>
  BY <1>2, <1>3, OnlyIn
<1>4. ASSUME NEW j, NEW k, Arrived(j), Arrived(k), q = <<j, k>>, j \in Ends <=> k = "abort"
      PROVE  /\ q \in Seq(Jobs) /\ AtMostOne(q, Ends)
             /\ \A jobs : In(q, jobs) => \E i \in jobs : Arrived(i)
  <2>1. q = Append(<<j>>, k) /\ <<j>> \in Seq(Jobs) /\ k \in Jobs
    BY <1>2, <1>4
  <2>2. "abort" \notin Ends
    BY DEF Ends
  <2>3. q \in Seq(Jobs)
    BY <2>1, AppendIn
  <2>4. \A jobs : In(q, jobs) <=> (j \in jobs \/ k \in jobs)
    BY <2>1, AppendIn, OnlyIn
  <2>5. AtMostOne(<<j>>, Ends) /\ (k \in Ends => ~In(<<j>>, Ends))
    BY <1>4, <2>2, OnlyIn
  <2>6. AtMostOne(q, Ends)
    BY <2>1, <2>5, AppendIn
  <2> QED
    BY <1>4, <2>3, <2>4, <2>6
<1> QED
  BY <1>1, <1>3, <1>4

LEMMA TaskKeepsStartup ==
    ASSUME StartupInv, Task
    PROVE  StartupInv'
<1>1. /\ micro' \in Seq(Jobs) /\ AtMostOne(micro', Ends)
      /\ \A jobs : In(micro', jobs) => \E j \in jobs : j = "abort" \/ (j \in Ends /\ creation = "pending")
  BY ArrivalsIn DEF Task
<1>2. /\ micro = << >> /\ \A jobs : ~In(micro, jobs)
      /\ micro # <<"lose">> /\ micro # <<"throw">>
  BY NothingIn DEF Task
<1>3. AtMostOne(micro', Control) /\ ~In(micro', Control)
  <2>1. ~In(micro', Control)
    BY <1>1 DEF Control, Ends
  <2> QED
    BY <2>1 DEF AtMostOne, In
<1>4. StartupTyped' /\ Creation'
  BY <1>1, <1>2 DEF Task, StartupInv, StartupTyped, Creation, Ends
<1>5. Raced' /\ Stages'
  BY <1>1, <1>2, <1>3 DEF Task, StartupInv, Raced, Stages, Ends
<1>6. TimedOut'
  BY <1>1, <1>2 DEF Task, StartupInv, TimedOut
<1> QED
  BY <1>4, <1>5, <1>6 DEF StartupInv

LEMMA TimerKeepsStartup ==
    ASSUME StartupInv, TimerFires
    PROVE  StartupInv'
<1>1. /\ micro = << >> /\ \A jobs : ~In(micro, jobs)
      /\ micro # <<"throw">>
  BY NothingIn DEF TimerFires
<1>2. /\ micro' = <<"lose">> /\ never' = "ERR_INIT_TIMEOUT" /\ never = "pending"
      /\ UNCHANGED <<mode, creation, race, runtime, transport, closed, aborted, globals, outcome>>
  BY <1>1 DEF TimerFires, TimerSet, RejectStartup
<1>3. /\ micro' \in Seq(Jobs)
      /\ \A jobs : (In(micro', jobs) <=> "lose" \in jobs) /\ AtMostOne(micro', jobs)
  BY <1>2, OnlyIn DEF Jobs
<1>4. StartupTyped' /\ Creation'
  BY <1>1, <1>2, <1>3 DEF StartupInv, StartupTyped, Creation, Ends, Codes
<1>5. Raced' /\ Stages'
  BY <1>1, <1>2, <1>3 DEF StartupInv, Raced, Stages, Control
<1>6. TimedOut'
  BY <1>1, <1>2, <1>3 DEF StartupInv, StartupTyped, Raced, TimedOut
<1> QED
  BY <1>4, <1>5, <1>6 DEF StartupInv

LEMMA SetGlobalKeepsStartup ==
    ASSUME StartupInv, SetGlobal
    PROVE  StartupInv'
<1>1. micro = << >> /\ (\A jobs : ~In(micro, jobs)) /\ globals > 0
  BY NothingIn DEF SetGlobal
<1>2. /\ micro' \in Seq(Jobs) /\ (\A jobs : AtMostOne(micro', jobs))
      /\ micro' = micro \/ (micro' = <<"throw">> /\ \A jobs : In(micro', jobs) <=> "throw" \in jobs)
  <2>1. /\ <<"throw">> \in Seq(Jobs)
        /\ \A jobs : (In(<<"throw">>, jobs) <=> "throw" \in jobs) /\ AtMostOne(<<"throw">>, jobs)
    BY OnlyIn DEF Jobs, Control
  <2>2. micro \in Seq(Jobs) /\ \A jobs : AtMostOne(micro, jobs)
    BY <1>1, NothingIn DEF StartupInv, StartupTyped
  <2>3. micro' = micro \/ micro' = <<"throw">>
    BY DEF SetGlobal
  <2>4. CASE micro' = micro
    BY <2>2, <2>4
  <2>5. CASE micro' = <<"throw">>
    BY <2>1, <2>5
  <2> QED
    BY <2>3, <2>4, <2>5
<1>3. race = "won" /\ creation = "fulfilled"
  BY <1>1 DEF StartupInv, Stages, Raced
<1>4. StartupTyped'
  <2>1. globals \in Nat /\ globals > 0
    BY <1>1 DEF StartupInv, StartupTyped
  <2>2. globals' \in Nat
    BY <2>1 DEF SetGlobal
  <2>3. /\ outcome' \in {"pending", "resolved", "rejected"}
        /\ runtime' \in {"none", "live", "disposed"} /\ closed' \in BOOLEAN
    BY DEF SetGlobal, StartupInv, StartupTyped
  <2> QED
    BY <1>2, <2>2, <2>3 DEF SetGlobal, StartupInv, StartupTyped
<1>5. Creation' /\ Raced'
  BY <1>1, <1>2, <1>3 DEF SetGlobal, StartupInv, Creation, Raced, Ends
<1>6. Stages'
  BY <1>1, <1>2, <1>3 DEF SetGlobal, StartupInv, StartupTyped, Stages, Control
<1>7. TimedOut'
  BY <1>3 DEF SetGlobal, TimedOut
<1> QED
  BY <1>4, <1>5, <1>6, <1>7 DEF StartupInv

LEMMA NextKeepsStartup == StartupInv /\ [StartupNext]_startupVars => StartupInv'
<1>1. UNCHANGED startupVars /\ StartupInv => StartupInv'
  BY DEF startupVars, StartupInv, StartupTyped, Creation, Raced, Stages, TimedOut
<1> QED
  BY <1>1, TaskKeepsStartup, TimerKeepsStartup, SetGlobalKeepsStartup, AbortKeepsStartup,
     HopKeepsStartup, CreatedKeepsStartup, FailedKeepsStartup, CheckKeepsStartup,
     WinKeepsStartup, LoseKeepsStartup, ResumeKeepsStartup, ThrowKeepsStartup,
     RetiredKeepsStartup DEF StartupNext, Microtask

LEMMA StartupInvariant == StartupSpec => []StartupInv
  BY StartupInitial, NextKeepsStartup, PTL DEF StartupSpec

(* A sandbox that createSandbox resolves to is open and has a live engine: *)
(* see ResolvedIsUsable.                                                   *)
THEOREM ResolvedSandboxWorks == StartupSpec => []ResolvedIsUsable
<1>1. StartupInv => ResolvedIsUsable
  BY DEF StartupInv, Creation, Raced, Stages, ResolvedIsUsable
<1> QED
  BY <1>1, StartupInvariant, PTL

(* A failed startup leaves no worker, and one that timed out no engine:    *)
(* see TimeoutDoesNotLeak.                                                 *)
THEOREM NothingLeaksAfterTimeout == StartupSpec => []TimeoutDoesNotLeak
<1>1. StartupInv => TimeoutDoesNotLeak
  <2>1. micro = << >> => ~In(micro, {"check"}) /\ micro # <<"throw">>
    BY NothingIn
  <2> QED
    BY <2>1 DEF StartupInv, StartupTyped, Stages, TimedOut, Over, TimeoutDoesNotLeak
<1> QED
  BY <1>1, StartupInvariant, PTL
=============================================================================
