--------------------------- MODULE SandboxProofs ---------------------------
(***************************************************************************)
(* Proofs that a sandbox, over an engine of its own thread or over one in  *)
(* a worker, for any operations and any capacity, accounts for every slot, *)
(* delivers no late value and implements SandboxService.                   *)
(*                                                                         *)
(* First what each action of Facade keeps; then the two transports.  Over  *)
(* a worker, replies, the announcement of the engine's death and the death *)
(* of the worker itself arrive separately.  There the argument is that the *)
(* announcement is posted before any reply that the death of the engine    *)
(* caused (FatalFirst), so the caller's side closes before it reads such a *)
(* reply.  On that invariant rests the second one, Travel: while both ends *)
(* live, a request the transport holds is in one place only, and was       *)
(* admitted, so a new operation cannot meet an old request of the same     *)
(* name.                                                                   *)
(*                                                                         *)
(* At the end both kinds together, as MCSandbox lets the initial state     *)
(* choose between them.                                                    *)
(***************************************************************************)
EXTENDS MCSandbox, FiniteSetTheorems, SequenceTheorems, TLAPS

USE DEF Answers, FatalCodes, EngineCauses, Causes, Refusals, Message, Rejections

(* A reaction that ends its sandbox, or tells of an end, waits only when   *)
(* the sandbox has ended already: the facade heard of it first.            *)
EndIsKnown ==
    /\ ended # "none" => pending = {} /\ held = {}
    /\ ended = "none" => \A r \in reactions : r.answer \in Answers

SlotsMatch == pending = {o \in Operations : outcome[o] = "pending"}

IInv == FacadeTypeOK /\ SlotsMatch /\ ClosedTogether /\ EndIsKnown

LEMMA InitIInv == FacadeInit => IInv
  BY DEF FacadeInit, IInv, FacadeTypeOK, SlotsMatch, ClosedTogether, EndIsKnown

(* Whatever retires the sandbox, the invariant holds afterwards.           *)
LEMMA RetireKeepsIInv ==
    ASSUME IInv, NEW cause \in Causes, NEW rest \in SUBSET reactions,
           Retire(cause, rest), UNCHANGED expired
    PROVE  IInv'
<1>1. CASE ended = "none"
  <2>1. /\ ended' = cause /\ pending' = {} /\ closed' = TRUE /\ held' = {}
        /\ outcome' = [o \in Operations |-> IF o \in pending THEN cause ELSE outcome[o]]
        /\ reactions' = rest \cup Rejections(held, "ERR_DISPOSED")
    BY <1>1 DEF Retire, RejectAll
  <2> QED
    BY <2>1 DEF IInv, FacadeTypeOK, SlotsMatch, ClosedTogether, EndIsKnown
<1>2. CASE ended # "none"
  <2>1. /\ UNCHANGED <<outcome, pending, ended, closed>> /\ held' = {}
        /\ reactions' = rest
    BY <1>2 DEF Retire, RejectAll, sandboxVars, IInv, ClosedTogether, FacadeTypeOK
  <2> QED
    BY <1>2, <2>1 DEF IInv, FacadeTypeOK, SlotsMatch, ClosedTogether, EndIsKnown
<1> QED BY <1>1, <1>2

LEMMA TransportFailsKeepsIInv ==
    ASSUME IInv, NEW cause \in Causes, TransportFails(cause)
    PROVE  IInv'
<1>1. ended = "none"
  BY DEF IInv, ClosedTogether, TransportFails, FacadeTypeOK
<1>2. /\ ended' = cause /\ pending' = {} /\ closed' = TRUE /\ held' = {}
      /\ outcome' = [o \in Operations |-> IF o \in pending THEN cause ELSE outcome[o]]
      /\ reactions' = reactions \cup Rejections(held, cause)
      /\ UNCHANGED expired
  BY <1>1 DEF TransportFails, OnFatal, RejectAll
<1> QED
  BY <1>1, <1>2 DEF IInv, FacadeTypeOK, SlotsMatch, ClosedTogether, EndIsKnown

LEMMA FinishKeepsIInv ==
    ASSUME IInv, NEW r \in reactions, Finish(r.op, r.answer, reactions \ {r}), UNCHANGED expired
    PROVE  IInv'
<1>1. r.op \in Operations /\ r.answer \in Answers \cup Causes
  BY DEF IInv, FacadeTypeOK
<1>2. /\ UNCHANGED <<ended, held, closed, expired>> /\ reactions' = reactions \ {r}
  BY DEF Finish
<1>3. CASE outcome[r.op] = "pending"
  <2>1. /\ outcome' = [outcome EXCEPT ![r.op] = r.answer]
        /\ pending' = pending \ {r.op}
    BY <1>3 DEF Finish, WithoutSlot
  <2>2. ended = "none"
    BY <1>1, <1>3 DEF IInv, EndIsKnown, SlotsMatch
  <2> QED
    BY <1>1, <1>2, <2>1, <2>2 DEF IInv, FacadeTypeOK, SlotsMatch, ClosedTogether, EndIsKnown
<1>4. CASE outcome[r.op] # "pending"
  <2>1. UNCHANGED <<outcome, pending>>
    BY <1>4 DEF Finish
  <2> QED
    BY <1>2, <2>1 DEF IInv, FacadeTypeOK, SlotsMatch, ClosedTogether, EndIsKnown
<1> QED BY <1>3, <1>4

LEMMA ReactKeepsIInv == IInv /\ React => IInv'
<1> SUFFICES ASSUME IInv, React PROVE IInv'
  OBVIOUS
<1>1. UNCHANGED expired
  BY DEF React
<1> PICK r \in reactions :
      IF r.answer = "value" /\ Late(r) THEN Retire("ERR_TIMEOUT", reactions \ {r})
      ELSE IF r.answer \in FatalCodes THEN Retire(r.answer, reactions \ {r})
      ELSE Finish(r.op, r.answer, reactions \ {r})
  BY DEF React
<1>2. \/ Retire("ERR_TIMEOUT", reactions \ {r})
      \/ r.answer \in FatalCodes /\ Retire(r.answer, reactions \ {r})
      \/ Finish(r.op, r.answer, reactions \ {r})
  OBVIOUS
<1>3. reactions \ {r} \in SUBSET reactions
  OBVIOUS
<1> QED
  BY <1>1, <1>2, <1>3, RetireKeepsIInv, FinishKeepsIInv

LEMMA CallerKeepsIInv == IInv /\ CallerStep => IInv'
<1> SUFFICES ASSUME IInv, CallerStep PROVE IInv'
  OBVIOUS
<1>1. ASSUME NEW o \in Operations, Refuse(o) \/ RefuseAborted(o) \/ Expire(o) PROVE IInv'
  BY <1>1 DEF Refuse, RefuseAborted, Expire, sandboxVars, transportVars,
              IInv, FacadeTypeOK, SlotsMatch, ClosedTogether, EndIsKnown
<1>2. ASSUME NEW o \in Operations, TimerFires(o) \/ Abort(o) PROVE IInv'
  BY <1>2, RetireKeepsIInv DEF TimerFires, Abort
<1>3. CASE Dispose
  BY <1>3, RetireKeepsIInv DEF Dispose
<1>4. CASE React
  BY <1>4, ReactKeepsIInv
<1> QED
  BY <1>1, <1>2, <1>3, <1>4 DEF CallerStep

(* Admission to an open sandbox, whether the transport then holds the      *)
(* operation or has rejected it already.                                   *)
LEMMA AdmittedKeepsIInv ==
    ASSUME IInv, NEW o \in Operations, Admitted(o),
           \/ held' = held \cup {o} /\ reactions' = reactions
           \/ held' = held /\ reactions' = reactions \cup Rejections({o}, "ERR_GUEST")
    PROVE  IInv'
  BY DEF Admitted, IInv, FacadeTypeOK, SlotsMatch, ClosedTogether, EndIsKnown

LEMMA AdmitToOpen ==
    ASSUME IInv, NEW o \in Operations, Admit(o)
    PROVE  ~closed /\ held' = held \cup {o} /\ reactions' = reactions
<1>1. ~closed
  BY DEF Admit, Admitted, IInv, ClosedTogether
<1> QED
  BY <1>1 DEF Admit

(* The promise of a held operation settles with an answer. *)
LEMMA AnswerKeepsIInv ==
    ASSUME IInv, NEW o \in held, NEW answer \in Answers,
           held' = held \ {o}, reactions' = reactions \cup Rejections({o}, answer),
           UNCHANGED <<sandboxVars, expired, closed>>
    PROVE  IInv'
  BY DEF sandboxVars, IInv, FacadeTypeOK, SlotsMatch, ClosedTogether, EndIsKnown

-----------------------------------------------------------------------------
(* Admission, for every capacity.                                          *)

WithinCapacity == Cardinality(pending \ Cleanups) =< CAPACITY

LEMMA NobodyFits ==
    ASSUME pending = {}
    PROVE  WithinCapacity
<1>1. pending \ Cleanups = {}
  OBVIOUS
<1> QED
  BY <1>1, FS_EmptySet, OperationsAssumption DEF WithinCapacity

LEMMA FewerFit ==
    ASSUME IInv, WithinCapacity, pending' \subseteq pending
    PROVE  WithinCapacity'
<1>1. IsFiniteSet(pending \ Cleanups)
  BY OperationsAssumption, FS_Subset DEF IInv, FacadeTypeOK
<1>2. pending' \ Cleanups \subseteq pending \ Cleanups
  OBVIOUS
<1>3. /\ IsFiniteSet(pending' \ Cleanups)
      /\ Cardinality(pending' \ Cleanups) =< Cardinality(pending \ Cleanups)
  BY <1>1, <1>2, FS_Subset
<1> QED
  BY <1>1, <1>3, OperationsAssumption, FS_CardinalityType DEF WithinCapacity

LEMMA AdmittedFits ==
    ASSUME IInv, WithinCapacity, NEW o \in Operations, Admitted(o)
    PROVE  WithinCapacity'
<1>1. IsFiniteSet(pending)
  BY OperationsAssumption, FS_Subset DEF IInv, FacadeTypeOK
<1>2. pending' = pending \cup {o}
  BY DEF Admitted
<1>3. CASE o \in Cleanups
  <2>1. pending' \ Cleanups = pending \ Cleanups
    BY <1>2, <1>3
  <2> QED
    BY <2>1 DEF WithinCapacity
<1>4. CASE o \notin Cleanups
  <2>1. Cardinality(pending) < CAPACITY
    BY <1>4 DEF Admitted, Room
  <2>2. /\ IsFiniteSet(pending')
        /\ Cardinality(pending') = Cardinality(pending) \/ Cardinality(pending') = Cardinality(pending) + 1
    BY <1>1, <1>2, FS_AddElement
  <2>3. Cardinality(pending' \ Cleanups) =< Cardinality(pending')
    BY <2>2, FS_Subset
  <2>4. /\ Cardinality(pending) \in Nat /\ Cardinality(pending') \in Nat
        /\ Cardinality(pending' \ Cleanups) \in Nat
    BY <1>1, <2>2, FS_CardinalityType, FS_Subset
  <2> QED
    BY <2>1, <2>2, <2>3, <2>4, OperationsAssumption DEF WithinCapacity
<1> QED BY <1>3, <1>4

LEMMA RetireFits ==
    ASSUME IInv, WithinCapacity, NEW cause, NEW rest, Retire(cause, rest)
    PROVE  WithinCapacity'
  BY FewerFit DEF Retire, RejectAll, sandboxVars

LEMMA CallerFits == IInv /\ WithinCapacity /\ CallerStep => WithinCapacity'
<1> SUFFICES ASSUME IInv, WithinCapacity, CallerStep PROVE WithinCapacity'
  OBVIOUS
<1>1. ASSUME NEW o \in Operations, Refuse(o) \/ RefuseAborted(o) \/ Expire(o)
      PROVE  WithinCapacity'
  BY <1>1, FewerFit DEF Refuse, RefuseAborted, Expire, sandboxVars
<1>2. ASSUME NEW o \in Operations, TimerFires(o) \/ Abort(o) PROVE WithinCapacity'
  BY <1>2, RetireFits DEF TimerFires, Abort
<1>3. CASE Dispose
  BY <1>3, RetireFits DEF Dispose
<1>4. CASE React
  <2>1. PICK r \in reactions : \/ Retire("ERR_TIMEOUT", reactions \ {r})
                               \/ Retire(r.answer, reactions \ {r})
                               \/ Finish(r.op, r.answer, reactions \ {r})
    BY <1>4 DEF React
  <2>2. Finish(r.op, r.answer, reactions \ {r}) => pending' \subseteq pending
    BY DEF Finish, WithoutSlot
  <2> QED
    BY <2>1, <2>2, RetireFits, FewerFit
<1> QED
  BY <1>1, <1>2, <1>3, <1>4 DEF CallerStep

LEMMA TransportFailsFits ==
    ASSUME IInv, WithinCapacity, NEW cause, TransportFails(cause)
    PROVE  WithinCapacity'
  BY FewerFit DEF TransportFails, OnFatal, RejectAll, sandboxVars

-----------------------------------------------------------------------------
(* Refinement: what each step does to the promises the caller sees.        *)

ServiceStep == [Service!Next]_(Service!vars)

LEMMA EndServes ==
    ASSUME IInv, NEW cause \in Causes, RejectAll(cause)
    PROVE  ServiceStep
<1>1. CASE ended = "none"
  <2>1. Service!End(cause)
    BY <1>1 DEF RejectAll, Service!End, Service!Pending, IInv, SlotsMatch
  <2> QED
    BY <2>1 DEF ServiceStep, Service!Next
<1>2. CASE ended # "none"
  BY <1>2 DEF RejectAll, sandboxVars, ServiceStep, Service!vars
<1> QED BY <1>1, <1>2

LEMMA FinishServes ==
    ASSUME IInv, NEW r \in reactions, NEW rest, Finish(r.op, r.answer, rest)
    PROVE  ServiceStep
<1>1. r.op \in Operations
  BY DEF IInv, FacadeTypeOK
<1>2. CASE outcome[r.op] = "pending"
  <2>1. ended = "none" /\ r.answer \in Answers
    BY <1>1, <1>2 DEF IInv, SlotsMatch, EndIsKnown
  <2>2. Service!Answer(r.op)
    BY <1>1, <1>2, <2>1 DEF Finish, Service!Answer, Service!Pending
  <2> QED
    BY <1>1, <2>2 DEF ServiceStep, Service!Next
<1>3. CASE outcome[r.op] # "pending"
  BY <1>3 DEF Finish, ServiceStep, Service!vars
<1> QED BY <1>2, <1>3

LEMMA CallerServes == IInv /\ CallerStep => ServiceStep
<1> SUFFICES ASSUME IInv, CallerStep PROVE ServiceStep
  OBVIOUS
<1>1. ASSUME NEW o \in Operations, Refuse(o) \/ RefuseAborted(o) PROVE ServiceStep
  <2>1. Service!Refuse(o)
    BY <1>1 DEF Refuse, RefuseAborted, Service!Refuse
  <2> QED
    BY <2>1 DEF ServiceStep, Service!Next
<1>2. ASSUME NEW o \in Operations, Expire(o) PROVE ServiceStep
  BY <1>2 DEF Expire, sandboxVars, ServiceStep, Service!vars
<1>3. ASSUME NEW cause \in Causes, NEW rest, Retire(cause, rest) PROVE ServiceStep
  BY <1>3, EndServes DEF Retire
<1>4. CASE React
  <2>1. PICK r \in reactions : \/ Retire("ERR_TIMEOUT", reactions \ {r})
                               \/ r.answer \in FatalCodes /\ Retire(r.answer, reactions \ {r})
                               \/ Finish(r.op, r.answer, reactions \ {r})
    BY <1>4 DEF React
  <2> QED
    BY <2>1, <1>3, FinishServes
<1>5. ASSUME NEW o \in Operations, TimerFires(o) \/ Abort(o) PROVE ServiceStep
  BY <1>5, <1>3 DEF TimerFires, Abort
<1>6. CASE Dispose
  BY <1>6, <1>3 DEF Dispose
<1> QED
  BY <1>1, <1>2, <1>4, <1>5, <1>6 DEF CallerStep

LEMMA AdmittedServes ==
    ASSUME NEW o \in Operations, Admitted(o)
    PROVE  ServiceStep
<1>1. Service!Accept(o)
  BY DEF Admitted, Service!Accept
<1> QED
  BY <1>1 DEF ServiceStep, Service!Next

LEMMA TransportFailsServes ==
    ASSUME IInv, NEW cause \in Causes, TransportFails(cause)
    PROVE  ServiceStep
  BY EndServes DEF TransportFails, OnFatal
-----------------------------------------------------------------------------
(* A late answer is not delivered. *)

NothingLate == \A o \in expired : outcome'[o] = "value" => outcome[o] = "value"

LEMMA RejectsNothingLate ==
    ASSUME IInv, NEW cause \in Causes, RejectAll(cause)
    PROVE  NothingLate
  BY DEF RejectAll, sandboxVars, NothingLate, IInv, FacadeTypeOK

LEMMA CallerDeliversNothingLate == IInv /\ CallerStep => NothingLate
<1> SUFFICES ASSUME IInv, CallerStep PROVE NothingLate
  OBVIOUS
<1>1. ASSUME NEW o \in Operations, Refuse(o) \/ RefuseAborted(o) \/ Expire(o)
      PROVE  NothingLate
  BY <1>1 DEF Refuse, RefuseAborted, Expire, sandboxVars, NothingLate, IInv, FacadeTypeOK
<1>2. ASSUME NEW cause \in Causes, NEW rest, Retire(cause, rest) PROVE NothingLate
  BY <1>2, RejectsNothingLate DEF Retire
<1>3. CASE React
  <2>1. PICK r \in reactions : \/ Retire("ERR_TIMEOUT", reactions \ {r})
                               \/ r.answer \in FatalCodes /\ Retire(r.answer, reactions \ {r})
                               \/ /\ ~(r.answer = "value" /\ Late(r))
                                  /\ Finish(r.op, r.answer, reactions \ {r})
    BY <1>3 DEF React
  <2>2. ASSUME ~(r.answer = "value" /\ Late(r)), Finish(r.op, r.answer, reactions \ {r})
        PROVE  NothingLate
    BY <2>2 DEF Finish, Late, NothingLate, IInv, FacadeTypeOK
  <2> QED
    BY <2>1, <2>2, <1>2
<1>4. ASSUME NEW o \in Operations, TimerFires(o) \/ Abort(o) PROVE NothingLate
  BY <1>4, <1>2 DEF TimerFires, Abort
<1>5. CASE Dispose
  BY <1>5, <1>2 DEF Dispose
<1> QED
  BY <1>1, <1>3, <1>4, <1>5 DEF CallerStep

LEMMA AdmitsNothingLate ==
    ASSUME IInv, NEW o \in Operations, Admitted(o)
    PROVE  NothingLate
  BY DEF Admitted, NothingLate, IInv, FacadeTypeOK

LEMMA FailsNothingLate ==
    ASSUME IInv, NEW cause \in Causes, TransportFails(cause)
    PROVE  NothingLate
  BY RejectsNothingLate DEF TransportFails, OnFatal
-----------------------------------------------------------------------------
LEMMA InlineKeepsIInv == IInv /\ [InlineNext]_facadeVars => IInv'
<1> SUFFICES ASSUME IInv, [InlineNext]_facadeVars PROVE IInv'
  OBVIOUS
<1>1. ASSUME NEW o \in Operations, Admit(o) PROVE IInv'
  <2>1. Admitted(o)
    BY <1>1 DEF Admit
  <2>2. held' = held \cup {o} /\ reactions' = reactions
    BY <1>1, AdmitToOpen
  <2> QED
    BY <2>1, <2>2, AdmittedKeepsIInv
<1>2. ASSUME NEW o \in Operations, NEW answer \in Answers, InlineAnswers(o, answer) PROVE IInv'
  BY <1>2, AnswerKeepsIInv DEF InlineAnswers
<1>3. ASSUME NEW cause \in EngineCauses, InlineDies(cause) PROVE IInv'
  BY <1>3, TransportFailsKeepsIInv DEF InlineDies, Causes
<1>4. CASE CallerStep
  BY <1>4, CallerKeepsIInv
<1>5. CASE UNCHANGED facadeVars
  BY <1>5 DEF facadeVars, sandboxVars, transportVars,
              IInv, FacadeTypeOK, SlotsMatch, ClosedTogether, EndIsKnown
<1> QED
  BY <1>1, <1>2, <1>3, <1>4, <1>5 DEF InlineNext

(* IInv holds of a sandbox over an engine in the same thread (inline.ts).   *)
THEOREM InlineInvariant == InlineSpec => []IInv
<1> QED
  BY InitIInv, InlineKeepsIInv, PTL DEF InlineSpec

(* A sandbox is open exactly while its engine is: see ClosedTogether.      *)
THEOREM InlineClosedTogether == InlineSpec => []ClosedTogether
<1>1. IInv => ClosedTogether
  BY DEF IInv
<1> QED
  BY <1>1, InlineInvariant, PTL

(* A step over an inline engine overdraws no slot.                        *)
LEMMA InlineFits == IInv /\ WithinCapacity /\ [InlineNext]_facadeVars => WithinCapacity'
<1> SUFFICES ASSUME IInv, WithinCapacity, [InlineNext]_facadeVars PROVE WithinCapacity'
  OBVIOUS
<1>1. ASSUME NEW o \in Operations, Admit(o) PROVE WithinCapacity'
  BY <1>1, AdmittedFits DEF Admit
<1>2. ASSUME NEW o, NEW answer, InlineAnswers(o, answer) PROVE WithinCapacity'
  BY <1>2, FewerFit DEF InlineAnswers, sandboxVars
<1>3. CASE UNCHANGED facadeVars
  BY <1>3, FewerFit DEF facadeVars, sandboxVars
<1> QED
  BY <1>1, <1>2, <1>3, CallerFits, TransportFailsFits DEF InlineNext, InlineDies

(* Slots are never lost and never overdrawn: see SlotsAccounted.           *)
THEOREM InlineSlotsAccounted == InlineSpec => []SlotsAccounted
<1>1. FacadeInit => WithinCapacity
  BY NobodyFits DEF FacadeInit
<1>2. IInv /\ WithinCapacity /\ [InlineNext]_facadeVars => WithinCapacity'
  BY InlineFits
<1>3. IInv /\ WithinCapacity => SlotsAccounted
  BY DEF IInv, SlotsMatch, WithinCapacity, SlotsAccounted
<1> QED
  BY <1>1, <1>2, <1>3, InlineInvariant, PTL DEF InlineSpec

(* A step over an inline engine delivers nothing late.                    *)
LEMMA InlineDeliversNothingLate == IInv /\ [InlineNext]_facadeVars => [NothingLate]_facadeVars
<1> SUFFICES ASSUME IInv, InlineNext PROVE NothingLate
  OBVIOUS
<1>1. ASSUME NEW o \in Operations, Admit(o) PROVE NothingLate
  BY <1>1, AdmitsNothingLate DEF Admit
<1>2. ASSUME NEW o, NEW answer, InlineAnswers(o, answer) PROVE NothingLate
  BY <1>2 DEF InlineAnswers, sandboxVars, NothingLate
<1>3. ASSUME NEW cause \in EngineCauses, InlineDies(cause) PROVE NothingLate
  BY <1>3, FailsNothingLate DEF InlineDies, Causes
<1> QED
  BY <1>1, <1>2, <1>3, CallerDeliversNothingLate DEF InlineNext

(* No answer is delivered after its deadline: see NoLateValue.             *)
THEOREM InlineNoLateValue == InlineSpec => NoLateValue
<1>1. IInv /\ [InlineNext]_facadeVars => [NothingLate]_facadeVars
  BY InlineDeliversNothingLate
<1> QED
  BY <1>1, InlineInvariant, PTL DEF InlineSpec, NoLateValue, NothingLate

(* A step over an inline engine is one of the service, or a stutter.      *)
LEMMA InlineServes == IInv /\ [InlineNext]_facadeVars => ServiceStep
<1> SUFFICES ASSUME IInv, [InlineNext]_facadeVars PROVE ServiceStep
  OBVIOUS
<1>1. ASSUME NEW o \in Operations, Admit(o) PROVE ServiceStep
  BY <1>1, AdmittedServes DEF Admit
<1>2. ASSUME UNCHANGED sandboxVars PROVE ServiceStep
  BY <1>2 DEF sandboxVars, ServiceStep, Service!vars
<1>3. ASSUME NEW o, NEW answer, InlineAnswers(o, answer) PROVE ServiceStep
  BY <1>3, <1>2 DEF InlineAnswers
<1>4. ASSUME NEW cause \in EngineCauses, InlineDies(cause) PROVE ServiceStep
  BY <1>4, TransportFailsServes DEF InlineDies, Causes
<1>5. CASE UNCHANGED facadeVars
  BY <1>5, <1>2 DEF facadeVars
<1> QED
  BY <1>1, <1>3, <1>4, <1>5, CallerServes DEF InlineNext

(* A sandbox over an inline engine keeps the promises of SandboxService:   *)
(* see ImplementsService.                                                  *)
THEOREM InlineImplementsService == InlineSpec => ImplementsService
<1>1. FacadeInit => Service!Init
  BY DEF FacadeInit, Service!Init
<1>2. IInv /\ [InlineNext]_facadeVars => ServiceStep
  BY InlineServes
<1> QED
  BY <1>1, <1>2, InlineInvariant, PTL DEF InlineSpec, ImplementsService, Service!Spec, ServiceStep
-----------------------------------------------------------------------------
IsFatal(m) == m.kind = "fatal"
TellsOfDeath(m) == m.kind = "reply" /\ m.answer \notin Answers

Ordered(s) == \A i \in 1..Len(s) : TellsOfDeath(s[i]) => \E j \in 1..(i-1) : IsFatal(s[j])
HasFatal(s) == \E j \in 1..Len(s) : IsFatal(s[j])

FatalFirst == ~closed => Ordered(fromWorker)
DeathAnnounced == Alive /\ engineEnded # "none" => HasFatal(fromWorker)
RepliesHonest == engineEnded = "none" => \A r \in replies : r.answer \in Answers

WInv == IInv /\ WorkerTypeOK /\ FatalFirst /\ DeathAnnounced /\ RepliesHonest

(* Messages and sequences of them. *)

LEMMA MessageFields ==
    ASSUME NEW m \in Messages
    PROVE  /\ m.kind = "reply" => m.op \in Operations /\ m.answer \in Answers \cup Causes
           /\ m.kind = "fatal" => m.cause \in EngineCauses
           /\ m.kind \in {"reply", "fatal", "exit"}
  BY DEF Messages, Exit

LEMMA ReplyIsMessage ==
    ASSUME NEW r \in Message
    PROVE  /\ Reply(r) \in Messages /\ Reply(r).kind = "reply"
           /\ Reply(r).op = r.op /\ Reply(r).answer = r.answer
  BY DEF Reply, Messages, Message

LEMMA FatalIsMessage ==
    ASSUME NEW cause \in EngineCauses
    PROVE  Fatal(cause) \in Messages /\ Fatal(cause).kind = "fatal"
  BY DEF Fatal, Messages

LEMMA ExitIsMessage == Exit \in Messages /\ Exit.kind = "exit"
  BY DEF Exit, Messages

LEMMA AppendKeepsOrder ==
    ASSUME NEW s \in Seq(Messages), NEW m \in Messages, Ordered(s),
           TellsOfDeath(m) => HasFatal(s)
    PROVE  /\ Append(s, m) \in Seq(Messages)
           /\ Ordered(Append(s, m))
           /\ HasFatal(s) \/ IsFatal(m) => HasFatal(Append(s, m))
<1> DEFINE t == Append(s, m)
<1>1. /\ t \in Seq(Messages) /\ Len(s) \in Nat /\ Len(t) = Len(s) + 1
      /\ t[Len(s) + 1] = m /\ \A i \in 1..Len(s) : t[i] = s[i]
  OBVIOUS
<1> HIDE DEF t
<1>2. Ordered(t)
  <2> SUFFICES ASSUME NEW i \in 1..Len(t), TellsOfDeath(t[i])
               PROVE  \E j \in 1..(i-1) : IsFatal(t[j])
    BY DEF Ordered
  <2>1. CASE i = Len(s) + 1
    BY <1>1, <2>1 DEF HasFatal
  <2>2. CASE i \in 1..Len(s)
    <3>1. PICK j \in 1..(i-1) : IsFatal(s[j])
      BY <1>1, <2>2 DEF Ordered
    <3>2. t[j] = s[j]
      BY <1>1, <2>2
    <3> QED
      BY <3>1, <3>2
  <2> QED
    BY <1>1, <2>1, <2>2
<1>3. HasFatal(s) \/ IsFatal(m) => HasFatal(t)
  BY <1>1 DEF HasFatal
<1> QED
  BY <1>1, <1>2, <1>3 DEF t

LEMMA TailKeepsOrder ==
    ASSUME NEW s \in Seq(Messages), s # <<>>, Ordered(s), ~IsFatal(Head(s))
    PROVE  /\ Ordered(Tail(s))
           /\ HasFatal(s) => HasFatal(Tail(s))
           /\ ~TellsOfDeath(Head(s))
<1> DEFINE t == Tail(s)
<1>1. /\ Len(s) \in Nat \ {0} /\ Len(t) = Len(s) - 1 /\ Head(s) = s[1]
      /\ \A i \in 1..Len(t) : t[i] = s[i + 1]
  OBVIOUS
<1> HIDE DEF t
<1>2. Ordered(t)
  <2> SUFFICES ASSUME NEW i \in 1..Len(t), TellsOfDeath(t[i])
               PROVE  \E j \in 1..(i-1) : IsFatal(t[j])
    BY DEF Ordered
  <2>1. i + 1 \in 1..Len(s) /\ TellsOfDeath(s[i + 1])
    BY <1>1
  <2>2. PICK k \in 1..i : IsFatal(s[k])
    BY <2>1 DEF Ordered
  <2>3. k # 1
    BY <1>1, <2>2
  <2>4. k - 1 \in 1..(i-1) /\ t[k - 1] = s[k]
    BY <1>1, <2>2, <2>3
  <2> QED
    BY <2>2, <2>4
<1>3. ASSUME HasFatal(s) PROVE HasFatal(t)
  <2>1. PICK k \in 1..Len(s) : IsFatal(s[k])
    BY <1>3 DEF HasFatal
  <2>2. k # 1
    BY <1>1, <2>1
  <2>3. k - 1 \in 1..Len(t) /\ t[k - 1] = s[k]
    BY <1>1, <2>1, <2>2
  <2> QED
    BY <2>1, <2>3 DEF HasFatal
<1>4. ~TellsOfDeath(Head(s))
  BY <1>1 DEF Ordered
<1> QED
  BY <1>2, <1>3, <1>4 DEF t

LEMMA PrefixKeepsOrder ==
    ASSUME NEW s \in Seq(Messages), Ordered(s), NEW kept \in 0..Len(s)
    PROVE  SubSeq(s, 1, kept) \in Seq(Messages) /\ Ordered(SubSeq(s, 1, kept))
<1> DEFINE t == SubSeq(s, 1, kept)
<1>1. /\ t \in Seq(Messages) /\ Len(s) \in Nat /\ Len(t) = kept
      /\ \A i \in 1..kept : t[i] = s[i]
  OBVIOUS
<1> HIDE DEF t
<1>2. Ordered(t)
  BY <1>1 DEF Ordered
<1> QED
  BY <1>1, <1>2 DEF t
-----------------------------------------------------------------------------
(* The invariant. *)

LEMMA InitWInv == Init => WInv
<1> SUFFICES ASSUME Init PROVE WInv
  OBVIOUS
<1>1. IInv
  BY InitIInv DEF Init
<1>2. WorkerTypeOK
  <2>1. <<>> \in Seq(Operations) /\ <<>> \in Seq(Messages)
    OBVIOUS
  <2> QED
    BY <1>1, <2>1 DEF Init, WorkerTypeOK, IInv
<1>3. FatalFirst /\ DeathAnnounced /\ RepliesHonest
  BY DEF Init, FatalFirst, Ordered, DeathAnnounced, RepliesHonest
<1> QED
  BY <1>1, <1>2, <1>3 DEF WInv

(* A closed transport stays closed. *)
LEMMA RetireCloses ==
    ASSUME NEW cause, NEW rest, Retire(cause, rest)
    PROVE  closed => closed'
  BY DEF Retire

LEMMA CallerCloses == CallerStep => (closed => closed')
<1> SUFFICES ASSUME CallerStep, closed PROVE closed'
  OBVIOUS
<1>1. ASSUME NEW o \in Operations, Refuse(o) \/ RefuseAborted(o) \/ Expire(o) PROVE closed'
  BY <1>1 DEF Refuse, RefuseAborted, Expire, transportVars
<1>2. ASSUME NEW o \in Operations, TimerFires(o) \/ Abort(o) PROVE closed'
  BY <1>2, RetireCloses DEF TimerFires, Abort
<1>3. CASE Dispose
  BY <1>3, RetireCloses DEF Dispose
<1>4. CASE React
  BY <1>4, RetireCloses DEF React, Finish
<1> QED
  BY <1>1, <1>2, <1>3, <1>4 DEF CallerStep

LEMMA CallerSideKeepsWInv ==
    ASSUME WInv, IInv', closed => closed', UNCHANGED workerVars
    PROVE  WInv'
  BY DEF WInv, IInv, workerVars, WorkerTypeOK, FatalFirst, DeathAnnounced, RepliesHonest, Alive, Ordered, HasFatal

LEMMA FacadeUnchanged ==
    ASSUME IInv, UNCHANGED facadeVars
    PROVE  IInv'
  BY DEF facadeVars, sandboxVars, transportVars,
         IInv, FacadeTypeOK, SlotsMatch, ClosedTogether, EndIsKnown

(* Once the transport is closed, only the types of the channels matter. *)
LEMMA FailureKeepsWInv ==
    ASSUME WInv, NEW cause \in Causes, TransportFails(cause),
           UNCHANGED <<toWorker, running, replies, swallowed, engineEnded, crashed>>,
           fromWorker' \in Seq(Messages)
    PROVE  WInv'
<1>1. IInv' /\ closed'
  BY TransportFailsKeepsIInv DEF WInv, TransportFails
<1> QED
  BY <1>1 DEF WInv, IInv, WorkerTypeOK, FatalFirst, DeathAnnounced, RepliesHonest, Alive

LEMMA ExecuteKeepsWInv ==
    ASSUME WInv, NEW o \in Operations, Execute(o)
    PROVE  WInv'
<1>1. Admitted(o) /\ closed' = closed
  BY DEF Execute, Admit, Admitted
<1>2. held' = held \cup {o} /\ reactions' = reactions
  BY AdmitToOpen DEF Execute, WInv
<1>3. IInv'
  BY <1>1, <1>2, AdmittedKeepsIInv DEF WInv
<1>4. toWorker' \in Seq(Operations)
  BY DEF Execute, WInv, WorkerTypeOK
<1> QED
  BY <1>1, <1>3, <1>4 DEF Execute, WInv, IInv, WorkerTypeOK, FatalFirst, DeathAnnounced, RepliesHonest,
     Alive, Ordered, HasFatal

LEMMA ExecuteFailsKeepsWInv ==
    ASSUME WInv, NEW o \in Operations, ExecuteFails(o)
    PROVE  WInv'
<1>1. Admitted(o) /\ held' = held /\ reactions' = reactions \cup Rejections({o}, "ERR_GUEST")
  BY DEF ExecuteFails, NotHeld
<1>2. IInv'
  BY <1>1, AdmittedKeepsIInv DEF WInv
<1> QED
  BY <1>1, <1>2, CallerSideKeepsWInv DEF ExecuteFails, Admitted

LEMMA ReceiveKeepsWInv ==
    ASSUME WInv, Receive
    PROVE  WInv'
<1> DEFINE m == Head(fromWorker)
<1>1. /\ fromWorker \in Seq(Messages) /\ fromWorker # <<>> /\ ~closed /\ reactions = {}
      /\ fromWorker' = Tail(fromWorker) /\ m \in Messages
      /\ UNCHANGED <<toWorker, running, replies, swallowed, engineEnded, crashed>>
  BY DEF Receive, WInv, WorkerTypeOK
<1>2. Tail(fromWorker) \in Seq(Messages)
  BY <1>1
<1>3. CASE m.kind = "fatal"
  <2>1. m.cause \in Causes /\ TransportFails(m.cause)
    BY <1>1, <1>3, MessageFields DEF Receive, Causes
  <2> QED
    BY <1>1, <1>2, <2>1, FailureKeepsWInv
<1>4. CASE m.kind = "exit"
  <2>1. TransportFails("ERR_WORKER")
    BY <1>4 DEF Receive
  <2> QED
    BY <1>1, <1>2, <2>1, FailureKeepsWInv DEF Causes
<1>5. CASE m.kind = "reply"
  <2>1. /\ Ordered(Tail(fromWorker))
        /\ HasFatal(fromWorker) => HasFatal(Tail(fromWorker))
        /\ ~TellsOfDeath(m)
    BY <1>1, <1>5, TailKeepsOrder DEF WInv, FatalFirst, IsFatal
  <2>2. IInv' /\ closed' = closed
    <3>1. CASE m.op \in held
      <4>1. /\ held' = held \ {m.op}
            /\ reactions' = reactions \cup Rejections({m.op}, m.answer)
            /\ UNCHANGED <<sandboxVars, expired, closed>>
        BY <1>1, <1>5, <3>1 DEF Receive
      <4>2. m.answer \in Answers
        BY <1>5, <2>1 DEF TellsOfDeath
      <4> QED
        BY <3>1, <4>1, <4>2, AnswerKeepsIInv DEF WInv
    <3>2. CASE m.op \notin held
      <4>1. UNCHANGED facadeVars
        BY <1>5, <3>2 DEF Receive
      <4> QED
        BY <4>1, FacadeUnchanged DEF WInv, facadeVars, transportVars
    <3> QED BY <3>1, <3>2
  <2> QED
    BY <1>1, <1>2, <2>1, <2>2
       DEF WInv, IInv, WorkerTypeOK, FatalFirst, DeathAnnounced, RepliesHonest, Alive
<1> QED
  BY <1>1, <1>3, <1>4, <1>5, MessageFields

LEMMA ChannelFailsKeepsWInv ==
    ASSUME WInv, ChannelFails
    PROVE  WInv'
<1>1. fromWorker \in Seq(Messages) /\ fromWorker # <<>>
  BY DEF WInv, WorkerTypeOK, ChannelFails
<1>2. Tail(fromWorker) \in Seq(Messages)
  BY <1>1
<1> QED
  BY <1>2, FailureKeepsWInv DEF ChannelFails, Causes

(* The worker's steps change nothing on the caller's side, and post one    *)
(* message at most.                                                        *)
LEMMA PostingKeepsWInv ==
    ASSUME WInv, UNCHANGED facadeVars, Alive,
           NEW m \in Messages, TellsOfDeath(m) => HasFatal(fromWorker),
           fromWorker' = Append(fromWorker, m)
    PROVE  /\ IInv' /\ FatalFirst' /\ fromWorker' \in Seq(Messages)
           /\ HasFatal(fromWorker) \/ IsFatal(m) => HasFatal(fromWorker')
<1>1. IInv' /\ fromWorker \in Seq(Messages) /\ Ordered(fromWorker)
  BY FacadeUnchanged DEF WInv, WorkerTypeOK, FatalFirst, Alive
<1> QED
  BY <1>1, AppendKeepsOrder DEF FatalFirst

LEMMA ServeKeepsWInv ==
    ASSUME WInv, Serve
    PROVE  WInv'
<1>1. IInv'
  BY FacadeUnchanged DEF Serve, WInv
<1>2. toWorker \in Seq(Operations) /\ toWorker # <<>>
  BY DEF Serve, WInv, WorkerTypeOK
<1>3. Tail(toWorker) \in Seq(Operations) /\ Head(toWorker) \in Operations
  BY <1>2
<1>4. UNCHANGED <<closed, crashed, engineEnded, fromWorker, swallowed>>
  BY DEF Serve, facadeVars, transportVars
<1>5. CASE engineEnded = "none"
  BY <1>1, <1>3, <1>4, <1>5 DEF Serve, WInv, IInv, WorkerTypeOK,
     FatalFirst, DeathAnnounced, RepliesHonest, Alive, Ordered, HasFatal
<1>6. CASE engineEnded # "none"
  <2>1. /\ running' = running /\ replies' \subseteq Message /\ toWorker' = Tail(toWorker)
    BY <1>3, <1>6 DEF Serve, WInv, WorkerTypeOK, Rejections, Message, Causes
  <2> QED
    BY <1>1, <1>3, <1>4, <1>6, <2>1 DEF WInv, IInv, WorkerTypeOK,
       FatalFirst, DeathAnnounced, RepliesHonest, Alive, Ordered, HasFatal
<1> QED BY <1>5, <1>6

LEMMA EngineAnswersKeepsWInv ==
    ASSUME WInv, NEW o \in Operations, NEW answer \in Answers, EngineAnswers(o, answer)
    PROVE  WInv'
<1>1. IInv'
  BY FacadeUnchanged DEF EngineAnswers, WInv
<1>2. UNCHANGED <<closed, crashed, engineEnded, fromWorker, swallowed, toWorker>>
  BY DEF EngineAnswers, facadeVars, transportVars
<1>3. /\ running' \subseteq running
      /\ replies' = replies \cup Rejections({o}, answer)
      /\ replies' \subseteq Message
  BY DEF EngineAnswers, WInv, WorkerTypeOK, Rejections, Message
<1> QED
  BY <1>1, <1>2, <1>3 DEF WInv, IInv, WorkerTypeOK, Rejections,
     FatalFirst, DeathAnnounced, RepliesHonest, Alive, Ordered, HasFatal

LEMMA EngineDiesKeepsWInv ==
    ASSUME WInv, NEW cause \in EngineCauses, EngineDies(cause)
    PROVE  WInv'
<1> DEFINE m == Fatal(cause)
<1>1. m \in Messages /\ IsFatal(m) /\ ~TellsOfDeath(m)
  BY FatalIsMessage DEF IsFatal, TellsOfDeath
<1>2. /\ UNCHANGED facadeVars /\ Alive /\ fromWorker' = Append(fromWorker, m)
      /\ UNCHANGED <<toWorker, swallowed, crashed>>
      /\ engineEnded' = cause /\ running' = {}
  BY DEF EngineDies, Announced
<1>3. IInv' /\ FatalFirst' /\ fromWorker' \in Seq(Messages) /\ HasFatal(fromWorker')
  BY <1>1, <1>2, PostingKeepsWInv
<1>4. replies' \subseteq Message
  BY DEF EngineDies, WInv, WorkerTypeOK, Rejections, Message, Causes
<1>5. cause # "none"
  BY DEF EngineCauses, FatalCodes
<1> QED
  BY <1>2, <1>3, <1>4, <1>5 DEF WInv, IInv, WorkerTypeOK, DeathAnnounced, RepliesHonest

LEMMA PostKeepsWInv ==
    ASSUME WInv, Post
    PROVE  WInv'
<1>1. PICK r \in replies : replies' = replies \ {r} /\ fromWorker' = Append(fromWorker, Reply(r))
  BY DEF Post
<1>2. /\ UNCHANGED facadeVars /\ Alive
      /\ UNCHANGED <<toWorker, running, swallowed, engineEnded, crashed>>
  BY DEF Post
<1>3. r \in Message
  BY DEF WInv, WorkerTypeOK
<1>4. Reply(r) \in Messages
  BY <1>3, ReplyIsMessage
<1>5. TellsOfDeath(Reply(r)) => HasFatal(fromWorker)
  BY <1>2, <1>3, ReplyIsMessage DEF TellsOfDeath, WInv, DeathAnnounced, RepliesHonest
<1>6. /\ IInv' /\ FatalFirst' /\ fromWorker' \in Seq(Messages)
      /\ HasFatal(fromWorker) => HasFatal(fromWorker')
  BY <1>1, <1>2, <1>4, <1>5, PostingKeepsWInv
<1> QED
  BY <1>1, <1>2, <1>6 DEF WInv, IInv, WorkerTypeOK, DeathAnnounced, RepliesHonest, Alive,
     facadeVars, transportVars

LEMMA SwallowKeepsWInv ==
    ASSUME WInv, Swallow
    PROVE  WInv'
<1>1. IInv'
  BY FacadeUnchanged DEF Swallow, WInv
<1>2. PICK r \in replies : replies' = replies \ {r} /\ swallowed' = swallowed \cup {r.op}
  BY DEF Swallow
<1>3. r.op \in Operations
  BY DEF WInv, WorkerTypeOK, Message
<1>4. UNCHANGED <<closed, crashed, engineEnded, fromWorker, running, toWorker>>
  BY DEF Swallow, facadeVars, transportVars
<1> QED
  BY <1>1, <1>2, <1>3, <1>4 DEF WInv, IInv, WorkerTypeOK,
     FatalFirst, DeathAnnounced, RepliesHonest, Alive, Ordered, HasFatal

LEMMA CrashKeepsWInv ==
    ASSUME WInv, Crash
    PROVE  WInv'
<1>1. IInv'
  BY FacadeUnchanged DEF Crash, WInv
<1>2. PICK kept \in 0..Len(fromWorker), event \in {<<>>, <<Exit>>} :
        fromWorker' = SubSeq(fromWorker, 1, kept) \o event
  BY DEF Crash
<1> DEFINE s == SubSeq(fromWorker, 1, kept)
<1>3. s \in Seq(Messages) /\ Ordered(s)
  BY PrefixKeepsOrder DEF WInv, WorkerTypeOK, FatalFirst, Crash, Alive
<1>4. ~TellsOfDeath(Exit)
  BY ExitIsMessage DEF TellsOfDeath
<1>5. Append(s, Exit) \in Seq(Messages) /\ Ordered(Append(s, Exit))
  BY <1>3, <1>4, ExitIsMessage, AppendKeepsOrder
<1>6. fromWorker' = s \/ fromWorker' = Append(s, Exit)
  <2> HIDE DEF s
  <2>1. s \o <<>> = s /\ s \o <<Exit>> = Append(s, Exit)
    BY <1>3
  <2>2. fromWorker' = s \o event
    BY <1>2 DEF s
  <2> QED
    BY <2>1, <2>2
<1>7. fromWorker' \in Seq(Messages) /\ Ordered(fromWorker')
  BY <1>3, <1>5, <1>6
<1> QED
  BY <1>1, <1>7 DEF Crash, WInv, IInv, WorkerTypeOK, FatalFirst, DeathAnnounced, RepliesHonest, Alive

LEMMA NextKeepsWInv == WInv /\ [Next]_vars => WInv'
<1> SUFFICES ASSUME WInv, [Next]_vars PROVE WInv'
  OBVIOUS
<1>1. CASE Caller(CallerStep)
  <2>1. IInv' /\ (closed => closed')
    BY <1>1, CallerKeepsIInv, CallerCloses DEF Caller, WInv
  <2> QED
    BY <1>1, <2>1, CallerSideKeepsWInv DEF Caller
<1>2. CASE SettleFails
  <2>1. UNCHANGED <<toWorker, running, replies, swallowed, engineEnded, crashed, fromWorker>>
    BY <1>2 DEF SettleFails, workerVars
  <2>2. fromWorker' \in Seq(Messages)
    BY <2>1 DEF WInv, WorkerTypeOK
  <2> QED
    BY <1>2, <2>1, <2>2, FailureKeepsWInv DEF SettleFails, Causes
<1>3. CASE UNCHANGED vars
  <2>1. IInv' /\ closed' = closed /\ UNCHANGED workerVars
    BY <1>3, FacadeUnchanged DEF vars, WInv, facadeVars, transportVars
  <2> QED
    BY <2>1, CallerSideKeepsWInv
<1> QED
  BY <1>1, <1>2, <1>3, ExecuteKeepsWInv, ExecuteFailsKeepsWInv, ReceiveKeepsWInv,
     ChannelFailsKeepsWInv, ServeKeepsWInv, EngineAnswersKeepsWInv, EngineDiesKeepsWInv,
     PostKeepsWInv, SwallowKeepsWInv, CrashKeepsWInv DEF Next

(* The facade and the channels agree in every state, whatever the worker    *)
(* answers, loses or dies of.                                              *)
THEOREM WorkerInvariant == Spec => []WInv
<1> QED
  BY InitWInv, NextKeepsWInv, PTL DEF Spec

(* A sandbox is open exactly while its transport is: see ClosedTogether.   *)
THEOREM WorkerClosedTogether == Spec => []ClosedTogether
<1>1. WInv => ClosedTogether
  BY DEF WInv, IInv
<1> QED
  BY <1>1, WorkerInvariant, PTL

(* A step over a worker overdraws no slot.                                    *)
LEMMA WorkerFits == WInv /\ WithinCapacity /\ [Next]_vars => WithinCapacity'
<1> SUFFICES ASSUME WInv, WithinCapacity, [Next]_vars PROVE WithinCapacity'
  OBVIOUS
<1>1. IInv
  BY DEF WInv
<1>2. ASSUME UNCHANGED sandboxVars PROVE WithinCapacity'
  BY <1>1, <1>2, FewerFit DEF sandboxVars
<1>3. ASSUME NEW cause, TransportFails(cause) PROVE WithinCapacity'
  BY <1>1, <1>3, TransportFailsFits
<1>4. ASSUME NEW o \in Operations, Execute(o) \/ ExecuteFails(o) PROVE WithinCapacity'
  BY <1>1, <1>4, AdmittedFits DEF Execute, ExecuteFails, Admit
<1>5. CASE Caller(CallerStep)
  BY <1>1, <1>5, CallerFits DEF Caller
<1>6. CASE SettleFails \/ ChannelFails
  BY <1>6, <1>3 DEF SettleFails, ChannelFails
<1>7. CASE Receive
  <2>1. (\E cause : TransportFails(cause)) \/ UNCHANGED sandboxVars
    BY <1>7 DEF Receive, facadeVars
  <2> QED
    BY <2>1, <1>2, <1>3
<1>8. CASE UNCHANGED facadeVars
  BY <1>8, <1>2 DEF facadeVars
<1>9. CASE Serve \/ Post \/ Swallow \/ Crash
  BY <1>8, <1>9 DEF Serve, Post, Swallow, Crash
<1>10. ASSUME NEW o, NEW answer, EngineAnswers(o, answer) PROVE WithinCapacity'
  BY <1>8, <1>10 DEF EngineAnswers
<1>11. ASSUME NEW cause, EngineDies(cause) PROVE WithinCapacity'
  BY <1>8, <1>11 DEF EngineDies
<1>12. CASE UNCHANGED vars
  BY <1>8, <1>12 DEF vars
<1> QED
  BY <1>4, <1>5, <1>6, <1>7, <1>9, <1>10, <1>11, <1>12 DEF Next

(* Nor does a worker lose or overdraw a slot: see SlotsAccounted.          *)
THEOREM WorkerSlotsAccounted == Spec => []SlotsAccounted
<1>1. Init => WithinCapacity
  BY NobodyFits DEF Init, FacadeInit
<1>2. WInv /\ WithinCapacity /\ [Next]_vars => WithinCapacity'
  BY WorkerFits
<1>3. IInv /\ WithinCapacity => SlotsAccounted
  BY DEF IInv, SlotsMatch, WithinCapacity, SlotsAccounted
<1>4. WInv => IInv
  BY DEF WInv
<1> QED
  BY <1>1, <1>2, <1>3, <1>4, WorkerInvariant, PTL DEF Spec

(* A step over a worker is one of the service, or a stutter.              *)
LEMMA WorkerServes == WInv /\ [Next]_vars => ServiceStep
<1> SUFFICES ASSUME WInv, [Next]_vars PROVE ServiceStep
  OBVIOUS
<1>1. IInv
  BY DEF WInv
<1>2. ASSUME UNCHANGED sandboxVars PROVE ServiceStep
  BY <1>2 DEF sandboxVars, ServiceStep, Service!vars
<1>3. ASSUME NEW cause \in Causes, TransportFails(cause) PROVE ServiceStep
  BY <1>1, <1>3, TransportFailsServes
<1>4. ASSUME NEW o \in Operations, Execute(o) \/ ExecuteFails(o) PROVE ServiceStep
  BY <1>4, AdmittedServes DEF Execute, ExecuteFails, Admit
<1>5. CASE Caller(CallerStep)
  BY <1>1, <1>5, CallerServes DEF Caller
<1>6. CASE SettleFails \/ ChannelFails
  BY <1>6, <1>3 DEF SettleFails, ChannelFails, Causes
<1>7. CASE Receive
  <2>1. Head(fromWorker) \in Messages
    BY <1>7 DEF Receive, WInv, WorkerTypeOK
  <2> QED
    BY <1>7, <2>1, <1>2, <1>3, MessageFields DEF Receive, Causes, facadeVars
<1>8. CASE UNCHANGED facadeVars
  BY <1>8, <1>2 DEF facadeVars
<1>9. CASE Serve \/ Post \/ Swallow \/ Crash
  BY <1>8, <1>9 DEF Serve, Post, Swallow, Crash
<1>10. ASSUME NEW o, NEW answer, EngineAnswers(o, answer) PROVE ServiceStep
  BY <1>8, <1>10 DEF EngineAnswers
<1>11. ASSUME NEW cause, EngineDies(cause) PROVE ServiceStep
  BY <1>8, <1>11 DEF EngineDies
<1>12. CASE UNCHANGED vars
  BY <1>8, <1>12 DEF vars
<1> QED
  BY <1>4, <1>5, <1>6, <1>7, <1>9, <1>10, <1>11, <1>12 DEF Next

(* Whatever becomes of the worker, the sandbox keeps the promises of       *)
(* SandboxService: see ImplementsService.                                  *)
THEOREM WorkerImplementsService == Spec => ImplementsService
<1>1. Init => Service!Init
  BY DEF Init, FacadeInit, Service!Init
<1>2. WInv /\ [Next]_vars => ServiceStep
  BY WorkerServes
<1> QED
  BY <1>1, <1>2, WorkerInvariant, PTL DEF Spec, ImplementsService, Service!Spec, ServiceStep

(* A step over a worker delivers nothing late.                            *)
LEMMA WorkerDeliversNothingLate == WInv /\ [Next]_vars => [NothingLate]_facadeVars
<1> SUFFICES ASSUME WInv, Next PROVE NothingLate \/ UNCHANGED facadeVars
  BY DEF vars
<1>1. IInv
  BY DEF WInv
<1>2. ASSUME NEW cause \in Causes, TransportFails(cause) PROVE NothingLate
  BY <1>1, <1>2, FailsNothingLate
<1>3. ASSUME NEW o \in Operations, Execute(o) \/ ExecuteFails(o) PROVE NothingLate
  BY <1>1, <1>3, AdmitsNothingLate DEF Execute, ExecuteFails, Admit
<1>4. CASE Caller(CallerStep)
  BY <1>1, <1>4, CallerDeliversNothingLate DEF Caller
<1>5. CASE SettleFails \/ ChannelFails
  BY <1>5, <1>2 DEF SettleFails, ChannelFails, Causes
<1>6. CASE Receive
  <2>1. Head(fromWorker) \in Messages
    BY <1>6 DEF Receive, WInv, WorkerTypeOK
  <2>2. UNCHANGED sandboxVars => NothingLate
    BY DEF sandboxVars, NothingLate
  <2> QED
    BY <1>6, <2>1, <2>2, <1>2, MessageFields DEF Receive, Causes, facadeVars
<1>7. CASE Serve \/ Post \/ Swallow \/ Crash
  BY <1>7 DEF Serve, Post, Swallow, Crash
<1>8. ASSUME NEW o, NEW answer, EngineAnswers(o, answer) PROVE UNCHANGED facadeVars
  BY <1>8 DEF EngineAnswers
<1>9. ASSUME NEW cause, EngineDies(cause) PROVE UNCHANGED facadeVars
  BY <1>9 DEF EngineDies
<1> QED
  BY <1>3, <1>4, <1>5, <1>6, <1>7, <1>8, <1>9 DEF Next

(* No answer is delivered after its deadline: see NoLateValue.             *)
THEOREM WorkerNoLateValue == Spec => NoLateValue
<1>1. WInv /\ [Next]_vars => [NothingLate]_facadeVars
  BY WorkerDeliversNothingLate
<1> QED
  BY <1>1, WorkerInvariant, PTL DEF Spec, NoLateValue, NothingLate
-----------------------------------------------------------------------------
(* The places a request passes through, in the order it does.              *)
Waits == Seqs!ToSet(toWorker)
Settled == {r.op : r \in replies}
Posted == Replied(fromWorker)

InOnePlace ==
    /\ held = Waits \cup running \cup Settled \cup Posted \cup swallowed
    /\ Waits \cap (running \cup Settled \cup Posted \cup swallowed) = {}
    /\ running \cap (Settled \cup Posted \cup swallowed) = {}
    /\ Settled \cap (Posted \cup swallowed) = {}
    /\ Posted \cap swallowed = {}

(* Nothing waits twice, settles twice or is answered twice.                *)
Distinct(s) == \A i, j \in DOMAIN s : s[i] = s[j] => i = j
OneReplyEach(s) ==
    \A i, j \in DOMAIN s :
        s[i].kind = "reply" /\ s[j].kind = "reply" /\ s[i].op = s[j].op => i = j

Once == /\ Distinct(toWorker)
        /\ \A r, t \in replies : r.op = t.op => r = t
        /\ OneReplyEach(fromWorker)

(* What the transport holds was admitted: a new operation is in no place.  *)
HeldAreAdmitted == \A o \in held : outcome[o] # "new"

(* RequestsTravelOnce with what it needs to be inductive.                  *)
Travel == Alive => InOnePlace /\ Once /\ HeldAreAdmitted

(* Queueing an operation that does not wait yet.                           *)
LEMMA SendOnce ==
    ASSUME NEW S, NEW s \in Seq(S), NEW e \in S, e \notin Seqs!ToSet(s), Distinct(s)
    PROVE  /\ Seqs!ToSet(Append(s, e)) = Seqs!ToSet(s) \cup {e}
           /\ Distinct(Append(s, e))
<1> DEFINE t == Append(s, e)
<1>1. /\ Len(s) \in Nat /\ DOMAIN s = 1 .. Len(s)
      /\ DOMAIN t = 1 .. (Len(s) + 1) /\ t[Len(s) + 1] = e
      /\ \A i \in 1 .. Len(s) : t[i] = s[i]
  BY AppendProperties
<1> HIDE DEF t
<1>2. \A x : x \in Seqs!ToSet(t) <=> x \in Seqs!ToSet(s) \/ x = e
  BY <1>1 DEF Seqs!ToSet
<1>3. Distinct(t)
  BY <1>1 DEF Distinct, Seqs!ToSet
<1> QED
  BY <1>2, <1>3 DEF t

(* What a queue loses with its head. *)
LEMMA TailFields ==
    ASSUME NEW S, NEW s \in Seq(S), s # <<>>
    PROVE  /\ Len(s) \in Nat \ {0} /\ DOMAIN s = 1 .. Len(s) /\ Head(s) = s[1]
           /\ Tail(s) \in Seq(S) /\ DOMAIN Tail(s) = 1 .. (Len(s) - 1)
           /\ \A i \in 1 .. (Len(s) - 1) : Tail(s)[i] = s[i + 1]
  BY HeadTailProperties, EmptySeq

(* Taking the first.                                                       *)
LEMMA TakeOnce ==
    ASSUME NEW S, NEW s \in Seq(S), s # <<>>, Distinct(s)
    PROVE  /\ Head(s) \in Seqs!ToSet(s)
           /\ Seqs!ToSet(Tail(s)) = Seqs!ToSet(s) \ {Head(s)}
           /\ Distinct(Tail(s))
<1> DEFINE t == Tail(s)
           h == Head(s)
<1>1. /\ Len(s) \in Nat \ {0} /\ DOMAIN s = 1 .. Len(s) /\ h = s[1]
      /\ DOMAIN t = 1 .. (Len(s) - 1)
      /\ \A i \in 1 .. (Len(s) - 1) : t[i] = s[i + 1]
  BY TailFields
<1> HIDE DEF t, h
<1>2. h \in Seqs!ToSet(s)
  BY <1>1 DEF Seqs!ToSet
<1>3. ASSUME NEW i \in DOMAIN t
      PROVE  t[i] \in Seqs!ToSet(s) /\ t[i] # h
  <2>1. t[i] = s[i + 1] /\ i + 1 \in DOMAIN s /\ 1 \in DOMAIN s /\ i + 1 # 1
    BY <1>1
  <2> QED
    BY <1>1, <2>1 DEF Seqs!ToSet, Distinct
<1>4. ASSUME NEW i \in DOMAIN s, s[i] # h
      PROVE  s[i] \in Seqs!ToSet(t)
  <2>0. i \in 1 .. Len(s) /\ i # 1
    BY <1>1, <1>4
  <2>1. i - 1 \in DOMAIN t /\ (i - 1) + 1 = i
    BY <1>1, <2>0
  <2>2. t[i - 1] = s[i]
    BY <1>1, <2>1
  <2> QED
    BY <2>1, <2>2 DEF Seqs!ToSet
<1>5. Seqs!ToSet(t) = Seqs!ToSet(s) \ {h}
  BY <1>3, <1>4 DEF Seqs!ToSet
<1>6. Distinct(t)
  <2> SUFFICES ASSUME NEW i \in DOMAIN t, NEW j \in DOMAIN t, t[i] = t[j]
               PROVE  i = j
    BY DEF Distinct
  <2>1. s[i + 1] = s[j + 1] /\ i + 1 \in DOMAIN s /\ j + 1 \in DOMAIN s /\ i \in Int /\ j \in Int
    BY <1>1
  <2> QED
    BY <2>1 DEF Distinct
<1> QED
  BY <1>2, <1>5, <1>6 DEF t, h

(* Which operations have an answer among the messages.                     *)
LEMMA RepliedIs ==
    ASSUME NEW s, NEW o
    PROVE  o \in Replied(s) <=> \E i \in DOMAIN s : s[i].kind = "reply" /\ s[i].op = o
  BY DEF Replied, Seqs!ToSet

(* A message after the others, and the first one read.                     *)
LEMMA PostOnce ==
    ASSUME NEW s \in Seq(Messages), NEW m \in Messages, OneReplyEach(s),
           m.kind = "reply" => m.op \notin Replied(s)
    PROVE  /\ Replied(Append(s, m)) = Replied(s) \cup (IF m.kind = "reply" THEN {m.op} ELSE {})
           /\ OneReplyEach(Append(s, m))
<1> DEFINE t == Append(s, m)
<1>1. /\ Len(s) \in Nat /\ DOMAIN s = 1 .. Len(s)
      /\ DOMAIN t = 1 .. (Len(s) + 1) /\ t[Len(s) + 1] = m
      /\ \A i \in 1 .. Len(s) : t[i] = s[i]
  BY AppendProperties
<1> HIDE DEF t
<1>2. ASSUME NEW o
      PROVE  o \in Replied(t) <=> o \in Replied(s) \/ (m.kind = "reply" /\ m.op = o)
  BY <1>1, RepliedIs
<1>3. OneReplyEach(t)
  <2> SUFFICES ASSUME NEW i \in DOMAIN t, NEW j \in DOMAIN t,
                      t[i].kind = "reply", t[j].kind = "reply", t[i].op = t[j].op, i # j
               PROVE  FALSE
    BY DEF OneReplyEach
  <2>1. CASE i \in 1 .. Len(s) /\ j \in 1 .. Len(s)
    BY <1>1, <2>1 DEF OneReplyEach
  <2>2. CASE i = Len(s) + 1 /\ j \in 1 .. Len(s)
    BY <1>1, <2>2, RepliedIs
  <2>3. CASE j = Len(s) + 1 /\ i \in 1 .. Len(s)
    BY <1>1, <2>3, RepliedIs
  <2> QED
    BY <1>1, <2>1, <2>2, <2>3
<1> QED
  BY <1>2, <1>3 DEF t

LEMMA ReadOnce ==
    ASSUME NEW s \in Seq(Messages), s # <<>>, OneReplyEach(s), Head(s).kind = "reply"
    PROVE  /\ Head(s).op \in Replied(s)
           /\ Replied(Tail(s)) = Replied(s) \ {Head(s).op}
           /\ OneReplyEach(Tail(s))
<1> DEFINE t == Tail(s)
           h == Head(s)
<1>1. /\ Len(s) \in Nat \ {0} /\ DOMAIN s = 1 .. Len(s) /\ h = s[1]
      /\ DOMAIN t = 1 .. (Len(s) - 1)
      /\ \A i \in 1 .. (Len(s) - 1) : t[i] = s[i + 1]
  BY TailFields
<1>2. h.kind = "reply"
  OBVIOUS
<1> HIDE DEF t, h
<1>3. h.op \in Replied(s)
  BY <1>1, <1>2, RepliedIs
<1>4. ASSUME NEW o
      PROVE  o \in Replied(t) <=> o \in Replied(s) /\ o # h.op
  <2>1. ASSUME NEW i \in DOMAIN t, t[i].kind = "reply", t[i].op = o
        PROVE  o \in Replied(s) /\ o # h.op
    <3>1. t[i] = s[i + 1] /\ i + 1 \in DOMAIN s /\ 1 \in DOMAIN s /\ i + 1 # 1
      BY <1>1
    <3>2. o \in Replied(s)
      BY <2>1, <3>1, RepliedIs
    <3> QED
      BY <1>1, <1>2, <2>1, <3>1, <3>2 DEF OneReplyEach
  <2>2. ASSUME NEW i \in DOMAIN s, s[i].kind = "reply", s[i].op = o, o # h.op
        PROVE  o \in Replied(t)
    <3>1. i - 1 \in DOMAIN t /\ (i - 1) + 1 = i
      BY <1>1, <2>2
    <3>2. t[i - 1] = s[i]
      BY <1>1, <3>1
    <3> QED
      BY <2>2, <3>1, <3>2, RepliedIs
  <2> QED
    BY <2>1, <2>2, RepliedIs
<1>5. OneReplyEach(t)
  <2> SUFFICES ASSUME NEW i \in DOMAIN t, NEW j \in DOMAIN t,
                      t[i].kind = "reply", t[j].kind = "reply", t[i].op = t[j].op
               PROVE  i = j
    BY DEF OneReplyEach
  <2>1. /\ t[i] = s[i + 1] /\ t[j] = s[j + 1]
        /\ i + 1 \in DOMAIN s /\ j + 1 \in DOMAIN s /\ i \in Int /\ j \in Int
    BY <1>1
  <2> QED
    BY <2>1 DEF OneReplyEach
<1> QED
  BY <1>3, <1>4, <1>5 DEF t, h

(* No outcome is new again, whatever the caller does.                      *)
LEMMA HeldStaysAdmitted ==
    ASSUME FacadeTypeOK, HeldAreAdmitted, held' \subseteq held,
           \A o \in Operations : outcome[o] # "new" => outcome'[o] # "new"
    PROVE  HeldAreAdmitted'
  BY DEF HeldAreAdmitted, FacadeTypeOK

LEMMA RetireAdmits ==
    ASSUME FacadeTypeOK, NEW cause \in Causes, NEW rest, Retire(cause, rest), NEW o \in Operations, outcome[o] # "new"
    PROVE  outcome'[o] # "new"
  BY DEF Retire, RejectAll, FacadeTypeOK, sandboxVars, Causes, EngineCauses, FatalCodes

(* What the caller does by itself takes no request back, unless it closes  *)
(* the transport; and no outcome is new again.                             *)
LEMMA CallerKeepsRequests ==
    ASSUME IInv, CallerStep
    PROVE  /\ closed' \/ held' = held
           /\ \A o \in Operations : outcome[o] # "new" => outcome'[o] # "new"
<1>0. FacadeTypeOK
  BY DEF IInv
<1>1. ASSUME NEW cause \in Causes, NEW rest, Retire(cause, rest)
      PROVE  /\ closed' \/ held' = held
             /\ \A o \in Operations : outcome[o] # "new" => outcome'[o] # "new"
  BY <1>0, <1>1, RetireAdmits DEF Retire
<1>2. ASSUME NEW o \in Operations, Refuse(o) \/ RefuseAborted(o) \/ Expire(o)
      PROVE  /\ held' = held
             /\ \A p \in Operations : outcome[p] # "new" => outcome'[p] # "new"
  BY <1>0, <1>2 DEF Refuse, RefuseAborted, Expire, transportVars, sandboxVars, FacadeTypeOK, Refusals
<1>3. ASSUME NEW o \in Operations, TimerFires(o) \/ Abort(o)
      PROVE  /\ closed' \/ held' = held
             /\ \A p \in Operations : outcome[p] # "new" => outcome'[p] # "new"
  BY <1>1, <1>3 DEF TimerFires, Abort, Causes, EngineCauses, FatalCodes
<1>4. CASE Dispose
  BY <1>1, <1>4 DEF Dispose, Causes
<1>5. CASE React
  <2>1. PICK r \in reactions :
          \/ \E cause \in Causes : Retire(cause, reactions \ {r})
          \/ Finish(r.op, r.answer, reactions \ {r})
    BY <1>5 DEF React, Causes, EngineCauses, FatalCodes
  <2>2. CASE \E cause \in Causes : Retire(cause, reactions \ {r})
    BY <1>1, <2>2
  <2>3. CASE Finish(r.op, r.answer, reactions \ {r})
    <3>1. r.answer # "new"
      BY <1>0 DEF FacadeTypeOK, Message, Answers, Causes, EngineCauses, FatalCodes
    <3> QED
      BY <1>0, <2>3, <3>1 DEF Finish, FacadeTypeOK
  <2> QED
    BY <2>1, <2>2, <2>3
<1> QED
  BY <1>2, <1>3, <1>4, <1>5 DEF CallerStep

(* A step of the caller that leaves the channels alone.                    *)
LEMMA OthersTravel ==
    ASSUME WInv, Travel, Alive, UNCHANGED workerVars, held' = held,
           \A o \in Operations : outcome[o] # "new" => outcome'[o] # "new"
    PROVE  Travel'
<1>1. FacadeTypeOK
  BY DEF WInv, IInv
<1> QED
  BY <1>1, HeldStaysAdmitted DEF Travel, workerVars, InOnePlace, Once, Waits, Settled, Posted, Alive

(* The worker's steps move requests, and leave the caller's side alone. *)
LEMMA MovesTravel ==
    ASSUME WInv, Travel, Alive, UNCHANGED facadeVars, InOnePlace', Once'
    PROVE  Travel'
<1>1. FacadeTypeOK
  BY DEF WInv, IInv
<1> QED
  BY <1>1, HeldStaysAdmitted DEF Travel, facadeVars, sandboxVars, transportVars

(* Requests that settle together with one answer. *)
LEMMA SettleMore ==
    ASSUME NEW ops, NEW answer, replies' = replies \cup Rejections(ops, answer)
    PROVE  Settled' = Settled \cup ops
<1>1. ASSUME NEW o \in ops
      PROVE  o \in Settled'
  <2>1. [op |-> o, answer |-> answer] \in replies'
    BY DEF Rejections
  <2> QED
    BY <2>1 DEF Settled
<1>2. ASSUME NEW o \in Settled
      PROVE  o \in Settled'
  BY DEF Settled
<1>3. ASSUME NEW o \in Settled'
      PROVE  o \in Settled \cup ops
  <2>1. PICK r \in replies' : r.op = o
    BY DEF Settled
  <2>2. CASE r \in replies
    BY <2>1, <2>2 DEF Settled
  <2>3. CASE r \in Rejections(ops, answer)
    BY <2>1, <2>3 DEF Rejections
  <2> QED
    BY <2>1, <2>2, <2>3
<1> QED
  BY <1>1, <1>2, <1>3

(* One step per action.                                                    *)
LEMMA TravelKept ==
    ASSUME WInv, Travel, [Next]_vars
    PROVE  Travel'
<1> SUFFICES ASSUME Alive'
             PROVE  Travel'
  BY DEF Travel
<1>0. /\ FacadeTypeOK /\ toWorker \in Seq(Operations) /\ fromWorker \in Seq(Messages)
      /\ replies \subseteq Message /\ running \cup swallowed \subseteq Operations /\ IInv
  BY DEF WInv, IInv, WorkerTypeOK
<1>1. ASSUME NEW o \in Operations, Execute(o)
      PROVE  Travel'
  <2>1. ~closed /\ Alive /\ outcome[o] = "new"
    BY <1>1 DEF Execute, Admit, Admitted, Alive
  <2>2. /\ held' = held \cup {o} /\ toWorker' = Append(toWorker, o)
        /\ UNCHANGED <<running, replies, swallowed, fromWorker>>
        /\ outcome' = [outcome EXCEPT ![o] = "pending"]
    BY <1>1, <2>1 DEF Execute, Admit, Admitted
  <2>3. InOnePlace /\ Once /\ HeldAreAdmitted
    BY <2>1 DEF Travel
  <2>4. o \notin held
    BY <2>1, <2>3 DEF HeldAreAdmitted
  <2>5. Waits' = Waits \cup {o} /\ Distinct(toWorker')
    BY <1>0, <2>2, <2>3, <2>4, SendOnce DEF Waits, InOnePlace, Once
  <2>6. InOnePlace'
    BY <2>2, <2>3, <2>4, <2>5 DEF InOnePlace, Settled, Posted
  <2>7. HeldAreAdmitted'
    BY <1>0, <2>2, <2>3 DEF HeldAreAdmitted, FacadeTypeOK
  <2> QED
    BY <2>2, <2>3, <2>5, <2>6, <2>7 DEF Travel, Once
<1>2. ASSUME NEW o \in Operations, ExecuteFails(o)
      PROVE  Travel'
  <2>1. /\ Alive /\ held' = held /\ UNCHANGED workerVars /\ outcome' = [outcome EXCEPT ![o] = "pending"]
    BY <1>2 DEF ExecuteFails, Admitted, NotHeld, workerVars, Alive
  <2>2. \A p \in Operations : outcome[p] # "new" => outcome'[p] # "new"
    BY <1>0, <2>1 DEF FacadeTypeOK
  <2> QED
    BY <2>1, <2>2, OthersTravel
<1>3. CASE Caller(CallerStep)
  <2>1. Alive /\ UNCHANGED workerVars
    BY <1>3, CallerCloses, <1>0 DEF Caller, Alive, workerVars, FacadeTypeOK
  <2>2. closed' \/ held' = held
    BY <1>0, <1>3, CallerKeepsRequests DEF Caller
  <2>3. \A p \in Operations : outcome[p] # "new" => outcome'[p] # "new"
    BY <1>0, <1>3, CallerKeepsRequests DEF Caller
  <2> QED
    BY <2>1, <2>2, <2>3, OthersTravel DEF Alive
<1>4. CASE SettleFails \/ ChannelFails
  BY <1>4 DEF SettleFails, ChannelFails, TransportFails, Alive
<1>5. CASE Receive
  <2> DEFINE m == Head(fromWorker)
  <2>1. /\ fromWorker # <<>> /\ fromWorker' = Tail(fromWorker) /\ Alive
        /\ UNCHANGED <<toWorker, running, replies, swallowed>>
    BY <1>5 DEF Receive, Alive
  <2>2. InOnePlace /\ Once /\ HeldAreAdmitted
    BY <2>1 DEF Travel
  <2>3. m.kind = "reply"
    BY <1>5 DEF Receive, TransportFails, Alive
  <2>4. m.op \in Posted /\ Posted' = Posted \ {m.op} /\ OneReplyEach(fromWorker')
    BY <1>0, <2>1, <2>2, <2>3, ReadOnce DEF Posted, Once
  <2>5. m.op \in held
    BY <2>2, <2>4 DEF InOnePlace
  <2>6. held' = held \ {m.op} /\ UNCHANGED outcome
    BY <1>5, <2>3, <2>5 DEF Receive, sandboxVars
  <2> HIDE DEF m
  <2>7. InOnePlace'
    BY <2>1, <2>2, <2>4, <2>6 DEF InOnePlace, Waits, Settled
  <2>8. HeldAreAdmitted'
    BY <2>2, <2>6 DEF HeldAreAdmitted
  <2> QED
    BY <2>1, <2>2, <2>4, <2>7, <2>8 DEF Travel, Once
<1>6. CASE Serve
  <2>1. /\ Alive /\ toWorker # <<>> /\ toWorker' = Tail(toWorker)
        /\ UNCHANGED <<facadeVars, swallowed, fromWorker>>
        /\ \/ running' = running \cup {Head(toWorker)} /\ UNCHANGED replies
           \/ UNCHANGED running /\ replies' = replies \cup Rejections({Head(toWorker)}, "ERR_DISPOSED")
    BY <1>6 DEF Serve
  <2>2. InOnePlace /\ Once
    BY <2>1 DEF Travel
  <2>3. PICK o \in Operations : o = Head(toWorker)
    BY <1>0, <2>1, TailFields
  <2>4. o \in Waits /\ Waits' = Waits \ {o} /\ Distinct(toWorker')
    BY <1>0, <2>1, <2>2, <2>3, TakeOnce DEF Waits, Once
  <2>5. /\ \/ running' = running \cup {o} /\ Settled' = Settled
           \/ running' = running /\ Settled' = Settled \cup {o}
        /\ \A r, t \in replies' : r.op = t.op => r = t
    <3>1. CASE running' = running \cup {Head(toWorker)} /\ UNCHANGED replies
      <4>1. running' = running \cup {o}
        BY <2>3, <3>1
      <4>2. Settled' = Settled
        BY <3>1 DEF Settled
      <4> QED
        BY <2>2, <3>1, <4>1, <4>2 DEF Once
    <3>2. CASE UNCHANGED running /\ replies' = replies \cup Rejections({Head(toWorker)}, "ERR_DISPOSED")
      <4>1. o \notin Settled
        BY <2>2, <2>4 DEF InOnePlace
      <4>2. replies' = replies \cup {[op |-> o, answer |-> "ERR_DISPOSED"]}
        BY <2>3, <3>2 DEF Rejections
      <4>3. Settled' = Settled \cup {o}
        BY <2>3, <3>2, SettleMore
      <4> QED
        <5>1. \A r, t \in replies' : r.op = t.op => r = t
          BY <2>2, <4>1, <4>2 DEF Settled, Once
        <5> QED
          BY <3>2, <4>3, <5>1
    <3> QED
      BY <2>1, <3>1, <3>2
  <2>6. InOnePlace'
    BY <2>1, <2>2, <2>4, <2>5 DEF InOnePlace, Posted, facadeVars, transportVars
  <2>7. Once'
    BY <2>1, <2>2, <2>4, <2>5 DEF Once
  <2> QED
    BY <2>1, <2>6, <2>7, MovesTravel
<1>7. ASSUME NEW o \in Operations, NEW answer \in Answers, EngineAnswers(o, answer)
      PROVE  Travel'
  <2>1. /\ Alive /\ o \in running /\ running' = running \ {o}
        /\ replies' = replies \cup {[op |-> o, answer |-> answer]}
        /\ UNCHANGED <<facadeVars, toWorker, swallowed, fromWorker>>
    BY <1>7 DEF EngineAnswers, Rejections
  <2>2. InOnePlace /\ Once
    BY <2>1 DEF Travel
  <2>3. o \notin Settled
    BY <2>1, <2>2 DEF InOnePlace
  <2>4. Settled' = Settled \cup {o}
    BY <1>7, SettleMore DEF EngineAnswers
  <2>5. Once'
    BY <2>1, <2>2, <2>3 DEF Once, Settled
  <2>6. InOnePlace'
    BY <2>1, <2>2, <2>4 DEF InOnePlace, Waits, Posted, facadeVars, transportVars
  <2> QED
    BY <2>1, <2>5, <2>6, MovesTravel
<1>8. ASSUME NEW cause \in EngineCauses, EngineDies(cause)
      PROVE  Travel'
  <2>1. /\ Alive /\ running' = {} /\ replies' = replies \cup Rejections(running, cause)
        /\ fromWorker' = Append(fromWorker, Fatal(cause))
        /\ UNCHANGED <<facadeVars, toWorker, swallowed>>
    BY <1>8 DEF EngineDies, Announced
  <2>2. InOnePlace /\ Once
    BY <2>1 DEF Travel
  <2>3. Settled' = Settled \cup running
    BY <2>1, SettleMore
  <2>4. Posted' = Posted /\ OneReplyEach(fromWorker')
    BY <1>0, <2>1, <2>2, PostOnce, FatalIsMessage DEF Posted, Once
  <2>5. \A r, t \in replies' : r.op = t.op => r = t
    BY <2>1, <2>2 DEF Once, InOnePlace, Settled, Rejections
  <2>6. InOnePlace' /\ Once'
    BY <2>1, <2>2, <2>3, <2>4, <2>5 DEF InOnePlace, Once, Waits, facadeVars, transportVars
  <2> QED
    BY <2>1, <2>6, MovesTravel
<1>9. CASE Post
  <2>1. PICK r \in replies : replies' = replies \ {r} /\ fromWorker' = Append(fromWorker, Reply(r))
    BY <1>9 DEF Post
  <2>2. Alive /\ UNCHANGED <<facadeVars, toWorker, running, swallowed>>
    BY <1>9 DEF Post
  <2>3. InOnePlace /\ Once
    BY <2>2 DEF Travel
  <2>4. r.op \in Settled /\ Settled' = Settled \ {r.op}
    BY <2>1, <2>3 DEF Settled, Once
  <2>5. Posted' = Posted \cup {r.op} /\ OneReplyEach(fromWorker')
    <3>1. /\ Reply(r) \in Messages /\ Reply(r).kind = "reply" /\ Reply(r).op = r.op
      BY <1>0, ReplyIsMessage
    <3>2. r.op \notin Posted
      BY <2>3, <2>4 DEF InOnePlace
    <3> QED
      BY <1>0, <2>1, <2>3, <3>1, <3>2, PostOnce DEF Posted, Once
  <2>6. InOnePlace' /\ Once'
    BY <2>1, <2>2, <2>3, <2>4, <2>5 DEF InOnePlace, Once, Waits, facadeVars, transportVars
  <2> QED
    BY <2>2, <2>6, MovesTravel
<1>10. CASE Swallow
  <2>1. PICK r \in replies : replies' = replies \ {r} /\ swallowed' = swallowed \cup {r.op}
    BY <1>10 DEF Swallow
  <2>2. Alive /\ UNCHANGED <<facadeVars, toWorker, running, fromWorker>>
    BY <1>10 DEF Swallow
  <2>3. InOnePlace /\ Once
    BY <2>2 DEF Travel
  <2>4. r.op \in Settled /\ Settled' = Settled \ {r.op}
    BY <2>1, <2>3 DEF Settled, Once
  <2>5. InOnePlace' /\ Once'
    BY <2>1, <2>2, <2>3, <2>4 DEF InOnePlace, Once, Waits, Posted, facadeVars, transportVars
  <2> QED
    BY <2>2, <2>5, MovesTravel
<1>11. CASE Crash
  BY <1>11 DEF Crash, Alive
<1>12. CASE UNCHANGED vars
  BY <1>12, OthersTravel DEF vars, facadeVars, sandboxVars, transportVars, workerVars, Alive
<1> QED
  BY <1>1, <1>2, <1>3, <1>4, <1>5, <1>6, <1>7, <1>8, <1>9, <1>10, <1>11, <1>12 DEF Next

(* A queue without repetition is as long as it has elements.               *)
LEMMA DistinctCounts ==
    ASSUME NEW S, NEW s \in Seq(S), Distinct(s)
    PROVE  Cardinality(Seqs!ToSet(s)) = Len(s)
<1>1. Len(s) \in Nat /\ DOMAIN s = 1 .. Len(s)
  OBVIOUS
<1>2. s \in Bijection(1 .. Len(s), Seqs!ToSet(s))
  BY <1>1 DEF Bijection, Injection, Surjection, IsInjective, Distinct, Seqs!ToSet
<1>3. ExistsBijection(1 .. Len(s), Seqs!ToSet(s))
  BY <1>2 DEF ExistsBijection
<1> QED
  BY <1>1, <1>3, FS_CountingElements

(* Travel says all that RequestsTravelOnce does.                           *)
LEMMA TravelIsOnce ==
    ASSUME WInv, Travel
    PROVE  RequestsTravelOnce
<1> SUFFICES ASSUME Alive
             PROVE  RequestsTravelOnce
  BY DEF RequestsTravelOnce
<1>1. InOnePlace /\ Once
  BY DEF Travel
<1>2. Cardinality(Seqs!ToSet(toWorker)) = Len(toWorker)
  BY <1>1, DistinctCounts DEF Once, WInv, WorkerTypeOK
<1>3. \A i, j \in DOMAIN fromWorker :
          i # j /\ fromWorker[i].kind = "reply" => fromWorker[i] # fromWorker[j]
  BY <1>1 DEF Once, OneReplyEach
<1> DEFINE places == [waiting |-> Seqs!ToSet(toWorker), running |-> running,
                      settled |-> {r.op : r \in replies}, posted |-> Replied(fromWorker),
                      swallowed |-> swallowed]
<1>4. /\ places.waiting = Waits /\ places.running = running /\ places.settled = Settled
      /\ places.posted = Posted /\ places.swallowed = swallowed
      /\ DOMAIN places = {"waiting", "running", "settled", "posted", "swallowed"}
  BY DEF Waits, Settled, Posted
<1> HIDE DEF places
<1>5. held = UNION {places[p] : p \in DOMAIN places}
  BY <1>1, <1>4 DEF InOnePlace
<1>6. \A p, q \in DOMAIN places : p # q => places[p] \cap places[q] = {}
  BY <1>1, <1>4 DEF InOnePlace
<1>7. Cardinality(places.waiting) = Len(toWorker)
  BY <1>2, <1>4 DEF Waits
<1> QED
  BY <1>3, <1>5, <1>6, <1>7 DEF RequestsTravelOnce, places

(* Nothing has been sent yet.                                              *)
LEMMA InitTravels == Init => Travel
<1> SUFFICES ASSUME Init PROVE Travel
  OBVIOUS
<1>1. Waits = {} /\ Settled = {} /\ Posted = {} /\ running = {} /\ swallowed = {} /\ held = {}
  BY DEF Init, FacadeInit, Waits, Settled, Posted, Replied, Seqs!ToSet
<1>2. Once
  BY DEF Init, Once, Distinct, OneReplyEach
<1> QED
  BY <1>1, <1>2 DEF Travel, InOnePlace, HeldAreAdmitted

(* No request is lost between the two ends of the channels, and none is    *)
(* answered twice: see RequestsTravelOnce.                                 *)
THEOREM WorkerRequestsTravel == Spec => []RequestsTravelOnce
<1>1. WInv /\ Travel /\ [Next]_vars => Travel'
  BY TravelKept
<1>2. WInv /\ Travel => RequestsTravelOnce
  BY TravelIsOnce
<1> QED
  BY <1>1, <1>2, InitTravels, WorkerInvariant, PTL DEF Spec

(* The instance that the run checks holds either kind of sandbox: see      *)
(* WorkerRequestsTravelOnce.                                               *)
THEOREM RequestsTravelInEitherKind == MCSpec => []WorkerRequestsTravelOnce
<1> DEFINE Inv == transport = "worker" => WInv /\ Travel
<1>1. MCInit => Inv
  BY InitWInv, InitTravels DEF MCInit
<1>2. Inv /\ [MCNext]_<<vars, transport>> => Inv'
  <2> SUFFICES ASSUME Inv, [MCNext]_<<vars, transport>>, transport = "worker"
               PROVE  WInv' /\ Travel'
    BY DEF MCNext
  <2>1. [Next]_vars
    BY DEF MCNext
  <2> QED
    BY <2>1, NextKeepsWInv, TravelKept
<1>3. Inv => WorkerRequestsTravelOnce
  BY TravelIsOnce DEF WorkerRequestsTravelOnce
<1> QED
  BY <1>1, <1>2, <1>3, PTL DEF MCSpec
-----------------------------------------------------------------------------
(* What an invariant of either kind has to say.                            *)
EitherInv == IInv /\ transport \in {"inline", "worker"} /\ (transport = "worker" => WInv)

(* A step of either kind of sandbox is one over its own transport.         *)
LEMMA EitherSteps ==
    EitherInv /\ [MCNext]_<<vars, transport>> =>
        \/ [InlineNext]_facadeVars /\ UNCHANGED transport /\ transport = "inline"
        \/ WInv /\ [Next]_vars /\ UNCHANGED transport /\ transport = "worker"
  BY DEF EitherInv, MCNext, vars

LEMMA EitherKeepsInv == EitherInv /\ [MCNext]_<<vars, transport>> => EitherInv'
<1> SUFFICES ASSUME EitherInv, [MCNext]_<<vars, transport>> PROVE EitherInv'
  OBVIOUS
<1>1. CASE [InlineNext]_facadeVars /\ UNCHANGED transport /\ transport = "inline"
  <2>1. IInv'
    BY <1>1, InlineKeepsIInv DEF EitherInv
  <2> QED
    BY <1>1, <2>1 DEF EitherInv
<1>2. CASE WInv /\ [Next]_vars /\ UNCHANGED transport /\ transport = "worker"
  <2>1. WInv'
    BY <1>2, NextKeepsWInv
  <2>2. IInv'
    BY <2>1 DEF WInv
  <2> QED
    BY <1>2, <2>1, <2>2 DEF EitherInv
<1> QED
  BY <1>1, <1>2, EitherSteps

LEMMA EitherInvariant == MCSpec => []EitherInv
<1>1. MCInit => EitherInv
  BY InitWInv DEF MCInit, EitherInv, WInv
<1> QED
  BY <1>1, EitherKeepsInv, PTL DEF MCSpec

(* Whichever transport it runs over, a sandbox is open exactly while the   *)
(* transport is: see ClosedTogether.                                       *)
THEOREM EitherClosesTogether == MCSpec => []ClosedTogether
<1>1. EitherInv => ClosedTogether
  BY DEF EitherInv, IInv
<1> QED
  BY <1>1, EitherInvariant, PTL

(* Nor is a slot lost or overdrawn in either: see SlotsAccounted.          *)
THEOREM EitherSlotsAccounted == MCSpec => []SlotsAccounted
<1>1. MCInit => WithinCapacity
  BY NobodyFits DEF MCInit, Init, FacadeInit
<1>2. EitherInv /\ WithinCapacity /\ [MCNext]_<<vars, transport>> => WithinCapacity'
  BY EitherSteps, InlineFits, WorkerFits DEF EitherInv
<1>3. EitherInv /\ WithinCapacity => SlotsAccounted
  BY DEF EitherInv, IInv, SlotsMatch, WithinCapacity, SlotsAccounted
<1> QED
  BY <1>1, <1>2, <1>3, EitherInvariant, PTL DEF MCSpec

(* Neither delivers an answer after its deadline: see NoLateValue.         *)
THEOREM EitherNoLateValue == MCSpec => NoLateValue
<1>1. EitherInv /\ [MCNext]_<<vars, transport>> => [NothingLate]_facadeVars
  BY EitherSteps, InlineDeliversNothingLate, WorkerDeliversNothingLate DEF EitherInv
<1> QED
  BY <1>1, EitherInvariant, PTL DEF MCSpec, NoLateValue, NothingLate

(* Both keep the promises of SandboxService: see ImplementsService.        *)
THEOREM EitherImplementsService == MCSpec => ImplementsService
<1>1. MCInit => Service!Init
  BY DEF MCInit, Init, FacadeInit, Service!Init
<1>2. EitherInv /\ [MCNext]_<<vars, transport>> => ServiceStep
  BY EitherSteps, InlineServes, WorkerServes DEF EitherInv
<1> QED
  BY <1>1, <1>2, EitherInvariant, PTL
     DEF MCSpec, ImplementsService, Service!Spec, ServiceStep
=============================================================================
