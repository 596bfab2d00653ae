------------------------------- MODULE Facade -------------------------------
(***************************************************************************)
(* The sandbox object of the caller (src/core.ts: Sandbox, after startup): *)
(* admission, the timer and the abort signal of each operation, answers    *)
(* from the transport, and retirement.                                     *)
(*                                                                         *)
(* A transport (src/transport.ts) appears as the promises it holds and its *)
(* closed flag; InlineSandbox and WorkerSandbox say what it does.  Its     *)
(* promises settle in one step and are reacted to in another, as           *)
(* JavaScript does; reactions that wait together may run in any order.     *)
(*                                                                         *)
(* ERR_GUEST stands for every error that ends one operation only, and      *)
(* ERR_WORKER for every failure of the worker or its channel.              *)
(*                                                                         *)
(* An operation is used once.  Expire(o) is the moment its timeout passes. *)
(*                                                                         *)
(* A definition marked "fault" is a plausible mistake in the one below it. *)
(* No action uses it: it is there to show that a property can fail.        *)
(***************************************************************************)
EXTENDS Naturals, FiniteSets

CONSTANTS
    Operations,
    Cleanups,    \* those of them that release a handle
    CAPACITY     \* options.maxPendingOperations

ASSUME OperationsAssumption == /\ IsFiniteSet(Operations)
                               /\ Cleanups \subseteq Operations
                               /\ CAPACITY \in Nat \ {0}

VARIABLES
    outcome,     \* the promise each operation returned
    pending,     \* sandbox.#pending
    expired,     \* operations whose timeout has passed
    ended,       \* why sandbox.#closed is set, or "none"
    reactions,   \* settled promises of the transport, not yet reacted to
    held,        \* operations whose promise the transport has not settled
    closed       \* the transport's closed flag

sandboxVars == <<outcome, pending, ended>>
transportVars == <<reactions, held, closed>>
facadeVars == <<sandboxVars, expired, transportVars>>

Refusals == {"ERR_DISPOSED", "ERR_ABORTED", "ERR_QUEUE_FULL"}
Answers == {"value", "ERR_GUEST"}
FatalCodes == {"ERR_TIMEOUT", "ERR_FATAL"}
EngineCauses == FatalCodes \cup {"ERR_RESOURCE_LIMIT"}
Causes == EngineCauses \cup {"ERR_ABORTED", "ERR_DISPOSED", "ERR_WORKER"}

Rejections(ops, code) == {[op |-> o, answer |-> code] : o \in ops}

FacadeInit ==
    /\ outcome = [o \in Operations |-> "new"]
    /\ pending = {} /\ expired = {}
    /\ ended = "none"
    /\ reactions = {} /\ held = {} /\ closed = FALSE

Room(o) == o \in Cleanups \/ Cardinality(pending) < CAPACITY

(* _request, up to the transport's execute.  A signal that has fired       *)
(* before only rejects its own operation.                                  *)
Refuse(o) ==
    /\ outcome[o] = "new"
    /\ ended # "none" \/ ~Room(o)
    /\ outcome' = [outcome EXCEPT ![o] = IF ended # "none" THEN "ERR_DISPOSED"
                                                          ELSE "ERR_QUEUE_FULL"]
    /\ UNCHANGED <<pending, ended, expired, transportVars>>

RefuseAborted(o) ==
    /\ outcome[o] = "new" /\ o \notin Cleanups
    /\ ended = "none"
    /\ outcome' = [outcome EXCEPT ![o] = "ERR_ABORTED"]
    /\ UNCHANGED <<pending, ended, expired, transportVars>>

Admitted(o) ==
    /\ outcome[o] = "new"
    /\ ended = "none" /\ Room(o)
    /\ outcome' = [outcome EXCEPT ![o] = "pending"]
    /\ pending' = pending \cup {o}
    /\ UNCHANGED <<ended, expired, closed>>

Admit(o) ==
    /\ Admitted(o)
    /\ IF closed
       THEN reactions' = reactions \cup Rejections({o}, "ERR_DISPOSED") /\ held' = held
       ELSE held' = held \cup {o} /\ UNCHANGED reactions
-----------------------------------------------------------------------------

RejectAll(cause) ==
    IF ended # "none" THEN UNCHANGED sandboxVars
    ELSE /\ ended' = cause
         /\ outcome' = [o \in Operations |-> IF o \in pending THEN cause ELSE outcome[o]]
         /\ pending' = {}

(* #retire and the transport's dispose, after the reactions in rest.       *)
Retire(cause, rest) ==
    /\ RejectAll(cause)
    /\ closed' = (closed \/ ended = "none")
    /\ held' = IF closed' THEN {} ELSE held
    /\ reactions' = rest \cup (IF ended = "none" THEN Rejections(held, "ERR_DISPOSED") ELSE {})

ForgetOnFatal(cause) == UNCHANGED sandboxVars   \* fault
OnFatal(cause) == RejectAll(cause)

(* The transport fails: it rejects what it holds with the cause, then      *)
(* reports it.  transport.dispose has nothing left to do.                  *)
TransportFails(cause) ==
    /\ ~closed
    /\ closed' = TRUE
    /\ reactions' = reactions \cup Rejections(held, cause)
    /\ held' = {}
    /\ OnFatal(cause)
    /\ UNCHANGED expired

(* finish *)
KeepSlot(o) == pending   \* fault
WithoutSlot(o) == pending \ {o}

FinishAgain(o, answer, rest) ==   \* fault
    /\ outcome' = [outcome EXCEPT ![o] = answer]
    /\ pending' = WithoutSlot(o)
    /\ reactions' = rest
    /\ UNCHANGED <<ended, held, closed>>

Finish(o, answer, rest) ==
    /\ IF outcome[o] = "pending"
       THEN /\ outcome' = [outcome EXCEPT ![o] = answer]
            /\ pending' = WithoutSlot(o)
       ELSE UNCHANGED <<outcome, pending>>
    /\ reactions' = rest
    /\ UNCHANGED <<ended, held, closed>>

NeverLate(r) == FALSE   \* fault
Late(r) == r.op \in expired

(* The reactions _request gave to execute's promise. *)
React ==
    \E r \in reactions :
        LET rest == reactions \ {r}
        IN  /\ IF r.answer = "value" /\ Late(r) THEN Retire("ERR_TIMEOUT", rest)
               ELSE IF r.answer \in FatalCodes THEN Retire(r.answer, rest)
               ELSE Finish(r.op, r.answer, rest)
            /\ UNCHANGED expired

Expire(o) ==
    /\ o \in pending \ expired
    /\ expired' = expired \cup {o}
    /\ UNCHANGED <<sandboxVars, transportVars>>

DeadlineLeftToEngine(o) == FALSE   \* fault
Due(o) == o \in pending \cap expired

(* The timer of an operation: a task, so no reaction is waiting.           *)
TimerFires(o) ==
    /\ reactions = {}
    /\ Due(o)
    /\ Retire("ERR_TIMEOUT", reactions)
    /\ UNCHANGED expired

Abort(o) ==
    /\ o \in pending \ Cleanups
    /\ Retire("ERR_ABORTED", reactions)
    /\ UNCHANGED expired

Dispose ==
    /\ ended = "none"
    /\ Retire("ERR_DISPOSED", reactions)
    /\ UNCHANGED expired

(* All that happens without the transport. *)
CallerStep ==
    \/ \E o \in Operations : \/ Refuse(o) \/ RefuseAborted(o)
                             \/ Expire(o) \/ TimerFires(o) \/ Abort(o)
    \/ React
    \/ Dispose
-----------------------------------------------------------------------------
Message == [op : Operations, answer : Answers \cup Causes]

FacadeTypeOK ==
    /\ outcome \in [Operations -> {"new", "pending"} \cup Refusals \cup Answers \cup Causes]
    /\ pending \subseteq Operations /\ expired \subseteq Operations
    /\ ended \in {"none"} \cup Causes
    /\ reactions \subseteq Message
    /\ held \subseteq Operations
    /\ closed \in BOOLEAN

(* Admission (maxPendingOperations): #pending is exactly the operations    *)
(* without an answer, so a slot comes back however an operation ends, and  *)
(* no more than CAPACITY operations other than releases wait at a time.    *)
SlotsAccounted ==
    /\ pending = {o \in Operations : outcome[o] = "pending"}
    /\ Cardinality(pending \ Cleanups) =< CAPACITY

(* A sandbox is open exactly while its transport is: neither a dead engine *)
(* that still accepts operations nor a live one that nobody owns (onFatal, *)
(* #retire).                                                               *)
ClosedTogether == closed <=> ended # "none"

(* An answer that arrives after its deadline is never delivered, although  *)
(* the timer may not have run yet (core.ts:153).                           *)
NoLateValue ==
    [][\A o \in expired : outcome'[o] = "value" => outcome[o] = "value"]_facadeVars

Service == INSTANCE SandboxService
(* The sandbox implements SandboxService: each accepted operation gets one *)
(* answer, and the end of the sandbox, whatever causes it, reaches all at  *)
(* once with that cause.                                                   *)
ImplementsService == Service!Spec

(* Every accepted request settles (docs/design.md), even if the engine     *)
(* never answers.                                                          *)
OperationSettles == \A o \in Operations : outcome[o] = "pending" ~> outcome[o] # "pending"
=============================================================================
