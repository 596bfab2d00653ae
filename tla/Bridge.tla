------------------------------- MODULE Bridge -------------------------------
(***************************************************************************)
(* The native half of one sandbox (bridge/engine.c): the handle table, the *)
(* promises the driver watches, and the host callbacks guest code has      *)
(* started.  Guest code is an environment that chooses values and outcomes;*)
(* which promise it settles, and when, is not constrained.                 *)
(*                                                                         *)
(* One thread calls the ABI.  A C call that retains several values is one  *)
(* step per retain: frame names the call in progress, and nothing else     *)
(* runs until it is Idle again.  A command that fails before it touches    *)
(* the table (a stale operand, a full table, a guest exception) leaves     *)
(* everything unchanged and has no action, unless somebody relies on it    *)
(* having run.  The guest's memory may be exhausted in any command, before *)
(* it does anything or when its answer is serialized; the error is not     *)
(* fatal (isFatal in src/engine.ts), and what was done is not undone.      *)
(***************************************************************************)
EXTENDS HandleTable, Sequences, Functions

CONSTANTS
    MAX_CALLBACKS,    \* 128: host calls the guest may have outstanding
    MaxArgs,          \* bound: arguments of a host call (100,000 in the code)
    MaxCalls          \* bound: host calls started in one behaviour

ASSUME CallbacksAssumption == /\ MAX_CALLBACKS \in Nat \ {0}
                              /\ MaxArgs \in Nat
                              /\ MaxCalls \in Nat

VARIABLES
    evalCompletion,   \* Handle.eval_completion, by slot
    copyResult,       \* Handle.copy_result, by slot
    callbacks,        \* the Callback array
    callbackNext,     \* callback_next
    frame,            \* the C call in progress
    open,             \* context is not NULL
    held,             \* ids the host was given and has not released
    watches,          \* the driver's pending map: watch id |-> result wanted
    outstanding,      \* the driver's callbacks map: call ids not yet settled
    lost              \* ids that a failed command kept from their owner (history)

bridgeVars == <<evalCompletion, copyResult, callbacks, callbackNext, frame, open>>
hostVars == <<held, watches, outstanding, lost>>
vars == <<tableVars, bridgeVars, hostVars>>

CallbackSlots == 1 .. MAX_CALLBACKS
Wanted == {"handle", "copy"}

Idle == [op |-> "idle"]

(* A cleared Callback.  ids is the receiver followed by the arguments. *)
NoCallback == [live |-> FALSE, id |-> 0, sent |-> FALSE, copyArgs |-> FALSE, ids |-> <<>>]

IdsOf(c) == Range(callbacks[c].ids)

FreeCallback(c) == /\ ~callbacks[c].live
                   /\ \A d \in CallbackSlots : d < c => callbacks[d].live

Without(f, x) == Restrict(f, DOMAIN f \ {x})

Init ==
    /\ TableInit
    /\ evalCompletion = [s \in Slots |-> FALSE]
    /\ copyResult = [s \in Slots |-> FALSE]
    /\ callbacks = [c \in CallbackSlots |-> NoCallback]
    /\ callbackNext = 0
    /\ frame = Idle
    /\ open = TRUE
    /\ held = {}
    /\ watches = <<>>
    /\ outstanding = {}
    /\ lost = {}

Ready == open /\ frame = Idle

(* retain clears the flags of the slot it takes; pending sets them after. *)
RetainLast(s, v, eval, copy) ==   \* fault
    /\ Retain(s, v)
    /\ evalCompletion' = [evalCompletion EXCEPT ![s] = FALSE]
    /\ copyResult' = [copyResult EXCEPT ![s] = FALSE]
RetainWith(s, v, eval, copy) ==
    /\ Retain(s, v)
    /\ evalCompletion' = [evalCompletion EXCEPT ![s] = eval]
    /\ copyResult' = [copyResult EXCEPT ![s] = copy]

flagVars == <<evalCompletion, copyResult>>
callVars == <<callbacks, callbackNext>>
-----------------------------------------------------------------------------
(* global, make, function, get, call, construct, invoke, callGlobal: the   *)
(* result is a new handle, of which the host learns if the answer can be   *)
(* serialized.                                                             *)
Own(id) == held' = held \cup {id} /\ UNCHANGED lost
Lose(id) == lost' = lost \cup {id} /\ UNCHANGED held

OwnResult(v) ==
    /\ Ready
    /\ \E s \in Slots : /\ RetainWith(s, v, FALSE, FALSE)
                        /\ Own(CurrentId(s)) \/ Lose(CurrentId(s))
    /\ UNCHANGED <<callVars, frame, open, watches, outstanding>>

(* dup: a second id for the value a held id names. *)
Dup(id) ==
    /\ id \in held
    /\ Bound(id)
    /\ OwnResult(value[SlotOf(id)])

(* evaluate, evaluateModule, await and the copying calls: retain a promise *)
(* the driver will poll, if the answer that names it can be serialized.    *)
(* Only evaluate unwraps a completion record.                              *)
Observe(id, want) ==
    watches' = [w \in DOMAIN watches \cup {id} |-> IF w = id THEN want ELSE watches[w]]

Watch(v, eval, want) ==
    /\ Ready
    /\ \E s \in Slots : /\ RetainWith(s, v, eval, want = "copy")
                        /\ \/ Observe(CurrentId(s), want) /\ UNCHANGED <<held, lost>>
                           \/ Lose(CurrentId(s)) /\ UNCHANGED watches
    /\ UNCHANGED <<callVars, frame, open, outstanding>>

(* release: Handle.dispose sends it at most once for a Handle object, for  *)
(* an owned handle or a callback's borrowed one, settled or not.           *)
ReleaseHandle(id) ==
    /\ Ready
    /\ id \in held
    /\ Release({id})
    /\ held' = held \ {id}
    /\ UNCHANGED <<flagVars, callVars, frame, open, watches, outstanding, lost>>

(* The command fails before it releases: the Handle object is disposed of  *)
(* all the same, and does not ask again.                                   *)
ReleaseFails(id) ==
    /\ Ready
    /\ id \in held
    /\ held' = held \ {id}
    /\ lost' = lost \cup {id}
    /\ UNCHANGED <<tableVars, flagVars, callVars, frame, open, watches, outstanding>>
-----------------------------------------------------------------------------
(* poll of a fulfilled evaluation: its record's value, as a promise, takes *)
(* the watch's slot, and the command polls again.                          *)
PollCompletion(w, v) ==
    /\ Ready
    /\ w \in DOMAIN watches
    /\ evalCompletion[SlotOf(w)]
    /\ Replace(w, v)
    /\ evalCompletion' = [evalCompletion EXCEPT ![SlotOf(w)] = FALSE]
    /\ UNCHANGED <<copyResult, callVars, frame, open, hostVars>>

(* poll of a rejected promise, or of a completion that cannot be observed: *)
(* the watch is released and the driver forgets the operation.             *)
PollFails(w) ==
    /\ Ready
    /\ w \in DOMAIN watches
    /\ Release({w})
    /\ watches' = Without(watches, w)
    /\ UNCHANGED <<flagVars, callVars, frame, open, held, outstanding, lost>>

(* poll fails before it looks at the promise, or cannot say that it is     *)
(* still pending: the driver forgets a watch that nobody has released.     *)
PollUnanswered(w) ==
    /\ Ready
    /\ w \in DOMAIN watches
    /\ watches' = Without(watches, w)
    /\ lost' = lost \cup {w}
    /\ UNCHANGED <<tableVars, flagVars, callVars, frame, open, held, outstanding>>

(* poll of a fulfilled promise: the watch is released first; copied()      *)
(* answers at once, owned() retains the value in a slot.                   *)
PollFulfilled(w, v) ==
    /\ Ready
    /\ w \in DOMAIN watches
    /\ Bound(w)
    /\ ~evalCompletion[SlotOf(w)]
    /\ Release({w})
    /\ frame' = IF copyResult[SlotOf(w)] THEN Idle
                ELSE [op |-> "poll", watch |-> w, result |-> v]
    /\ watches' = IF copyResult[SlotOf(w)] THEN Without(watches, w) ELSE watches
    /\ UNCHANGED <<flagVars, callVars, open, held, outstanding, lost>>

PollOwn ==
    /\ frame.op = "poll"
    /\ \/ \E s \in Slots : /\ RetainWith(s, frame.result, FALSE, FALSE)
                           /\ Own(CurrentId(s)) \/ Lose(CurrentId(s))
       \/ Full /\ UNCHANGED <<tableVars, flagVars, held, lost>>
    /\ frame' = Idle
    /\ watches' = Without(watches, frame.watch)
    /\ UNCHANGED <<callVars, open, outstanding>>
-----------------------------------------------------------------------------
(* host_call with copied arguments: nothing is retained.  A copy that      *)
(* fails, like a failed allocation, uses up the call id and clears the     *)
(* record.                                                                 *)
CallCopied(c) ==
    /\ Ready
    /\ callbackNext < MaxCalls
    /\ FreeCallback(c)
    /\ callbackNext' = callbackNext + 1
    /\ \/ callbacks' = [callbacks EXCEPT ![c] =
                           [NoCallback EXCEPT !.live = TRUE, !.id = callbackNext + 1,
                                              !.copyArgs = TRUE]]
       \/ UNCHANGED callbacks
    /\ UNCHANGED <<tableVars, flagVars, frame, open, hostVars>>

(* host_call with handles: the record is live before anything is retained. *)
CallBegin(c, argc) ==
    /\ Ready
    /\ callbackNext < MaxCalls
    /\ FreeCallback(c)
    /\ callbackNext' = callbackNext + 1
    /\ callbacks' = [callbacks EXCEPT ![c] =
                        [NoCallback EXCEPT !.live = TRUE, !.id = callbackNext + 1]]
    /\ frame' = [op |-> "call", callback |-> c, left |-> argc + 1]
    /\ UNCHANGED <<tableVars, flagVars, open, hostVars>>

(* One retain of host_call: the receiver, then each argument. *)
CallRetain(v) ==
    /\ frame.op = "call"
    /\ \E s \in Slots :
          /\ RetainWith(s, v, FALSE, FALSE)
          /\ callbacks' = [callbacks EXCEPT ![frame.callback].ids = Append(@, CurrentId(s))]
    /\ frame' = IF frame.left = 1 THEN Idle ELSE [frame EXCEPT !.left = @ - 1]
    /\ UNCHANGED <<callbackNext, open, hostVars>>

(* callback_clear *)
ClearRecordOnly(c) ==   \* fault
    /\ UNCHANGED tableVars
    /\ callbacks' = [callbacks EXCEPT ![c] = NoCallback]
Clear(c) ==
    /\ Release(IdsOf(c))
    /\ callbacks' = [callbacks EXCEPT ![c] = NoCallback]

(* A retain of host_call fails: what was retained so far is given back. *)
CallRollback ==
    /\ frame.op = "call"
    /\ Full
    /\ Clear(frame.callback)
    /\ frame' = Idle
    /\ UNCHANGED <<flagVars, callbackNext, open, hostVars>>

LeftUnsent(c) == callbacks[c]   \* fault
Sent(c) == [callbacks[c] EXCEPT !.sent = TRUE]

(* jss_events: every call not yet sent goes to the driver, which records   *)
(* it; the host wraps its receiver and arguments as handles.               *)
Events ==
    LET unsent == {c \in CallbackSlots : callbacks[c].live /\ ~callbacks[c].sent}
    IN  /\ Ready
        /\ unsent # {}
        /\ callbacks' = [c \in CallbackSlots |->
                            IF c \in unsent THEN Sent(c) ELSE callbacks[c]]
        /\ outstanding' = outstanding \cup {callbacks[c].id : c \in unsent}
        /\ held' = held \cup UNION {IdsOf(c) : c \in unsent}
        /\ UNCHANGED <<tableVars, flagVars, callbackNext, frame, open, watches, lost>>

(* settle: the driver sends it once for a recorded call.  The promise is   *)
(* resolved or rejected, and the borrowed handles are released.            *)
Settle(k) ==
    /\ Ready
    /\ k \in outstanding
    /\ outstanding' = outstanding \ {k}
    /\ \/ \E c \in CallbackSlots : /\ callbacks[c].live
                                   /\ callbacks[c].id = k
                                   /\ Clear(c)
       \/ /\ \A c \in CallbackSlots : ~(callbacks[c].live /\ callbacks[c].id = k)
          /\ UNCHANGED <<tableVars, callbacks>>
    /\ UNCHANGED <<flagVars, callbackNext, frame, open, held, watches, lost>>

(* jss_dispose frees every value; the driver drops its maps with it.       *)
(* Nothing after it reaches the table.                                     *)
Dispose ==
    /\ Ready
    /\ open' = FALSE
    /\ live' = [s \in Slots |-> FALSE]
    /\ callbacks' = [c \in CallbackSlots |-> NoCallback]
    /\ watches' = <<>>
    /\ outstanding' = {}
    /\ UNCHANGED <<generation, value, cursor, flagVars, callbackNext, frame, held, lost>>
-----------------------------------------------------------------------------
Next ==
    \/ \E v \in Values : OwnResult(v)
    \/ \E id \in held : Dup(id) \/ ReleaseHandle(id) \/ ReleaseFails(id)
    \/ \E v \in Values, eval \in BOOLEAN, want \in Wanted : Watch(v, eval, want)
    \/ \E w \in DOMAIN watches : \/ PollFails(w) \/ PollUnanswered(w)
                                 \/ \E v \in Values : PollCompletion(w, v) \/ PollFulfilled(w, v)
    \/ PollOwn
    \/ \E c \in CallbackSlots : \/ CallCopied(c)
                                \/ \E argc \in 0 .. MaxArgs : CallBegin(c, argc)
    \/ \E v \in Values : CallRetain(v)
    \/ CallRollback
    \/ Events
    \/ \E k \in outstanding : Settle(k)
    \/ Dispose

Spec == Init /\ [][Next]_vars
-----------------------------------------------------------------------------
Callback == [live : BOOLEAN, id : 0 .. MaxCalls, sent : BOOLEAN, copyArgs : BOOLEAN,
             ids : Seq(Ids)]

Frame == {Idle}
         \cup [op : {"poll"}, watch : Ids, result : Values]
         \cup [op : {"call"}, callback : CallbackSlots, left : 1 .. (MaxArgs + 1)]

(* The kinds of the bridge's and the driver's state. *)
TypeOK ==
    /\ TableTypeOK
    /\ evalCompletion \in [Slots -> BOOLEAN]
    /\ copyResult \in [Slots -> BOOLEAN]
    /\ callbacks \in [CallbackSlots -> Callback]
    /\ callbackNext \in 0 .. MaxCalls
    /\ frame \in Frame
    /\ open \in BOOLEAN
    /\ held \subseteq Ids
    /\ watches \in [DOMAIN watches -> Wanted] /\ DOMAIN watches \subseteq Ids
    /\ outstanding \subseteq 1 .. MaxCalls
    /\ lost \subseteq Ids

Borrowed == UNION {IdsOf(c) : c \in CallbackSlots}

(* Every value the table keeps alive has one owner (host_call's rollback,  *)
(* poll, callback_clear): a bound id is one the host holds, one the driver *)
(* polls or one of a live callback, so that somebody can release it, or a  *)
(* failed command lost it; and a release by one owner never takes          *)
(* another's value, for an id is a watch or a handle, belongs to one call  *)
(* at most, reaches the host only when its call is sent, and is nobody's   *)
(* again once it is lost.                                                  *)
OneOwner ==
    /\ open => BoundIds \subseteq held \cup DOMAIN watches \cup Borrowed \cup lost
    /\ DOMAIN watches \cap (held \cup Borrowed) = {}
    /\ lost \cap (held \cup DOMAIN watches) = {}
    /\ \A c, d \in CallbackSlots : c # d => IdsOf(c) \cap IdsOf(d) = {}
    /\ \A c \in CallbackSlots : ~callbacks[c].sent => IdsOf(c) \cap (held \cup lost) = {}

(* A watch is live until its operation is answered, and its slot says what *)
(* the operation asked for: poll finds it, and delivers a copy exactly     *)
(* when one was requested (the evaluateCopy and callGlobalCopy family).    *)
WatchesFaithful ==
    Ready => \A w \in DOMAIN watches : /\ Bound(w)
                                       /\ copyResult[SlotOf(w)] <=> watches[w] = "copy"

(* A call the driver waits for is exactly a live sent callback: no answer  *)
(* is lost, and no callback slot stays taken for ever.                     *)
OutstandingIsSent ==
    /\ outstanding = {callbacks[c].id : c \in {d \in CallbackSlots : callbacks[d].sent}}
    /\ \A c, d \in CallbackSlots :
          (c # d /\ callbacks[c].live /\ callbacks[d].live) => callbacks[c].id # callbacks[d].id

(* README.md: "Callback handles remain valid until the callback settles",  *)
(* unless the host itself disposed of the handle.                          *)
BorrowedUntilSettled ==
    [][\A c \in CallbackSlots :
          (callbacks[c].live /\ callbacks'[c].id = callbacks[c].id)
             => (IdsOf(c) \cap BoundIds) \ BoundIds' \subseteq held \ held']_vars

(* As long as the bridge is open its commands use the table as HandleSpace *)
(* allows: no id the host, a watch or a call has let go of names a value   *)
(* again, whatever stale ids late commands and settlements carry.          *)
KeepsHandleSpace == Space!Init /\ [][open' => [Space!Next]_(Space!vars)]_vars
=============================================================================
