--------------------------- MODULE CallbackScope ---------------------------
(***************************************************************************)
(* One host callback with handle arguments, through the three layers that  *)
(* share its temporary handles: the facade (src/core.ts: #hostCall,        *)
(* Handle), the driver's command and control queues (src/engine.ts: turn)  *)
(* and the bridge (bridge/engine.c: lookup, release, settle).              *)
(*                                                                         *)
(* When the driver's next turn comes depends on what is left of its slice; *)
(* here it comes at any time.  Commands run one at a time, and no command  *)
(* runs while a settlement waits: that is the order of a turn, and a turn  *)
(* that stops early.                                                       *)
(*                                                                         *)
(* A definition marked "fault" is a plausible mistake in the one below it. *)
(* No action uses it: it is there to show that a property can fail.        *)
(***************************************************************************)
EXTENDS Naturals, Sequences

CONSTANTS
    Args,      \* the receiver and the arguments: handles lent to the callback
    Copies,    \* bound: handles that dup can make
    MaxOps     \* bound: operations the host sends

ASSUME HandlesAssumption == Args \cap Copies = {} /\ MaxOps \in Nat

VARIABLES
    phase,      \* of the callback: running, returning, settled
    returned,   \* what it returned: data or a handle
    known,      \* handles the host has
    disposed,   \* Handle.#disposed
    queue,      \* commands in the driver
    controls,   \* settlements in the driver
    live,       \* handles with a value in the bridge
    sent,       \* operations sent so far
    awaiting,   \* the operation the callback waits for, or 0
    failed,     \* operations refused for an invalid operand
    delivered   \* the guest's promise: none, value, error or invalid

vars == <<phase, returned, known, disposed, queue, controls, live, sent,
          awaiting, failed, delivered>>
hostVars == <<phase, returned, known, disposed, sent>>

Data == "data"
Failure == "failure"

Init ==
    /\ phase = "running" /\ returned = Data
    /\ known = Args /\ disposed = {}
    /\ queue = <<>> /\ controls = <<>>
    /\ live = Args
    /\ sent = 0 /\ awaiting = 0
    /\ failed = {}
    /\ delivered = "none"
-----------------------------------------------------------------------------
AnyKnown == known   \* fault
Usable == known \ disposed

(* An operation on a handle the host has not disposed of, by the callback, *)
(* which may wait for it, or by other host code.                           *)
Operate(kind, h, wait) ==
    /\ sent < MaxOps
    /\ h \in Usable
    /\ wait => phase = "running" /\ awaiting = 0
    /\ sent' = sent + 1
    /\ queue' = Append(queue, [kind |-> kind, on |-> h, n |-> sent + 1, awaited |-> wait])
    /\ awaiting' = IF wait THEN sent + 1 ELSE awaiting
    /\ UNCHANGED <<phase, returned, known, disposed, controls, live, failed, delivered>>

(* Handle.dispose: refused locally from now on, then released in turn. *)
DisposeHandle(h) ==
    /\ sent < MaxOps
    /\ h \in Usable
    /\ disposed' = disposed \cup {h}
    /\ sent' = sent + 1
    /\ queue' = Append(queue, [kind |-> "release", on |-> h, n |-> sent + 1, awaited |-> FALSE])
    /\ UNCHANGED <<phase, returned, known, controls, live, awaiting, failed, delivered>>

(* The host function returns data, or a handle it has. *)
Return(r) ==
    /\ phase = "running"
    /\ awaiting = 0
    /\ returned' = r
    /\ phase' = "returning"
    /\ UNCHANGED <<known, disposed, queue, controls, live, sent, awaiting, failed, delivered>>

Input(r) == IF r \in disposed THEN Failure ELSE r

ThrownOutsideTry == phase = "returning" /\ returned \notin disposed   \* fault
MaySettle == phase = "returning"

AfterReturn == "settled"

(* The rest of #hostCall: the result is converted and the settlement sent, *)
(* an error if its handle is already disposed of; the scope's handles are  *)
(* then invalid to the host.                                               *)
SettleCall ==
    /\ MaySettle
    /\ phase' = AfterReturn
    /\ controls' = Append(controls, Input(returned))
    /\ disposed' = disposed \cup Args
    /\ UNCHANGED <<returned, known, queue, live, sent, awaiting, failed, delivered>>
-----------------------------------------------------------------------------
ReleasedFirst(r) == live \ Args   \* fault
AtConversion(r) == live

AfterSettle == live \ Args

(* settle: the result is looked up, the guest's promise resolved, and the  *)
(* borrowed handles released, in this order.                               *)
RunControl ==
    /\ controls # <<>>
    /\ LET r == Head(controls)
       IN  delivered' = IF r = Failure THEN "error"
                        ELSE IF r = Data \/ r \in AtConversion(r) THEN "value"
                        ELSE "invalid"
    /\ live' = AfterSettle
    /\ controls' = Tail(controls)
    /\ UNCHANGED <<hostVars, queue, awaiting, failed>>

CommandMayRun == controls = <<>>

(* One command: its operand is looked up when it runs. *)
RunCommand ==
    /\ CommandMayRun
    /\ queue # <<>>
    /\ queue' = Tail(queue)
    /\ LET op == Head(queue)
       IN  /\ awaiting' = IF awaiting = op.n THEN 0 ELSE awaiting
           /\ \/ /\ op.kind = "release"
                 /\ live' = live \ {op.on}
                 /\ UNCHANGED <<known, failed>>
              \/ /\ op.kind \in {"use", "dup"} /\ op.on \notin live
                 /\ failed' = failed \cup {op}
                 /\ UNCHANGED <<known, live>>
              \/ /\ op.kind = "use" /\ op.on \in live
                 /\ UNCHANGED <<known, live, failed>>
              \/ /\ op.kind = "dup" /\ op.on \in live
                 /\ \E h \in Copies \ known : known' = known \cup {h} /\ live' = live \cup {h}
                 /\ UNCHANGED failed
    /\ UNCHANGED <<phase, returned, disposed, sent, controls, delivered>>

Driver == RunControl \/ RunCommand

Next ==
    \/ \E h \in known : \/ DisposeHandle(h)
                        \/ \E kind \in {"use", "dup"}, wait \in BOOLEAN : Operate(kind, h, wait)
    \/ \E r \in known \cup {Data} : Return(r)
    \/ SettleCall
    \/ Driver

(* A scheduled turn comes, and an async function goes on after its return. *)
Spec == Init /\ [][Next]_vars /\ WF_vars(Driver) /\ WF_vars(SettleCall)
-----------------------------------------------------------------------------
(* docs/design.md: "Convert the return value before releasing the callback *)
(* scope."  A returned handle reaches the guest, also a borrowed one, and  *)
(* also when its owner disposes of it right after; one disposed of before  *)
(* becomes an error, never an invalid operand in the bridge.               *)
ReturnedHandleConverts == delivered # "invalid"

(* An operation the callback waits for before it returns has its operands; *)
(* and one on a handle the host owns has them in any case.                 *)
AwaitedOperationsSucceed == \A op \in failed : ~op.awaited /\ op.on \in Args

(* A settlement reaches the guest, whatever commands are queued.           *)
SettlementArrives == phase = "returning" ~> delivered # "none"

(* docs/design.md: "An in-flight operation retains its operands until      *)
(* completion."                                                            *)
InFlightRetainsOperands == failed = {}
=============================================================================
