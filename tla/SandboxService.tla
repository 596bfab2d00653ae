--------------------------- MODULE SandboxService ---------------------------
(***************************************************************************)
(* What a sandbox promises its user, wherever its engine runs: an          *)
(* operation is refused at once or accepted; an accepted one is answered   *)
(* once, or told the cause when the sandbox ends; and the end is told to   *)
(* all of them at the same moment (docs/design.md: "Active timeout/abort   *)
(* retires the entire sandbox, rejects all active/queued calls").          *)
(***************************************************************************)
CONSTANTS Operations, Refusals, Answers, Causes
VARIABLES outcome,   \* of each operation's promise
          ended      \* "none", or why the sandbox ended

vars == <<outcome, ended>>

Pending(o) == outcome[o] = "pending"

Init == /\ outcome = [o \in Operations |-> "new"]
        /\ ended = "none"

Accept(o) == /\ outcome[o] = "new" /\ ended = "none"
             /\ outcome' = [outcome EXCEPT ![o] = "pending"]
             /\ UNCHANGED ended

Refuse(o) == /\ outcome[o] = "new"
             /\ \E code \in Refusals : outcome' = [outcome EXCEPT ![o] = code]
             /\ UNCHANGED ended

Answer(o) == /\ Pending(o) /\ ended = "none"
             /\ \E answer \in Answers : outcome' = [outcome EXCEPT ![o] = answer]
             /\ UNCHANGED ended

End(cause) == /\ ended = "none"
              /\ ended' = cause
              /\ outcome' = [o \in Operations |-> IF Pending(o) THEN cause ELSE outcome[o]]

Next == \/ \E o \in Operations : Accept(o) \/ Refuse(o) \/ Answer(o)
        \/ \E cause \in Causes : End(cause)

Spec == Init /\ [][Next]_vars
=============================================================================
