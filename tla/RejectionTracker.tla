-------------------------- MODULE RejectionTracker --------------------------
(***************************************************************************)
(* Unhandled rejections: the tracker of the bridge (bridge/engine.c:       *)
(* rejection_tracker, jss_events) and the end of a driver turn             *)
(* (src/engine.ts: turn) that decides on a checkpoint.                     *)
(*                                                                         *)
(* QuickJS calls the tracker when a promise is rejected that nobody        *)
(* handles, and when such a promise is handled after all.  A checkpoint    *)
(* reads the name, message and stack of each tracked reason, and their     *)
(* getters are guest code: INSPECTION says what such code may do.          *)
(***************************************************************************)
EXTENDS Integers, FiniteSets

CONSTANTS
    Promises,
    MAX_REJECTIONS,
    INSPECTION     \* what getters do: "reject", "handle", "handleOwn", "work"

ASSUME TrackerAssumption ==
    /\ MAX_REJECTIONS \in Nat \ {0}
    /\ INSPECTION \subseteq {"reject", "handle", "handleOwn", "work"}

Slots == 1..MAX_REJECTIONS
Nobody == "nobody"

VARIABLES
    rejected, handled,  \* sets of promises: their state in QuickJS
    slots,         \* rejections[]: a promise stays in a slot that is not live
    references,    \* the tracker's references to each promise
    overflow,      \* rejection_overflow
    cursor,        \* slot the checkpoint has come to
    collected,     \* promises whose reports the checkpoint has built
    reports,       \* number of reports delivered, for each promise
    guestJobs,     \* QuickJS has jobs queued, or calls that are not sent
    scheduled,     \* engine.scheduled
    pc,            \* "idle", "guest", "checkpoint", "inspect" or "closed"
    last           \* promises handled before the current inspection began

trackerVars == <<rejected, handled, slots, references, overflow>>
turnVars == <<scheduled, pc>>
vars == <<trackerVars, cursor, collected, reports, guestJobs, turnVars, last>>

Free == [live |-> FALSE, promise |-> Nobody]

Init ==
    /\ rejected = {} /\ handled = {} /\ last = {}
    /\ slots = [i \in Slots |-> Free]
    /\ references = [p \in Promises |-> 0]
    /\ overflow = FALSE /\ cursor = 1
    /\ collected = {} /\ reports = [p \in Promises |-> 0]
    /\ guestJobs = FALSE /\ scheduled = FALSE /\ pc = "idle"
-----------------------------------------------------------------------------
(* rejection_tracker *)

Tracks(i, p) == slots[i].live /\ slots[i].promise = p
FirstFree(i) == ~slots[i].live /\ \A j \in 1..(i-1) : slots[j].live

LastSlotOnly(p) == IF slots[MAX_REJECTIONS].live THEN slots ELSE   \* fault
                   [slots EXCEPT ![MAX_REJECTIONS] = [live |-> TRUE, promise |-> p]]
Tracked(p) == [i \in Slots |-> IF FirstFree(i) THEN [live |-> TRUE, promise |-> p]
                                               ELSE slots[i]]

OverflowIgnored == FALSE   \* fault
Full == \A i \in Slots : slots[i].live

Reject(p) ==
    /\ p \notin rejected
    /\ rejected' = rejected \cup {p}
    /\ IF p \in handled
       THEN UNCHANGED <<slots, references, overflow>>
       ELSE /\ slots' = Tracked(p)
            /\ overflow' = (overflow \/ Full)
            /\ references' = [references EXCEPT ![p] = @ + (IF Full THEN 0 ELSE 1)]
    /\ UNCHANGED <<handled, guestJobs>>

KeptWhenHandled(p) == slots   \* fault
Untracked(p) == [i \in Slots |-> [slots[i] EXCEPT !.live = @ /\ ~Tracks(i, p)]]

(* The first handler; on a rejected promise it has a job to run. *)
Handle(p) ==
    /\ p \notin handled
    /\ handled' = handled \cup {p}
    /\ slots' = Untracked(p)
    /\ references' = [references EXCEPT ![p] =
                        @ - Cardinality({i \in Slots : slots'[i] # slots[i]})]
    /\ guestJobs' = (guestJobs \/ p \in rejected)
    /\ UNCHANGED <<rejected, overflow>>

(* The guest queues a job, or starts a host call. *)
Work == guestJobs' = TRUE /\ UNCHANGED trackerVars
-----------------------------------------------------------------------------
(* The driver's turn. *)

(* The host submits a command. *)
Command == /\ pc = "idle" /\ scheduled' = TRUE
           /\ UNCHANGED <<trackerVars, cursor, collected, reports, guestJobs, pc, last>>

StartTurn == /\ pc = "idle" /\ scheduled
             /\ scheduled' = FALSE /\ pc' = "guest"
             /\ UNCHANGED <<trackerVars, cursor, collected, reports, guestJobs, last>>

(* Commands, jobs and polls run guest code. *)
GuestRuns ==
    /\ pc = "guest"
    /\ Work \/ \E p \in Promises : Reject(p) \/ Handle(p)
    /\ UNCHANGED <<cursor, collected, reports, turnVars, last>>

JobsDone == /\ pc = "guest" /\ guestJobs /\ guestJobs' = FALSE
            /\ UNCHANGED <<trackerVars, cursor, collected, reports, turnVars, last>>

(* The last look at the job queue (engine.jobs) decides between another    *)
(* turn and a checkpoint.                                                  *)
CheckpointDue == ~guestJobs

EndOfJobs ==
    /\ pc = "guest"
    /\ IF CheckpointDue
       THEN pc' = "checkpoint" /\ UNCHANGED scheduled
       ELSE pc' = "idle" /\ scheduled' = TRUE
    /\ cursor' = 1 /\ collected' = {}
    /\ UNCHANGED <<trackerVars, reports, guestJobs, last>>

(* jss_events(1) *)
NextSlot ==
    /\ pc = "checkpoint" /\ cursor \in Slots
    /\ IF slots[cursor].live
       THEN pc' = "inspect" /\ last' = handled /\ UNCHANGED cursor
       ELSE cursor' = cursor + 1 /\ UNCHANGED <<pc, last>>
    /\ UNCHANGED <<trackerVars, collected, reports, guestJobs, scheduled>>

MayHandle(p) == IF p = slots[cursor].promise THEN "handleOwn" \in INSPECTION
                                             ELSE "handle" \in INSPECTION

(* helper("error") calls getters of the reason. *)
Inspect ==
    /\ pc = "inspect"
    /\ \/ "work" \in INSPECTION /\ Work
       \/ \E p \in Promises :
             \/ "reject" \in INSPECTION /\ Reject(p)
             \/ MayHandle(p) /\ Handle(p)
    /\ UNCHANGED <<cursor, collected, reports, turnVars, last>>

SlotFreed == [slots EXCEPT ![cursor].live = FALSE]

Report ==
    /\ pc = "inspect"
    /\ collected' = collected \cup {slots[cursor].promise}
    /\ references' = [references EXCEPT ![slots[cursor].promise] = @ - 1]
    /\ slots' = SlotFreed
    /\ cursor' = cursor + 1 /\ pc' = "checkpoint"
    /\ UNCHANGED <<rejected, handled, overflow, reports, guestJobs, scheduled, last>>

(* The events go to the driver's hooks, or an overflow ends the engine and *)
(* takes them with it.                                                     *)
Deliver ==
    /\ pc = "checkpoint" /\ cursor \notin Slots
    /\ IF overflow
       THEN pc' = "closed" /\ UNCHANGED reports
       ELSE /\ pc' = "idle"
            /\ reports' = [p \in Promises |-> reports[p] + (IF p \in collected THEN 1 ELSE 0)]
    /\ UNCHANGED <<trackerVars, cursor, collected, guestJobs, scheduled, last>>

Next == \/ Command \/ StartTurn \/ GuestRuns \/ JobsDone \/ EndOfJobs
        \/ NextSlot \/ Inspect \/ Report \/ Deliver

(* A scheduled turn comes, and goes on. *)
Fairness == WF_vars(StartTurn) /\ WF_vars(EndOfJobs) /\ WF_vars(NextSlot \/ Report \/ Deliver)

Spec == Init /\ [][Next]_vars /\ Fairness
-----------------------------------------------------------------------------
Live(p) == {i \in Slots : Tracks(i, p)}

(* The tracker holds one reference for each live slot, and gives each back *)
(* once: "Every success/failure path has a cleanup owner".                 *)
ReferencesOwned == \A p \in Promises : references[p] = Cardinality(Live(p))

(* A promise handled before the checkpoint came to it is not reported, nor *)
(* is one reported twice: rejections returned to the host are handled.     *)
OnlyUnhandledReported ==
    [][\A p \in Promises : p \in collected' \ collected => p \notin last /\ reports[p] = 0]_vars

(* A rejection that stays unhandled is reported in the end, unless guest   *)
(* jobs go on for ever, the engine dies, or no turn ever comes again: one  *)
(* made while another reason is inspected may miss the checkpoint, and     *)
(* waits for the host's next command (jss_events, turn).                   *)
ReportedInTheEnd ==
    \A p \in Promises :
        <>[](p \in rejected \ handled /\ pc # "closed")
            => <>(reports[p] = 1) \/ []<>guestJobs \/ <>[](pc = "idle" /\ ~scheduled)
=============================================================================
