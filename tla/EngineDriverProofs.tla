------------------------- MODULE EngineDriverProofs -------------------------
(***************************************************************************)
(* The driver, for every number of requests and callback slots and every   *)
(* choice of its limits.  Each fact holds on its own or on those above it: *)
(*   - no wakeup is lost (WorkIsScheduled, with JobsKnown);                *)
(*   - the types, with the count of a slice's turns (DriverTyped): the     *)
(*     count is bounded because a wanted turn has no microtask yet, which  *)
(*     is WorkIsScheduled;                                                 *)
(*   - on the types, the expiry timer covers every deadline (ExpiryCovers);*)
(*   - on the types, every operation and every call is in exactly one      *)
(*     place (Accounted, from RequestsAccounted and CallsAccounted);       *)
(*   - on that, every waiting operation is told why the engine ends        *)
(*     (CauseReachesAll; what ends the engine is StepsThatEnd);            *)
(*   - on the types, a timeout is never reported early, because every      *)
(*     deadline and the age of what it is for add up to the time that was  *)
(*     given (TimeoutMeansOverdue, from Clocked).                          *)
(***************************************************************************)
EXTENDS EngineDriver, SequenceTheorems, WellFoundedInduction, TLAPS

(* schedule() leaves a turn scheduled with the slice's task set, and never *)
(* queues a microtask without one.                                         *)
LEMMA ScheduleWakes ==
    ASSUME Schedule
    PROVE  /\ closed \/ scheduled'
           /\ closed => UNCHANGED wakeVars
           /\ scheduled => UNCHANGED wakeVars
           /\ ~closed /\ ~scheduled => task'
    BY DEF Schedule, wakeVars

(* The driver knows of every job that waits in the guest when it delivers  *)
(* a turn's events, but for those its checkpoint's getters queued.         *)
JobsKnown == pc = "deliver" /\ guestJobs = "queued" => jobs

LEMMA DropWakes ==
    ASSUME NEW code, NEW d, Drop(code, d)
    PROVE  WorkIsScheduled'
    BY DEF Drop, WorkIsScheduled

LEMMA FatalWakes ==
    ASSUME NEW code, NEW inHand, NEW d, Fatal(code, inHand, d)
    PROVE  WorkIsScheduled'
    BY DropWakes DEF Fatal

LEMMA EntryFailsWakes ==
    ASSUME NEW extra, NEW inHand, NEW d, EntryFails(extra, inHand, d)
    PROVE  WorkIsScheduled'
    BY FatalWakes DEF EntryFails

(* A step that schedules, or leaves the wakeup alone, and neither closes   *)
(* the engine nor ends a turn, keeps the invariant.                        *)
LEMMA ScheduleKeeps ==
    ASSUME WorkIsScheduled, Schedule, UNCHANGED <<closed, pc>>
    PROVE  WorkIsScheduled'
    BY ScheduleWakes DEF WorkIsScheduled, wakeVars

LEMMA BusyKeeps ==
    ASSUME WorkIsScheduled, UNCHANGED wakeVars, UNCHANGED closed, pc' # "idle"
    PROVE  WorkIsScheduled'
    BY DEF WorkIsScheduled, wakeVars

LEMMA IdleKeeps ==
    ASSUME WorkIsScheduled, UNCHANGED wakeVars, UNCHANGED <<closed, pc, guestJobs, queue, controls>>
    PROVE  WorkIsScheduled'
    BY DEF WorkIsScheduled, wakeVars

(* Only CollectEvents begins to deliver, and it has just looked.           *)
LEMMA JobsKnownKept ==
    ASSUME JobsKnown, [Next]_vars
    PROVE  JobsKnown'
<1>1. CASE pc' # "deliver"
    BY <1>1 DEF JobsKnown
<1>2. CASE UNCHANGED <<pc, jobVars>>
    BY <1>2 DEF JobsKnown, jobVars
<1>3. ASSUME NEW d \in Steps, CollectEvents(d)
      PROVE  JobsKnown'
    BY <1>3 DEF CollectEvents, Fatal, Drop, JobsLeft, JobsKnown
<1>4. ASSUME NEW r \in Requests, Execute(r)
      PROVE  UNCHANGED <<pc, jobVars>>
    BY <1>4 DEF Execute, turnVars
<1>5. ASSUME NEW c \in Calls, Settle(c)
      PROVE  UNCHANGED <<pc, jobVars>>
    BY <1>5 DEF Settle, turnVars
<1>6. ASSUME Dispose \/ Turn \/ StartTurn \/ ControlsDone \/ CommandsDone \/ PollsDone \/ EndTurn
             \/ ExpiryFires
      PROVE  pc' # "deliver" \/ UNCHANGED <<pc, jobVars>>
    BY <1>6 DEF Dispose, Turn, StartTurn, ControlsDone, CommandsDone, PollsDone, EndTurn,
                ExpiryFires, Fatal, Drop, turnVars, queueVars, endVars
<1>7. ASSUME NEW d \in Steps, RunControl(d) \/ RunCommand(d) \/ RunJobs(d)
      PROVE  pc' # "deliver"
    BY <1>7 DEF RunControl, RunCommand, RunJobs, EntryFails, Fatal, Drop, turnVars
<1>8. ASSUME NEW r \in Requests, NEW d \in Steps, Poll(r, d)
      PROVE  pc' # "deliver"
    BY <1>8 DEF Poll, EntryFails, Fatal, Drop
<1>9. ASSUME NEW e \in Calls \cup {Unhandled}, Deliver(e)
      PROVE  UNCHANGED <<pc, jobVars>>
    BY <1>9 DEF Deliver
<1>10. ASSUME TaskFires \/ Tick \/ UNCHANGED vars
       PROVE  UNCHANGED <<pc, jobVars>>
    BY <1>10 DEF TaskFires, Tick, vars, turnVars
<1> QED
    BY <1>1, <1>2, <1>3, <1>4, <1>5, <1>6, <1>7, <1>8, <1>9, <1>10 DEF Next, TurnStep

(* No wakeup is lost: see WorkIsScheduled. *)
THEOREM WakeupsAreNotLost == Spec => []WorkIsScheduled
<1>1. Init => WorkIsScheduled /\ JobsKnown
    BY DEF Init, WorkIsScheduled, JobsKnown
<1>2. WorkIsScheduled /\ JobsKnown /\ [Next]_vars => WorkIsScheduled'
  <2> SUFFICES ASSUME WorkIsScheduled, JobsKnown, [Next]_vars
               PROVE  WorkIsScheduled'
    OBVIOUS
  <2> USE DEF endVars
  <2>1. ASSUME NEW r \in Requests, Execute(r)
        PROVE  WorkIsScheduled'
    <3>1. CASE closed
      BY <2>1, <3>1 DEF Execute, WorkIsScheduled, wakeVars, turnVars
    <3>2. CASE ~closed
      BY <2>1, <3>2, ScheduleKeeps DEF Execute, turnVars
    <3> QED
      BY <3>1, <3>2
  <2>2. ASSUME NEW c \in Calls, Settle(c)
        PROVE  WorkIsScheduled'
    BY <2>2, ScheduleKeeps DEF Settle, Answer, turnVars
  <2>3. ASSUME Dispose
        PROVE  WorkIsScheduled'
    BY <2>3, DropWakes DEF Dispose
  <2>4. ASSUME Turn
        PROVE  WorkIsScheduled'
    BY <2>4 DEF Turn, WorkIsScheduled, queueVars, jobVars
  <2>5. ASSUME StartTurn
        PROVE  WorkIsScheduled'
    BY <2>5, FatalWakes, BusyKeeps DEF StartTurn
  <2>6. ASSUME NEW d \in Steps, RunControl(d)
        PROVE  WorkIsScheduled'
    BY <2>6, FatalWakes, EntryFailsWakes, BusyKeeps DEF RunControl, turnVars
  <2>7. ASSUME ControlsDone \/ CommandsDone \/ PollsDone
        PROVE  WorkIsScheduled'
    BY <2>7, BusyKeeps DEF ControlsDone, CommandsDone, PollsDone
  <2>8. ASSUME NEW d \in Steps, RunCommand(d)
        PROVE  WorkIsScheduled'
    BY <2>8, EntryFailsWakes, BusyKeeps DEF RunCommand
  <2>9. ASSUME NEW d \in Steps, RunJobs(d)
        PROVE  WorkIsScheduled'
    BY <2>9, EntryFailsWakes, BusyKeeps DEF RunJobs
  <2>10. ASSUME NEW r \in Requests, NEW d \in Steps, Poll(r, d)
         PROVE  WorkIsScheduled'
    BY <2>10, EntryFailsWakes, BusyKeeps DEF Poll
  <2>11. ASSUME NEW d \in Steps, CollectEvents(d)
         PROVE  WorkIsScheduled'
    BY <2>11, FatalWakes, BusyKeeps DEF CollectEvents
  <2>12. ASSUME NEW e \in Calls \cup {Unhandled}, Deliver(e)
         PROVE  WorkIsScheduled'
    BY <2>12, ScheduleKeeps, BusyKeeps DEF Deliver, Answer
  <2>13. ASSUME EndTurn
         PROVE  WorkIsScheduled'
    <3>1. CASE WorkLeft
      BY <2>13, <3>1, ScheduleWakes DEF EndTurn, WorkIsScheduled, wakeVars
    <3>2. CASE ~WorkLeft
      BY <2>13, <3>2 DEF EndTurn, WorkLeft, WorkIsScheduled, JobsKnown, wakeVars, queueVars, jobVars
    <3> QED
      BY <3>1, <3>2
  <2>14. ASSUME TaskFires
         PROVE  WorkIsScheduled'
    BY <2>14 DEF TaskFires, WorkIsScheduled, queueVars, turnVars, jobVars
  <2>15. ASSUME ExpiryFires
         PROVE  WorkIsScheduled'
    BY <2>15, FatalWakes, IdleKeeps DEF ExpiryFires, queueVars, turnVars, jobVars
  <2>16. ASSUME Tick
         PROVE  WorkIsScheduled'
    BY <2>16, IdleKeeps DEF Tick, queueVars, turnVars, jobVars
  <2>17. CASE UNCHANGED vars
    BY <2>17, IdleKeeps DEF vars, queueVars, turnVars, jobVars
  <2> QED
    BY <2>1, <2>2, <2>3, <2>4, <2>5, <2>6, <2>7, <2>8, <2>9, <2>10, <2>11, <2>12,
       <2>13, <2>14, <2>15, <2>16, <2>17 DEF Next, TurnStep
<1>3. JobsKnown /\ [Next]_vars => JobsKnown'
    BY JobsKnownKept
<1> QED
    BY <1>1, <1>2, <1>3, PTL DEF Spec
-----------------------------------------------------------------------------
(* A step that ends the engine with a cause tells it to everything that is *)
(* queued or watched.                                                      *)
Causes == {"ERR_DISPOSED"} \cup NonFatal \cup FatalCodes
Ends == \E code \in Causes, d \in Nat : \E rs :
           /\ RangeOf(queue) \cup DOMAIN pending \subseteq rs
           /\ status' = Told(rs, code)
           /\ Drop(code, d)

(* The lengths of a guest entry.                                           *)
LEMMA StepsAreNatural == Steps \subseteq Nat /\ 0 \in Nat /\ 1 \in Nat
    BY TimesAssumption DEF Steps

(* fatal's loops, with the request in hand, miss nothing; nor do dispose's.*)
LEMMA FatalEnds ==
    ASSUME NEW code \in Causes, NEW inHand, NEW d \in Nat, Fatal(code, inHand, d)
    PROVE  Ends
<1>1. RangeOf(queue) \cup DOMAIN pending \subseteq inHand \cup FatalLoops(inHand)
    BY DEF FatalLoops
<1> QED
    BY <1>1 DEF Ends, Fatal

LEMMA FailureEnds ==
    ASSUME NEW extra, NEW inHand, NEW d \in Nat, EntryFails(extra, inHand, d)
    PROVE  Ends
    BY FatalEnds DEF EntryFails, Causes, FatalCodes

LEMMA DisposeEnds == Dispose => Ends
<1>1. "ERR_DISPOSED" \in Causes /\ 0 \in Nat
    BY DEF Causes
<1> QED
    BY <1>1 DEF Dispose, Ends

(* What a step that does not end the engine cannot do.                     *)
LEMMA NoFatal ==
    ASSUME ~Ends, NEW inHand, NEW d \in Nat
    PROVE  /\ ~Fatal("ERR_FATAL", inHand, d)
           /\ ~Fatal("ERR_GUEST", inHand, d)
           /\ ~Fatal("ERR_TIMEOUT", inHand, d)
<1>1. {"ERR_FATAL", "ERR_GUEST", "ERR_TIMEOUT"} \subseteq Causes
    BY DEF Causes, NonFatal, FatalCodes
<1> QED
    BY <1>1, FatalEnds

(* No other step ends the engine. *)
LEMMA StepsThatEnd ==
    ASSUME [Next]_vars
    PROVE  Ends \/ UNCHANGED endVars
<1> USE StepsAreNatural
<1>1. {"ERR_FATAL", "ERR_GUEST", "ERR_TIMEOUT"} \subseteq Causes
    BY DEF Causes, NonFatal, FatalCodes
<1>2. ASSUME NEW r \in Requests, Execute(r)
      PROVE  UNCHANGED endVars
    BY <1>2 DEF Execute
<1>3. ASSUME NEW c \in Calls, Settle(c)
      PROVE  UNCHANGED endVars
    BY <1>3 DEF Settle
<1>4. ASSUME StartTurn \/ ExpiryFires
      PROVE  Ends \/ UNCHANGED endVars
    BY <1>1, <1>4, FatalEnds DEF StartTurn, ExpiryFires
<1>5. ASSUME NEW d \in Steps, RunControl(d)
      PROVE  Ends \/ UNCHANGED endVars
    BY <1>1, <1>5, FatalEnds, FailureEnds DEF RunControl
<1>6. ASSUME NEW d \in Steps, RunCommand(d) \/ RunJobs(d)
      PROVE  Ends \/ UNCHANGED endVars
    BY <1>6, FailureEnds DEF RunCommand, RunJobs
<1>7. ASSUME NEW d \in Steps, NEW r \in Requests, Poll(r, d)
      PROVE  Ends \/ UNCHANGED endVars
    BY <1>7, FailureEnds DEF Poll
<1>8. ASSUME NEW d \in Steps, CollectEvents(d)
      PROVE  Ends \/ UNCHANGED endVars
    BY <1>1, <1>8, FatalEnds DEF CollectEvents
<1>9. ASSUME \/ Turn \/ ControlsDone \/ CommandsDone \/ PollsDone \/ EndTurn
             \/ \E e \in Calls \cup {Unhandled} : Deliver(e)
             \/ TaskFires \/ Tick \/ UNCHANGED vars
      PROVE  UNCHANGED endVars
    BY <1>9 DEF Turn, ControlsDone, CommandsDone, PollsDone, EndTurn, Deliver,
                TaskFires, Tick, vars
<1> QED
    BY <1>2, <1>3, <1>4, <1>5, <1>6, <1>7, <1>8, <1>9, DisposeEnds DEF Next, TurnStep
-----------------------------------------------------------------------------
(* Time that passes keeps deadlines in Time, and keeps what is Off off.    *)
LEMMA LeftTyped ==
    ASSUME NEW t \in Time \cup {Off}, NEW d \in Nat
    PROVE  /\ Left(t, d) \in Time \cup {Off}
           /\ Left(t, d) = Off <=> t = Off
    BY TimesAssumption DEF Left, Time, Off

(* The same for a table of deadlines.                                      *)
LEMMA AgedTyped ==
    ASSUME NEW S, NEW f, f \in [DOMAIN f -> Time], DOMAIN f \subseteq S, NEW d \in Nat
    PROVE  /\ DOMAIN Aged(f, d) = DOMAIN f
           /\ Aged(f, d) \in [DOMAIN Aged(f, d) -> Time]
<1>1. \A x \in DOMAIN f : Left(f[x], d) \in Time
    BY TimesAssumption DEF Left, Time, Off
<1> QED
    BY <1>1 DEF Aged

(* A queued microtask will count one more turn of the slice.               *)
SliceCounted == microtask /\ ~closed => sliceTurns < MAX_SLICE_TURNS

DriverTyped == TypeOK /\ SliceCounted

(* A set of naturals has a least member: the choice in Min is not vacuous. *)
LEMMA LeastNatural ==
    ASSUME NEW T, T \subseteq Nat, T # {}
    PROVE  Min(T) \in T /\ \A t \in T : Min(T) =< t
<1> DEFINE Less == {p \in Nat \X Nat : p[1] < p[2]}
<1>1. IsWellFoundedOn(Less, Nat)
    BY NatLessThanWellFounded, Zenon DEF OpToRel
<1>2. PICK m \in T : \A t \in T : ~ (<<t, m>> \in Less)
  <2> HIDE DEF Less
  <2> QED
    BY <1>1, WFMin
<1>3. ASSUME NEW t \in T
      PROVE  m =< t
  <2>1. t \in Nat /\ m \in Nat
    OBVIOUS
  <2>2. <<t, m>> \in Less <=> t < m
    BY <2>1
  <2> QED
    BY <1>2, <2>1, <2>2
<1> QED
    BY <1>3 DEF Min

(* The delay armExpiry gives setTimeout is at least one tick.              *)
LEMMA AtLeastOne ==
    ASSUME NEW t \in Int
    PROVE  Max({1, t}) = IF t > 1 THEN t ELSE 1
<1>1. \E x \in {1, t} : \A y \in {1, t} : x >= y
    OBVIOUS
<1>2. Max({1, t}) \in {1, t} /\ \A y \in {1, t} : Max({1, t}) >= y
    BY <1>1 DEF Max
<1> QED
    BY <1>2

(* armExpiry arms the timer exactly when there is a deadline, for no later *)
(* than any of them.                                                       *)
LEMMA ArmedTyped ==
    ASSUME NEW T \in SUBSET Time
    PROVE  /\ Armed(T) \in Time \cup {Off}
           /\ T # {} => Armed(T) # Off /\ \A t \in T : Armed(T) =< Max({1, t})
<1>1. Time \subseteq Nat /\ 1 \in Time /\ Off \notin Time
    BY TimesAssumption DEF Time, Off
<1>2. CASE T = {}
    BY <1>2 DEF Armed
<1>3. CASE T # {}
  <2>1. Min(T) \in T /\ \A t \in T : Min(T) =< t
    BY <1>1, <1>3, LeastNatural
  <2>2. PICK m \in Int : m = Min(T)
    <3>1. \A t \in T : t \in Int
      BY <1>1
    <3> QED
      BY <2>1, <3>1, Zenon
  <2>4. Armed(T) = IF m > 1 THEN m ELSE 1
    BY <1>3, <2>2, AtLeastOne DEF Armed
  <2>3. \A t \in T : Max({1, t}) = IF t > 1 THEN t ELSE 1
    BY <1>1, AtLeastOne
  <2> QED
    BY <1>1, <2>1, <2>2, <2>3, <2>4
<1> QED
    BY <1>2, <1>3

(* Ages grow up to TIMEOUT, and what is Off stays off.                     *)
LEMMA OlderTyped ==
    ASSUME NEW t \in Time \cup {Off}, NEW d \in Nat
    PROVE  /\ Older(t, d) \in Time \cup {Off}
           /\ Older(t, d) = Off <=> t = Off
    BY TimesAssumption DEF Older, Time, Off

LEMMA GrowTyped ==
    ASSUME TypeOK, NEW begun, NEW ended, NEW d \in Nat, Grow(begun, ended, d),
           \A x \in DOMAIN begun : begun[x] \in Time
    PROVE  age' \in [Timed -> Time \cup {Off}]
<1>1. \A x \in Timed : age[x] \in Time \cup {Off}
    BY DEF TypeOK
<1>2. \A x \in Timed : Older(age[x], d) \in Time \cup {Off}
    BY <1>1, OlderTyped
<1> QED
    BY <1>2 DEF Grow

(* Most steps begin nothing.                                               *)
LEMMA GrowNoneTyped ==
    ASSUME TypeOK, NEW ended, NEW d \in Nat, Grow(<<>>, ended, d)
    PROVE  age' \in [Timed -> Time \cup {Off}]
    BY GrowTyped

(* What every step that lets time pass leaves of each clock.               *)
LEMMA SliceLeftTyped ==
    ASSUME TypeOK, NEW d \in Nat
    PROVE  Left(sliceLeft, d) \in 0 .. SLICE
    BY TimesAssumption DEF Left, TypeOK, Off

LEMMA OthersAge ==
    ASSUME TypeOK, NEW d \in Nat
    PROVE  /\ Aged(callbacks, d) \in [DOMAIN Aged(callbacks, d) -> Time]
           /\ DOMAIN Aged(callbacks, d) \subseteq Calls
           /\ Left(background, d) \in Time \cup {Off}
           /\ Left(expiry, d) \in Time \cup {Off}
           /\ Left(sliceLeft, d) \in 0 .. SLICE
<1>1. /\ DOMAIN Aged(callbacks, d) = DOMAIN callbacks
      /\ Aged(callbacks, d) \in [DOMAIN Aged(callbacks, d) -> Time]
    BY AgedTyped DEF TypeOK
<1>2. background \in Time \cup {Off} /\ expiry \in Time \cup {Off}
    BY DEF TypeOK
<1> QED
    BY <1>1, <1>2, LeftTyped, SliceLeftTyped DEF TypeOK

LEMMA ElapseTypes ==
    ASSUME TypeOK, NEW d \in Nat, Elapse(d)
    PROVE  /\ pending' \in [DOMAIN pending' -> Time] /\ DOMAIN pending' = DOMAIN pending
           /\ callbacks' \in [DOMAIN callbacks' -> Time] /\ DOMAIN callbacks' = DOMAIN callbacks
           /\ background' \in Time \cup {Off}
           /\ age' \in [Timed -> Time \cup {Off}]
           /\ expiry' \in Time \cup {Off}
           /\ sliceLeft' \in 0 .. SLICE
<1>1. pending' \in [DOMAIN pending' -> Time] /\ DOMAIN pending' = DOMAIN pending
    BY AgedTyped DEF Elapse, TypeOK
<1>2. callbacks' \in [DOMAIN callbacks' -> Time] /\ DOMAIN callbacks' = DOMAIN callbacks
    BY AgedTyped DEF Elapse, TypeOK
<1>3. background' \in Time \cup {Off} /\ expiry' \in Time \cup {Off}
    BY LeftTyped DEF Elapse, ElapseTimers, TypeOK
<1>4. sliceLeft' \in 0 .. SLICE
    BY SliceLeftTyped DEF Elapse, ElapseTimers
<1>5. age' \in [Timed -> Time \cup {Off}]
    BY GrowNoneTyped DEF Elapse
<1> QED
    BY <1>1, <1>2, <1>3, <1>4, <1>5

(* schedule() starts from a slice whose count has room: a wanted turn is   *)
(* not yet a microtask.                                                    *)
LEMMA ScheduleTypes ==
    ASSUME DriverTyped, WorkIsScheduled, Schedule, UNCHANGED closed
    PROVE  /\ scheduled' \in BOOLEAN /\ task' \in BOOLEAN /\ microtask' \in BOOLEAN
           /\ sliceLeft' \in 0 .. SLICE /\ sliceTurns' \in 0 .. MAX_SLICE_TURNS
           /\ SliceCounted'
<1>1. CASE closed \/ scheduled
    BY <1>1 DEF Schedule, wakeVars, sliceVars, DriverTyped, TypeOK, SliceCounted
<1>2. CASE ~(closed \/ scheduled)
  <2>1. ~microtask
    BY <1>2 DEF WorkIsScheduled
  <2>2. /\ scheduled' /\ task'
        /\ \/ sliceLeft' = SLICE /\ sliceTurns' = 0
           \/ sliceLeft' = sliceLeft /\ sliceTurns' = sliceTurns
        /\ microtask' <=> InSlice(sliceLeft', sliceTurns')
    BY <1>2, <2>1 DEF Schedule, sliceVars
  <2>3. sliceLeft' \in 0 .. SLICE /\ sliceTurns' \in 0 .. MAX_SLICE_TURNS
    BY <2>2, TimesAssumption DEF DriverTyped, TypeOK
  <2>4. microtask' \in BOOLEAN
    <3>1. microtask' = (microtask \/ InSlice(sliceLeft', sliceTurns'))
      BY <1>2, Zenon DEF Schedule
    <3> QED
      BY <3>1, Zenon
  <2>5. microtask' => sliceTurns' < MAX_SLICE_TURNS
    BY <2>2 DEF InSlice
  <2>6. scheduled' \in BOOLEAN /\ task' \in BOOLEAN
    BY <1>2 DEF Schedule
  <2> QED
    BY <2>3, <2>4, <2>5, <2>6 DEF SliceCounted
<1> QED
    BY <1>1, <1>2

(* Whether something is late is a Boolean, so it may be recorded.          *)
LEMMA LateTyped ==
    ASSUME NEW d
    PROVE  Late(d) \in BOOLEAN
    BY Zenon DEF Late

(* Whatever ends the engine.                                               *)
LEMMA EndsTyped ==
    ASSUME TypeOK, Ends
    PROVE  DriverTyped'
<1>0. PICK code \in Causes, d \in Nat : \E rs : status' = Told(rs, code) /\ Drop(code, d)
    BY DEF Ends
<1>1. status' \in [Requests -> Statuses]
    BY <1>0 DEF Told, TypeOK, Causes, Statuses
<1>2. call' \in [Calls -> CallStates]
    BY <1>0 DEF Drop, CallStates
<1>3. /\ pending' \in [DOMAIN pending' -> Time] /\ DOMAIN pending' \subseteq Requests
      /\ callbacks' \in [DOMAIN callbacks' -> Time] /\ DOMAIN callbacks' \subseteq Calls
      /\ queue' \in Seq(Requests) /\ controls' \in Seq(Calls)
    BY <1>0 DEF Drop
<1>4. count' \in 0 .. BATCH /\ batches' \in 0 .. (MAX_BATCHES - 1)
    BY <1>0, TimesAssumption DEF Drop
<1>5. UNCHANGED <<background, jobs, microtask, sliceVars>> /\ closed' /\ ~scheduled' /\ ~task'
    BY <1>0 DEF Drop
<1>6. scheduled' \in BOOLEAN /\ task' \in BOOLEAN /\ closed' \in BOOLEAN
    BY <1>0 DEF Drop
<1>7. /\ pc' = "idle" /\ toPoll' = {} /\ events' = {} /\ cause' \in Statuses
      /\ expiry' = Off /\ guestJobs' \in JobStates /\ age' \in [Timed -> Time \cup {Off}]
    BY <1>0 DEF Drop, Causes, Statuses, JobStates
<1>8. overdue' \in BOOLEAN
    BY <1>0, LateTyped DEF Drop
<1>9. SliceCounted'
    BY <1>5 DEF SliceCounted
<1> QED
    BY <1>1, <1>2, <1>3, <1>4, <1>5, <1>6, <1>7, <1>8, <1>9 DEF DriverTyped, TypeOK, sliceVars

(* Calls the guest starts.                                                 *)
LEMMA StartCallsTypes ==
    ASSUME TypeOK, NEW settled, StartCalls(settled)
    PROVE  call' \in [Calls -> CallStates]
    BY DEF StartCalls, TypeOK, CallStates

(* Jobs the guest queues.                                                  *)
LEMMA QueueJobsTyped ==
    ASSUME TypeOK, QueueJobs
    PROVE  guestJobs' \in JobStates
    BY DEF QueueJobs, TypeOK, JobStates

(* One step per action of the driver.                                      *)
LEMMA DriverTypesKept ==
    ASSUME DriverTyped, WorkIsScheduled, Next
    PROVE  DriverTyped'
<1> USE StepsAreNatural DEF DriverTyped, jobVars
<1>0. CASE Ends
    BY <1>0, EndsTyped
<1>1. ASSUME NEW r \in Requests, Execute(r)
      PROVE  DriverTyped'
  <2>1. UNCHANGED <<controls, call, deadlineVars, jobVars, expiry, turnVars, endVars>>
    BY <1>1 DEF Execute
  <2>2. status' \in [Requests -> Statuses]
    BY <1>1 DEF Execute, TypeOK, Statuses
  <2>3. queue' \in Seq(Requests)
    <3>1. queue' = queue \/ queue' = Append(queue, r)
      BY <1>1 DEF Execute
    <3>2. queue \in Seq(Requests)
      BY DEF TypeOK
    <3> QED
      BY <3>1, <3>2, AppendProperties
  <2>4. /\ scheduled' \in BOOLEAN /\ task' \in BOOLEAN /\ microtask' \in BOOLEAN
        /\ sliceLeft' \in 0 .. SLICE /\ sliceTurns' \in 0 .. MAX_SLICE_TURNS
        /\ SliceCounted'
    BY <1>1, ScheduleTypes DEF Execute, endVars, TypeOK, wakeVars, sliceVars, SliceCounted
  <2> QED
    BY <2>1, <2>2, <2>3, <2>4 DEF TypeOK, deadlineVars, turnVars, endVars
<1>2. ASSUME NEW c \in Calls, Answer(c)
      PROVE  /\ callbacks' \in [DOMAIN callbacks' -> Time] /\ DOMAIN callbacks' \subseteq Calls
             /\ controls' \in Seq(Calls)
             /\ call' \in [Calls -> CallStates]
             /\ age' \in [Timed -> Time \cup {Off}]
    BY <1>2, GrowNoneTyped DEF Answer, DropRecord, Without, TypeOK, CallStates
<1>3. ASSUME NEW c \in Calls, Settle(c)
      PROVE  DriverTyped'
  <2>1. /\ scheduled' \in BOOLEAN /\ task' \in BOOLEAN /\ microtask' \in BOOLEAN
        /\ sliceLeft' \in 0 .. SLICE /\ sliceTurns' \in 0 .. MAX_SLICE_TURNS
        /\ SliceCounted'
    BY <1>3, ScheduleTypes DEF Settle, Answer, endVars
  <2> QED
    BY <1>2, <1>3, <2>1 DEF Settle, TypeOK, turnVars, endVars
<1>4. ASSUME Dispose
      PROVE  DriverTyped'
    BY <1>0, <1>4, DisposeEnds
<1>5. ASSUME Turn
      PROVE  DriverTyped'
  <2>1. sliceTurns' \in 0 .. MAX_SLICE_TURNS
    BY <1>5, TimesAssumption DEF Turn, TypeOK, SliceCounted
  <2>2. microtask' \in BOOLEAN /\ scheduled' \in BOOLEAN /\ SliceCounted'
    BY <1>5 DEF Turn, TypeOK, SliceCounted
  <2> QED
    BY <1>5, <2>1, <2>2 DEF Turn, TypeOK, queueVars, deadlineVars, endVars
<1>6. ASSUME StartTurn, ~Ends
      PROVE  DriverTyped'
  <2>1. "ERR_TIMEOUT" \in Causes
    BY DEF Causes, FatalCodes
  <2>2. 0 \notin Deadlines
    BY <1>6, <2>1, FatalEnds DEF StartTurn
  <2> QED
    BY <1>6, <2>2 DEF StartTurn, TypeOK, SliceCounted, TurnPhases, queueVars, deadlineVars, wakeVars,
                      sliceVars, endVars
<1>7. ASSUME NEW d \in Steps, RunControl(d), ~Ends
      PROVE  DriverTyped'
  <2>1. "ERR_GUEST" \in Causes
    BY DEF Causes, NonFatal
  <2>2. /\ controls # <<>> /\ controls' = Tail(controls)
        /\ Elapse(d) /\ StartCalls({Head(controls)}) /\ QueueJobs
        /\ UNCHANGED <<queue, status, jobs, wakeVars, sliceTurns, turnVars, endVars>>
    BY <1>7, <2>1, FatalEnds, FailureEnds DEF RunControl
  <2>3. controls' \in Seq(Calls)
    <3>1. controls \in Seq(Calls)
      BY DEF TypeOK
    <3> QED
      BY <2>2, <3>1, HeadTailProperties
  <2>4. call' \in [Calls -> CallStates] /\ guestJobs' \in JobStates
    BY <2>2, StartCallsTypes, QueueJobsTyped
  <2> QED
    BY <2>2, <2>3, <2>4, ElapseTypes DEF TypeOK, SliceCounted, wakeVars, turnVars, endVars
<1>8. ASSUME ControlsDone \/ CommandsDone \/ PollsDone
      PROVE  DriverTyped'
  <2>1. pc' \in TurnPhases /\ count' \in 0 .. BATCH /\ batches' \in 0 .. (MAX_BATCHES - 1)
    BY <1>8, TimesAssumption DEF ControlsDone, CommandsDone, PollsDone, TurnPhases, TypeOK
  <2>2. UNCHANGED <<queueVars, deadlineVars, jobVars, expiry, wakeVars, sliceVars, toPoll, events, endVars>>
    BY <1>8 DEF ControlsDone, CommandsDone, PollsDone
  <2> QED
    BY <2>1, <2>2 DEF TypeOK, SliceCounted, queueVars, deadlineVars, wakeVars, sliceVars, endVars
<1>9. ASSUME NEW d \in Steps, RunCommand(d), ~Ends
      PROVE  DriverTyped'
  <2>0. ~EntryFails({TIMEOUT}, {Head(queue)}, d)
    BY <1>9, FailureEnds
  <2>1. queue' \in Seq(Requests) /\ Head(queue) \in Requests
    <3>1. queue # <<>> /\ queue' = Tail(queue)
      BY <1>9, <2>0 DEF RunCommand
    <3> QED
      BY <3>1, HeadTailProperties DEF TypeOK
  <2>2. /\ DOMAIN Aged(pending, d) = DOMAIN pending
        /\ Aged(pending, d) \in [DOMAIN Aged(pending, d) -> Time]
    BY AgedTyped DEF TypeOK
  <2>3. Left(TIMEOUT, d) \in Time /\ Older(0, d) \in Time
    BY TimesAssumption DEF Left, Older, Time, Off
  <2>4. pending' \in [DOMAIN pending' -> Time] /\ DOMAIN pending' \subseteq Requests
    BY <1>9, <2>0, <2>1, <2>2, <2>3 DEF RunCommand, With, TypeOK
  <2>5. status' \in [Requests -> Statuses]
    BY <1>9, <2>0, <2>1 DEF RunCommand, TypeOK, Statuses, NonFatal
  <2>6. call' \in [Calls -> CallStates] /\ guestJobs' \in JobStates
    BY <1>9, <2>0, StartCallsTypes, QueueJobsTyped DEF RunCommand
  <2>7. callbacks' \in [DOMAIN callbacks' -> Time] /\ DOMAIN callbacks' \subseteq Calls
    BY <1>9, <2>0, OthersAge DEF RunCommand
  <2>8. background' \in Time \cup {Off} /\ expiry' \in Time \cup {Off} /\ sliceLeft' \in 0 .. SLICE
    BY <1>9, <2>0, OthersAge DEF RunCommand, ElapseTimers
  <2>9. pc' \in TurnPhases /\ count' \in 0 .. BATCH /\ batches' \in 0 .. (MAX_BATCHES - 1)
    <3>1. /\ pc' \in {pc, "jobs"} /\ count' \in {0, count + 1} /\ batches' = 0
          /\ pc = "commands" /\ count < BATCH
      BY <1>9, <2>0 DEF RunCommand
    <3> QED
      BY <3>1, TimesAssumption DEF TurnPhases, TypeOK
  <2>10. UNCHANGED <<controls, jobs, wakeVars, sliceTurns, toPoll, events, endVars>>
    BY <1>9, <2>0 DEF RunCommand
  <2>11. age' \in [Timed -> Time \cup {Off}]
    <3> DEFINE begun == [x \in {Head(queue)} |-> Older(0, d)]
    <3>1. \A x \in DOMAIN begun : begun[x] \in Time
      BY <2>3
    <3>2. Grow(begun, {}, d) \/ Grow(<<>>, {}, d)
      BY <1>9, <2>0 DEF RunCommand
    <3> HIDE DEF begun
    <3> QED
      BY <3>1, <3>2, GrowTyped, GrowNoneTyped
  <2> QED
    BY <2>1, <2>4, <2>5, <2>6, <2>7, <2>8, <2>9, <2>10, <2>11 DEF TypeOK, SliceCounted, wakeVars, endVars
<1>10. ASSUME NEW d \in Steps, RunJobs(d), ~Ends
       PROVE  DriverTyped'
  <2>0. ~EntryFails({}, {}, d)
    BY <1>10, FailureEnds
  <2>1. call' \in [Calls -> CallStates] /\ guestJobs' \in JobStates
    <3>1. \/ UNCHANGED <<call, guestJobs>>
          \/ StartCalls({}) /\ guestJobs' \in {"none", "queued"}
      BY <1>10, <2>0 DEF RunJobs
    <3>2. call \in [Calls -> CallStates] /\ guestJobs \in JobStates
      BY DEF TypeOK
    <3> QED
      BY <3>1, <3>2, StartCallsTypes DEF JobStates
  <2>2. pc' \in TurnPhases /\ batches' \in 0 .. (MAX_BATCHES - 1) /\ toPoll' \subseteq Requests
    <3>1. \/ pc' = "poll" /\ batches' = 0 /\ toPoll' = DOMAIN pending
          \/ pc' = pc /\ batches # MAX_BATCHES - 1 /\ batches' = batches + 1 /\ toPoll' = {}
      BY <1>10, <2>0 DEF RunJobs
    <3>2. pc = "jobs" /\ batches \in 0 .. (MAX_BATCHES - 1) /\ DOMAIN pending \subseteq Requests
      BY <1>10 DEF RunJobs, TypeOK
    <3> QED
      BY <3>1, <3>2, TimesAssumption DEF TurnPhases
  <2>3. /\ Elapse(d) /\ jobs' \in BOOLEAN
        /\ UNCHANGED <<queue, controls, status, wakeVars, sliceTurns, count, events, endVars>>
    BY <1>10, <2>0 DEF RunJobs
  <2> QED
    BY <2>1, <2>2, <2>3, ElapseTypes DEF TypeOK, SliceCounted, wakeVars, endVars
<1>11. ASSUME NEW r \in Requests, NEW d \in Steps, Poll(r, d), ~Ends
       PROVE  DriverTyped'
  <2>0. ~EntryFails({}, {r}, d)
    BY <1>11, FailureEnds
  <2>1. /\ DOMAIN Aged(pending, d) = DOMAIN pending
        /\ Aged(pending, d) \in [DOMAIN Aged(pending, d) -> Time]
    BY AgedTyped DEF TypeOK
  <2>2. pending' \in [DOMAIN pending' -> Time] /\ DOMAIN pending' \subseteq Requests
    BY <1>11, <2>0, <2>1 DEF Poll, DropWatch, Without, TypeOK
  <2>3. status' \in [Requests -> Statuses]
    BY <1>11, <2>0 DEF Poll, TypeOK, Statuses, NonFatal
  <2>4. call' \in [Calls -> CallStates] /\ guestJobs' \in JobStates
    BY <1>11, <2>0, StartCallsTypes, QueueJobsTyped DEF Poll
  <2>5. callbacks' \in [DOMAIN callbacks' -> Time] /\ DOMAIN callbacks' \subseteq Calls
    BY <1>11, <2>0, OthersAge DEF Poll
  <2>6. background' \in Time \cup {Off} /\ expiry' \in Time \cup {Off} /\ sliceLeft' \in 0 .. SLICE
    BY <1>11, <2>0, OthersAge DEF Poll, ElapseTimers
  <2>7. /\ toPoll' \subseteq Requests
        /\ UNCHANGED <<queue, controls, jobs, wakeVars, sliceTurns, pc, count, batches, events, endVars>>
    BY <1>11, <2>0 DEF Poll, TypeOK
  <2>8. age' \in [Timed -> Time \cup {Off}]
    BY <1>11, <2>0, GrowNoneTyped DEF Poll
  <2> QED
    BY <2>2, <2>3, <2>4, <2>5, <2>6, <2>7, <2>8 DEF TypeOK, SliceCounted, wakeVars, endVars
<1>12. ASSUME NEW d \in Steps, CollectEvents(d), ~Ends
       PROVE  DriverTyped'
  <2>0. "ERR_FATAL" \in Causes /\ "ERR_TIMEOUT" \in Causes
    BY DEF Causes, FatalCodes
  <2>1. ~Fatal("ERR_FATAL", {}, d) /\ ~Fatal("ERR_TIMEOUT", {}, d)
    BY <1>12, <2>0, FatalEnds
  <2>2. /\ UNCHANGED <<queue, controls, status, wakeVars, sliceTurns, count, batches, toPoll, endVars>>
        /\ jobs' \in BOOLEAN /\ pc' = "deliver"
    BY <1>12, <2>1 DEF CollectEvents, JobsLeft
  <2>3. events' \subseteq Calls \cup {Unhandled} /\ guestJobs' \in JobStates
    BY <1>12, <2>1 DEF CollectEvents, TypeOK, JobStates
  <2>4. call' \in [Calls -> CallStates]
    BY <1>12, <2>1 DEF CollectEvents, TypeOK, CallStates
  <2>5. TIMEOUT \in Time /\ 0 \in Time
    BY TimesAssumption DEF Time
  <2>6. pending' \in [DOMAIN pending' -> Time] /\ DOMAIN pending' \subseteq Requests
    <3>1. /\ DOMAIN Aged(pending, d) = DOMAIN pending
          /\ Aged(pending, d) \in [DOMAIN Aged(pending, d) -> Time]
      BY AgedTyped DEF TypeOK
    <3> QED
      BY <1>12, <2>1, <3>1 DEF CollectEvents, TypeOK
  <2>7. callbacks' \in [DOMAIN callbacks' -> Time] /\ DOMAIN callbacks' \subseteq Calls
    <3>1. \A c \in DOMAIN callbacks : callbacks[c] \in Time /\ c \in Calls
      BY DEF TypeOK
    <3>2. \A c \in DOMAIN callbacks : Left(callbacks[c], d) \in Time
      BY <3>1, TimesAssumption DEF Left, Time, Off
    <3>3. PICK new \in SUBSET Calls :
             callbacks' = [c \in DOMAIN callbacks \cup new |->
                             IF c \in new THEN TIMEOUT ELSE Left(callbacks[c], d)]
      BY <1>12, <2>1 DEF CollectEvents
    <3> QED
      BY <2>5, <3>1, <3>2, <3>3
  <2>8. background' \in Time \cup {Off}
    BY <1>12, <2>1, <2>5 DEF CollectEvents, Background, TypeOK
  <2>9. age' \in [Timed -> Time \cup {Off}]
    <3>1. PICK begun, ended : Grow(begun, ended, d) /\ \A x \in DOMAIN begun : begun[x] = 0
      BY <1>12, <2>1 DEF CollectEvents
    <3> QED
      BY <2>5, <3>1, GrowTyped
  <2>10. Deadlines' \subseteq Time
    BY <2>6, <2>7, <2>8 DEF Deadlines, RangeOf, TypeOK
  <2>11. expiry' \in Time \cup {Off} /\ sliceLeft' \in 0 .. SLICE
    <3>1. expiry' = Armed(Deadlines') /\ sliceLeft' = Left(sliceLeft, d)
      BY <1>12, <2>1 DEF CollectEvents
    <3> QED
      BY <2>10, <3>1, ArmedTyped, SliceLeftTyped
  <2> QED
    BY <2>2, <2>3, <2>4, <2>6, <2>7, <2>8, <2>9, <2>11 DEF TypeOK, SliceCounted, wakeVars, sliceVars, endVars
<1>13. ASSUME NEW e \in Calls \cup {Unhandled}, Deliver(e)
       PROVE  DriverTyped'
  <2>1. /\ UNCHANGED <<queue, status, pending, background, jobVars, expiry, pc, count, batches, toPoll, endVars>>
        /\ events' \subseteq Calls \cup {Unhandled}
    BY <1>13 DEF Deliver, TypeOK
  <2>2. CASE e \in Calls /\ Answer(e)
    <3>1. /\ scheduled' \in BOOLEAN /\ task' \in BOOLEAN /\ microtask' \in BOOLEAN
          /\ sliceLeft' \in 0 .. SLICE /\ sliceTurns' \in 0 .. MAX_SLICE_TURNS
          /\ SliceCounted'
      BY <2>1, <2>2, ScheduleTypes DEF Answer, endVars
    <3> QED
      BY <1>2, <2>1, <2>2, <3>1 DEF TypeOK, endVars
  <2>3. CASE ~(e \in Calls /\ Answer(e))
    <3>1. call' \in [Calls -> CallStates]
      BY <1>13, <2>3 DEF Deliver, TypeOK, CallStates
    <3>2. UNCHANGED <<controls, callbacks, age, wakeVars, sliceVars>>
      BY <1>13, <2>3 DEF Deliver
    <3> QED
      BY <2>1, <3>1, <3>2 DEF TypeOK, SliceCounted, wakeVars, sliceVars, endVars
  <2> QED
    BY <2>2, <2>3
<1>14. ASSUME EndTurn
       PROVE  DriverTyped'
  <2>1. /\ UNCHANGED <<queueVars, deadlineVars, jobVars, expiry, count, batches, toPoll, events, endVars>>
        /\ pc' = "idle"
    BY <1>14 DEF EndTurn
  <2>2. /\ scheduled' \in BOOLEAN /\ task' \in BOOLEAN /\ microtask' \in BOOLEAN
        /\ sliceLeft' \in 0 .. SLICE /\ sliceTurns' \in 0 .. MAX_SLICE_TURNS
        /\ SliceCounted'
    <3>1. CASE Schedule
      BY <2>1, <3>1, ScheduleTypes DEF endVars
    <3>2. CASE UNCHANGED <<wakeVars, sliceVars>>
      BY <2>1, <3>2 DEF wakeVars, sliceVars, endVars, TypeOK, SliceCounted
    <3> QED
      BY <1>14, <3>1, <3>2 DEF EndTurn
  <2> QED
    BY <2>1, <2>2 DEF TypeOK, queueVars, deadlineVars, endVars
<1>15. ASSUME TaskFires
       PROVE  DriverTyped'
  <2>1. /\ scheduled' \in BOOLEAN /\ task' \in BOOLEAN /\ microtask' \in BOOLEAN
        /\ sliceLeft' \in 0 .. SLICE /\ sliceTurns' \in 0 .. MAX_SLICE_TURNS
        /\ SliceCounted'
    <3>1. CASE scheduled
      <4>1. /\ sliceLeft' = SLICE /\ sliceTurns' = 0 /\ microtask' = TRUE
            /\ UNCHANGED <<scheduled, task>>
        BY <1>15, <3>1 DEF TaskFires
      <4> QED
        BY <4>1, TimesAssumption DEF TypeOK, SliceCounted
    <3>2. CASE ~scheduled
      BY <1>15, <3>2 DEF TaskFires, TypeOK, sliceVars, SliceCounted, endVars
    <3> QED
      BY <3>1, <3>2
  <2> QED
    BY <1>15, <2>1 DEF TaskFires, TypeOK, queueVars, deadlineVars, turnVars, endVars
<1>16. ASSUME ExpiryFires, ~Ends
       PROVE  DriverTyped'
  <2>1. "ERR_TIMEOUT" \in Causes
    BY DEF Causes, FatalCodes
  <2>2. /\ expiry' = Armed(Deadlines)
        /\ UNCHANGED <<queueVars, deadlineVars, jobVars, wakeVars, sliceVars, turnVars, endVars>>
    BY <1>16, <2>1, FatalEnds DEF ExpiryFires
  <2>3. Deadlines \subseteq Time
    BY DEF Deadlines, RangeOf, TypeOK
  <2>4. expiry' \in Time \cup {Off}
    BY <2>2, <2>3, ArmedTyped
  <2> QED
    BY <2>2, <2>4 DEF TypeOK, SliceCounted, queueVars, deadlineVars, wakeVars, sliceVars, turnVars, endVars
<1>17. ASSUME Tick
       PROVE  DriverTyped'
    BY <1>17, ElapseTypes DEF Tick, TypeOK, SliceCounted, queueVars, wakeVars, turnVars, endVars
<1> QED
    BY <1>0, <1>1, <1>3, <1>4, <1>5, <1>6, <1>7, <1>8, <1>9, <1>10, <1>11, <1>12, <1>13, <1>14,
       <1>15, <1>16, <1>17 DEF Next, TurnStep

-----------------------------------------------------------------------------
(* No two places of a sequence hold the same thing.                        *)
Distinct(s) == \A i, j \in DOMAIN s : s[i] = s[j] => i = j

(* Queueing what is not queued yet, and taking the first.                  *)
LEMMA AppendDistinct ==
    ASSUME NEW S, NEW s \in Seq(S), NEW e \in S, e \notin RangeOf(s), Distinct(s)
    PROVE  /\ RangeOf(Append(s, e)) = RangeOf(s) \cup {e}
           /\ Distinct(Append(s, e))
<1> DEFINE longer == Append(s, e)
<1>1. Len(s) \in Nat /\ DOMAIN s = 1 .. Len(s)
    OBVIOUS
<1>2. /\ DOMAIN longer = 1 .. (Len(s) + 1)
      /\ \A i \in 1 .. Len(s) : longer[i] = s[i]
      /\ longer[Len(s) + 1] = e
    BY AppendProperties
<1> HIDE DEF longer
<1>3. ASSUME NEW x
      PROVE  x \in RangeOf(longer) <=> x \in RangeOf(s) \/ x = e
    BY <1>1, <1>2 DEF RangeOf
<1>4. Distinct(longer)
    BY <1>1, <1>2 DEF Distinct, RangeOf
<1> QED
    BY <1>3, <1>4 DEF longer

LEMMA TailDistinct ==
    ASSUME NEW S, NEW s \in Seq(S), s # <<>>, Distinct(s)
    PROVE  /\ Head(s) \in RangeOf(s)
           /\ RangeOf(Tail(s)) = RangeOf(s) \ {Head(s)}
           /\ Distinct(Tail(s))
<1> DEFINE shorter == Tail(s)
           first == Head(s)
<1>1. Len(s) \in Nat \ {0} /\ DOMAIN s = 1 .. Len(s) /\ s[1] = first
    BY EmptySeq
<1>2. /\ DOMAIN shorter = 1 .. (Len(s) - 1)
      /\ \A i \in 1 .. (Len(s) - 1) : shorter[i] = s[i + 1]
    BY HeadTailProperties
<1> HIDE DEF shorter, first
<1>3. first \in RangeOf(s)
    BY <1>1 DEF RangeOf
<1>4. ASSUME NEW x
      PROVE  x \in RangeOf(shorter) <=> x \in RangeOf(s) /\ x # first
  <2>1. ASSUME x \in RangeOf(shorter)
        PROVE  x \in RangeOf(s) /\ x # first
    <3>1. PICK i \in 1 .. (Len(s) - 1) : x = shorter[i]
      BY <1>2, <2>1 DEF RangeOf
    <3>2. x = s[i + 1] /\ i + 1 \in DOMAIN s /\ 1 \in DOMAIN s /\ i + 1 # 1
      BY <1>1, <1>2, <3>1
    <3> QED
      BY <1>1, <3>2 DEF RangeOf, Distinct
  <2>2. ASSUME x \in RangeOf(s), x # first
        PROVE  x \in RangeOf(shorter)
    <3>1. PICK i \in DOMAIN s : x = s[i]
      BY <2>2 DEF RangeOf
    <3>2. i - 1 \in 1 .. (Len(s) - 1) /\ (i - 1) + 1 = i
      BY <1>1, <2>2, <3>1
    <3>3. shorter[i - 1] = x
      BY <1>2, <3>1, <3>2
    <3> QED
      BY <1>2, <3>2, <3>3 DEF RangeOf
  <2> QED
    BY <2>1, <2>2
<1>5. Distinct(shorter)
  <2>1. ASSUME NEW i \in DOMAIN shorter, NEW j \in DOMAIN shorter, shorter[i] = shorter[j]
        PROVE  i = j
    <3>1. s[i + 1] = s[j + 1] /\ i + 1 \in DOMAIN s /\ j + 1 \in DOMAIN s /\ i \in Int /\ j \in Int
      BY <1>1, <1>2, <2>1
    <3> QED
      BY <3>1 DEF Distinct
  <2> QED
    BY <2>1 DEF Distinct
<1> QED
    BY <1>3, <1>4, <1>5 DEF shorter, first

(* As time passes every deadline ages, and none appears.                   *)
LEMMA DeadlinesAge ==
    ASSUME TypeOK, NEW d \in Nat, Elapse(d)
    PROVE  Deadlines' = {Left(t, d) : t \in Deadlines}
<1>1. RangeOf(pending') = {Left(t, d) : t \in RangeOf(pending)}
    BY DEF Elapse, Aged, RangeOf
<1>2. RangeOf(callbacks') = {Left(t, d) : t \in RangeOf(callbacks)}
    BY DEF Elapse, Aged, RangeOf
<1>3. {background'} \ {Off} = {Left(t, d) : t \in {background} \ {Off}}
    BY LeftTyped DEF Elapse, TypeOK
<1> QED
    BY <1>1, <1>2, <1>3 DEF Deadlines

(* Every deadline is a time.                                               *)
LEMMA DeadlinesTyped == TypeOK => Deadlines \subseteq Time
    BY DEF TypeOK, Deadlines, RangeOf

(* Fewer deadlines, or the same ones as time passes, stay covered. *)
LEMMA CoverKept ==
    ASSUME TypeOK, ExpiryCovers, UNCHANGED <<closed, expiry>>, pc \in {"idle", "deliver"},
           Deadlines' \subseteq Deadlines
    PROVE  ExpiryCovers'
    BY DEF ExpiryCovers

(* The timer and the deadlines age together.                               *)
LEMMA CoverAges ==
    ASSUME TypeOK, ExpiryCovers, UNCHANGED <<closed, pc>>, Elapse(1)
    PROVE  ExpiryCovers'
<1> SUFFICES ASSUME pc \in {"idle", "deliver"}, ~closed, Deadlines' # {}
             PROVE  expiry' # Off /\ \A t \in Deadlines' : expiry' =< Max({1, t})
    BY DEF ExpiryCovers
<1>1. Deadlines' = {Left(t, 1) : t \in Deadlines}
    BY DeadlinesAge
<1>2. expiry # Off /\ \A t \in Deadlines : expiry =< Max({1, t})
    BY <1>1 DEF ExpiryCovers
<1>3. expiry \in Nat /\ Deadlines \subseteq Nat
  <2>1. expiry \in Time \cup {Off}
    BY DEF TypeOK
  <2> QED
    BY <1>2, <2>1, DeadlinesTyped, TimesAssumption DEF Time
<1>4. expiry' = IF expiry > 1 THEN expiry - 1 ELSE 0
    BY <1>3 DEF Elapse, ElapseTimers, Left, Off
<1>5. ASSUME NEW t \in Deadlines
      PROVE  expiry' =< Max({1, Left(t, 1)})
  <2>1. Left(t, 1) = IF t > 1 THEN t - 1 ELSE 0
    BY <1>3 DEF Left, Off
  <2>2. t \in Nat /\ Left(t, 1) \in Nat
    BY <1>3, <2>1
  <2>3. expiry =< IF t > 1 THEN t ELSE 1
    <3>1. Max({1, t}) = IF t > 1 THEN t ELSE 1
      BY <2>2, AtLeastOne
    <3>2. expiry =< Max({1, t})
      BY <1>2
    <3> QED
      BY <3>1, <3>2
  <2>4. Max({1, Left(t, 1)}) = IF Left(t, 1) > 1 THEN Left(t, 1) ELSE 1
    BY <2>2, AtLeastOne
  <2> QED
    BY <1>3, <1>4, <2>1, <2>2, <2>3, <2>4
<1> QED
    BY <1>1, <1>3, <1>4, <1>5 DEF Off

(* Outside a turn the timer is armed only by CollectEvents and             *)
(* ExpiryFires; every other step there leaves the deadlines alone, drops   *)
(* one or ages them all.                                                   *)
LEMMA ExpiryCoversKept ==
    ASSUME DriverTyped, DriverTyped', ExpiryCovers, [Next]_vars
    PROVE  ExpiryCovers'
<1> USE StepsAreNatural DEF DriverTyped
<1>1. CASE Ends
    BY <1>1 DEF Ends, Drop, ExpiryCovers
<1>2. CASE ~Ends
  <2>0. UNCHANGED endVars
    BY <1>2, StepsThatEnd
  <2>1. CASE pc' \notin {"idle", "deliver"}
    BY <2>1 DEF ExpiryCovers
  <2>2. CASE UNCHANGED <<deadlineVars, expiry>> /\ pc \in {"idle", "deliver"}
    BY <2>0, <2>2 DEF ExpiryCovers, Deadlines, deadlineVars, endVars
  <2>3. ASSUME NEW c \in Calls, Answer(c), UNCHANGED <<pending, background, expiry, pc>>,
               pc \in {"idle", "deliver"}
        PROVE  ExpiryCovers'
    <3>1. Deadlines' \subseteq Deadlines
      BY <2>3 DEF Answer, DropRecord, Without, Deadlines, RangeOf
    <3> QED
      BY <2>0, <2>3, <3>1, CoverKept DEF endVars
  <2>4. ASSUME NEW d \in Steps, CollectEvents(d)
        PROVE  ExpiryCovers'
    <3>2. expiry' = Armed(Deadlines')
      BY <1>2, <2>4, NoFatal DEF CollectEvents
    <3>3. Deadlines' \subseteq Time
      BY DEF TypeOK, Deadlines, RangeOf
    <3> QED
      BY <3>2, <3>3, ArmedTyped DEF ExpiryCovers
  <2>5. ASSUME ExpiryFires
        PROVE  ExpiryCovers'
    <3>1. expiry' = Armed(Deadlines) /\ UNCHANGED deadlineVars
      BY <1>2, <2>5, NoFatal DEF ExpiryFires
    <3>2. Deadlines' = Deadlines
      BY <3>1 DEF Deadlines, deadlineVars
    <3>3. Deadlines \subseteq Time
      BY DeadlinesTyped
    <3> QED
      BY <3>1, <3>2, <3>3, ArmedTyped DEF ExpiryCovers
  <2>6. ASSUME Tick
        PROVE  ExpiryCovers'
    BY <2>6, CoverAges DEF Tick, endVars, turnVars
  <2>7. ASSUME NEW r \in Requests, Execute(r)
        PROVE  ExpiryCovers'
    BY <2>2, <2>7 DEF Execute, HostRuns
  <2>8. ASSUME NEW c \in Calls, Settle(c)
        PROVE  ExpiryCovers'
    BY <2>3, <2>8 DEF Settle, HostRuns, turnVars
  <2>9. ASSUME NEW e \in Calls \cup {Unhandled}, Deliver(e)
        PROVE  ExpiryCovers'
    BY <2>2, <2>3, <2>9 DEF Deliver, deadlineVars
  <2>10. ASSUME Dispose
         PROVE  FALSE
    BY <1>2, <2>10, DisposeEnds
  <2>11. ASSUME Turn
         PROVE  ExpiryCovers'
    BY <2>1, <2>2, <2>11 DEF Turn
  <2>12. ASSUME StartTurn \/ ControlsDone \/ CommandsDone \/ PollsDone
         PROVE  pc' \notin {"idle", "deliver"}
    BY <1>2, <2>12, NoFatal DEF StartTurn, ControlsDone, CommandsDone, PollsDone
  <2>13. ASSUME NEW d \in Steps, RunControl(d) \/ RunCommand(d) \/ RunJobs(d) \/ \E r \in Requests : Poll(r, d)
         PROVE  pc' \notin {"idle", "deliver"}
    <3>2. CASE RunControl(d)
      BY <1>2, <3>2, NoFatal, FailureEnds DEF RunControl, turnVars
    <3>3. CASE RunCommand(d)
      BY <1>2, <3>3, FailureEnds DEF RunCommand
    <3>4. CASE RunJobs(d)
      BY <1>2, <3>4, FailureEnds DEF RunJobs
    <3>5. ASSUME NEW r \in Requests, Poll(r, d)
          PROVE  pc' \notin {"idle", "deliver"}
      BY <1>2, <3>5, FailureEnds DEF Poll
    <3> QED
      BY <2>13, <3>2, <3>3, <3>4, <3>5
  <2>14. ASSUME EndTurn \/ TaskFires \/ UNCHANGED vars
         PROVE  ExpiryCovers'
    BY <2>2, <2>14 DEF EndTurn, TaskFires, vars, turnVars, deadlineVars, ExpiryCovers, Deadlines, endVars
  <2> QED
    BY <2>1, <2>4, <2>5, <2>6, <2>7, <2>8, <2>9, <2>10, <2>11, <2>12, <2>13, <2>14 DEF Next, TurnStep
<1> QED
    BY <1>1, <1>2
-----------------------------------------------------------------------------
(* Only watched promises are polled, and only calls the host was not given *)
(* yet have their event to be delivered.                                   *)
PolledAreWatched == toPoll \subseteq DOMAIN pending
EventsAreSent == \A c \in events \cap Calls : call[c] = "sent"

(* The two halves of Accounted with what each needs to be inductive: the   *)
(* second is about an open engine.                                         *)
RequestsAccounted ==
    /\ Waiting = RangeOf(queue) \cup DOMAIN pending
    /\ RangeOf(queue) \cap DOMAIN pending = {}
    /\ Distinct(queue)
    /\ PolledAreWatched

CallsAccounted ==
    /\ DOMAIN callbacks = {c \in Calls : call[c] \in {"sent", "delivered"}}
    /\ RangeOf(controls) = {c \in Calls : call[c] = "answered"}
    /\ Distinct(controls)
    /\ EventsAreSent

(* Together they are the invariant.                                        *)
LEMMA AccountedParts ==
    RequestsAccounted /\ (~closed => CallsAccounted) => Accounted
    BY DEF RequestsAccounted, CallsAccounted, Accounted, Distinct

(* An engine that ends keeps nothing and owes nothing.                     *)
LEMMA EndsAccounted ==
    ASSUME TypeOK, RequestsAccounted, Ends
    PROVE  RequestsAccounted' /\ closed'
<1>0. PICK code \in Causes, d \in Nat : \E rs :
           /\ RangeOf(queue) \cup DOMAIN pending \subseteq rs
           /\ status' = Told(rs, code)
           /\ Drop(code, d)
    BY DEF Ends
<1>1. PICK rs : /\ RangeOf(queue) \cup DOMAIN pending \subseteq rs
                /\ status' = Told(rs, code)
                /\ Drop(code, d)
    BY <1>0
<1>2. Waiting' = {}
  <2>1. code # "waiting"
    BY DEF Causes, NonFatal, FatalCodes
  <2>2. Waiting \subseteq rs
    BY <1>1 DEF RequestsAccounted
  <2>3. ASSUME NEW r \in Requests
        PROVE  status'[r] # "waiting"
    BY <1>1, <2>1, <2>2 DEF Told, Waiting
  <2> QED
    BY <2>3 DEF Waiting
<1> QED
    BY <1>1, <1>2 DEF Drop, RequestsAccounted, PolledAreWatched, Distinct, RangeOf

(* Time forgets no deadline.                                               *)
LEMMA AgedDomain ==
    ASSUME NEW f, NEW d
    PROVE  DOMAIN Aged(f, d) = DOMAIN f
    BY DEF Aged

(* Guest code that starts calls disturbs none the host has or has          *)
(* answered.                                                               *)
LEMMA GuestKeepsCalls ==
    ASSUME TypeOK, CallsAccounted, StartCalls({}) \/ UNCHANGED call, UNCHANGED <<controls, events>>,
           DOMAIN callbacks' = DOMAIN callbacks
    PROVE  CallsAccounted'
<1>1. \A c \in Calls : call[c] # "free" => call'[c] = call[c]
    BY DEF StartCalls, TypeOK
<1>2. \A c \in Calls : call[c] = "free" => call'[c] \in {"free", "started"}
    BY DEF StartCalls, TypeOK
<1> QED
    BY <1>1, <1>2 DEF CallsAccounted, EventsAreSent

(* An answer moves a call from the deadlines to the controls.              *)
LEMMA AnswerKeepsCalls ==
    ASSUME TypeOK, TypeOK', CallsAccounted, NEW c \in Calls, call[c] \in {"sent", "delivered"}, Answer(c),
           events' \subseteq events, c \notin events'
    PROVE  CallsAccounted'
<1>1. controls \in Seq(Calls) /\ c \notin RangeOf(controls) /\ Distinct(controls)
    BY DEF CallsAccounted, TypeOK
<1>2. RangeOf(controls') = RangeOf(controls) \cup {c} /\ Distinct(controls')
    BY <1>1, AppendDistinct DEF Answer
<1>3. DOMAIN callbacks' = DOMAIN callbacks \ {c}
    BY DEF Answer, DropRecord, Without
<1>4. \A x \in Calls : call'[x] = IF x = c THEN "answered" ELSE call[x]
    BY DEF Answer, TypeOK
<1>5. EventsAreSent'
    BY <1>4 DEF CallsAccounted, EventsAreSent
<1> QED
    BY <1>2, <1>3, <1>4, <1>5 DEF CallsAccounted

(* One step per action: the callback side.                                 *)
LEMMA CallsAccountedKept ==
    ASSUME DriverTyped, DriverTyped', CallsAccounted, [Next]_vars, ~Ends
    PROVE  CallsAccounted'
<1> USE StepsAreNatural DEF DriverTyped
<1>1. CASE UNCHANGED <<callbacks, controls, call, events>>
    BY <1>1 DEF CallsAccounted, EventsAreSent
<1>2. ASSUME NEW c \in Calls, Settle(c)
      PROVE  CallsAccounted'
    <2>1. c \notin events
      BY <1>2 DEF Settle, CallsAccounted, EventsAreSent
    <2> QED
      BY <1>2, <2>1, AnswerKeepsCalls DEF Settle, turnVars
<1>3. ASSUME NEW d \in Steps, RunControl(d)
      PROVE  CallsAccounted'
  <2>2. controls # <<>> /\ controls' = Tail(controls) /\ Elapse(d) /\ StartCalls({Head(controls)}) /\ UNCHANGED events
    BY <1>3, NoFatal, FailureEnds DEF RunControl, turnVars
  <2>3. controls \in Seq(Calls) /\ Distinct(controls)
    BY DEF TypeOK, CallsAccounted
  <2>4. PICK c \in Calls : c = Head(controls) /\ c \in RangeOf(controls)
    BY <2>2, <2>3, TailDistinct DEF CallsAccounted
  <2>5. RangeOf(controls') = RangeOf(controls) \ {c} /\ Distinct(controls')
    BY <2>2, <2>3, <2>4, TailDistinct
  <2>6. call[c] = "answered"
    BY <2>4 DEF CallsAccounted
  <2>7. \A x \in Calls : call[x] # "free" => call'[x] = IF x = c THEN "free" ELSE call[x]
    BY <2>2, <2>4 DEF StartCalls, TypeOK
  <2>8. \A x \in Calls : call[x] = "free" => call'[x] \in {"free", "started"}
    BY <2>2 DEF StartCalls, TypeOK
  <2>9. DOMAIN callbacks' = DOMAIN callbacks
    BY <2>2, AgedDomain DEF Elapse
  <2>10. EventsAreSent'
    BY <2>2, <2>6, <2>7 DEF CallsAccounted, EventsAreSent
  <2> QED
    BY <2>5, <2>6, <2>7, <2>8, <2>9, <2>10 DEF CallsAccounted
<1>4. ASSUME NEW d \in Steps, RunCommand(d) \/ RunJobs(d) \/ \E r \in Requests : Poll(r, d)
      PROVE  CallsAccounted'
  <2>1. /\ StartCalls({}) \/ UNCHANGED call
        /\ UNCHANGED <<controls, events>> /\ callbacks' = Aged(callbacks, d)
    <3>1. CASE RunCommand(d)
      BY <1>4, <3>1, FailureEnds DEF RunCommand
    <3>2. CASE RunJobs(d)
      BY <1>4, <3>2, FailureEnds DEF RunJobs, Elapse
    <3>3. ASSUME NEW r \in Requests, Poll(r, d)
          PROVE  StartCalls({}) /\ UNCHANGED <<controls, events>> /\ callbacks' = Aged(callbacks, d)
      BY <3>3, FailureEnds DEF Poll
    <3> QED
      BY <1>4, <3>1, <3>2, <3>3
  <2> QED
    BY <2>1, AgedDomain, GuestKeepsCalls
<1>5. ASSUME NEW d \in Steps, CollectEvents(d)
      PROVE  CallsAccounted'
  <2> DEFINE new == {c \in Calls : call[c] = "started"}
             free == {c \in Calls : call[c] = "free"}
             reported(late) == call' = [c \in Calls |-> IF c \in new THEN "sent"
                                                       ELSE IF c \in late THEN "started" ELSE call[c]]
  <2>0. /\ \/ events' = new /\ reported({})
           \/ events' = new \cup {Unhandled} /\ \E late \in SUBSET free : reported(late)
        /\ DOMAIN callbacks' = DOMAIN callbacks \cup new
        /\ UNCHANGED controls
    BY <1>5, NoFatal DEF CollectEvents
  <2>1. PICK late \in SUBSET free : reported(late) /\ events' \subseteq new \cup {Unhandled}
    <3>1. {} \in SUBSET free
      OBVIOUS
    <3>2. /\ \E late \in SUBSET free : reported(late)
          /\ events' \subseteq new \cup {Unhandled}
      <4> HIDE DEF new, free, reported
      <4> QED
        BY <2>0, <3>1
    <3> QED
      BY <3>2
  <2>2. \A c \in Calls : call'[c] = IF call[c] = "started" THEN "sent"
                                   ELSE IF c \in late THEN "started" ELSE call[c]
    BY <2>1
  <2>3. EventsAreSent'
    BY <2>1, <2>2, UnhandledAssumption DEF EventsAreSent
  <2>4. {c \in Calls : call'[c] \in {"sent", "delivered"}}
           = {c \in Calls : call[c] \in {"sent", "delivered"}} \cup new
    BY <2>1, <2>2
  <2>5. {c \in Calls : call'[c] = "answered"} = {c \in Calls : call[c] = "answered"}
    BY <2>1, <2>2
  <2> QED
    BY <2>0, <2>3, <2>4, <2>5 DEF CallsAccounted
<1>6. ASSUME NEW e \in Calls \cup {Unhandled}, Deliver(e)
      PROVE  CallsAccounted'
  <2>1. e \in events /\ events' = events \ {e}
    BY <1>6 DEF Deliver
  <2>2. CASE e \in Calls /\ Answer(e)
    BY <2>1, <2>2, AnswerKeepsCalls DEF CallsAccounted, EventsAreSent
  <2>3. CASE ~(e \in Calls /\ Answer(e))
    <3>1. /\ call' = IF e \in Calls THEN [call EXCEPT ![e] = "delivered"] ELSE call
          /\ UNCHANGED <<controls, callbacks>>
      BY <1>6, <2>3 DEF Deliver
    <3>2. CASE e \notin Calls
      BY <2>1, <3>1, <3>2 DEF CallsAccounted, EventsAreSent
    <3>3. CASE e \in Calls
      <4>1. \A x \in Calls : call'[x] = IF x = e THEN "delivered" ELSE call[x]
        BY <3>1, <3>3 DEF TypeOK
      <4>2. call[e] = "sent"
        BY <2>1, <3>3 DEF CallsAccounted, EventsAreSent
      <4> QED
        BY <2>1, <3>1, <4>1, <4>2 DEF CallsAccounted, EventsAreSent
    <3> QED
      BY <3>2, <3>3
  <2> QED
    BY <2>2, <2>3
<1>7. ASSUME NEW r \in Requests, Execute(r)
      PROVE  CallsAccounted'
    BY <1>1, <1>7 DEF Execute, deadlineVars, turnVars
<1>8. ASSUME Dispose
      PROVE  FALSE
    BY <1>8, DisposeEnds
<1>9. ASSUME Turn \/ EndTurn \/ TaskFires \/ UNCHANGED vars
      PROVE  CallsAccounted'
    BY <1>1, <1>9 DEF Turn, EndTurn, TaskFires, vars, queueVars, deadlineVars, turnVars
<1>10. ASSUME StartTurn \/ ControlsDone \/ CommandsDone \/ PollsDone \/ ExpiryFires
       PROVE  CallsAccounted'
    BY <1>1, <1>10, NoFatal DEF StartTurn, ControlsDone, CommandsDone, PollsDone,
       ExpiryFires, queueVars, deadlineVars, turnVars
<1>11. ASSUME Tick
       PROVE  CallsAccounted'
  <2>1. DOMAIN callbacks' = DOMAIN callbacks /\ UNCHANGED <<controls, call, events>>
    BY <1>11, AgedDomain DEF Tick, Elapse, queueVars, turnVars
  <2> QED
    BY <1>11, <2>1 DEF CallsAccounted, EventsAreSent
<1> QED
    BY <1>2, <1>3, <1>4, <1>5, <1>6, <1>7, <1>8, <1>9, <1>10, <1>11 DEF Next, TurnStep

(* One step per action: the side of the operations.                        *)
LEMMA RequestsAccountedKept ==
    ASSUME DriverTyped, RequestsAccounted, [Next]_vars, ~Ends
    PROVE  RequestsAccounted'
<1> USE StepsAreNatural DEF DriverTyped
<1>0. queue \in Seq(Requests) /\ status \in [Requests -> Statuses] /\ DOMAIN pending \subseteq Requests
    BY DEF TypeOK
<1>1. ASSUME UNCHANGED <<queue, status>>, DOMAIN pending' = DOMAIN pending, toPoll' \in {toPoll, {}, DOMAIN pending}
      PROVE  RequestsAccounted'
    BY <1>1 DEF RequestsAccounted, PolledAreWatched, Waiting
<1>2. ASSUME NEW r \in Requests, Execute(r)
      PROVE  RequestsAccounted'
  <2>1. status[r] # "waiting" /\ UNCHANGED <<pending, toPoll>>
    BY <1>2 DEF Execute, deadlineVars, turnVars
  <2>2. CASE closed
    <3>1. Waiting' = Waiting /\ UNCHANGED queue
      BY <1>0, <1>2, <2>1, <2>2 DEF Execute, Waiting
    <3> QED
      BY <2>1, <3>1 DEF RequestsAccounted, PolledAreWatched
  <2>3. CASE ~closed
    <3>1. Waiting' = Waiting \cup {r} /\ queue' = Append(queue, r)
      BY <1>0, <1>2, <2>1, <2>3 DEF Execute, Waiting
    <3>2. r \notin RangeOf(queue) /\ r \notin DOMAIN pending /\ Distinct(queue)
      BY <2>1 DEF RequestsAccounted, Waiting
    <3>3. RangeOf(queue') = RangeOf(queue) \cup {r} /\ Distinct(queue')
      BY <1>0, <3>1, <3>2, AppendDistinct
    <3> QED
      BY <2>1, <3>1, <3>2, <3>3 DEF RequestsAccounted, PolledAreWatched
  <2> QED
    BY <2>2, <2>3
<1>3. ASSUME NEW d \in Steps, RunCommand(d)
      PROVE  RequestsAccounted'
  <2>1. queue # <<>> /\ queue' = Tail(queue) /\ UNCHANGED toPoll
    BY <1>3, FailureEnds DEF RunCommand
  <2>2. Distinct(queue) /\ RangeOf(queue) \subseteq Requests
    BY DEF RequestsAccounted, Waiting
  <2>3. PICK r \in Requests : r = Head(queue) /\ r \in RangeOf(queue)
    BY <1>0, <2>1, <2>2, TailDistinct
  <2>4. RangeOf(queue') = RangeOf(queue) \ {r} /\ Distinct(queue')
    BY <1>0, <2>1, <2>2, <2>3, TailDistinct
  <2>5. \/ Waiting' = Waiting /\ DOMAIN pending' = DOMAIN pending \cup {r}
        \/ Waiting' = Waiting \ {r} /\ DOMAIN pending' = DOMAIN pending
    <3>1. \/ status' = status /\ pending' = With(Aged(pending, d), r, Left(TIMEOUT, d))
          \/ \E answer \in {"value"} \cup NonFatal :
                status' = [status EXCEPT ![r] = answer] /\ pending' = Aged(pending, d)
      BY <1>3, <2>3, FailureEnds DEF RunCommand
    <3>2. CASE status' = status /\ pending' = With(Aged(pending, d), r, Left(TIMEOUT, d))
      BY <3>2, AgedDomain DEF With, Waiting
    <3>3. ASSUME NEW answer \in {"value"} \cup NonFatal,
                 status' = [status EXCEPT ![r] = answer], pending' = Aged(pending, d)
          PROVE  Waiting' = Waiting \ {r} /\ DOMAIN pending' = DOMAIN pending
      BY <1>0, <3>3, AgedDomain DEF Waiting, NonFatal
    <3> QED
      BY <3>1, <3>2, <3>3
  <2> QED
    BY <2>1, <2>3, <2>4, <2>5 DEF RequestsAccounted, PolledAreWatched
<1>4. ASSUME NEW r \in Requests, NEW d \in Steps, Poll(r, d)
      PROVE  RequestsAccounted'
  <2>1. r \in toPoll /\ toPoll' = toPoll \ {r} /\ UNCHANGED queue
    BY <1>4, FailureEnds DEF Poll
  <2>2. r \in DOMAIN pending
    BY <2>1 DEF RequestsAccounted, PolledAreWatched
  <2>3. \/ Waiting' = Waiting /\ DOMAIN pending' = DOMAIN pending
        \/ Waiting' = Waiting \ {r} /\ DOMAIN pending' = DOMAIN pending \ {r}
    <3>1. \/ UNCHANGED status /\ pending' = Aged(pending, d)
          \/ \E answer \in {"value"} \cup NonFatal :
                status' = [status EXCEPT ![r] = answer] /\ pending' = Without(Aged(pending, d), r)
      BY <1>4, FailureEnds DEF Poll, DropWatch
    <3>2. CASE UNCHANGED status /\ pending' = Aged(pending, d)
      BY <3>2, AgedDomain DEF Waiting
    <3>3. ASSUME NEW answer \in {"value"} \cup NonFatal,
                 status' = [status EXCEPT ![r] = answer], pending' = Without(Aged(pending, d), r)
          PROVE  Waiting' = Waiting \ {r} /\ DOMAIN pending' = DOMAIN pending \ {r}
      BY <1>0, <3>3, AgedDomain DEF Waiting, NonFatal, Without
    <3> QED
      BY <3>1, <3>2, <3>3
  <2> QED
    BY <2>1, <2>2, <2>3 DEF RequestsAccounted, PolledAreWatched
<1>5. ASSUME NEW d \in Steps, RunControl(d)
      PROVE  RequestsAccounted'
  <2>2. Elapse(d) /\ UNCHANGED <<queue, status, toPoll>>
    BY <1>5, NoFatal, FailureEnds DEF RunControl, turnVars
  <2> QED
    BY <1>1, <2>2, AgedDomain DEF Elapse
<1>6. ASSUME NEW d \in Steps, RunJobs(d)
      PROVE  RequestsAccounted'
  <2>1. Elapse(d) /\ UNCHANGED <<queue, status>> /\ toPoll' \in {{}, DOMAIN pending}
    BY <1>6, FailureEnds DEF RunJobs
  <2> QED
    BY <1>1, <2>1, AgedDomain DEF Elapse
<1>7. ASSUME NEW c \in Calls, Settle(c)
      PROVE  RequestsAccounted'
    BY <1>1, <1>7 DEF Settle, turnVars
<1>8. ASSUME Dispose
      PROVE  FALSE
    BY <1>8, DisposeEnds
<1>9. ASSUME NEW d \in Steps, CollectEvents(d)
      PROVE  RequestsAccounted'
  <2>1. /\ UNCHANGED <<queue, status, toPoll>>
        /\ pending' = Aged(pending, d)
    BY <1>9, NoFatal DEF CollectEvents
  <2> QED
    BY <1>1, <2>1, AgedDomain
<1>10. ASSUME Turn \/ EndTurn \/ TaskFires \/ UNCHANGED vars \/ \E e \in Calls \cup {Unhandled} : Deliver(e)
       PROVE  RequestsAccounted'
    BY <1>1, <1>10 DEF Turn, EndTurn, TaskFires, Deliver, vars, queueVars, deadlineVars, turnVars
<1>11. ASSUME StartTurn \/ ControlsDone \/ CommandsDone \/ PollsDone \/ ExpiryFires
       PROVE  RequestsAccounted'
    BY <1>1, <1>11, NoFatal DEF StartTurn, ControlsDone, CommandsDone, PollsDone,
       ExpiryFires, queueVars, deadlineVars, turnVars
<1>12. ASSUME Tick
       PROVE  RequestsAccounted'
    BY <1>1, <1>12, AgedDomain DEF Tick, Elapse, queueVars, turnVars
<1> QED
    BY <1>2, <1>3, <1>4, <1>5, <1>6, <1>7, <1>8, <1>9, <1>10, <1>11, <1>12 DEF Next, TurnStep

(* A new driver.                                                           *)
LEMMA DriverStarts ==
    ASSUME Init
    PROVE  /\ DriverTyped
           /\ ExpiryCovers
           /\ RequestsAccounted /\ CallsAccounted
<1>1. TypeOK
  <2>1. /\ queue \in Seq(Requests) /\ controls \in Seq(Calls)
        /\ pending \in [DOMAIN pending -> Time] /\ DOMAIN pending \subseteq Requests
        /\ callbacks \in [DOMAIN callbacks -> Time] /\ DOMAIN callbacks \subseteq Calls
    BY DEF Init
  <2>2. /\ sliceLeft \in 0 .. SLICE /\ sliceTurns \in 0 .. MAX_SLICE_TURNS
        /\ count \in 0 .. BATCH /\ batches \in 0 .. (MAX_BATCHES - 1)
    BY TimesAssumption DEF Init
  <2>3. status \in [Requests -> Statuses] /\ call \in [Calls -> CallStates]
    BY DEF Init, Statuses, CallStates
  <2>4. age \in [Timed -> Time \cup {Off}] /\ guestJobs \in JobStates
    BY DEF Init, JobStates
  <2> QED
    BY <2>1, <2>2, <2>3, <2>4 DEF Init, TypeOK
<1>2. SliceCounted /\ ExpiryCovers
    BY DEF Init, SliceCounted, ExpiryCovers, Deadlines, RangeOf, Off
<1>3. RequestsAccounted /\ CallsAccounted
    BY DEF Init, RequestsAccounted, CallsAccounted, PolledAreWatched, EventsAreSent, Waiting, RangeOf, Distinct
<1> QED
    BY <1>1, <1>2, <1>3 DEF DriverTyped

(* The types hold of every behaviour, on WakeupsAreNotLost.                *)
LEMMA DriverTypedStable == Spec => []DriverTyped
<1>1. Init => DriverTyped
    BY DriverStarts
<1>2. DriverTyped /\ WorkIsScheduled /\ [Next]_vars => DriverTyped'
  <2>1. DriverTyped /\ UNCHANGED vars => DriverTyped'
    BY DEF vars, queueVars, deadlineVars, jobVars, wakeVars, sliceVars, turnVars, endVars,
           DriverTyped, TypeOK, SliceCounted
  <2> QED
    BY <2>1, DriverTypesKept
<1> QED
    BY <1>1, <1>2, WakeupsAreNotLost, PTL DEF Spec

(* Every variable of the driver keeps its type: see TypeOK.                *)
THEOREM DriverTypes == Spec => []TypeOK
<1>1. DriverTyped => TypeOK
    BY DEF DriverTyped
<1> QED
    BY <1>1, DriverTypedStable, PTL

(* Nothing can expire unseen: see ExpiryCovers.                            *)
THEOREM DeadlinesAreCovered == Spec => []ExpiryCovers
<1>1. Init => ExpiryCovers
    BY DriverStarts
<1>2. DriverTyped /\ DriverTyped' /\ ExpiryCovers /\ [Next]_vars => ExpiryCovers'
    BY ExpiryCoversKept
<1> QED
    BY <1>1, <1>2, DriverTypedStable, PTL DEF Spec

(* Both halves hold of every behaviour.                                    *)
LEMMA AccountedStable == Spec => [](RequestsAccounted /\ (~closed => CallsAccounted))
<1> DEFINE Inv == RequestsAccounted /\ (~closed => CallsAccounted)
<1>1. Init => Inv
    BY DriverStarts
<1>2. DriverTyped /\ DriverTyped' /\ Inv /\ [Next]_vars => Inv'
  <2> SUFFICES ASSUME DriverTyped, DriverTyped', Inv, [Next]_vars
               PROVE  Inv'
    OBVIOUS
  <2>1. CASE Ends
    BY <2>1, EndsAccounted DEF DriverTyped
  <2>2. CASE ~Ends
    <3>1. closed' = closed
      BY <2>2, StepsThatEnd DEF endVars
    <3> QED
      BY <2>2, <3>1, RequestsAccountedKept, CallsAccountedKept
  <2> QED
    BY <2>1, <2>2
<1> QED
    BY <1>1, <1>2, DriverTypedStable, PTL DEF Spec

(* Every operation the host waits for, and every call that waits for the   *)
(* host, is in exactly one place: see Accounted.                           *)
THEOREM NothingIsForgotten == Spec => []Accounted
    BY AccountedStable, AccountedParts, PTL

(* When the engine dies every waiting operation is told why: see           *)
(* CauseReachesAll.  The loops of fatal and dispose go over the queue and  *)
(* the watches, and with the request in hand nothing waits anywhere else.  *)
THEOREM EveryoneIsTold == Spec => CauseReachesAll
<1> DEFINE Telling == (closed' /\ ~closed) => \A r \in Waiting : status'[r] = cause'
<1>1. RequestsAccounted /\ [Next]_vars => [Telling]_vars
  <2> SUFFICES ASSUME RequestsAccounted, [Next]_vars, closed', ~closed, NEW r \in Waiting
               PROVE  status'[r] = cause'
    OBVIOUS
  <2>1. Ends
    BY StepsThatEnd DEF endVars
  <2>2. PICK code \in Causes, d \in Nat : \E rs : /\ RangeOf(queue) \cup DOMAIN pending \subseteq rs
                                                  /\ status' = Told(rs, code)
                                                  /\ Drop(code, d)
    BY <2>1 DEF Ends
  <2>3. PICK rs : /\ RangeOf(queue) \cup DOMAIN pending \subseteq rs
                  /\ status' = Told(rs, code)
                  /\ Drop(code, d)
    BY <2>2
  <2>4. r \in rs /\ r \in Requests
    BY <2>3 DEF RequestsAccounted, Waiting
  <2> QED
    BY <2>3, <2>4 DEF Told, Drop
<1>2. (RequestsAccounted /\ (~closed => CallsAccounted)) /\ [Next]_vars => [Telling]_vars
    BY <1>1
<1> QED
    BY <1>2, AccountedStable, PTL DEF Spec, CauseReachesAll
-----------------------------------------------------------------------------
(* A time left and the age of what it is for.                              *)
OnTime(left, a) == a \in Time /\ left + a = TIMEOUT

(* Every deadline is the rest of the time its owner was given, and after   *)
(* the end nothing runs that could still find one passed.                  *)
Clocked ==
    /\ \A r \in DOMAIN pending : OnTime(pending[r], age[r])
    /\ \A c \in DOMAIN callbacks : OnTime(callbacks[c], age[c])
    /\ ~closed => IF background = Off THEN age[Detached] = Off ELSE OnTime(background, age[Detached])
    /\ closed => pc = "idle" /\ expiry = Off

LEMMA OnTimeLasts ==
    ASSUME NEW t \in Time, NEW a, OnTime(t, a), NEW d \in Nat
    PROVE  OnTime(Left(t, d), Older(a, d))
    BY TimesAssumption DEF OnTime, Left, Older, Time, Off

(* What goes on as time passes keeps its age.                              *)
LEMMA GrowKeeps ==
    ASSUME NEW begun, NEW ended, NEW d \in Nat, Grow(begun, ended, d), NEW x \in Timed,
           x \notin ended, x \notin DOMAIN begun, NEW t \in Time, OnTime(t, age[x])
    PROVE  OnTime(Left(t, d), age'[x])
<1>1. age'[x] = Older(age[x], d)
    BY DEF Grow
<1> QED
    BY <1>1, OnTimeLasts

(* So all watches and calls that neither begin nor end stay on time.       *)
LEMMA WatchesLast ==
    ASSUME TypeOK, Clocked, NEW begun, NEW ended, NEW d \in Nat, Grow(begun, ended, d),
           NEW r \in DOMAIN pending, r \notin ended, r \notin DOMAIN begun
    PROVE  OnTime(Aged(pending, d)[r], age'[r])
<1>1. r \in Timed /\ pending[r] \in Time /\ OnTime(pending[r], age[r])
    BY DEF TypeOK, Clocked, Timed
<1> QED
    BY <1>1, GrowKeeps DEF Aged

LEMMA CallsLast ==
    ASSUME TypeOK, Clocked, NEW begun, NEW ended, NEW d \in Nat, Grow(begun, ended, d),
           NEW c \in DOMAIN callbacks, c \notin ended, c \notin DOMAIN begun
    PROVE  OnTime(Aged(callbacks, d)[c], age'[c])
<1>1. c \in Timed /\ callbacks[c] \in Time /\ OnTime(callbacks[c], age[c])
    BY DEF TypeOK, Clocked, Timed
<1> QED
    BY <1>1, GrowKeeps DEF Aged

LEMMA JobsLast ==
    ASSUME TypeOK, Clocked, ~closed, NEW begun, NEW ended, NEW d \in Nat, Grow(begun, ended, d),
           Detached \notin ended, Detached \notin DOMAIN begun
    PROVE  IF Left(background, d) = Off THEN age'[Detached] = Off
                                        ELSE OnTime(Left(background, d), age'[Detached])
<1>1. Detached \in Timed /\ background \in Time \cup {Off}
    BY DEF TypeOK, Timed
<1>2. CASE background = Off
    BY <1>1, <1>2 DEF Clocked, Grow, Older, Left
<1>3. CASE background # Off
    BY <1>1, <1>3, GrowKeeps, LeftTyped DEF Clocked
<1> QED
    BY <1>2, <1>3

(* Nothing that is timed is two things.                                    *)
LEMMA TimedApart ==
    ASSUME TypeOK
    PROVE  /\ DOMAIN pending \subseteq Requests /\ DOMAIN callbacks \subseteq Calls
           /\ \A r \in Requests : r \notin Calls /\ r # Detached
           /\ \A c \in Calls : c # Detached
    BY RequestsAssumption, DetachedAssumption DEF TypeOK

LEMMA ElapseClocked ==
    ASSUME TypeOK, Clocked, ~closed, NEW d \in Nat, Elapse(d), UNCHANGED closed
    PROVE  Clocked'
<1>1. /\ pending' = Aged(pending, d) /\ callbacks' = Aged(callbacks, d)
      /\ background' = Left(background, d) /\ Grow(<<>>, {}, d)
    BY DEF Elapse
<1>2. \A r \in DOMAIN pending' : OnTime(pending'[r], age'[r])
    BY <1>1, AgedDomain, WatchesLast
<1>3. \A c \in DOMAIN callbacks' : OnTime(callbacks'[c], age'[c])
    BY <1>1, AgedDomain, CallsLast
<1>4. IF background' = Off THEN age'[Detached] = Off ELSE OnTime(background', age'[Detached])
    BY <1>1, JobsLast
<1> QED
    BY <1>2, <1>3, <1>4 DEF Clocked

(* The answer to a call ends its age with its deadline.                    *)
LEMMA AnswerClocked ==
    ASSUME TypeOK, Clocked, ~closed, NEW c \in Calls, Answer(c), UNCHANGED <<closed, pending, background>>
    PROVE  Clocked'
<1>1. Grow(<<>>, {c}, 0) /\ callbacks' = Without(callbacks, c)
    BY DEF Answer, DropRecord
<1>2. \A t \in Time \cup {Off} : Left(t, 0) = t
    BY TimesAssumption DEF Left, Time, Off
<1>3. ASSUME NEW r \in DOMAIN pending
      PROVE  OnTime(pending[r], age'[r])
  <2>1. r \notin {c} /\ pending[r] \in Time
    BY TimedApart DEF TypeOK
  <2>2. OnTime(Aged(pending, 0)[r], age'[r])
    BY <1>1, <2>1, StepsAreNatural, WatchesLast
  <2> QED
    BY <1>2, <2>1, <2>2 DEF Aged
<1>4. ASSUME NEW x \in DOMAIN callbacks'
      PROVE  OnTime(callbacks'[x], age'[x])
  <2>1. x \in DOMAIN callbacks /\ x # c /\ callbacks'[x] = callbacks[x] /\ callbacks[x] \in Time
    BY <1>1 DEF Without, TypeOK
  <2>2. OnTime(Aged(callbacks, 0)[x], age'[x])
    BY <1>1, <2>1, StepsAreNatural, CallsLast
  <2> QED
    BY <1>2, <2>1, <2>2 DEF Aged
<1>5. IF background = Off THEN age'[Detached] = Off ELSE OnTime(background, age'[Detached])
  <2>1. Detached \notin {c} /\ background \in Time \cup {Off}
    BY TimedApart DEF TypeOK
  <2> QED
    BY <1>1, <1>2, <2>1, StepsAreNatural, JobsLast
<1> QED
    BY <1>3, <1>4, <1>5 DEF Clocked

(* A guest entry that finds its deadline reached finds something late.     *)
LEMMA ReachedIsLate ==
    ASSUME TypeOK, Clocked, ~closed, NEW extra \in SUBSET {TIMEOUT}, NEW d \in Nat, Reached(extra, d)
    PROVE  Late(d)
<1>1. CASE TIMEOUT =< d
    BY <1>1 DEF Late
<1>2. CASE ~(TIMEOUT =< d)
  <2>1. PICK t \in Deadlines : t =< d
    BY <1>2 DEF Reached, Overdue
  <2>2. PICK x \in Timed : OnTime(t, age[x]) /\ t \in Time
    BY <2>1 DEF Deadlines, RangeOf, Clocked, TypeOK, Timed
  <2>3. age[x] # Off /\ TIMEOUT =< age[x] + d
    BY <2>1, <2>2, TimesAssumption DEF OnTime, Time, Off
  <2> QED
    BY <2>3 DEF Late
<1> QED
    BY <1>1, <1>2

LEMMA PassedIsLate ==
    ASSUME TypeOK, Clocked, ~closed, 0 \in Deadlines
    PROVE  Late(0)
<1>1. Reached({}, 0)
    BY DEF Reached, Overdue
<1> QED
    BY <1>1, StepsAreNatural, ReachedIsLate

(* The end of the engine, for which a timeout needs something late.        *)
DueEnds == \E code \in Causes, d \in Nat : /\ code = "ERR_TIMEOUT" => Late(d)
                                           /\ Drop(code, d)

LEMMA FatalDue ==
    ASSUME NEW code \in Causes, NEW inHand, NEW d \in Nat, Fatal(code, inHand, d),
           code = "ERR_TIMEOUT" => Late(d)
    PROVE  DueEnds
    BY DEF Fatal, DueEnds

LEMMA EntryFailsDue ==
    ASSUME TypeOK, Clocked, ~closed, NEW extra \in SUBSET {TIMEOUT}, NEW inHand, NEW d \in Nat,
           EntryFails(extra, inHand, d)
    PROVE  DueEnds
    BY ReachedIsLate, FatalDue DEF EntryFails, Causes, FatalCodes

LEMMA DueEndsKeeps ==
    ASSUME DueEnds
    PROVE  Clocked' /\ TimeoutMeansOverdue'
<1>1. PICK code \in Causes, d \in Nat : (code = "ERR_TIMEOUT" => Late(d)) /\ Drop(code, d)
    BY DEF DueEnds
<1>2. overdue' = Late(d) /\ cause' = code
    BY <1>1 DEF Drop
<1>3. TimeoutMeansOverdue'
    BY <1>1, <1>2 DEF TimeoutMeansOverdue
<1>4. pending' = <<>> /\ callbacks' = <<>> /\ closed' /\ pc' = "idle" /\ expiry' = Off
    BY <1>1 DEF Drop
<1> QED
    BY <1>3, <1>4 DEF Clocked

(* One step per action: either the engine ends, duly, or every deadline    *)
(* stays on time.                                                          *)
LEMMA StepsOnTime ==
    ASSUME DriverTyped, Clocked, [Next]_vars
    PROVE  DueEnds \/ (Clocked' /\ UNCHANGED endVars)
<1> USE StepsAreNatural DEF DriverTyped
<1>0. {"ERR_FATAL", "ERR_GUEST", "ERR_TIMEOUT", "ERR_DISPOSED"} \subseteq Causes
    BY DEF Causes, NonFatal, FatalCodes
<1>1. ASSUME UNCHANGED <<deadlineVars, closed>>, ~closed \/ UNCHANGED <<pc, expiry>>
      PROVE  Clocked'
    BY <1>1 DEF Clocked, deadlineVars
<1>2. ASSUME NEW r \in Requests, Execute(r)
      PROVE  Clocked' /\ UNCHANGED endVars
    BY <1>1, <1>2 DEF Execute, turnVars, endVars
<1>3. ASSUME NEW c \in Calls, Settle(c)
      PROVE  Clocked' /\ UNCHANGED endVars
    BY <1>3, AnswerClocked DEF Settle, endVars
<1>4. ASSUME Dispose
      PROVE  DueEnds
    BY <1>0, <1>4 DEF Dispose, DueEnds
<1>5. ASSUME StartTurn
      PROVE  DueEnds \/ (Clocked' /\ UNCHANGED endVars)
  <2>1. ~closed
    BY <1>5 DEF StartTurn, Clocked
  <2> QED
    BY <1>0, <1>1, <1>5, <2>1, PassedIsLate, FatalDue DEF StartTurn, endVars
<1>6. ASSUME ExpiryFires
      PROVE  DueEnds \/ (Clocked' /\ UNCHANGED endVars)
  <2>1. ~closed
    BY <1>6 DEF ExpiryFires, Clocked, Off
  <2> QED
    BY <1>0, <1>1, <1>6, <2>1, PassedIsLate, FatalDue DEF ExpiryFires, endVars
<1>7. ASSUME NEW d \in Steps, RunControl(d)
      PROVE  DueEnds \/ (Clocked' /\ UNCHANGED endVars)
  <2>1. ~closed
    BY <1>7 DEF RunControl, Clocked
  <2>2. EntryFails({}, {}, d) => DueEnds
    BY <2>1, EntryFailsDue
  <2>3. Fatal("ERR_GUEST", {}, d) => DueEnds
    BY <1>0, FatalDue
  <2> QED
    BY <1>7, <2>1, <2>2, <2>3, ElapseClocked DEF RunControl, endVars
<1>8. ASSUME NEW d \in Steps, RunCommand(d), ~DueEnds
      PROVE  Clocked' /\ UNCHANGED endVars
  <2>1. ~closed
    BY <1>8 DEF RunCommand, Clocked
  <2> DEFINE r == Head(queue)
             watched == /\ pending' = With(Aged(pending, d), r, Left(TIMEOUT, d))
                        /\ Grow([x \in {r} |-> Older(0, d)], {}, d)
             answered == pending' = Aged(pending, d) /\ Grow(<<>>, {}, d)
  <2>2. ~EntryFails({TIMEOUT}, {r}, d)
    BY <1>8, <2>1, EntryFailsDue
  <2>3. r \in Requests
    <3>1. queue # <<>> /\ queue \in Seq(Requests)
      BY <1>8 DEF RunCommand, TypeOK
    <3> QED
      BY <3>1, HeadTailProperties
  <2>4. /\ watched \/ answered
        /\ callbacks' = Aged(callbacks, d) /\ background' = Left(background, d)
        /\ UNCHANGED endVars
    BY <1>8, <2>2 DEF RunCommand
  <2>5. CASE watched
    <3> DEFINE begun == [x \in {r} |-> Older(0, d)]
    <3>1. Grow(begun, {}, d) /\ DOMAIN begun = {r} /\ begun[r] = Older(0, d)
      BY <2>5
    <3> HIDE DEF begun
    <3>2. OnTime(Left(TIMEOUT, d), age'[r])
      <4>1. TIMEOUT \in Time /\ OnTime(TIMEOUT, 0)
        BY TimesAssumption DEF OnTime, Time
      <4>2. age'[r] = Older(0, d)
        BY <2>3, <3>1 DEF Grow, Timed
      <4> QED
        BY <4>1, <4>2, OnTimeLasts
    <3>3. ASSUME NEW x \in DOMAIN pending'
          PROVE  OnTime(pending'[x], age'[x])
      <4>1. DOMAIN pending' = DOMAIN pending \cup {r}
        BY <2>5, AgedDomain DEF With
      <4>2. CASE x = r
        BY <2>5, <3>2, <4>1, <4>2 DEF With
      <4>3. CASE x # r
        BY <2>5, <3>1, <4>1, <4>3, AgedDomain, WatchesLast DEF With
      <4> QED
        BY <4>2, <4>3
    <3>4. ASSUME NEW c \in DOMAIN callbacks'
          PROVE  OnTime(callbacks'[c], age'[c])
      <4>1. c \in DOMAIN callbacks /\ c \notin DOMAIN begun
        BY <2>3, <2>4, <3>1, AgedDomain, TimedApart
      <4> QED
        BY <2>4, <3>1, <4>1, CallsLast
    <3>5. IF background' = Off THEN age'[Detached] = Off ELSE OnTime(background', age'[Detached])
      <4>1. Detached \notin DOMAIN begun
        BY <2>3, <3>1, TimedApart
      <4> QED
        BY <2>1, <2>4, <3>1, <4>1, JobsLast
    <3> QED
      BY <2>1, <2>4, <3>3, <3>4, <3>5 DEF Clocked, endVars
  <2>6. CASE answered
    <3>1. \A x \in DOMAIN pending' : OnTime(pending'[x], age'[x])
      BY <2>6, AgedDomain, WatchesLast
    <3>2. \A c \in DOMAIN callbacks' : OnTime(callbacks'[c], age'[c])
      BY <2>4, <2>6, AgedDomain, CallsLast
    <3>3. IF background' = Off THEN age'[Detached] = Off ELSE OnTime(background', age'[Detached])
      BY <2>1, <2>4, <2>6, JobsLast
    <3> QED
      BY <2>1, <2>4, <3>1, <3>2, <3>3 DEF Clocked, endVars
  <2> QED
    BY <2>4, <2>5, <2>6
<1>9. ASSUME NEW d \in Steps, RunJobs(d)
      PROVE  DueEnds \/ (Clocked' /\ UNCHANGED endVars)
  <2>1. ~closed
    BY <1>9 DEF RunJobs, Clocked
  <2>2. EntryFails({}, {}, d) => DueEnds
    BY <2>1, EntryFailsDue
  <2> QED
    BY <1>9, <2>1, <2>2, ElapseClocked DEF RunJobs, endVars
<1>10. ASSUME NEW r \in Requests, NEW d \in Steps, Poll(r, d), ~DueEnds
       PROVE  Clocked' /\ UNCHANGED endVars
  <2>1. ~closed
    BY <1>10 DEF Poll, Clocked
  <2>2. ~EntryFails({}, {r}, d)
    BY <1>10, <2>1, EntryFailsDue
  <2>3. /\ \/ pending' = Aged(pending, d) /\ Grow(<<>>, {}, d)
           \/ pending' = Without(Aged(pending, d), r) /\ Grow(<<>>, {r}, d)
        /\ callbacks' = Aged(callbacks, d) /\ background' = Left(background, d)
        /\ UNCHANGED endVars
    BY <1>10, <2>2 DEF Poll, DropWatch
  <2>4. PICK ended \in {{}, {r}} : /\ Grow(<<>>, ended, d)
                                   /\ DOMAIN pending' = DOMAIN pending \ ended
                                   /\ \A x \in DOMAIN pending' : pending'[x] = Aged(pending, d)[x]
    BY <2>3, AgedDomain DEF Without
  <2>5. \A x \in DOMAIN pending' : OnTime(pending'[x], age'[x])
    BY <2>4, WatchesLast
  <2>6. \A c \in DOMAIN callbacks' : OnTime(callbacks'[c], age'[c])
    BY <2>3, <2>4, AgedDomain, TimedApart, CallsLast
  <2>7. IF background' = Off THEN age'[Detached] = Off ELSE OnTime(background', age'[Detached])
    BY <2>1, <2>3, <2>4, TimedApart, JobsLast
  <2> QED
    BY <2>1, <2>3, <2>5, <2>6, <2>7 DEF Clocked, endVars
<1>11. ASSUME NEW d \in Steps, CollectEvents(d), ~DueEnds
       PROVE  Clocked' /\ UNCHANGED endVars
  <2>1. ~closed
    BY <1>11 DEF CollectEvents, Clocked
  <2> DEFINE new == {c \in Calls : call[c] = "started"}
             ended == IF JobsLeft THEN {} ELSE {Detached}
             begun == [x \in new \cup (IF JobsLeft /\ age[Detached] = Off THEN {Detached} ELSE {}) |-> 0]
  <2>2. ~Fatal("ERR_FATAL", {}, d) /\ ~(Reached({}, d) /\ Fatal("ERR_TIMEOUT", {}, d))
    BY <1>0, <1>11, <2>1, ReachedIsLate, FatalDue
  <2>3. /\ JobsLeft => d = 0
        /\ pending' = Aged(pending, d)
        /\ callbacks' = [c \in DOMAIN callbacks \cup new |->
                            IF c \in new THEN TIMEOUT ELSE Left(callbacks[c], d)]
        /\ background' = Background(JobsLeft)
        /\ Grow(begun, ended, d)
        /\ UNCHANGED endVars
    BY <1>11, <2>2 DEF CollectEvents
  <2>4. /\ DOMAIN begun = new \cup (IF JobsLeft /\ age[Detached] = Off THEN {Detached} ELSE {})
        /\ \A x \in DOMAIN begun : begun[x] = 0
        /\ new \subseteq Calls
    OBVIOUS
  <2> HIDE DEF begun
  <2>5. OnTime(TIMEOUT, 0)
    BY TimesAssumption DEF OnTime, Time
  <2>6. \A x \in DOMAIN begun : x \notin ended => age'[x] = 0
    BY <2>3, <2>4 DEF Grow, Timed
  <2>7. \A r \in DOMAIN pending' : OnTime(pending'[r], age'[r])
    <3> SUFFICES ASSUME NEW r \in DOMAIN pending
                 PROVE  OnTime(Aged(pending, d)[r], age'[r])
      BY <2>3, AgedDomain
    <3>1. r \notin DOMAIN begun /\ r \notin ended
      BY <2>4, TimedApart
    <3> QED
      BY <2>3, <3>1, WatchesLast
  <2>8. ASSUME NEW c \in DOMAIN callbacks'
        PROVE  OnTime(callbacks'[c], age'[c])
    <3>1. c \in Calls /\ c # Detached
      BY <2>3, <2>4, TimedApart
    <3>2. CASE c \in new
      BY <2>3, <2>4, <2>5, <2>6, <3>1, <3>2
    <3>3. CASE c \notin new
      <4>1. c \in DOMAIN callbacks /\ c \notin DOMAIN begun /\ c \notin ended
        BY <2>3, <2>4, <3>1, <3>3
      <4>2. callbacks'[c] = Aged(callbacks, d)[c]
        BY <2>3, <3>3, <4>1 DEF Aged
      <4> QED
        BY <2>3, <4>1, <4>2, CallsLast
    <3> QED
      BY <3>2, <3>3
  <2>9. IF background' = Off THEN age'[Detached] = Off ELSE OnTime(background', age'[Detached])
    <3>1. Detached \in Timed /\ Detached \notin new /\ TIMEOUT # Off /\ background \in Time \cup {Off}
      BY <2>4, TimedApart, TimesAssumption DEF Timed, Off, TypeOK
    <3>2. CASE ~JobsLeft
      BY <2>3, <3>1, <3>2 DEF Background, Grow
    <3>3. CASE JobsLeft /\ background = Off
      <4>1. age[Detached] = Off
        BY <2>1, <3>3 DEF Clocked
      <4>2. background' = TIMEOUT /\ Detached \in DOMAIN begun /\ Detached \notin ended
        BY <2>3, <2>4, <3>3, <4>1 DEF Background
      <4> QED
        BY <2>5, <2>6, <3>1, <4>2
    <3>4. CASE JobsLeft /\ background # Off
      <4>1. OnTime(background, age[Detached])
        BY <2>1, <3>4 DEF Clocked
      <4>2. age[Detached] # Off
        BY <4>1 DEF OnTime, Time, Off
      <4>3. Detached \notin DOMAIN begun /\ Detached \notin ended
        BY <2>4, <3>1, <3>4, <4>2
      <4>4. background' = background /\ Left(background, 0) = background
        BY <2>3, <3>1, <3>4, TimesAssumption DEF Background, Left, Time, Off
      <4> QED
        BY <2>1, <2>3, <3>4, <4>3, <4>4, JobsLast
    <3> QED
      BY <3>2, <3>3, <3>4
  <2> QED
    BY <2>1, <2>3, <2>7, <2>8, <2>9 DEF Clocked, endVars
<1>12. ASSUME NEW e \in Calls \cup {Unhandled}, Deliver(e)
       PROVE  Clocked' /\ UNCHANGED endVars
  <2>1. ~closed /\ UNCHANGED <<pending, background, endVars>>
    BY <1>12 DEF Deliver, Clocked
  <2>2. CASE e \in Calls /\ Answer(e)
    BY <2>1, <2>2, AnswerClocked DEF endVars
  <2>3. CASE ~(e \in Calls /\ Answer(e))
    BY <1>1, <1>12, <2>1, <2>3 DEF Deliver, deadlineVars, endVars
  <2> QED
    BY <2>1, <2>2, <2>3
<1>13. ASSUME Turn
       PROVE  Clocked' /\ UNCHANGED endVars
    BY <1>1, <1>13 DEF Turn, endVars
<1>14. ASSUME ControlsDone \/ CommandsDone \/ PollsDone \/ EndTurn
       PROVE  Clocked' /\ UNCHANGED endVars
  <2>1. ~closed
    BY <1>14 DEF ControlsDone, CommandsDone, PollsDone, EndTurn, Clocked
  <2> QED
    BY <1>1, <1>14, <2>1 DEF ControlsDone, CommandsDone, PollsDone, EndTurn, endVars
<1>15. ASSUME TaskFires \/ UNCHANGED vars
       PROVE  Clocked' /\ UNCHANGED endVars
    BY <1>1, <1>15 DEF TaskFires, vars, turnVars, endVars
<1>16. ASSUME Tick
       PROVE  Clocked' /\ UNCHANGED endVars
    BY <1>16, ElapseClocked DEF Tick, endVars
<1> QED
    BY <1>2, <1>3, <1>4, <1>5, <1>6, <1>7, <1>8, <1>9, <1>10, <1>11, <1>12, <1>13, <1>14,
       <1>15, <1>16 DEF Next, TurnStep

(* A timeout is never reported early: see TimeoutMeansOverdue.  The ages   *)
(* are those of the operations, the calls and the jobs themselves, and     *)
(* Clocked ties every stored deadline to the age of what it is for.        *)
THEOREM TimeoutsAreDue == Spec => []TimeoutMeansOverdue
<1>1. Init => Clocked /\ TimeoutMeansOverdue
    BY DEF Init, Clocked, TimeoutMeansOverdue, Timed
<1>2. DriverTyped /\ Clocked /\ TimeoutMeansOverdue /\ [Next]_vars => Clocked' /\ TimeoutMeansOverdue'
  <2> SUFFICES ASSUME DriverTyped, Clocked, TimeoutMeansOverdue, [Next]_vars
               PROVE  Clocked' /\ TimeoutMeansOverdue'
    OBVIOUS
  <2>1. CASE DueEnds
    BY <2>1, DueEndsKeeps
  <2>2. CASE Clocked' /\ UNCHANGED endVars
    BY <2>2 DEF TimeoutMeansOverdue, endVars
  <2> QED
    BY <2>1, <2>2, StepsOnTime
<1> QED
    BY <1>1, <1>2, DriverTypedStable, PTL DEF Spec
=============================================================================
