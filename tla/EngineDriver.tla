---------------------------- MODULE EngineDriver ----------------------------
(***************************************************************************)
(* The driver that owns one WASM instance (src/engine.ts, class Engine):   *)
(* a queue of commands, a control queue of callback settlements, one       *)
(* cooperative turn at a time, and the deadlines of everything that is     *)
(* still running.                                                          *)
(*                                                                         *)
(* Time.  A deadline is kept as the time left until it, in ticks, and      *)
(* counts down to 0, where it has passed: it is the difference of a stored *)
(* absolute time and performance.now().  A guest entry takes a time d      *)
(* chosen by the guest; between turns Tick lets time pass.                 *)
(*                                                                         *)
(* JavaScript.  A turn is one synchronous function: its phases (pc) are    *)
(* steps only because time passes between them.  Host code runs when the   *)
(* driver is idle, and inside the hooks a turn calls while it delivers     *)
(* events.  A timer runs only when no turn microtask is queued.            *)
(*                                                                         *)
(* A definition marked "fault" is a plausible mistake in the one below it. *)
(* No action uses it: it is there to show that a property can fail.        *)
(***************************************************************************)
EXTENDS Integers, Sequences, FiniteSetsExt

CONSTANTS
    Requests,          \* operations the host can have outstanding
    Calls,             \* callback slots of the guest
    TIMEOUT,           \* options.timeoutMs and each request's timeoutMs
    SLICE,             \* SLICE_MS
    MAX_SLICE_TURNS,   \* 128
    BATCH,             \* 32 commands a turn
    MAX_BATCHES,       \* 16 job batches a turn
    MaxStep            \* bound: the longest a guest entry takes

ASSUME RequestsAssumption == Requests \cap Calls = {}
ASSUME TimesAssumption == /\ TIMEOUT \in Nat \ {0}
                          /\ SLICE \in Nat \ {0}
                          /\ MAX_SLICE_TURNS \in Nat \ {0}
                          /\ BATCH \in Nat \ {0}
                          /\ MAX_BATCHES \in Nat \ {0}
                          /\ MaxStep \in Nat

VARIABLES
    queue, controls,       \* commands; settlements of callbacks
    pending,               \* request |-> time left, for watched promises
    callbacks,             \* call |-> time left, for calls the host must settle
    background,            \* time left for detached guest jobs, or Off
    jobs,                  \* guest jobs were left when last looked at
    guestJobs,             \* the guest's own queue: see JobStates
    expiry,                \* the expiry timer, or Off
    scheduled, task,       \* a turn is wanted; the slice's setTimeout is set
    microtask,             \* a turn microtask is queued
    sliceLeft, sliceTurns, \* what the slice still allows, the turns it has had
    closed,
    pc, count, batches, toPoll, events,   \* where the running turn is
    status,                \* the promise of each request, as the host sees it
    call,                  \* the life of each guest callback
    cause,                 \* why the engine closed
    age,                   \* what is timed |-> for how long, or Off (history)
    overdue                \* something was old enough when it did (history)

queueVars == <<queue, controls, status, call>>
deadlineVars == <<pending, callbacks, background, age>>
jobVars == <<jobs, guestJobs>>
wakeVars == <<scheduled, task, microtask>>
sliceVars == <<sliceLeft, sliceTurns>>
turnVars == <<pc, count, batches, toPoll, events>>
endVars == <<closed, cause, overdue>>
vars == <<queueVars, deadlineVars, jobVars, expiry, wakeVars, sliceVars, turnVars, endVars>>

Off == -1
NonFatal == {"ERR_GUEST"}
FatalCodes == {"ERR_TIMEOUT", "ERR_FATAL"}
Unhandled == "unhandled"   \* the event that is no call: a rejection nobody handled
Detached == "detached"     \* guest jobs that are left from turn to turn

ASSUME UnhandledAssumption == Unhandled \notin Calls
ASSUME DetachedAssumption == Detached \notin Requests \cup Calls

(* Guest jobs wait in the guest, or all that wait were queued while a      *)
(* checkpoint ran, after the driver had looked.                            *)
JobStates == {"none", "queued", "late"}

TurnPhases == {"controls", "commands", "jobs", "poll", "events"}
Waiting == {r \in Requests : status[r] = "waiting"}

Left(t, d) == IF t = Off THEN Off ELSE IF t > d THEN t - d ELSE 0
Aged(f, d) == [x \in DOMAIN f |-> Left(f[x], d)]
Without(f, x) == [y \in DOMAIN f \ {x} |-> f[y]]
With(f, x, v) == [y \in DOMAIN f \cup {x} |-> IF y = x THEN v ELSE f[y]]
RangeOf(f) == {f[x] : x \in DOMAIN f}

Timed == Requests \cup Calls \cup {Detached}
Older(t, d) == IF t = Off THEN Off ELSE IF t + d < TIMEOUT THEN t + d ELSE TIMEOUT

(* The ages after time d, in which some things began and some came to an   *)
(* end; what begun says is how old a thing is that began.                  *)
Grow(begun, ended, d) ==
    age' = [x \in Timed |-> IF x \in ended THEN Off
                            ELSE IF x \in DOMAIN begun THEN begun[x] ELSE Older(age[x], d)]

(* Something that was timed, or the entry itself, has lasted its time.     *)
Late(d) == TIMEOUT =< d \/ \E x \in Timed : age[x] # Off /\ TIMEOUT =< age[x] + d

DeadlinesWithoutCalls == RangeOf(pending) \cup ({background} \ {Off})   \* fault
Deadlines == RangeOf(pending) \cup RangeOf(callbacks) \cup ({background} \ {Off})

(* Some deadline has passed by the time d has; with none the default       *)
(* timeout counts.  extra is {} or the deadline of a command being entered.*)
Overdue(extra, d) ==
    IF Deadlines \cup extra = {} THEN TIMEOUT =< d
    ELSE \E t \in Deadlines \cup extra : t =< d

(* until(extra), the deadline given to the guest, is reached within d.     *)
ReachedBySlice(extra, d) == Overdue(extra \cup {sliceLeft}, d)   \* fault
Reached(extra, d) == Overdue(extra, d)

Init ==
    /\ queue = <<>> /\ controls = <<>>
    /\ pending = <<>> /\ callbacks = <<>> /\ background = Off
    /\ jobs = FALSE /\ guestJobs = "none" /\ expiry = Off
    /\ scheduled = FALSE /\ task = FALSE /\ microtask = FALSE
    /\ sliceLeft = 0 /\ sliceTurns = 0
    /\ closed = FALSE /\ cause = "none" /\ overdue = FALSE
    /\ age = [x \in Timed |-> Off]
    /\ pc = "idle" /\ count = 0 /\ batches = 0 /\ toPoll = {} /\ events = {}
    /\ status = [r \in Requests |-> "new"]
    /\ call = [c \in Calls |-> "free"]
-----------------------------------------------------------------------------
(* A slice allows a microtask for SLICE_MS and MAX_SLICE_TURNS turns. *)
InSlice(left, turns) == left > 0 /\ turns < MAX_SLICE_TURNS

(* A new slice starts only when the last one's task has run: an empty      *)
(* guest queue is not enough.                                              *)
NewSliceWhenEmpty == ~task \/ Len(queue) =< 1   \* fault
NewSlice == ~task

(* schedule() *)
Schedule ==
    IF closed \/ scheduled THEN UNCHANGED <<wakeVars, sliceVars>>
    ELSE /\ scheduled' = TRUE
         /\ task' = TRUE
         /\ IF NewSlice THEN sliceLeft' = SLICE /\ sliceTurns' = 0
                        ELSE UNCHANGED sliceVars
         /\ microtask' = (microtask \/ InSlice(sliceLeft', sliceTurns'))

(* reject(): a promise that is settled stays as it is. *)
Told(rs, code) == [r \in Requests |-> IF r \in rs \cap Waiting THEN code ELSE status[r]]

(* The part of dispose() after its loops: everything is dropped, and the   *)
(* guest with its jobs.  d is the time that the last entry took.           *)
Drop(code, d) ==
    /\ closed' = TRUE
    /\ cause' = code
    /\ overdue' = Late(d)
    /\ call' = [c \in Calls |-> "free"]
    /\ queue' = <<>> /\ controls' = <<>>
    /\ pending' = <<>> /\ callbacks' = <<>>
    /\ age' = [x \in Timed |-> Off]
    /\ guestJobs' = "none"
    /\ scheduled' = FALSE /\ task' = FALSE
    /\ expiry' = Off
    /\ pc' = "idle" /\ count' = 0 /\ batches' = 0 /\ toPoll' = {} /\ events' = {}
    /\ UNCHANGED <<background, jobs, microtask, sliceVars>>

(* fatal(error): it rejects what is in queue and in pending and empties    *)
(* both, so that dispose finds nothing there.  The request in hand, if     *)
(* any, is in neither: it was shifted from the queue, or its watch was     *)
(* deleted, and the catch around its entry rejects it first.               *)
FatalLoopsOverQueue(inHand) == RangeOf(queue) \ inHand   \* fault
FatalLoops(inHand) == (RangeOf(queue) \cup DOMAIN pending) \ inHand

Fatal(code, inHand, d) ==
    /\ status' = Told(inHand \cup FatalLoops(inHand), code)
    /\ Drop(code, d)

(* A guest entry that ends the engine: the guest ran out of memory or      *)
(* trapped, or the deadline given to it was reached.                       *)
EntryFails(extra, inHand, d) ==
    \/ Fatal("ERR_FATAL", inHand, d)
    \/ Reached(extra, d) /\ Fatal("ERR_TIMEOUT", inHand, d)

(* armExpiry() at the end of a turn or of its own timer. *)
ArmedForLast(deadlines) == IF deadlines = {} THEN Off ELSE Max({1} \cup deadlines)   \* fault
Armed(deadlines) == IF deadlines = {} THEN Off ELSE Max({1, Min(deadlines)})

(* Time d passes for the timer and the slice, and for every deadline. *)
ElapseTimers(d) == expiry' = Left(expiry, d) /\ sliceLeft' = Left(sliceLeft, d)

Elapse(d) ==
    /\ pending' = Aged(pending, d)
    /\ callbacks' = Aged(callbacks, d)
    /\ background' = Left(background, d)
    /\ Grow(<<>>, {}, d)
    /\ ElapseTimers(d)

(* Guest code runs in every entry (a getter, a then method) and may start  *)
(* host calls in free callback slots; settled calls give theirs back after.*)
StartCalls(settled) ==
    \E started \in SUBSET {c \in Calls : call[c] = "free"} :
        call' = [c \in Calls |-> IF c \in started THEN "started"
                                 ELSE IF c \in settled THEN "free" ELSE call[c]]

(* It may also queue jobs. *)
QueueJobs == guestJobs' \in {guestJobs, "queued"}
-----------------------------------------------------------------------------
(* The host: execute() and settle(), from host code or from inside a hook. *)
HostRuns == pc \in {"idle", "deliver"}

Execute(r) ==
    /\ HostRuns
    /\ status[r] # "waiting"
    /\ IF closed
       THEN /\ status' = [status EXCEPT ![r] = "ERR_DISPOSED"]
            /\ UNCHANGED <<queue, wakeVars, sliceVars>>
       ELSE /\ status' = [status EXCEPT ![r] = "waiting"]
            /\ queue' = Append(queue, r)
            /\ Schedule
    /\ UNCHANGED <<controls, call, deadlineVars, jobVars, expiry, turnVars, endVars>>

(* A settlement that has a record loses it and becomes a control. *)
DropRecord(c) == callbacks' = Without(callbacks, c)

Answer(c) ==
    /\ DropRecord(c)
    /\ Grow(<<>>, {c}, 0)
    /\ controls' = Append(controls, c)
    /\ call' = [call EXCEPT ![c] = "answered"]
    /\ Schedule

Settle(c) ==
    /\ HostRuns
    /\ call[c] = "delivered"
    /\ ~closed /\ c \in DOMAIN callbacks
    /\ Answer(c)
    /\ UNCHANGED <<queue, status, pending, background, jobVars, expiry, turnVars, endVars>>

(* dispose(), called by the host: its own loops over queue and pending. *)
Dispose ==
    /\ HostRuns
    /\ ~closed
    /\ status' = Told(RangeOf(queue) \cup DOMAIN pending, "ERR_DISPOSED")
    /\ Drop("ERR_DISPOSED", 0)
-----------------------------------------------------------------------------
(* The turn microtask: it does nothing once the engine is closed. *)
Turn ==
    /\ pc = "idle"
    /\ microtask
    /\ microtask' = FALSE
    /\ IF closed \/ ~scheduled
       THEN UNCHANGED <<scheduled, sliceTurns, pc>>
       ELSE /\ scheduled' = FALSE
            /\ sliceTurns' = sliceTurns + 1
            /\ pc' = "start"
    /\ UNCHANGED <<queueVars, deadlineVars, jobVars, expiry, task, sliceLeft,
                   count, batches, toPoll, events, endVars>>

(* Nothing is entered once a deadline has passed. *)
StartTurn ==
    /\ pc = "start"
    /\ IF 0 \in Deadlines
       THEN Fatal("ERR_TIMEOUT", {}, 0)
       ELSE /\ pc' = "controls"
            /\ UNCHANGED <<queueVars, deadlineVars, jobVars, expiry, wakeVars, sliceVars,
                           count, batches, toPoll, events, endVars>>

(* Settlements go first, all of them.  An error here, of any kind, is not  *)
(* any request's and ends the engine.                                      *)
RunControl(d) ==
    /\ pc = "controls"
    /\ controls # <<>>
    /\ \/ EntryFails({}, {}, d) \/ Fatal("ERR_GUEST", {}, d)
       \/ /\ controls' = Tail(controls)
          /\ Elapse(d)
          /\ StartCalls({Head(controls)})
          /\ QueueJobs
          /\ UNCHANGED <<queue, status, jobs, wakeVars, sliceTurns, turnVars, endVars>>

ControlsDone ==
    /\ pc = "controls"
    /\ controls = <<>>
    /\ pc' = "commands" /\ count' = 0
    /\ UNCHANGED <<queueVars, deadlineVars, jobVars, expiry, wakeVars, sliceVars,
                   batches, toPoll, events, endVars>>

(* One command.  Its deadline runs from before the entry; it is answered,  *)
(* or watched until then, or its failure is fatal.                         *)
RunCommand(d) ==
    LET r == Head(queue)
        watched == /\ status' = status
                   /\ pending' = With(Aged(pending, d), r, Left(TIMEOUT, d))
                   /\ Grow([x \in {r} |-> Older(0, d)], {}, d)
        answered(answer) == /\ status' = [status EXCEPT ![r] = answer]
                            /\ pending' = Aged(pending, d)
                            /\ Grow(<<>>, {}, d)
    IN  /\ pc = "commands"
        /\ count < BATCH
        /\ queue # <<>>
        /\ \/ EntryFails({TIMEOUT}, {r}, d)
           \/ /\ queue' = Tail(queue)
              /\ \/ watched
                 \/ answered("value")
                 \/ \E code \in NonFatal : answered(code)
              /\ callbacks' = Aged(callbacks, d)
              /\ background' = Left(background, d)
              /\ ElapseTimers(d)
              /\ StartCalls({})
              /\ QueueJobs
              /\ IF sliceLeft' = 0 THEN pc' = "jobs" /\ count' = 0
                                   ELSE pc' = pc /\ count' = count + 1
              /\ batches' = 0
              /\ UNCHANGED <<controls, jobs, wakeVars, sliceTurns, toPoll, events, endVars>>

CommandsDone ==
    /\ pc = "commands"
    /\ count = BATCH \/ queue = <<>>
    /\ pc' = "jobs" /\ count' = 0 /\ batches' = 0
    /\ UNCHANGED <<queueVars, deadlineVars, jobVars, expiry, wakeVars, sliceVars,
                   toPoll, events, endVars>>

(* One batch of guest jobs.  Only real deadlines reach the guest; the end  *)
(* of the slice just ends the pumping.                                     *)
RunJobs(d) ==
    /\ pc = "jobs"
    /\ \/ EntryFails({}, {}, d)
       \/ /\ Elapse(d)
          /\ IF guestJobs = "none"
             THEN UNCHANGED <<call, guestJobs>>
             ELSE StartCalls({}) /\ guestJobs' \in {"none", "queued"}
          /\ jobs' = (guestJobs' # "none")
          /\ IF ~jobs' \/ batches = MAX_BATCHES - 1 \/ sliceLeft' = 0
             THEN pc' = "poll" /\ batches' = 0 /\ toPoll' = DOMAIN pending
             ELSE pc' = pc /\ batches' = batches + 1 /\ toPoll' = {}
          /\ UNCHANGED <<queue, controls, status, wakeVars, sliceTurns, count, events, endVars>>

(* A settled promise is no longer watched. *)
KeepWatch(r, d) == pending' = Aged(pending, d)   \* fault
DropWatch(r, d) == pending' = Without(Aged(pending, d), r)

(* Each watched promise is looked at once a turn. *)
Poll(r, d) ==
    /\ pc = "poll"
    /\ r \in toPoll
    /\ \/ EntryFails({}, {r}, d)
       \/ /\ toPoll' = toPoll \ {r}
          /\ \/ UNCHANGED status /\ pending' = Aged(pending, d) /\ Grow(<<>>, {}, d)
             \/ /\ \E answer \in {"value"} \cup NonFatal :
                      status' = [status EXCEPT ![r] = answer]
                /\ DropWatch(r, d)
                /\ Grow(<<>>, {r}, d)
          /\ callbacks' = Aged(callbacks, d)
          /\ background' = Left(background, d)
          /\ ElapseTimers(d)
          /\ StartCalls({})
          /\ QueueJobs
          /\ UNCHANGED <<queue, controls, jobs, wakeVars, sliceTurns,
                         pc, count, batches, events, endVars>>

PollsDone ==
    /\ pc = "poll"
    /\ toPoll = {}
    /\ pc' = "events"
    /\ UNCHANGED <<queueVars, deadlineVars, jobVars, expiry, wakeVars, sliceVars,
                   count, batches, toPoll, events, endVars>>

(* backgroundDeadline ??= ... while jobs are left. *)
RestartedBackground(left) == IF left THEN TIMEOUT ELSE Off   \* fault
Background(left) ==
    IF ~left THEN Off ELSE IF background = Off THEN TIMEOUT ELSE background

(* jss_jobs(0): what is left of the guest's jobs once the watches were     *)
(* polled.                                                                 *)
JobsOfTheBatch == jobs   \* fault
JobsLeft == guestJobs # "none"

(* jss_events takes the new calls.  With no job left it then reports the   *)
(* rejections nobody handled, and its getters run guest code, under the    *)
(* deadlines of jss_jobs(0): jobs they queue and calls they start come too *)
(* late for this turn.  Then the new calls' deadlines, the deadline of     *)
(* detached jobs, which starts once and is kept, and the expiry timer.     *)
CollectEvents(d) ==
    LET new == {c \in Calls : call[c] = "started"}
        free == {c \in Calls : call[c] = "free"}
        reported(late) == call' = [c \in Calls |-> IF c \in new THEN "sent"
                                                  ELSE IF c \in late THEN "started" ELSE call[c]]
        quiet == d = 0 /\ events' = new /\ reported({}) /\ UNCHANGED guestJobs
        checkpoint == /\ ~JobsLeft
                      /\ events' = new \cup {Unhandled}
                      /\ \E late \in SUBSET free : reported(late)
                      /\ guestJobs' \in {"none", "late"}
        begun == [x \in new \cup (IF JobsLeft /\ age[Detached] = Off THEN {Detached} ELSE {}) |-> 0]
    IN  /\ pc = "events"
        /\ \/ Fatal("ERR_FATAL", {}, d)
           \/ ~JobsLeft /\ Reached({}, d) /\ Fatal("ERR_TIMEOUT", {}, d)
           \/ /\ quiet \/ checkpoint
              /\ jobs' = JobsLeft
              /\ pending' = Aged(pending, d)
              /\ callbacks' = [c \in DOMAIN callbacks \cup new |->
                                  IF c \in new THEN TIMEOUT ELSE Left(callbacks[c], d)]
              /\ background' = Background(jobs')
              /\ Grow(begun, IF JobsLeft THEN {} ELSE {Detached}, d)
              /\ expiry' = Armed(Deadlines')
              /\ sliceLeft' = Left(sliceLeft, d)
              /\ pc' = "deliver"
              /\ UNCHANGED <<queue, controls, status, wakeVars, sliceTurns,
                             count, batches, toPoll, endVars>>

(* A hook is called for each event, outside the guest; if a call's hook    *)
(* throws, the driver settles the call itself.                             *)
Deliver(e) ==
    /\ pc = "deliver"
    /\ e \in events
    /\ events' = events \ {e}
    /\ \/ /\ call' = IF e \in Calls THEN [call EXCEPT ![e] = "delivered"] ELSE call
          /\ UNCHANGED <<controls, callbacks, age, wakeVars, sliceVars>>
       \/ e \in Calls /\ Answer(e)
    /\ UNCHANGED <<queue, status, pending, background, jobVars, expiry,
                   pc, count, batches, toPoll, endVars>>

WorkLeftInGuest == jobs \/ controls # <<>>   \* fault
WorkLeft == jobs \/ queue # <<>> \/ controls # <<>>

(* The turn ends; it asks for another if work is left. *)
EndTurn ==
    /\ pc = "deliver"
    /\ events = {}
    /\ pc' = "idle"
    /\ IF WorkLeft
       THEN Schedule
       ELSE UNCHANGED <<wakeVars, sliceVars>>
    /\ UNCHANGED <<queueVars, deadlineVars, jobVars, expiry, count, batches, toPoll, events, endVars>>
-----------------------------------------------------------------------------
(* The slice's setTimeout: the only place a new slice can start from. *)
TaskFires ==
    /\ pc = "idle" /\ ~microtask
    /\ task
    /\ IF scheduled
       THEN /\ sliceLeft' = SLICE /\ sliceTurns' = 0
            /\ microtask' = TRUE
            /\ UNCHANGED <<scheduled, task>>
       ELSE /\ task' = FALSE
            /\ UNCHANGED <<scheduled, microtask, sliceVars>>
    /\ UNCHANGED <<queueVars, deadlineVars, jobVars, expiry, turnVars, endVars>>

ExpiryFires ==
    /\ pc = "idle" /\ ~microtask
    /\ expiry = 0
    /\ IF 0 \in Deadlines
       THEN Fatal("ERR_TIMEOUT", {}, 0)
       ELSE /\ expiry' = Armed(Deadlines)
            /\ UNCHANGED <<queueVars, deadlineVars, jobVars, wakeVars, sliceVars, turnVars, endVars>>

(* Time passes while no turn runs. *)
Tick ==
    /\ pc = "idle"
    /\ ~closed
    /\ Elapse(1)
    /\ UNCHANGED <<queueVars, jobVars, wakeVars, sliceTurns, turnVars, endVars>>
-----------------------------------------------------------------------------
Steps == 0 .. MaxStep

TurnStep ==
    \/ Turn \/ StartTurn \/ ControlsDone \/ CommandsDone \/ PollsDone
    \/ EndTurn
    \/ \E d \in Steps : \/ RunControl(d) \/ RunCommand(d) \/ RunJobs(d) \/ CollectEvents(d)
                        \/ \E r \in Requests : Poll(r, d)
    \/ \E e \in Calls \cup {Unhandled} : Deliver(e)

Next ==
    \/ \E r \in Requests : Execute(r)
    \/ \E c \in Calls : Settle(c)
    \/ Dispose
    \/ TurnStep
    \/ TaskFires \/ ExpiryFires \/ Tick

(* JavaScript runs what it has started: a turn runs to its end, a timer    *)
(* whose time has come runs once no microtask is in front of it, and time  *)
(* passes.  Nothing is assumed of the host or of the guest.                *)
Fairness == /\ WF_vars(TurnStep)
            /\ WF_vars(TaskFires)
            /\ WF_vars(ExpiryFires)
            /\ SF_vars(Tick)

Spec == Init /\ [][Next]_vars /\ Fairness
-----------------------------------------------------------------------------
Time == 0 .. TIMEOUT
Statuses == {"new", "waiting", "value", "ERR_DISPOSED"} \cup NonFatal \cup FatalCodes
CallStates == {"free", "started", "sent", "delivered", "answered"}

TypeOK ==
    /\ queue \in Seq(Requests) /\ controls \in Seq(Calls)
    /\ pending \in [DOMAIN pending -> Time] /\ DOMAIN pending \subseteq Requests
    /\ callbacks \in [DOMAIN callbacks -> Time] /\ DOMAIN callbacks \subseteq Calls
    /\ background \in Time \cup {Off}
    /\ expiry \in Time \cup {Off}
    /\ jobs \in BOOLEAN /\ guestJobs \in JobStates
    /\ age \in [Timed -> Time \cup {Off}]
    /\ closed \in BOOLEAN /\ overdue \in BOOLEAN
    /\ scheduled \in BOOLEAN /\ task \in BOOLEAN /\ microtask \in BOOLEAN
    /\ sliceLeft \in 0 .. SLICE /\ sliceTurns \in 0 .. MAX_SLICE_TURNS
    /\ pc \in {"idle", "start", "deliver"} \cup TurnPhases
    /\ count \in 0 .. BATCH /\ batches \in 0 .. (MAX_BATCHES - 1)
    /\ toPoll \subseteq Requests /\ events \subseteq Calls \cup {Unhandled}
    /\ status \in [Requests -> Statuses]
    /\ call \in [Calls -> CallStates]
    /\ cause \in {"none"} \cup Statuses

(* Every operation the host waits for is in exactly one place, and nothing *)
(* else is: none is forgotten between the queue and the watches, none can  *)
(* be answered twice (execute, turn, fatal, dispose).  Likewise a call     *)
(* waits for the host exactly while it has a deadline, and an answer is on *)
(* its way to the guest exactly once.                                      *)
Accounted ==
    /\ Waiting = RangeOf(queue) \cup DOMAIN pending
    /\ RangeOf(queue) \cap DOMAIN pending = {}
    /\ \A i, j \in DOMAIN queue : queue[i] = queue[j] => i = j
    /\ ~closed => /\ DOMAIN callbacks = {c \in Calls : call[c] \in {"sent", "delivered"}}
                  /\ RangeOf(controls) = {c \in Calls : call[c] = "answered"}
                  /\ \A i, j \in DOMAIN controls : controls[i] = controls[j] => i = j

(* No wakeup is lost (schedule): commands and settlements left at the end  *)
(* of a turn, or added by a hook or by the host, have a turn scheduled, and *)
(* so have guest jobs, the ones included that a poll queued after the last *)
(* batch; and a scheduled turn has the slice's task to run it even if its  *)
(* microtask was withheld.  Not so what a checkpoint's getters leave: the  *)
(* driver has looked already, and it waits for the next command.           *)
WorkIsScheduled ==
    /\ (pc = "idle" /\ ~closed /\ (guestJobs = "queued" \/ queue # <<>> \/ controls # <<>>))
          => scheduled
    /\ scheduled => task /\ ~closed
    /\ (microtask /\ ~closed) => scheduled

(* Every deadline is covered by the expiry timer (armExpiry): outside a    *)
(* turn it is set whenever something can expire, for no later than the     *)
(* first deadline, or one tick when that is already past.                  *)
ExpiryCovers ==
    (pc \in {"idle", "deliver"} /\ ~closed /\ Deadlines # {}) =>
        /\ expiry # Off
        /\ \A t \in Deadlines : expiry =< Max({1, t})

(* When the engine dies every waiting operation is told why (fatal rejects *)
(* before dispose does): none is left pending, none gets the later generic *)
(* error instead of the cause.                                             *)
CauseReachesAll ==
    [][(closed' /\ ~closed) => \A r \in Waiting : status'[r] = cause']_vars

(* A fairness yield must not kill the realm (turn): the engine times out   *)
(* only when an operation that is still awaited, a call that is still      *)
(* unanswered, jobs that were left turn after turn or the entry itself     *)
(* have lasted their full time: never because a slice or a batch ended,    *)
(* and never for a deadline that outlived what it was for.                 *)
TimeoutMeansOverdue == cause = "ERR_TIMEOUT" => overdue

(* Nothing outlives its deadline: every accepted request settles           *)
(* (docs/design.md), a call given to the host is answered or ends with the *)
(* sandbox, and detached guest jobs finish or the sandbox dies.            *)
EverythingEnds ==
    /\ \A r \in Requests : status[r] = "waiting" ~> status[r] # "waiting"
    /\ \A c \in Calls : call[c] \in {"sent", "delivered"} ~> call[c] \notin {"sent", "delivered"}
    /\ guestJobs = "queued" ~> (guestJobs # "queued" \/ closed)

(* However busy the guest and the host's continuations keep it, the driver *)
(* keeps letting the host's own timers run (test: microtask traffic).      *)
HostTimersRun == []<>(pc = "idle" /\ ~microtask)
=============================================================================
