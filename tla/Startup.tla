------------------------------ MODULE Startup ------------------------------
(***************************************************************************)
(* Creating a sandbox (src/core.ts, Sandbox._create, with connectInline    *)
(* and connectWorker): initialization races the startup timer and the      *)
(* caller's AbortSignal, and whoever loses must leave nothing running.     *)
(*                                                                         *)
(* micro is the JavaScript microtask queue, restricted to the jobs of this *)
(* startup.  A task is run only when it is empty, and a promise that       *)
(* settles appends its reactions in the order they were registered:        *)
(*   created, failed   connectInline or connectWorker settles its promise  *)
(*   check             creation.then(... dispose when closed)              *)
(*   win, lost, lose   Promise.race's reactions: to creation fulfilled or  *)
(*                     rejected, and to rejectStartup                      *)
(*   resume, throw     the await of the race continues, or throws          *)
(*   retired           the catch block continues after #retire             *)
(*   abort, hop        host code, and a job that only leads to created     *)
(*                                                                         *)
(* A definition marked "fault" is a plausible mistake in the one below it. *)
(* No action uses it: it is there to show that a property can fail.        *)
(***************************************************************************)
EXTENDS Naturals, Sequences

CONSTANT MaxGlobals   \* bound: entries of options.globals

ASSUME GlobalsAssumption == MaxGlobals \in Nat

VARIABLES
    mode,        \* options.execution
    micro,
    creation,    \* the promise of connectInline or connectWorker
    never,       \* the race's other promise: pending, or ERR_ABORTED or ERR_INIT_TIMEOUT
    race,        \* Promise.race: pending, won or the error
    runtime,     \* the engine or its worker: none, live or disposed
    transport,   \* sandbox.#transport is set
    closed,      \* sandbox.#closed
    aborted,     \* options.signal has fired
    globals,     \* globals still to install; 0 before the race is won
    outcome      \* createSandbox's promise: pending, resolved or rejected

startupVars == <<mode, micro, creation, never, race, runtime, transport, closed,
          aborted, globals, outcome>>

(* A worker exists before its engine does. *)
StartupInit ==
    /\ mode \in {"inline", "worker"}
    /\ micro = <<>>
    /\ creation = "pending" /\ never = "pending" /\ race = "pending"
    /\ runtime = IF mode = "worker" THEN "live" ELSE "none"
    /\ transport = FALSE /\ closed = FALSE /\ aborted = FALSE
    /\ globals = 0
    /\ outcome = "pending"
-----------------------------------------------------------------------------
(* One task: initialization ends, or host code runs, or both with either   *)
(* first.                                                                  *)
Arrivals == LET ends == IF creation = "pending" THEN {"created", "hop", "failed"} ELSE {}
                host == IF aborted THEN {} ELSE {"abort"}
            IN  {<<j>> : j \in ends \cup host}
                \cup {<<j, k>> : j \in ends, k \in host}
                \cup {<<k, j>> : j \in ends, k \in host}

Task ==
    /\ micro = <<>>
    /\ micro' \in Arrivals
    /\ UNCHANGED <<mode, creation, never, race, runtime, transport, closed,
                   aborted, globals, outcome>>

(* rejectStartup: only the first error counts, and finally removes both    *)
(* the timer and the listener.                                             *)
RejectStartup(code, rest) ==
    IF never = "pending" /\ outcome = "pending"
    THEN never' = code /\ micro' = Append(rest, "lose")
    ELSE never' = never /\ micro' = rest

TimerForWorkerOnly == mode = "worker" /\ outcome = "pending"   \* fault
TimerSet == outcome = "pending"

(* The startup timer, a task of its own. *)
TimerFires ==
    /\ micro = <<>>
    /\ TimerSet
    /\ never = "pending"
    /\ RejectStartup("ERR_INIT_TIMEOUT", micro)
    /\ UNCHANGED <<mode, creation, race, runtime, transport, closed, aborted,
                   globals, outcome>>

Runs(job) == micro # <<>> /\ Head(micro) = job
Rest == Tail(micro)

Abort ==
    /\ Runs("abort")
    /\ aborted' = TRUE
    /\ RejectStartup("ERR_ABORTED", Rest)
    /\ UNCHANGED <<mode, creation, race, runtime, transport, closed, globals, outcome>>

Hop ==
    /\ Runs("hop")
    /\ micro' = Append(Rest, "created")
    /\ UNCHANGED <<mode, creation, never, race, runtime, transport, closed,
                   aborted, globals, outcome>>

(* Initialization succeeds.  A terminated worker sends no ready message,   *)
(* and a closed worker transport ignores it.                               *)
Created ==
    /\ Runs("created")
    /\ IF mode = "worker" /\ runtime = "disposed"
       THEN micro' = Rest /\ UNCHANGED <<creation, runtime>>
       ELSE /\ creation' = "fulfilled"
            /\ runtime' = "live"
            /\ micro' = Rest \o <<"check", "win">>
    /\ UNCHANGED <<mode, never, race, transport, closed, aborted, globals, outcome>>

(* Initialization fails: the engine disposes of its own module, fail()     *)
(* terminates the worker.                                                  *)
Failed ==
    /\ Runs("failed")
    /\ creation' = "rejected"
    /\ runtime' = "disposed"
    /\ micro' = Append(Rest, "lost")
    /\ UNCHANGED <<mode, never, race, transport, closed, aborted, globals, outcome>>

LateRuntimeKept == runtime   \* fault
AfterCheck == IF closed THEN "disposed" ELSE runtime

(* creation.then: a runtime that comes too late is disposed of. *)
Check ==
    /\ Runs("check")
    /\ runtime' = AfterCheck
    /\ micro' = Rest
    /\ UNCHANGED <<mode, creation, never, race, transport, closed, aborted, globals, outcome>>

AnyReaction == TRUE   \* fault
FirstReaction == race = "pending"

(* The race is settled by the first reaction to run. *)
Race(job, result, next) ==
    /\ Runs(job)
    /\ IF FirstReaction
       THEN race' = result /\ micro' = Append(Rest, next)
       ELSE race' = race /\ micro' = Rest
    /\ UNCHANGED <<mode, creation, never, runtime, transport, closed, aborted, globals, outcome>>

Win == Race("win", "won", "resume")
Lose == Race("lost", "ERR_INITIALIZATION", "throw") \/ Race("lose", never, "throw")

(* sandbox.#transport = await the race; then the globals, if any. *)
Resume ==
    /\ Runs("resume")
    /\ micro' = Rest
    /\ transport' = TRUE
    /\ globals' \in 0 .. MaxGlobals
    /\ outcome' = IF globals' = 0 THEN "resolved" ELSE "pending"
    /\ UNCHANGED <<mode, creation, never, race, runtime, closed, aborted>>

(* One sandbox.set; its failure is thrown to the catch block.  A fatal     *)
(* error retires the sandbox (hooks.onFatal) before its request fails.     *)
SetGlobal ==
    /\ micro = <<>>
    /\ globals > 0
    /\ \/ /\ globals' = globals - 1
          /\ outcome' = IF globals = 1 THEN "resolved" ELSE outcome
          /\ UNCHANGED <<micro, closed, runtime>>
       \/ /\ globals' = 0
          /\ micro' = <<"throw">>
          /\ UNCHANGED <<outcome, closed, runtime>>
       \/ /\ globals' = 0
          /\ micro' = <<"throw">>
          /\ closed' = TRUE /\ runtime' = "disposed"
          /\ UNCHANGED outcome
    /\ UNCHANGED <<mode, creation, never, race, transport, aborted>>

(* #retire disposes of the transport it can see. *)
AfterRetire == IF transport THEN "disposed" ELSE runtime

Throw ==
    /\ Runs("throw")
    /\ closed' = TRUE
    /\ runtime' = AfterRetire
    /\ micro' = Append(Rest, "retired")
    /\ UNCHANGED <<mode, creation, never, race, transport, aborted, globals, outcome>>

WorkerKept == runtime   \* fault
AfterTerminate == IF mode = "worker" THEN "disposed" ELSE runtime

Retired ==
    /\ Runs("retired")
    /\ runtime' = AfterTerminate
    /\ outcome' = "rejected"
    /\ micro' = Rest
    /\ UNCHANGED <<mode, creation, never, race, transport, closed, aborted, globals>>

Microtask == \/ Abort \/ Hop \/ Created \/ Failed \/ Check \/ Win \/ Lose
             \/ Resume \/ Throw \/ Retired

StartupNext == Task \/ TimerFires \/ SetGlobal \/ Microtask

(* Microtasks run, the startup timer runs when it is due, and each set     *)
(* ends (its own deadline sees to it).                                     *)
StartupFairness == WF_startupVars(Microtask) /\ WF_startupVars(TimerFires) /\ WF_startupVars(SetGlobal)

StartupSpec == StartupInit /\ [][StartupNext]_startupVars /\ StartupFairness
-----------------------------------------------------------------------------
Over == outcome = "rejected" /\ micro = <<>>

(* A sandbox handed to the caller works: an abort or a timeout that lost   *)
(* the race, or a failure of another kind, has not taken it away.          *)
ResolvedIsUsable == outcome = "resolved" => transport /\ ~closed /\ runtime = "live"

(* What a failed startup leaves behind: no worker, whatever made it fail;  *)
(* and, as the comment at src/core.ts:96 says of the timer it names, no    *)
(* engine ("A late successful initialization after timeout must not leak   *)
(* its runtime").                                                          *)
TimeoutDoesNotLeak ==
    Over => /\ mode = "worker" => runtime = "disposed"
            /\ race = "ERR_INIT_TIMEOUT" => runtime # "live"

(* The same promise for every failed startup, an aborted one included.     *)
FailedStartupDoesNotLeak == Over => runtime # "live"

(* createSandbox always answers (the timer of _create, README.md: default  *)
(* startup timeout): neither a worker that stays silent nor a loader that  *)
(* never returns keeps the caller waiting, and the catch block, which      *)
(* itself waits for a retirement and a termination, comes to its throw.    *)
StartupEnds == <>(outcome # "pending")
=============================================================================
