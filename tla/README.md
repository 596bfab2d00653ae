# A TLA+ verification of jss

jss runs untrusted JavaScript in QuickJS compiled to WebAssembly, inline or in a
worker, behind an asynchronous host API. These modules model the parts of it in
which order matters: the table of guest values, the native bridge and its
rejection tracker, the driver that schedules guest code against deadlines, the
startup race, the lifetime of the handles lent to a callback, and the sandbox
object with its two transports; and, of what the repository builds on top of it,
the WebSocket and fetch capabilities and the module loader, whose protocols cross
the sandbox in both directions. TLC checks them on small instances; TLAPS
proves the central results for every size. Paths below are relative to the
repository; `capabilities/` stands for `examples/capabilities/`.

## 1. Inventory

| Component | State it keeps | Operations | What makes it correct |
|---|---|---|---|
| Guest handle table (`bridge/engine.c`: `handles`, `lookup`, `retain`, `release`) | slots with a value, a generation and a live flag; a cursor | look up, retain, release, replace in place | an id names one value from issue to release and nothing afterwards; nothing usable is refused |
| Native bridge (`bridge/engine.c`: `command`, `host_call`, `jss_events`) | the table's flags for watched promises, 128 callback records, a call counter | some twenty commands, the guest's host calls, event collection, disposal | every retained value has exactly one owner; a failure half way gives everything back |
| Rejection tracker (`rejection_tracker`, `jss_events`) | up to 256 rejected promises | track, forget, report at a checkpoint | one report for each rejection still unhandled |
| Module registry (`define_module`, `module_load`) | up to 1024 names and sources | define, resolve, load | names are immutable, limits hold after failures too |
| Engine driver (`src/engine.ts`) | command queue, control queue, pending watches, callback deadlines, background deadline, slice, two timers | `execute`, `settle`, `dispose`, `turn`, `schedule`, `armExpiry`, `fatal` | every request settles once, with the right cause; no wakeup is lost; host timers run; deadlines hold |
| Worker transport (`src/transport.ts`) | requests by message id, closed and ready flags | post, receive, fail, terminate | the same service as the inline engine |
| Sandbox facade (`src/core.ts`: `Sandbox`) | transport, closed flag, outstanding requests, host functions | `_request`, `#retire`, `#hostCall`, startup | capacity, deadline, abort and disposal settle every operation once |
| Handles (`src/core.ts`: `Handle`) | id, disposed flag | operations, `dispose`, invalidation | no use after disposal; a lent handle is valid until its callback settles |
| Value codec (`src/codec.ts`, `bridge/codec.js`) | none | encode, decode, limits | round trip; the same limits on both sides |
| WebSocket capability (`capabilities/websocket-guest.js`, `websocket-host.mjs`) | guest: buffered and acknowledged bytes, a message being received; host: native socket, queue of events, a message being assembled, records of closed sockets | open, send in chunks, close, poll, events, disposal | `bufferedAmount` never too low; every message whole and in order; one close event, last |
| Fetch capability (`capabilities/fetch-guest.js`, `fetch-host.mjs`) | guest: promise, upload pump with a demand, body stream; host: network, upload stream, reader with a remainder, timer | start, upload, read, cancel, events, disposal | bodies arrive whole or not at all; both sides hold the fetch or neither; nobody waits for nothing |
| Module loader (`capabilities/modules.mjs`) | records, sources, reads, aliases, two chains of promises | load, prepare a REPL cell, dispose | only whole graphs are registered; loads do not disturb each other |
| Adapters, publishing tool, other examples, benchmarks, vendored QuickJS | - | - | outside the core |

How they interact. The facade calls `execute` and `settle` of a transport,
which is the driver itself or a worker that holds one and passes messages. The
driver alone calls the bridge, synchronously, one entry at a time. Guest code
runs only inside such an entry; the host calls it makes become callback
records that `jss_events` hands to the driver and the driver's hook to
`#hostCall`, whose settlement comes back as a control command. A capability has
a half on each side: guest code calls one exposed host function, and the host
emits events by calling a guest function, each of them asynchronous and each
able to fail (`capabilities/host.mjs`).

What is hard about it:

- ids outlive what they name: releases, settlements and late replies may carry
  stale ids after the slot has a new owner;
- a C command that retains several values can fail between any two of them;
- the driver is re-entered by host code from its own hooks, and by promise
  continuations between turns;
- one clock serves fairness slices, operation deadlines, callback deadlines,
  the deadline of detached jobs and the startup timer;
- settlements travel in a queue of their own and overtake commands;
- initialization, timer and abort race in the microtask queue, and the loser's
  engine must still be disposed of by somebody;
- between the halves of a capability, calls, answers, events and the outcomes of
  events cross each other, and any of them may come after the end of what it is
  about;
- loads of modules interleave at every `await`, share sources and inspections,
  and fill a registry that nothing can be taken out of.

`PROJECT.json` lists each hazard at its line with the properties that cover it,
and says of the three not covered why.

## 2. Modules

    HandleSpace            abstract: ids are issued once and never revived
       ^ implemented by
    HandleTable
       ^ extended by
    Bridge  <------------- BridgeProofs            about both
       ^---- MCBridge
    EngineDriver <-------- EngineDriverProofs
    Startup  <--------+
    CallbackScope <---+--- CoreProofs
                           core.ts, engine.ts and engine.c on one callback
    RejectionTracker <---- RejectionTrackerProofs
                           engine.c's tracker and engine.ts's decision on a checkpoint

    SandboxService         abstract: one answer for each accepted operation
       ^ implemented by
    Facade                 the sandbox over any transport
       ^---- InlineSandbox     over an engine in the same thread
       ^---- WorkerSandbox     over a worker and two channels
       MCSandbox           a sandbox over either
          <--------------- SandboxProofs           about all four

    WebSocketGuest, WebSocketHost   the two halves, as operators
       ^ instantiated by
    WebSocket <----------- WebSocketProofs
                           their steps, the native socket, what crosses
    FetchGuest, FetchHost
       ^ instantiated by
    Fetch <--------------- FetchProofs
    ModuleLoader <-------- ModuleLoaderProofs
       ^---- MCModuleLoader

A definition marked `fault` is a plausible mistake in the definition below it.
No action uses it; substituted for its neighbour it makes some property fail,
which `PROJECT.json` records as a mutant of that property.

### HandleSpace and HandleTable

`live`, `generation` and `value` are the fields of `handles[]`, `cursor` is
`handle_cursor`. `Retain`, `Release` and `Replace` are `retain`, `release` and
the assignment in `poll`. `NextSlot` says which slot the scan of `retain` finds
without the loop: the usable slot at the least distance from the cursor.
`Release` takes a set of ids, because `callback_clear` releases several before
anything else can happen, and ids are arbitrary: a stale or wrong id is an
input the code has to survive. The cursor is kept modulo `HANDLE_SLOTS`; the
code's `uint32_t` wraps at a multiple of it, so the two agree.

The refinement maps the table to the set of ids ever issued (those of earlier
generations of their slot, and the current one if it is live) and the set of
ids bound now. A step of `HandleSpace` may unbind any ids and issue any number of
fresh ones, for a command of the bridge may do both at once.

### Bridge

The handle table together with the two flags of a watch, the callback records,
the C call in progress (`frame`), and, as the other side of the interface, what
the driver and the host believe they have: `held` ids, `watches`, `outstanding`
calls. The guest is an environment: which promise it settles when, and which
values it returns, is free. Commands are grouped by what they do to this state:

| Action | Commands |
|---|---|
| `OwnResult`, `Dup` | `global`, `make`, `function`, `get`, `call`, `construct`, `invoke`, `callGlobal`; `dup` |
| `Watch` | `evaluate`, `evaluateModule`, `await`, and the copying `evaluateCopy`, `evaluateModuleCopy`, `callGlobalCopy`, `invokeCopy` |
| `PollCompletion`, `PollFails`, `PollFulfilled`, `PollOwn` | `poll`: the record of a script's completion, a rejection, a result |
| `ReleaseHandle` | `release` |
| `CallCopied`, `CallBegin`, `CallRetain`, `CallRollback` | `host_call`, one step for each `retain` |
| `Events`, `Settle`, `Dispose` | `jss_events`, `settle`, `jss_dispose` |

Commands that only read or write guest properties (`type`, `dump`, `keys`,
`has`, `delete`, `set`, `equals`), and any command that fails before it retains
something that is counted on, change nothing here. The guest's memory may run out,
or an answer exceed its limit, once a command has retained its result: the error is
not fatal (`isFatal` in `src/engine.ts`), and nothing is undone. So `OwnResult`,
`Dup`, `Watch` and `PollOwn` have two outcomes, an id that the host or the driver
learns (`Own`, `Observe`) and one that nobody does (`Lose`); `ReleaseFails` and
`PollUnanswered` are a release and a poll that fail before they release. `lost` is not
in the code: it records these ids, so that `OneOwner` can say that they are the only
bound ids without an owner. Guest code that a settlement runs (a `then`
getter) starts its own host calls before the settled record is cleared; as they
take other records and other slots, they are the same calls made before it.

### EngineDriver

Each field of class `Engine` is a variable. A deadline is kept as the time left
until it, so no clock is needed. A turn is cut into phases (`pc`) because time
passes in every guest entry; nothing else interleaves with it except, in phase
`deliver`, the host code its hooks call. `Execute`, `Settle` and `Dispose` are
enabled exactly when host code can run. A timer callback needs an empty
microtask queue, which is what `~microtask` in `TaskFires` and `ExpiryFires`
says. `EntryFails` is an entry that is fatal: an exhausted or trapped guest at
any time, the deadline given to the guest only when it was reached. `Fatal` is `fatal`
with its two loops (`FatalLoops`) and the rejection of the request in hand by the
`catch` around its entry, and `Dispose` has the loops of `dispose`; what neither
reaches stays waiting, which is what `CauseReachesAll` and `Accounted` would see.

The guest's own job queue is `guestJobs`, beside the driver's last look at it, `jobs`.
A checkpoint comes after that look and after the new calls were taken, and the
getters it runs may take time, start calls and queue jobs; those are `"late"`.

`overdue`, `age`, `cause`, `status` and `call` are not fields: they record why the
engine died, for how long each request, call and the detached jobs have been timed,
what became of each promise, and where each guest call is. The ages grow with time
whatever is done to the deadlines, so that `TimeoutMeansOverdue` compares what the code
computes with what it should have.

### Startup

`Sandbox._create` is modelled at the grain of the microtask queue, because its
correctness depends on the order of reactions: `micro` is that queue, each
action runs its first job, and a promise that settles appends its reactions in
the order they were registered. Inline and worker startup differ in when the
runtime exists and who disposes of it.

### CallbackScope

One callback with its lent handles, across all three layers: what the host does
with them, the driver's queue of commands and queue of settlements, and the
lookups and releases in the bridge. When a turn comes is left open, which
stands for any state of the slice.

### RejectionTracker

The slots of `rejections[]`, the references each slot owns, and as much of a turn
as decides when `jss_events` makes a checkpoint. `Reject` and `Handle` are the
two calls of `rejection_tracker`. The reasons' getters run guest code in the
middle of the checkpoint; `INSPECTION` says what that code does: reject or
handle another promise, handle the promise being reported (`handleOwn`), or
queue work.

### SandboxService, Facade, InlineSandbox and WorkerSandbox

`SandboxService` is what the caller is promised: an accepted operation gets one
answer, a refused one gets its refusal at once, and the end of the sandbox gives
every operation still waiting the cause of the end in the same step.

`Facade` is `Sandbox._request`, `#retire`, the timer and abort listener of each
operation, and `onFatal`. Promises settle in one step and are reacted to in
another (`reactions`), which is where late values and second answers come from.
A transport is the set of requests it holds and its closed flag.

| Action | Code |
|---|---|
| `Refuse`, `RefuseAborted`, `Admit` | the checks and the executor of `_request` |
| `React` | its reaction to the transport's promise: late values, fatal codes, `finish` |
| `Expire`, `TimerFires`, `Abort`, `Dispose` | the deadline passing, its timer running, the abort listener, `dispose` |
| `TransportFails` | `fail` of the worker transport, or `fatal` of an inline engine, then `onFatal` |

`InlineSandbox` adds an engine that answers or dies; `WorkerSandbox` adds the
worker, both channels, replies posted after they settled, replies that
`safeSend` swallows, messages that cannot be posted or decoded, and a worker
that goes away with some of its messages. `EngineAnswers` and `EngineDies` of the
worker, like `InlineAnswers` and `InlineDies`, are the driver's promises to its
caller: that each request is answered once, and all with the cause when the
engine dies, is `Accounted` and `CauseReachesAll` of `EngineDriver`. `MCSandbox` lets the initial state choose the transport, so that
one run covers both.

### WebSocketGuest, WebSocketHost and WebSocket

The two halves are operators from a half's state to its state, named after the
methods and handlers they translate; `WebSocket` makes actions of them and holds
what is between them. Sizes are in chunks of `CHUNK_SIZE` bytes.

| Action | Code |
|---|---|
| `Send`, `Close` | the guest's methods: their effect on the object, and commands in its chain |
| `Issue`, `HostAnswers`, `Return` | the first command of the chain crosses to the host, is handled, and its answer comes back with a report of what is acknowledged and buffered |
| `Farewell` | the close that `#fail` sends past the chain |
| `StartEvent`, `Dispatch`, `Emitted`, `EmitFails` | the host's event chain: one event, in parts if it is a message, dispatched in the guest, delivered or not |
| `NativeOpens`, `NativeMessage`, `NativeError`, `NativeCloses`, `Transmit` | the native socket, which is an environment |
| `PollFires`, `DisposeHost`, `DisposeGuest` | the timer that watches `bufferedAmount`; disposal in the order of `host.mjs` |

The memory of closed sockets is bounded (`maxQueuedEvents`), so `HostAnswers` may
at any time find the record forgotten (`Forgotten`). `emission` is the host's
event chain: at most one event is on its way, and the rest of the queue waits. The
other sockets also share the queue's limits (`queuedEvents`, `queuedBytes`): an
ordinary event may find the queue full because of theirs (`crowded`). `unheard` is
not in the code: it records that the last close event there was for the guest is lost.

### FetchGuest, FetchHost and Fetch

The same form. The guest's pump and body stream, and the host's network, upload
stream and reader, are each a small state machine inside one record. Calls,
answers and events are queues of their own, since nothing orders them against
each other; answers nobody looks at are left out. The outcome of an event's
delivery comes back to the host separately (`ReceiveOutcome`), for `send` awaits
it, and an event may be seen by the guest and still count as failed.

| Action | Code |
|---|---|
| `Abort`, `PullBody`, `CancelBody`, `BodyYields`, `BodyEnds`, `BodyFails` | the guest program and the body it uploads |
| `HandleCall`, `ReceiveAnswer` | `fetch.start`, `fetch.upload`, `fetch.read`, `fetch.cancel` and their answers |
| `Redirected`, `Responded`, `Verified`, `NetworkFails` | `follow`, `startNetwork`, `verifyIntegrity` |
| `UploadPulled`, `UploadCancelled` | what the network does with the upload stream |
| `ReadItem`, `ReadEnds`, `ReadFails` | the network's answer to a read |
| `Deliver`, `DeliveryFails`, `ReceiveOutcome` | `emit` and `send` |
| `TimerFires`, `DisposeHost`, `DisposeGuest` | the timer; disposal in the order of `host.mjs` |

### ModuleLoader

Each load is a record with a list of imports, and every `await` ends a step. An
import that is `"wanted"` is collected next; one that was `"entered"` waits for the
imports of its own module, which come before it in the list. `Collect`, `Stage`,
`Inspected` and `Leave` are thus the recursion of `collect` with its stack made
explicit, and `Return` is where the caller of `collect` goes on: it refuses a
declaration file that is wanted at run time (`Misused`), of an entry as of an import.
`ReadEnds` and `ReadFails` settle a read for all who wait for it. `serial` is the chain
of registrations, which `TakeTurn` joins, and `jobs` that of compilers.

`Register`, `Define` and `Registered` are `registerGraph` and the last part of
`prepareRepl`, with `define_module` of `bridge/engine.c` in `Define`; `AfterFailure` is
its catch block. The compiler sees all records, the additions and the cell at once
(`Texts`), and emits the additions but for declaration files (`Emitted`), which are
recorded all the same. What it finds wrong (`Errors`) is a text that is bad by itself,
or texts that contradict each other, such as two that declare one global
(`Clashes`); `Correct` is a user who corrects a file. A text that is only good beside
another is left out.

## 3. Checks

Deadlock is checked unless said otherwise.

| Run | Bounds | What it shows |
|---|---|---|
| `bridge` | 2 slots, 2 generations, 2 values, 2 records, 1 argument, 2 calls | the receiver and argument of one call fill the table, so every retain of `host_call` and the one in `poll` can fail; ids are used up within a behaviour, a lent id can be disposed of, its slot reused and the id then released by its settlement; every answer may fail. `KeepsHandleSpace`: while the bridge is open its table implements `HandleSpace`. No deadlock check: after `Dispose` nothing runs |
| `driver` | 2 requests, 1 call, timeout 3, slice of 1 tick and 2 turns, batch 1, 2 job batches, entries of up to 3 ticks, no symmetry | with a batch of 1 and a slice of 1 every loop ends early as well as late; an entry can miss the slice, the nearest deadline or all of them. Requests, calls and detached jobs end, host timers keep running |
| `startup` | up to 2 globals | every order of initialization, abort and timer, with up to one extra microtask hop; startup always ends. No deadlock check: startup stops |
| `startup_abort_leak` | no globals | finding 1 |
| `callback_scope` | 2 lent handles, 3 copies, 3 operations | operations by the callback and by other host code, before and after the settlement. No deadlock check: the host may stop |
| `callback_scope_overtake` | 1 lent handle, 1 copy, 1 operation | finding 2 |
| `sandboxes` | 2 operations and a release (over a worker 1 and the release), capacity 1 | every order of answers, timers, aborts, death and disposal; the operations compete for the slot that the release needs not have. Over a worker also crashes, lost replies and failing posts. Both implement `SandboxService`. No deadlock check: every operation is used up |
| `rejections` | 3 promises, 2 slots, inspection that rejects or handles other promises or queues work | the tracker overflows, slots are freed and taken during the checkpoint; nothing is lost or reported twice. No deadlock check: an overflow ends the engine |
| `rejections_own_handler` | the same, inspection that may handle its own promise | finding 3 |
| `websocket` | buffer of 3 chunks, 2 queued events, sends of 1 or 4 chunks (1 of them), 2 messages of 2 chunks, 1 poll, 2 lost events | a send that fits and one that does not, a message in two parts, a full queue when the socket fails or closes, commands that arrive after the end, an event that is lost and then the news of it. No deadlock check: a socket ends |
| `fetch` | bodies of 2 chunks, 1 redirect, reads of 2 chunks, 1 lost event | a body at its limit and one beyond it, a read that leaves a remainder, an upload whose demand comes early, and the end of the fetch, from either side, at every point. No deadlock check: a fetch ends |
| `module_loader` | 2 loads, 8 modules: two that import each other through a redirect, one declaration file with two users and a third that misuses it, one text that clashes with it, 1 REPL cell; 4 sources, a registry for 2 modules, 1 fault | loads that stage the same module, a graph that does not fit into the registry, one that clashes with what the other load has registered, a failing read, compiler or definition, a corrected text, disposal at every point. No deadlock check: both loads are used up |

Properties worth naming, by the question they answer:

- *Does an id ever name the wrong value?* `KeepsHandleSpace`,
  `StaleReleaseIsHarmless`, `OneOwner`.
- *Is anything leaked or refused without need?* `OneOwner`,
  `OutstandingIsSent`, `SlotsAccounted`, `FreedTogether`.
- *Is every operation answered once, for the right reason?* `Accounted`,
  `CauseReachesAll`, `EverythingEnds`, `SettlementArrives`, `ImplementsService`,
  `WorkerRequestsTravelOnce`, `OperationSettles`, `NoLateValue`.
- *Do the sandbox and its engine end together?* `ClosedTogether`.
- *Is every unhandled rejection reported, once?* `OnlyUnhandledReported`,
  `ReportedInTheEnd`, `ReferencesOwned`.
- *Does the scheduling work?* `WorkIsScheduled`, `HostTimersRun`,
  `TimeoutMeansOverdue`, `ExpiryCovers`, `EverythingEnds`.
- *Does a lent handle last as promised?* `BorrowedUntilSettled`,
  `AwaitedOperationsSucceed`, `ReturnedHandleConverts`, `WatchesFaithful`.
- *Does a failed startup clean up?* `TimeoutDoesNotLeak`, `ResolvedIsUsable`,
  `StartupEnds`.
- *Do the two halves of a socket agree?* `BufferedAmountCovers` (unless the
  delivery of an event failed, see the observations), `EventsInOrder`,
  `RacesAnswered`, `BothEndsClose`.
- *Does a fetch move its bodies, and end?* `BodiesFaithful`, `FreedTogether`,
  `NoDemandLost`, `FetchEnds`.
- *Can a module that loads be linked, and does it load in the end?*
  `RegisteredWhole`, `FailuresStayLocal`, `LoadsSettle`.

### Why the bounds are enough

The handle table treats all slots alike and all generations but the last alike;
two slots give the cursor a slot at it and one ahead of it, two generations give
a reuse and a retirement, and the proofs remove the bound altogether. In the
bridge an interference needs one owner that loses an id and one that gains its
slot; two calls are one in each record, or one after another in the same. In the driver the limits only decide after how many steps a loop ends, and
both outcomes of each comparison occur; two requests and a call allow one to wait
while the other is handled. Operations of a sandbox meet only in its capacity and
at its end: one more than the capacity, and a release that ignores it, show both;
the proofs remove the bound. The tracker needs one promise more than it has slots
to overflow.

Two fetches share nothing but the limit on their number, which is left out. Sockets
also share the records of closed sockets and the room in the queue of events: this
one's record may be forgotten at any time, and its queue may be full however little it
holds. A message or body of two chunks has a first part, a last part and a middle
between them; whatever a third chunk could do it does between two that are already
there. (The parts of a *send* are not cut short in the same way: the run's sends of
one command either fit or are refused, and the proof of `RacesAnswered` covers the
others.) Of a fetch one lost event shows what becomes of the other side, since the
host is released after the first. A socket's host tells of the loss in two more
events, which may be lost too, without being told of again: two lost events are the
first that leave the guest without news, and a third adds nothing, because the host
keeps nothing of the socket after the first.

Loads meet in shared sources, inspections, the two chains, the registry and the texts
that are compiled together, always two at a time. Their pending limit is set to what
the two can reach together, so the refusal itself is not exercised by the run; with
three loads it would be.

### Fairness

The driver's fairness is that of JavaScript: a turn that has begun runs to its
end and a queued microtask runs (`WF` of `TurnStep`); a due timer's callback runs
once no microtask is in front of it (`WF` of `TaskFires` and `ExpiryFires`). Time
passes (`SF` of `Tick`): strong, because turns may disable `Tick` again and
again, and yet no host can hold the clock. Every guest entry returns, because
the interrupt handler ends it at its deadline. Nothing is assumed of the host
or of the guest: calls may never be settled, promises may never be, jobs may
go on for ever. In `Startup` microtasks run, the timer fires and each `set`
ends; in `CallbackScope` a scheduled turn comes, which `EngineDriver`'s
`WorkIsScheduled` and `HostTimersRun` justify, and an async function goes on. In
the sandbox modules queued reactions run, time passes, a due timer runs, and a
posted message is received; neither an engine nor a worker has to answer. In
`WebSocket` the steps of both halves and of the adapter between them happen, and a
native socket that is asked to close does; it need not open, nor send. In `Fetch`
calls, answers, events and outcomes arrive and the timer fires; neither the
network nor the guest program has to do anything. In `ModuleLoader` promises are
reacted to, and reads and compilers end, for both have timers. In
`RejectionTracker` a scheduled turn comes and its checkpoint ends; the host need
not send another command.

### Findings

1. **An aborted inline startup can leak its engine** (`startup_abort_leak`).
   `src/core.ts:96`: "A late successful initialization after timeout must not
   leak its runtime." The check reads `#closed`, which is set only when the catch
   block runs. If the abort listener runs in a microtask just ahead of the one
   that makes the engine available, its rejection wins the race, the check sees
   `#closed` still false, the catch block finds no `#transport`, and nobody
   disposes of the engine. The timer, a task of its own, cannot come so close:
   `TimeoutDoesNotLeak` holds, and for a worker whatever wins, for the catch block
   terminates the worker itself.
2. **A settlement overtakes operations in flight** (`callback_scope_overtake`).
   `docs/design.md:90`: "An in-flight operation retains its operands until
   completion." An operation that a callback starts on a lent handle and does
   not wait for is still in the queue when the settlement, in the control queue,
   releases the handle; it then fails with `ERR_HANDLE`. An operation that is
   awaited, or on a handle the host owns, cannot be hit
   (`AwaitedOperationsSucceed`).
3. **A rejection handled while it is reported is given back twice**
   (`rejections_own_handler`). `docs/design.md:128`: "Every success/failure path
   has a cleanup owner." `jss_events` builds the report of a live slot
   (`engine.c:864`), which may run getters of the reason. If one of them attaches
   a handler to that very promise, `rejection_tracker` frees the slot's two values
   and the code after the inspection frees them again (line 873). A handler on
   any other promise does no harm: `ReferencesOwned` holds in `rejections`.

### Observations

What the models show besides, mostly as an exception that a property has to state.
Three of these disagree with a text of the repository:

- **A value can be left without an owner.** `docs/design.md:128`: "Every success/failure
  path has a cleanup owner." A command retains its result before `success` serializes
  the answer with its id. When `serialize` then fails (`engine.c:196-207`), the caller
  gets `ERR_RESOURCE_LIMIT`, which is not fatal, and the id stays bound: as a handle
  the host never learns of, or as a watch the driver never polls. The same holds of a
  release, or the poll of a pending watch, that fails before it is carried out. Only
  the sandbox's disposal frees such a value. `OneOwner` counts these ids as `lost`; it
  shows that there are no others without an owner, and that nobody comes to own them.
- **What a checkpoint's getters start is neither scheduled nor timed.**
  `docs/design.md:149-150`: "Background jobs have a per-turn budget; detached host calls
  have a deadline and belong to the sandbox." The turn looks at the job queue
  (`engine.ts:287`) before the checkpoint (line 288), and `jss_events` takes the new
  host calls before it runs the getters of the reasons it reports (`engine.c:864`).
  Jobs that these queue, calls that they start and rejections that they make in slots
  already passed are known to nobody: no turn is scheduled, no deadline runs, and they
  wait for the host's next command. `WorkIsScheduled` and `EverythingEnds` speak of
  jobs that are not `"late"` and of calls that were sent; `ReportedInTheEnd` states the
  exception for rejections.
- **The limit on modules is not one on a graph.** `examples/README.md:45-46`: "Source
  limits are 1 MiB per module, 128 files and 16 MiB per graph." The loader counts all
  sources it has ever read (`modules.mjs:181`, and line 186 for their bytes), so that a
  load with a small graph is refused as "Module graph exceeds 128 modules" once other
  loads, failed ones included, have used the limit up. `FailuresStayLocal` speaks of
  the compiler's refusals and of duplicates, not of this one.

The others no text speaks against:

- When the delivery of an event fails after a socket was closed, `deliveryFailure`
  (`websocket-host.mjs:53`) replaces its record by one with an older report, and
  the guest's `bufferedAmount` may count acknowledged bytes or miss others.
  `BufferedAmountCovers` states this exception.
- The news that a socket's events are lost is sent once, as an error and a close
  event of which each may be lost (`websocket-host.mjs:59-63`, "One bounded best-effort
  attempt"): the guest's socket may then stay `closing`, or open until its next
  command is refused. `BothEndsClose` states this exception (`unheard`); the host has
  let go of the socket in any case.
- A network that cancels an upload while a chunk is on its way makes the host's
  `enqueue` throw (`fetch-host.mjs:211`); the guest then fails the whole fetch,
  although the response may have arrived (`fetch-guest.js:345`).
- The rejection of a chunk on its way can overtake `fetch.error`, so a timeout may
  reach the program as "Fetch resource is closed".
- `fail` sends `fetch.error` once and does not look at the outcome
  (`fetch-host.mjs:67`): if it is lost, the guest waits for ever. `newsLost` is
  this case in `FreedTogether` and `FetchEnds`.
- The text of a module that failed to type-check stays among the sources
  (`modules.mjs:179`), and so does an inspection that failed (line 209): correcting
  the file does not help, although a later load of other modules is not disturbed,
  which is what the comment in line 233 says and `FailuresStayLocal` checks.
- Texts that contradict what is registered are refused, whichever load registered it:
  records are compiled with every later graph, which is what "Local and remote
  dependency graphs are checked together" (`examples/README.md:32-33`) says.

## 4. Proofs

Every safety invariant and action property that a passing run checks is a theorem
of its specification, but one (`BufferedAmountCovers`, see the end of this section).
Eight modules are checked by TLAPS, from the named assumptions on the constants
only: sizes are positive, the set of values is not empty, the set of operations
is finite; borrowed handles are not copies (`HandlesAssumption`); the call that
stands for none is not a call (`UnhandledAssumption`); redirects are resolved
(where a redirected URL leads is not redirected again) and a REPL cell, which is
no URL, is not redirected (`ModulesAssumption`). One theorem, `ReferencesAreOwned`,
has a hypothesis of its own, explained with it.

Where an invariant needs much of the state it is proved in layers: each layer is
inductive given those before it, so that its proof has to consider only the
actions that disturb it. In the long proofs each action first gets a lemma on its
effect (what becomes of which record, what stays), and the layers are proved from
these lemmas rather than from the actions.

`BridgeProofs`, first of the table alone:

- `TableTypeCorrect`: `TableTypeOK` is inductive as it stands. Its last conjunct,
  that a live slot is below the last generation, is what makes `release` unable
  to exceed it.
- `TableImplementsHandleSpace`: the lemmas `RetainMaps`, `ReleaseMaps`,
  `ReplaceMaps` and `StutterMaps` show what each operation does to the ids issued
  and bound. They rest on `IdRoundTrip`, `IdDecomposition` and `IdInRange`:
  ids and pairs of slot and generation correspond one to one. The division
  facts behind them are proved from the definition of `\div` and `%`.
- `StaleReleaseHarmless`: the action property, from the same invariant.

The module carries these results over to the bridge, where a command retains,
releases and replaces on its own conditions. `TableSteps` shows that every step of
the bridge is a step of the table, or leaves it alone, or ends the bridge; the
lemmas on the table do the rest: `BridgeTableTypes`, `BridgeKeepsHandleSpace`,
`BridgeReleasesAreHarmless`. For these the invariant is `TableTypeOK` with the
type of the result that a poll in progress has still to retain (`Result`).

Ownership needs more. The invariant `IInv` has three layers, `TableInv` above,
`Calls` and `Owned`:

- `BridgeTypes`: all the types, `frame` of the C call in progress included.
- `CallsAreAnswerable`: `OutstandingIsSent` is inductive only with what a record is:
  its id is one of those numbered so far, so that the next is new; a record that
  is not live is empty, so it was never sent (`Records`); and the record a call in
  progress is filling is live and not sent (`Collecting`). This is `Calls`.
- `ValuesHaveOneOwner`: `OneOwner` needs that every id owned or lost was issued
  (`Issued`), for only then is a fresh id of `Retain` known to be nobody's; that the watch a
  poll is answering was released before its result is retained (`Wanting`); that
  every other watch is bound to a slot with the flags asked for (`Polled`); and
  that nothing is owned after disposal (`Disposed`). This is `Owned`.
- `WatchesAreFaithful` follows, and so does the action property
  `HandlesOutliveTheCall`: a step that unbinds an id of a live record, other than
  the call's own end, takes the id from the host, who held it.

`EngineDriverProofs`:

- `WakeupsAreNotLost`: `WorkIsScheduled`, with `JobsKnown`: when the driver delivers
  the events of a turn it knows of every job in the guest but those that the
  checkpoint's getters queued. One step for each action, over lemmas on `Schedule` and
  `Drop`.
- `DriverTypes`: the types, which need `SliceCounted`: the turns of a slice are
  within the limit unless the slice ends.
- `DeadlinesAreCovered`: `ExpiryCovers`, over lemmas on `ArmExpiry`. The first
  deadline exists because the deadlines are naturals (`WFMin`), and a tick lowers
  them and the timer alike.
- `NothingIsForgotten`: `Accounted`, in two halves (`RequestsAccounted`,
  `CallsAccounted`). Of the requests it needs that those polled are watched
  (`PolledAreWatched`); of the calls, that those among the events to deliver were sent
  and not delivered (`EventsAreSent`).
- `EveryoneIsTold`: `StepsThatEnd` shows what each way to end the engine does: it gives
  a cause to the waiting requests that its loops visit, and leaves the others. That
  these loops visit all who wait follows from `RequestsAccounted`.
- `TimeoutsAreDue`: `Clocked` ties the deadlines to the ages, which time alone
  advances: what has a deadline has an age, and the two add up to `TIMEOUT`. So a
  deadline that was reached belongs to something that has lasted its time
  (`ReachedIsLate`, `PassedIsLate`). It needs one step for each action, because every
  one that starts, keeps or ends a deadline has to treat the age likewise.

`RejectionTrackerProofs`:

- `HandledAreNotReported`: a checkpoint reports what nobody had handled when it
  began to inspect the reason, and nothing twice. The invariant says what a live
  slot holds (`LiveAreUnhandled`), that no two hold the same (`TrackedOnce`), and
  what is known of the slot under inspection after guest code ran (`Inspecting`):
  it may have been handled meanwhile, and even have been given to another
  promise, which the report then takes down.
- `ReferencesAreOwned`: the references are those of the live slots, *if*
  `"handleOwn"` is not among the inspections, which is how `rejections` is
  instantiated. Without this hypothesis it is false; this is finding 3.

`ModuleLoaderProofs`, for any import graph, any loads and any limits. The three
layers of `IInv`:

- `Structure`: what a load holds in each phase (`Shaped`), only the first of the
  chain compiles or defines (`OneTurn`), and a compiler that runs for a load is
  the one it waits for (`JobsAwaited`).
- `Local`: what a load stages or has still to collect is in the graph of its entry
  (`Within`); what is registered was compiled without an error, all of it together
  (`Compiled`), and so a new error among records and additions is in the graph or
  with it (`Blamed`). `FailuresAreLocal` needs that `Blamed` speaks of texts that were
  read and of cells only, since a file may be corrected later.
- `Whole`: while a load collects, every import of what it staged is collected and
  used as it may be, or is in the list (`Covering`); so when the list is empty records
  and staged modules are complete, misuse no declaration file, and hold the graph
  (`QueuedIsClosed`). What the load with the turn has still to define closes the
  graph over what is registered (`Closing`), declaration files apart, which survives
  the disposal of the loader between two definitions.

`RegistrationsAreWhole` and `FailuresAreLocal` follow. The graph of an entry is
defined as the intersection of the complete sets around it, without recursion;
`GraphRoot`, `GraphClosed` and `GraphLeast` are all that the proofs use of it.

`SandboxProofs` begins with the facts both sandboxes share. Its invariant `IInv`
joins the types, `SlotsMatch` (`#pending` is the set of unanswered operations, within
capacity), `ClosedTogether` and `EndIsKnown`: once the sandbox has ended, nobody
waits and the transport holds nothing; until then every waiting reaction carries
a value or a guest error. The last is what makes a retired operation's second
answer harmless, and what rules out a first answer that announces an end the
sandbox does not know of.

- `InlineInvariant`, `InlineSlotsAccounted`, `InlineNoLateValue`,
  `InlineImplementsService`: `IInv` is inductive for an inline engine, and each
  step is a step of `SandboxService` or a stutter.
- `WorkerInvariant` adds the state of the channels. `FatalFirst`: a reply with an
  error that only a dead engine gives is never in front of the fatal message
  that announces the death. `DeathAnnounced`: a dead engine's cause is in the
  channel or has arrived. Without them an operation could be answered with the
  engine's end before the sandbox knows of it, which the service forbids.
- `WorkerClosedTogether`, `WorkerSlotsAccounted`, `WorkerNoLateValue`,
  `WorkerImplementsService` follow, for any number of operations and whatever
  becomes of worker and messages.
- `WorkerRequestsTravel`: while both ends live a request is in exactly one of the
  places between them (`RequestsTravelOnce`, which the run `sandboxes` checks of the
  worker's sandbox). Besides `WorkerInvariant` it needs that only operations that
  were admitted are held, so that a new one is in none of the places.
- `EitherClosesTogether`, `EitherSlotsAccounted`, `EitherNoLateValue`,
  `EitherImplementsService` and `RequestsTravelInEitherKind` say the same of
  `MCSpec`, which the run checks: the initial state chooses the transport, nothing
  changes the choice afterwards, and each step is one over the transport chosen
  (`EitherSteps`).

`CoreProofs`, of a callback and of startup:

- `ReturnedHandlesConvert`, `OperandsOutliveTheWait`: whatever the host may still
  use is live in the bridge (`UsableIsLive`), since a release waits in the queue
  behind every operation on its handle (`NoneReleasedBefore`). So the operand of a
  queued operation is live unless it is a borrowed handle whose scope has ended
  (`OperandsLive`). The callback waits for one operation at most and cannot return
  while it waits (`Numbered`, `OneAwaited`); hence an operation awaited is never
  one of those. `SettlesWithValue` carries the returned value to the settlement.
- `ResolvedSandboxWorks`, `NothingLeaksAfterTimeout`: initialization ends once
  (`Creation`), the race ends with its first reaction (`Raced`), and what follows
  the race is one control flow (`Stages`), whatever jobs of initialization are
  queued around it. The timer is a task of its own, so nothing slips between it
  and the end of the race, and a later engine finds the sandbox closed (`TimedOut`).
  For the abort of an inline startup, which is no such task, the same fails: this
  is finding 1.

`FetchProofs`, for any limits, any reads of the network and any number of lost
events. The layers of `IInv`:

- `Starts`, `Messages`, `Freed`: the first call starts the fetch, and what is on its
  way says what has happened: a cancellation, that the guest has given up; an
  error, that the host has. `NeitherSideIsLeft` (`FreedTogether`) follows.
- `OneUpload`, `Exhausts`, `Uploaded`: the pump has one chunk on its way, as a call
  or as its answer; a body that has ended is not read again; while the host takes
  chunks it has all that were produced but the one on its way.
- `OneRead`, `Received`: a read is in one place, and the guest has what the network
  gave but for the remainder kept and the chunk on its way. With `Uploaded` this
  gives `BodiesArrive` (`BodiesFaithful`).
- `Cancels`, `DemandsKept`: a side that waits for a chunk has its demand somewhere:
  the guest's is a call, a read of the network or an event; the host's is an event,
  or with the pump, or a call; or the outcome that ends the fetch is on its way.
  `DemandsArrive` (`NoDemandLost`) follows.

Lemmas say once what becomes of calls, answers, events and outcomes when one is
added and when the first is taken, and what each operator of a half changes; the
actions are proved from them.

`WebSocketProofs`, for any sizes, limits and number of lost events. `IInv` says
where each of the two chains is:

- The events. `Streaming`: some function counts the messages before each event of
  the queue (`Counted`), the open event has none before it (`OpensAt`), and the
  event at the head is the next that the guest has not seen (`HeadCrosses`);
  `Emitting`: the part of a message that crosses begins where the guest is.
  `EventsArriveInOrder` (`EventsInOrder`) follows.
- The commands. What the host, or the record it left when it closed, holds of the
  transfer and of the acknowledged sequence is what the call on its way expects
  (`Conversation`, with `Expected`, `AckHeld` and `NotOpened`). A command is then
  refused only after a failure or when the record is gone: `RacesAreAnswered`
  (`RacesAnswered`).

Once the socket has failed, or is closed, on one side, the other side's place does
not count, and both layers are implications for this reason.

Only model-checked:

- Liveness under fairness, which TLAPS does not reach: `EverythingEnds`,
  `HostTimersRun`, `StartupEnds`, `SettlementArrives`, `OperationSettles`,
  `ReportedInTheEnd`, `BothEndsClose`, `FetchEnds` and `LoadsSettle`.
- `BufferedAmountCovers`. An acknowledgement subtracts the sizes of all the messages
  it covers, a sum over a set; that such a sum grows by what is added to the set
  is an induction over data, which the provers cannot be given.

## 5. Not modelled, and the plan

Left out on purpose:

- contents of guest values and their conversion (`src/codec.ts`,
  `bridge/codec.js`): pure functions on data that every model here abstracts; the
  two sides' different charges for the same value are a hazard no property covers;
- wording of errors, and the byte layout of bridge messages;
- `module_normalize` and `module_load`, which read the registry only, and limits
  on bytes in the registry and the loader;
- in the capabilities: FormData, the file system, timers, console, URLs and
  streams, and the limits on the number of sockets and fetches;
- adapters, publishing tool, benchmarks, tests, the TypeScript compiler, and
  QuickJS itself, whose promises, jobs and interrupts appear as choices.

Planned: host calls and settlements through the worker's channels, which would
join `CallbackScope` with `WorkerSandbox`, and the table of host functions
(`#register`).
