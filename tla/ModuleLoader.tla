---------------------------- MODULE ModuleLoader ----------------------------
(***************************************************************************)
(* The loader of guest modules (examples/capabilities/modules.mjs) and the  *)
(* sandbox's registry that it fills (bridge/engine.c: define_module).      *)
(*                                                                         *)
(* A load walks the import graph, reading and inspecting one module after  *)
(* another, into records of its own ("staged"); sources and inspections    *)
(* are shared with the other loads.  Then it takes its turn in the serial   *)
(* chain, where the graph is compiled and the records that nobody else has *)
(* registered are defined in the sandbox, one by one.  One compiler runs   *)
(* at a time.  Every await lets other loads run, and is a step here.        *)
(*                                                                         *)
(* A cell of the REPL is loaded like a module, but is registered nowhere.  *)
(* Declaration files (.d.ts) are read, checked and recorded, and are never  *)
(* defined: what imports one has to import it as a type.                    *)
(*                                                                         *)
(* The texts of a graph are checked together with those that are recorded. *)
(* A text is bad by itself, and may be corrected, or texts clash with each *)
(* other, as two that declare a global differently.  (That one may be good *)
(* only beside another is left out.)  Sizes are left out: of the limits,    *)
(* those on numbers are modelled.                                          *)
(*                                                                         *)
(* A definition marked "fault" is a plausible mistake in the one below it. *)
(* No action uses it: it is there to show that a property can fail.        *)
(***************************************************************************)
EXTENDS Integers, Sequences, FiniteSets

Seqs == INSTANCE SequencesExt

CONSTANTS
    Modules,         \* the URLs in use, and the cells
    Cells,
    Declarations,    \* those of the URLs where a declaration file is found
    Clashes,         \* sets of modules whose texts contradict each other
    Imports,         \* the specifiers in a module: URLs, wanted at run time or as a type
    Redirect,        \* where the text of a URL is found: mostly at the URL
    Loads,
    Entries,         \* what a load may ask for
    MAX_MODULES,     \* 128: sources that are read
    MaxPending,      \* loads that are pending: MAX_MODULES again in the code
    MaxRegistered,   \* the modules that the sandbox's registry has room for
    MaxFaults        \* bound: reads, compilers and definitions that fail

ASSUME ModulesAssumption ==
    /\ Cells \subseteq Modules /\ Entries \subseteq Modules /\ Declarations \subseteq Modules \ Cells
    /\ Clashes \subseteq (SUBSET Modules) \ {{}}
    /\ Imports \in [Modules -> Seq([url : Modules \ Cells, runtime : BOOLEAN])]
    /\ Redirect \in [Modules -> Modules]
    /\ \A m \in Modules : Redirect[Redirect[m]] = Redirect[m]
    /\ \A c \in Cells : Redirect[c] = c
    /\ \A m \in Modules \ Cells : Redirect[m] \notin Cells
ASSUME BoundsAssumption == {MAX_MODULES, MaxPending, MaxRegistered, MaxFaults} \subseteq Nat

VARIABLES
    load,         \* the loads, each an asynchronous call
    records,      \* registered modules
    aliases,      \* URLs whose redirection is known
    sources,      \* texts that were read, by final URL
    reads,        \* URLs being read
    inspection,   \* of a source: none, running, ok or failed
    jobs,         \* the chain of compilers: the first one runs
    serial,       \* the chain of registrations
    registry,     \* what the sandbox has been given
    disposed,     \* no, broken by a half-registered graph, or disposed of
    bad,          \* modules and cells whose text does not type-check
    faults        \* counter of the bound

shared == <<aliases, sources, reads, inspection>>
vars == <<load, records, shared, jobs, serial, registry, disposed, bad, faults>>

NoLoad == [phase |-> "idle", entry |-> "none", at |-> "none", todo |-> <<>>, staged |-> {},
           additions |-> {}, left |-> {}, reason |-> "none"]

Init ==
    /\ load = [l \in Loads |-> NoLoad]
    /\ records = {} /\ aliases = {} /\ sources = <<>> /\ reads = {} /\ registry = {}
    /\ inspection = [m \in Modules |-> "none"]
    /\ jobs = <<>> /\ serial = <<>> /\ disposed = "no" /\ faults = 0
    /\ bad \in {{}} \cup {{m} : m \in Modules}

Alive == disposed = "no"
Final(m) == IF m \in aliases THEN Redirect[m] ELSE m
AtRest(phase) == phase \in {"idle", "resolved", "rejected"}
Pending == {l \in Loads : ~AtRest(load[l].phase) /\ load[l].entry \notin Cells}

Move(l, phase) == [load EXCEPT ![l].phase = phase]
Rejected(ls, reason) ==
    [l \in Loads |-> IF l \in ls THEN [load[l] EXCEPT !.phase = "rejected", !.reason = reason] ELSE load[l]]

Fault == faults < MaxFaults /\ faults' = faults + 1
Inspect(m) == [op |-> "inspect", module |-> m]
Cell(l) == [op |-> "cell", load |-> l]
Compile(l) == [op |-> "compile", load |-> l]
-----------------------------------------------------------------------------
(* load and prepareRepl, up to their first await.  What is left to do is a  *)
(* list of imports: those that wait to be collected, and those that were    *)
(* entered and return when their own imports, which come before them, have. *)

Item(import, status) == [import |-> import, status |-> status]
Wanted(m) == [p \in DOMAIN Imports[m] |-> Item(Imports[m][p], "wanted")]
Executed(m) == [url |-> m, runtime |-> TRUE]

Begun(m, phase, todo) == [NoLoad EXCEPT !.entry = m, !.phase = phase, !.todo = todo]
Refused(m, reason) == [NoLoad EXCEPT !.entry = m, !.phase = "rejected", !.reason = reason]

Begin(l, m) ==
    /\ load[l].phase = "idle"
    /\ load' = [load EXCEPT ![l] =
                   CASE ~Alive -> Refused(m, "disposed")
                     [] Alive /\ m \in Cells -> Begun(m, "cell", <<>>)
                     [] Alive /\ m \notin Cells /\ Cardinality(Pending) >= MaxPending -> Refused(m, "pending")
                     [] OTHER -> Begun(m, "walk", <<Item(Executed(m), "wanted")>>)]
    /\ jobs' = IF load'[l].phase = "cell" THEN Append(jobs, Cell(l)) ELSE jobs
    /\ UNCHANGED <<records, shared, serial, registry, disposed, bad, faults>>
-----------------------------------------------------------------------------
(* collect, and sourceFor.                                                 *)

Walking(l) == load[l].phase = "walk"
Upcoming(l) == Head(load[l].todo)
Collected(l, m) == m \in records \cup load[l].staged

(* A declaration file cannot be executed, nor be imported at run time.     *)
Anything(import) == FALSE   \* fault
Misused(import) == import.runtime /\ Redirect[import.url] \in Declarations

(* The import is collected, and whoever wanted it goes on.                 *)
Return(l) ==
    IF Misused(Upcoming(l).import) THEN Rejected({l}, "declaration")
    ELSE [load EXCEPT ![l].phase = "walk", ![l].todo = Tail(@)]

(* All of a module's own imports are collected.                            *)
Leave(l) ==
    /\ Walking(l) /\ load[l].todo # <<>> /\ Upcoming(l).status = "entered"
    /\ load' = Return(l)
    /\ UNCHANGED <<records, shared, jobs, serial, registry, disposed, bad, faults>>

(* The load waits for its turn.                                            *)
TakeTurn(l) ==
    /\ Walking(l) /\ load[l].todo = <<>>
    /\ load' = Move(l, "queued") /\ serial' = Append(serial, l)
    /\ UNCHANGED <<records, shared, jobs, registry, disposed, bad, faults>>

Fetch(l, phase, m) == [load EXCEPT ![l].phase = phase, ![l].at = m]

Collect(l) ==
    /\ Walking(l) /\ load[l].todo # <<>> /\ Upcoming(l).status = "wanted"
    /\ LET m == Final(Upcoming(l).import.url)
           full == Cardinality(DOMAIN sources) + Cardinality(reads) >= MAX_MODULES
           known == m \in DOMAIN sources \/ m \in reads
       IN  /\ load' = IF ~Alive THEN Rejected({l}, "disposed")
                      ELSE IF Collected(l, m) THEN Return(l)
                      ELSE IF m \in DOMAIN sources THEN Fetch(l, "sourced", m)
                      ELSE IF ~known /\ full THEN Rejected({l}, "limit")
                      ELSE Fetch(l, "reading", m)
           /\ reads' = IF Alive /\ ~Collected(l, m) /\ ~known /\ ~full THEN reads \cup {m} ELSE reads
    /\ UNCHANGED <<records, aliases, sources, inspection, jobs, serial, registry, disposed, bad, faults>>

(* readSource has the text, perhaps from another URL; all who wait for it   *)
(* get the one that was stored first.                                      *)
Readers(m) == {l \in Loads : load[l].phase = "reading" /\ load[l].at = m}

Stored(m) ==
    [s \in DOMAIN sources \cup {m} |->
        IF s \in DOMAIN sources THEN sources[s] ELSE IF m \in bad THEN "bad" ELSE "good"]

ReadEnds(m) ==
    /\ m \in reads /\ reads' = reads \ {m}
    /\ IF Alive
       THEN /\ aliases' = aliases \cup {m} /\ sources' = Stored(Redirect[m])
            /\ load' = [l \in Loads |-> IF l \in Readers(m)
                                        THEN [load[l] EXCEPT !.phase = "sourced", !.at = Redirect[m]] ELSE load[l]]
       ELSE load' = Rejected(Readers(m), "disposed") /\ UNCHANGED <<aliases, sources>>
    /\ UNCHANGED <<records, inspection, jobs, serial, registry, disposed, bad, faults>>

ReadFails(m) ==
    /\ m \in reads /\ reads' = reads \ {m} /\ Fault
    /\ load' = Rejected(Readers(m), "read")
    /\ UNCHANGED <<records, aliases, sources, inspection, jobs, serial, registry, disposed, bad>>

(* The module becomes a record of this load, unless it has become one      *)
(* meanwhile, and its imports are wanted: from the inspection of its       *)
(* source, which is done once for all loads.                               *)
Stage(l) ==
    /\ load[l].phase = "sourced"
    /\ LET m == load[l].at
           fresh == Alive /\ ~Collected(l, m)
       IN  /\ load' = IF ~Alive THEN Rejected({l}, "disposed")
                      ELSE IF Collected(l, m) THEN Return(l)
                      ELSE [load EXCEPT ![l].phase = "inspecting", ![l].staged = @ \cup {m}]
           /\ IF fresh /\ inspection[m] = "none"
              THEN inspection' = [inspection EXCEPT ![m] = "running"] /\ jobs' = Append(jobs, Inspect(m))
              ELSE UNCHANGED <<inspection, jobs>>
    /\ UNCHANGED <<records, aliases, sources, reads, serial, registry, disposed, bad, faults>>

Enter(l) == Wanted(load[l].at) \o <<[Upcoming(l) EXCEPT !.status = "entered"]>> \o Tail(load[l].todo)

Inspected(l) ==
    /\ load[l].phase = "inspecting" /\ inspection[load[l].at] \in {"ok", "failed"}
    /\ load' = IF inspection[load[l].at] = "failed" THEN Rejected({l}, "inspection")
               ELSE [load EXCEPT ![l].phase = "walk", ![l].todo = Enter(l)]
    /\ UNCHANGED <<records, shared, jobs, serial, registry, disposed, bad, faults>>
-----------------------------------------------------------------------------
(* registerGraph, one load at a time.                                       *)

EveryStaged(l) == load[l].staged   \* fault
Additions(l) == load[l].staged \ records

KeepTurn(phase) == IF phase = "resolved" THEN Tail(serial) ELSE serial   \* fault
PassTurn(phase) == Tail(serial)
End(l, phase, reason) ==
    /\ load' = [load EXCEPT ![l].phase = phase, ![l].reason = reason]
    /\ serial' = PassTurn(phase)

Register(l) ==
    /\ serial # <<>> /\ Head(serial) = l /\ load[l].phase = "queued"
    /\ IF ~Alive THEN End(l, "rejected", "disposed") /\ UNCHANGED jobs
       ELSE IF Additions(l) = {} /\ load[l].entry \notin Cells THEN End(l, "resolved", "none") /\ UNCHANGED jobs
       ELSE /\ load' = [load EXCEPT ![l].phase = "compiling", ![l].additions = Additions(l)]
            /\ jobs' = Append(jobs, Compile(l))
            /\ UNCHANGED serial
    /\ UNCHANGED <<records, shared, registry, disposed, bad, faults>>

(* What a compilation emits: nothing for a declaration file.               *)
Emitted(l) == load[l].additions \ Declarations

(* A definition failed: a graph that is half registered cannot be repaired. *)
StayAlive(l) == disposed   \* fault
AfterFailure(l) == IF load[l].left # Emitted(l) /\ Alive THEN "broken" ELSE disposed

DefinitionFails(l, reason) ==
    /\ End(l, "rejected", reason)
    /\ disposed' = AfterFailure(l)
    /\ UNCHANGED registry

Define(l, m) ==
    /\ load[l].phase = "defining" /\ m \in load[l].left
    /\ IF ~Alive THEN DefinitionFails(l, "disposed")
       ELSE IF m \in registry THEN DefinitionFails(l, "duplicate")
       ELSE IF Cardinality(registry) >= MaxRegistered THEN DefinitionFails(l, "registry")
       ELSE /\ registry' = registry \cup {m}
            /\ load' = [load EXCEPT ![l].left = @ \ {m}]
            /\ UNCHANGED <<serial, disposed>>
    /\ UNCHANGED <<records, shared, jobs, bad, faults>>

(* The sandbox refuses the operation, with too many of them outstanding.   *)
DefineRefused(l) ==
    /\ load[l].phase = "defining" /\ load[l].left # {} /\ Alive /\ Fault
    /\ DefinitionFails(l, "sandbox")
    /\ UNCHANGED <<records, shared, jobs, bad>>

Registered(l) ==
    /\ load[l].phase = "defining" /\ load[l].left = {}
    /\ records' = records \cup load[l].additions
    /\ End(l, "resolved", "none")
    /\ UNCHANGED <<shared, jobs, registry, disposed, bad, faults>>
-----------------------------------------------------------------------------
(* The compilers.                                                          *)

Job == Head(jobs)

BadText(m) == IF m \in DOMAIN sources THEN sources[m] = "bad" ELSE m \in bad
Errors(ms) == {m \in ms : BadText(m)} \cup UNION {c \in Clashes : c \subseteq ms}

(* The texts that are compiled together, to register what a load has added. *)
EveryText(l) == DOMAIN sources \cup ({load[l].entry} \cap Cells)   \* fault
Texts(l) == records \cup load[l].additions \cup ({load[l].entry} \cap Cells)

Answer ==
    CASE Job.op = "inspect" -> /\ inspection' = [inspection EXCEPT ![Job.module] = "ok"]
                               /\ UNCHANGED <<load, serial>>
      [] Job.op = "cell" -> /\ load' = [load EXCEPT ![Job.load].phase = "walk",
                                                    ![Job.load].todo = Wanted(load[Job.load].entry)]
                            /\ UNCHANGED <<inspection, serial>>
      [] Job.op = "compile" /\ Errors(Texts(Job.load)) # {} -> End(Job.load, "rejected", "types") /\ UNCHANGED inspection
      [] Job.op = "compile" /\ Errors(Texts(Job.load)) = {} ->
            /\ load' = [load EXCEPT ![Job.load].phase = "defining", ![Job.load].left = Emitted(Job.load)]
            /\ UNCHANGED <<inspection, serial>>

Fail(reason) ==
    CASE Job.op = "inspect" -> /\ inspection' = [inspection EXCEPT ![Job.module] = "failed"]
                               /\ UNCHANGED <<load, serial>>
      [] Job.op = "cell" -> load' = Rejected({Job.load}, reason) /\ UNCHANGED <<inspection, serial>>
      [] Job.op = "compile" -> End(Job.load, "rejected", reason) /\ UNCHANGED inspection

(* A compiler answers, or is too late, or crashes; of a disposed loader     *)
(* none runs.                                                               *)
CompilerEnds ==
    /\ jobs # <<>> /\ jobs' = Tail(jobs)
    /\ IF Alive THEN (Answer /\ UNCHANGED faults) \/ (Fail("compiler") /\ Fault) ELSE Fail("disposed") /\ UNCHANGED faults
    /\ UNCHANGED <<records, aliases, sources, reads, registry, disposed, bad>>

(* A file is corrected; its text, if it was read, stays as it was.         *)
Correct(m) ==
    /\ m \in bad \ Cells /\ bad' = bad \ {m}
    /\ UNCHANGED <<load, records, shared, jobs, serial, registry, disposed, faults>>

(* Of what is cleared, nothing is looked at again.                         *)
Dispose ==
    /\ disposed # "disposed" /\ disposed' = "disposed"
    /\ records' = {} /\ aliases' = {}
    /\ UNCHANGED <<load, sources, reads, inspection, jobs, serial, registry, bad, faults>>
-----------------------------------------------------------------------------
Step(l) ==
    \/ Leave(l) \/ Collect(l) \/ Stage(l) \/ Inspected(l) \/ TakeTurn(l)
    \/ Register(l) \/ Registered(l) \/ (\E m \in Modules : Define(l, m))

Next ==
    \/ \E l \in Loads : Step(l) \/ DefineRefused(l) \/ (\E m \in Entries : Begin(l, m))
    \/ \E m \in Modules : ReadEnds(m) \/ ReadFails(m) \/ Correct(m)
    \/ CompilerEnds \/ Dispose

(* Reads and compilers have timers, and promises are reacted to.           *)
Fairness ==
    /\ \A l \in Loads : WF_vars(Step(l))
    /\ \A m \in Modules : WF_vars(ReadEnds(m))
    /\ WF_vars(CompilerEnds)

Spec == Init /\ [][Next]_vars /\ Fairness
-----------------------------------------------------------------------------
Targets(imports) == {Redirect[i.url] : i \in imports}
ImportsOf(m) == Seqs!ToSet(Imports[m])
Complete(ms) == \A m \in ms : Targets(ImportsOf(m)) \subseteq ms

(* The import graph of an entry: what every complete set around it holds.   *)
Graph == [e \in Modules |-> {m \in Modules : \A ms \in SUBSET Modules : e \in ms /\ Complete(ms) => m \in ms}]
GraphOf(l) == Graph[Redirect[load[l].entry]]

(* What a module needs when it is executed, and what the caller of a load   *)
(* needs of it: the module, or what its cell imports.                       *)
Needed(m) == Targets({i \in ImportsOf(m) : i.runtime})
Promised(l) == IF load[l].entry \in Cells THEN Needed(load[l].entry) ELSE {Redirect[load[l].entry]}

(* Between registrations the sandbox holds the records but for declaration *)
(* files.  The records hold whatever they import, and whatever a registered *)
(* module needs is registered as well: it can be linked, whichever loads it *)
(* was staged by, and a graph that was registered in part leaves no loader *)
(* that would build on it.  A load that has resolved has its graph there,   *)
(* and what it was asked for.                                              *)
RegisteredWhole ==
    /\ Alive /\ (\A l \in Loads : load[l].phase # "defining") =>
          /\ registry = records \ Declarations /\ Complete(records)
          /\ \A m \in registry : Needed(m) \subseteq registry
    /\ \A l \in Loads : load[l].phase = "resolved" =>
          (GraphOf(l) \ Cells) \ Declarations \subseteq registry /\ Promised(l) \subseteq registry

(* A load that the compiler refuses has a bad text in its graph, or one that *)
(* clashes with others of its graph or with registered ones: never one that *)
(* only another load has read ("Failed typechecking must not poison later   *)
(* loads", modules.mjs:233).  No load fails because another has registered *)
(* a module that both import; and the loader is given up only over a graph *)
(* that was registered in part.                                            *)
ToBlame(l, m) ==
    BadText(m) \/ \E c \in Clashes : m \in c /\ c \subseteq GraphOf(l) \cup records

FailuresStayLocal ==
    /\ \A l \in Loads :
          /\ load[l].reason # "duplicate"
          /\ load[l].reason = "types" /\ disposed # "disposed" => \E m \in GraphOf(l) : ToBlame(l, m)
    /\ disposed = "broken" => registry # records \ Declarations

(* Every load settles, whatever becomes of the loads before it.            *)
LoadsSettle == \A l \in Loads : load[l].phase # "idle" ~> AtRest(load[l].phase)
=============================================================================
