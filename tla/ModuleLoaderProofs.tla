------------------------- MODULE ModuleLoaderProofs -------------------------
(***************************************************************************)
(* The module loader, for any import graph, any loads and any limits: what *)
(* is registered is registered whole, and a load fails for a reason of its *)
(* own.                                                                    *)
(*                                                                         *)
(* The argument has three layers, each an invariant that uses the one       *)
(* before it: the shape of a load and the turns that loads take; that a    *)
(* load stays within the graph of its entry, and is to blame for a text of *)
(* that graph; that it covers this graph before it takes its turn, so that *)
(* what is registered between two turns holds whatever it imports.         *)
(***************************************************************************)
EXTENDS ModuleLoader, SequenceTheorems, TLAPS

Phases == {"idle", "cell", "walk", "reading", "sourced", "inspecting", "queued",
           "compiling", "defining", "resolved", "rejected"}
Imported == [url : Modules, runtime : BOOLEAN]
Items == [import : Imported, status : {"wanted", "entered"}]
LoadRecord ==
    [phase : Phases, entry : Modules \cup {"none"}, at : Modules \cup {"none"},
     todo : Seq(Items), staged : SUBSET Modules,
     additions : SUBSET Modules, left : SUBSET Modules,
     reason : {"none", "disposed", "pending", "limit", "read", "inspection", "declaration",
               "duplicate", "registry", "sandbox", "types", "compiler"}]
Jobs == [op : {"inspect"}, module : Modules] \cup [op : {"cell", "compile"}, load : Loads]

Fetching == {"reading", "sourced", "inspecting"}   \* the phases in which "at" is being collected
Traversing == {"walk"} \cup Fetching
Turning == {"compiling", "defining"}

(* The types.  Texts are kept under the URL where they were found.         *)
LoaderTyped ==
    /\ load \in [Loads -> LoadRecord]
    /\ records \subseteq DOMAIN sources
    /\ DOMAIN sources \subseteq {m \in Modules : Redirect[m] = m}
    /\ reads \subseteq Modules
    /\ jobs \in Seq(Jobs)
    /\ serial \in Seq(Loads)
    /\ disposed \in {"no", "broken", "disposed"}

(* What a load holds in each phase.                                        *)
Shaped(l) ==
    /\ load[l].phase # "idle" => load[l].entry \in Modules
    /\ load[l].phase = "cell" => load[l].entry \in Cells /\ load[l].staged = {}
    /\ load[l].phase = "queued" => load[l].todo = <<>>
    /\ load[l].phase \in Fetching =>
          /\ load[l].todo # <<>> /\ load[l].at \in Modules
          /\ Redirect[load[l].at] = Redirect[Upcoming(l).import.url]
    /\ load[l].phase = "sourced" => load[l].at \in DOMAIN sources
    /\ load[l].phase = "inspecting" => load[l].at \in load[l].staged
    /\ load[l].phase # "rejected" => load[l].reason = "none"
    /\ load[l].staged \subseteq DOMAIN sources
    /\ load[l].additions \subseteq load[l].staged
    /\ load[l].left \subseteq Emitted(l)
    /\ load[l].phase \notin {"defining", "rejected"} => load[l].left = {}

(* Only the first in the chain of registrations compiles or defines.       *)
OneTurn == \A l \in Loads : load[l].phase \in Turning => serial # <<>> /\ Head(serial) = l

(* A compiler that runs for a load is what the load waits for, and is the  *)
(* only one that does.                                                     *)
PhaseOf(op) == IF op = "cell" THEN "cell" ELSE "compiling"
JobsAwaited ==
    /\ \A p \in DOMAIN jobs : jobs[p].op # "inspect" => load[jobs[p].load].phase = PhaseOf(jobs[p].op)
    /\ \A p, q \in DOMAIN jobs :
          jobs[p].op # "inspect" /\ jobs[q].op # "inspect" /\ jobs[p].load = jobs[q].load => p = q

Structure == LoaderTyped /\ (\A l \in Loads : Shaped(l)) /\ OneTurn /\ JobsAwaited

(* What a list of imports holds.                                           *)
Has(todo, x) == \E p \in DOMAIN todo : todo[p] = x
In(todo, i) == Has(todo, Item(i, "wanted")) \/ Has(todo, Item(i, "entered"))

(* A load stays within the graph of its entry.                             *)
Within(l) ==
    load[l].phase # "idle" =>
        /\ load[l].staged \subseteq GraphOf(l)
        /\ \A i \in Imported : In(load[l].todo, i) => Redirect[i.url] \in GraphOf(l)

(* The text that a load was refused for is in its graph, and stays bad: it *)
(* is a cell's, or one that was read.  Or it clashes, with others of the    *)
(* graph or with registered ones.                                          *)
Blamed(l) ==
    load[l].reason = "types" /\ disposed # "disposed" =>
        \E m \in GraphOf(l) : \/ BadText(m) /\ m \in Cells \cup DOMAIN sources
                              \/ \E c \in Clashes : m \in c /\ c \subseteq GraphOf(l) \cup records

(* What is registered has been compiled, all of it together.               *)
Compiled ==
    /\ Errors(records) = {}
    /\ \A l \in Loads : load[l].phase = "defining" => Errors(records \cup load[l].additions) = {}

Local == Compiled /\ \A l \in Loads : Within(l) /\ Blamed(l)

(* An import is collected, and used as it may be, or is left to do.        *)
Settled(l, i) == Redirect[i.url] \in records \cup load[l].staged /\ ~Misused(i)
Covered(l, i) == Settled(l, i) \/ In(load[l].todo, i)

RootsCovered(l) ==
    IF load[l].entry \in Cells THEN \A i \in ImportsOf(load[l].entry) : Covered(l, i)
    ELSE Covered(l, Executed(load[l].entry))

ImportsCovered(l) ==
    \A m \in load[l].staged :
        ~(load[l].phase = "inspecting" /\ load[l].at = m) => \A i \in ImportsOf(m) : Covered(l, i)

(* What was entered is collected, though it has not returned.              *)
EnteredCollected(l) ==
    \A i \in Imported : Has(load[l].todo, Item(i, "entered")) => Redirect[i.url] \in records \cup load[l].staged

Covering(l) ==
    Alive /\ load[l].phase \in Traversing \cup {"queued"} =>
        RootsCovered(l) /\ ImportsCovered(l) /\ EnteredCollected(l)

(* A set of modules that can be linked: it holds what its members import,   *)
(* and they execute no declaration file.                                   *)
Linked(ms) == Complete(ms) /\ \A m \in ms : \A i \in ImportsOf(m) : ~Misused(i)

(* Nor does the entry, or is one.                                          *)
Rooted(l) ==
    IF load[l].entry \in Cells THEN \A i \in ImportsOf(load[l].entry) : ~Misused(i)
    ELSE ~Misused(Executed(load[l].entry))

(* What the load that has its turn registers: the rest of its graph.       *)
Closing(l) ==
    /\ load[l].phase = "compiling" /\ Alive =>
          /\ load[l].additions \cap records = {}
          /\ GraphOf(l) \ Cells \subseteq records \cup load[l].additions
          /\ Linked(records \cup load[l].additions)
    /\ load[l].phase = "defining" /\ Alive =>
          /\ load[l].additions \cap records = {}
          /\ registry = (records \ Declarations) \cup (Emitted(l) \ load[l].left)
          /\ Linked(records \cup load[l].additions)
    /\ load[l].phase = "defining" => (GraphOf(l) \ Cells) \ Declarations \subseteq registry \cup load[l].left
    /\ load[l].phase = "resolved" => (GraphOf(l) \ Cells) \ Declarations \subseteq registry
    /\ load[l].phase = "compiling" /\ Alive => Rooted(l)
    /\ load[l].phase \in {"defining", "resolved"} => Rooted(l)
    /\ load[l].reason # "duplicate"

Whole ==
    /\ \A l \in Loads : Covering(l) /\ Closing(l)
    /\ Alive => Linked(records)
    /\ Alive /\ (\A l \in Loads : load[l].phase # "defining") => registry = records \ Declarations
    /\ disposed = "broken" =>
          registry # records \ Declarations /\ \A l \in Loads : load[l].phase \notin Turning
-----------------------------------------------------------------------------
(* The list of what a load has to do.                                      *)
LEMMA Joined ==
    ASSUME NEW s \in Seq(Items), NEW t \in Seq(Items)
    PROVE  s \o t \in Seq(Items) /\ \A x : Has(s \o t, x) <=> Has(s, x) \/ Has(t, x)
<1> DEFINE u == s \o t
<1>1. /\ u \in Seq(Items) /\ Len(s) \in Nat /\ Len(t) \in Nat
      /\ DOMAIN s = 1..Len(s) /\ DOMAIN t = 1..Len(t) /\ DOMAIN u = 1..(Len(s) + Len(t))
      /\ \A p \in 1..Len(s) : u[p] = s[p]
      /\ \A p \in 1..Len(t) : u[Len(s) + p] = t[p]
    OBVIOUS
<1> HIDE DEF u
<1>2. ASSUME NEW p \in DOMAIN u
      PROVE  (\E q \in DOMAIN s : s[q] = u[p]) \/ (\E q \in DOMAIN t : t[q] = u[p])
  <2>1. CASE p \in DOMAIN s
    BY <1>1, <2>1
  <2>2. CASE p \notin DOMAIN s
    <3>1. p - Len(s) \in DOMAIN t /\ u[p] = t[p - Len(s)]
      BY <1>1, <2>2
    <3> QED
      BY <3>1
  <2> QED
    BY <2>1, <2>2
<1>3. ASSUME NEW q \in DOMAIN s PROVE q \in DOMAIN u /\ u[q] = s[q]
    BY <1>1
<1>4. ASSUME NEW q \in DOMAIN t PROVE Len(s) + q \in DOMAIN u /\ u[Len(s) + q] = t[q]
    BY <1>1
<1>5. \A x : Has(u, x) <=> Has(s, x) \/ Has(t, x)
    BY <1>2, <1>3, <1>4 DEF Has
<1> QED
    BY <1>1, <1>5 DEF u

LEMMA Single ==
    ASSUME NEW x \in Items
    PROVE  <<x>> \in Seq(Items) /\ <<x>> # <<>> /\ \A y : Has(<<x>>, y) <=> y = x
<1>1. DOMAIN <<x>> = {1} /\ <<x>>[1] = x /\ <<x>> \in Seq(Items)
    OBVIOUS
<1>2. <<x>> # <<>>
    OBVIOUS
<1> QED
    BY <1>1, <1>2 DEF Has

LEMMA Nothing == \A x : ~Has(<<>>, x) /\ ~In(<<>>, x)
    BY DEF Has, In

(* Taking off the first: an import that returns, or is entered.            *)
LEMMA Split ==
    ASSUME NEW s \in Seq(Items), s # <<>>
    PROVE  /\ Head(s) \in Items /\ Tail(s) \in Seq(Items) /\ Head(s).import \in Imported
           /\ Head(s) = Item(Head(s).import, Head(s).status)
           /\ \A x : Has(s, x) <=> x = Head(s) \/ Has(Tail(s), x)
           /\ \A i : In(s, i) <=> i = Head(s).import \/ In(Tail(s), i)
<1>1. Head(s) \in Items /\ Tail(s) \in Seq(Items) /\ s = <<Head(s)>> \o Tail(s)
    OBVIOUS
<1>2. <<Head(s)>> \in Seq(Items)
    BY <1>1, Single
<1>3. \A x : Has(s, x) <=> x = Head(s) \/ Has(Tail(s), x)
  <2> DEFINE h == <<Head(s)>>
             t == Tail(s)
  <2>1. \A y : Has(h, y) <=> y = Head(s)
    BY <1>1, Single
  <2> HIDE DEF h, t
  <2>2. \A x : Has(h \o t, x) <=> Has(h, x) \/ Has(t, x)
    BY <1>1, <1>2, Joined DEF h, t
  <2>3. s = h \o t
    BY <1>1 DEF h, t
  <2> QED
    BY <2>1, <2>2, <2>3 DEF t
<1>4. /\ Head(s).import \in Imported /\ Head(s).status \in {"wanted", "entered"}
      /\ Head(s) = Item(Head(s).import, Head(s).status)
    BY <1>1 DEF Items, Item
<1>5. \A i, e : Item(i, e).import = i
    BY DEF Item
<1>6. \A i : In(s, i) <=> i = Head(s).import \/ In(Tail(s), i)
    BY <1>3, <1>4, <1>5 DEF In
<1> QED
    BY <1>1, <1>3, <1>4, <1>6

LEMMA ImportsAreModules ==
    ASSUME NEW m \in Modules
    PROVE  /\ Imports[m] \in Seq(Imported)
           /\ \A i \in ImportsOf(m) : i \in Imported /\ i.url \in Modules \ Cells
<1>1. Imports[m] \in Seq([url : Modules \ Cells, runtime : BOOLEAN])
    BY ModulesAssumption
<1>2. \A p \in DOMAIN Imports[m] : Imports[m][p] \in [url : Modules \ Cells, runtime : BOOLEAN]
    BY <1>1, LenProperties, ElementOfSeq
<1>3. [url : Modules \ Cells, runtime : BOOLEAN] \subseteq Imported
    BY DEF Imported
<1>4. Imports[m] \in Seq(Imported)
    BY <1>1, <1>3, SeqMonotonic
<1>5. ASSUME NEW i \in ImportsOf(m) PROVE i \in Imported /\ i.url \in Modules \ Cells
  <2>1. i \in [url : Modules \ Cells, runtime : BOOLEAN]
    BY <1>2, <1>5 DEF ImportsOf, Seqs!ToSet
  <2> QED
    BY <1>3, <2>1
<1> QED
    BY <1>4, <1>5

LEMMA ItemParts == \A i, e : Item(i, e).import = i /\ Item(i, e).status = e
    BY DEF Item

LEMMA WantedItems ==
    ASSUME NEW m \in Modules
    PROVE  /\ Wanted(m) \in Seq(Items)
           /\ \A i : ~Has(Wanted(m), Item(i, "entered"))
           /\ \A i : In(Wanted(m), i) <=> i \in ImportsOf(m)
<1> DEFINE s == Imports[m]
<1>1. s \in Seq(Imported) /\ Len(s) \in Nat /\ DOMAIN s = 1..Len(s)
    BY ImportsAreModules
<1>2. \A i \in Imported : Item(i, "wanted") \in Items
    BY DEF Item, Items
<1>3. Wanted(m) = [p \in 1..Len(s) |-> Item(s[p], "wanted")]
    BY <1>1 DEF Wanted
<1>4. \A p \in 1..Len(s) : Item(s[p], "wanted") \in Items
    BY <1>1, <1>2, ElementOfSeq
<1>5. Wanted(m) \in Seq(Items)
  <2>1. Wanted(m) \in [1..Len(s) -> Items]
    BY <1>3, <1>4
  <2> QED
    BY <1>1, <2>1, SeqDef
<1>6. \A x : Has(Wanted(m), x) <=> \E i \in ImportsOf(m) : x = Item(i, "wanted")
    BY <1>1, <1>3 DEF Has, ImportsOf, Seqs!ToSet
<1>7. ASSUME NEW i, Has(Wanted(m), Item(i, "wanted")) PROVE i \in ImportsOf(m)
  <2>1. PICK j \in ImportsOf(m) : Item(i, "wanted") = Item(j, "wanted")
    BY <1>6, <1>7
  <2> QED
    BY <2>1, ItemParts
<1>8. ASSUME NEW i, Has(Wanted(m), Item(i, "entered")) PROVE FALSE
  <2>1. PICK j \in ImportsOf(m) : Item(i, "entered") = Item(j, "wanted")
    BY <1>6, <1>8
  <2> QED
    BY <2>1, ItemParts
<1>9. ASSUME NEW i \in ImportsOf(m) PROVE Has(Wanted(m), Item(i, "wanted"))
    BY <1>6
<1> QED
    BY <1>5, <1>7, <1>8, <1>9 DEF In

LEMMA EnterItems ==
    ASSUME NEW l \in Loads, load[l].todo \in Seq(Items), load[l].todo # <<>>, load[l].at \in Modules
    PROVE  LET s == load[l].todo
           IN  /\ Enter(l) \in Seq(Items)
               /\ \A i : Has(Enter(l), Item(i, "entered")) <=> i = Head(s).import \/ Has(Tail(s), Item(i, "entered"))
               /\ \A i : In(Enter(l), i) <=> i \in ImportsOf(load[l].at) \/ In(s, i)
<1> DEFINE s == load[l].todo
           h == [Head(s) EXCEPT !.status = "entered"]
           w == Wanted(load[l].at)
           rest == <<h>> \o Tail(s)
<1>1. Head(s) \in Items /\ Tail(s) \in Seq(Items)
    BY Split
<1>2. h = Item(Head(s).import, "entered") /\ h \in Items
  <2> DEFINE f == Head(s)
             g == [f EXCEPT !.status = "entered"]
  <2>1. f \in Items
    BY <1>1
  <2> HIDE DEF f
  <2>2. f.import \in Imported /\ f = [import |-> f.import, status |-> f.status]
    BY <2>1 DEF Items
  <2>3. g = [import |-> f.import, status |-> "entered"]
    BY <2>2
  <2>4. g = Item(f.import, "entered") /\ g \in Items
    BY <2>2, <2>3 DEF Items, Item
  <2> QED
    BY <2>4 DEF f
<1>3. w \in Seq(Items)
    BY WantedItems
<1> HIDE DEF h
<1>4. \A x : Has(Enter(l), x) <=> Has(w, x) \/ x = h \/ Has(Tail(s), x)
  <2> DEFINE a == <<h>>
             t == Tail(s)
             u == w \o a
  <2>1. a \in Seq(Items) /\ \A y : Has(a, y) <=> y = h
    BY <1>2, Single
  <2>2. Enter(l) = u \o t
    BY DEF Enter, Upcoming, h, w
  <2> HIDE DEF a, t, w
  <2>3. u \in Seq(Items) /\ \A x : Has(u, x) <=> Has(w, x) \/ Has(a, x)
    BY <1>3, <2>1, Joined
  <2> HIDE DEF u
  <2>4. \A x : Has(u \o t, x) <=> Has(u, x) \/ Has(t, x)
    BY <1>1, <2>3, Joined DEF t
  <2>5. \A x : Has(u \o t, x) <=> Has(w, x) \/ x = h \/ Has(t, x)
    BY <2>1, <2>3, <2>4
  <2> QED
    BY <2>2, <2>5 DEF t
<1>5. Enter(l) \in Seq(Items)
  <2>1. <<h>> \in Seq(Items)
    BY <1>2, Single
  <2>2. w \o <<h>> \in Seq(Items)
    BY <1>3, <2>1, Joined
  <2>3. (w \o <<h>>) \o Tail(s) \in Seq(Items)
    BY <1>1, <2>2, Joined
  <2> QED
    BY <2>3 DEF Enter, Upcoming, h, w
<1>6. \A i : ~Has(w, Item(i, "entered")) /\ (In(w, i) <=> i \in ImportsOf(load[l].at))
    BY WantedItems
<1> HIDE DEF w
<1>7. \A i : (Item(i, "entered") = h <=> i = Head(s).import) /\ Item(i, "wanted") # h
    BY <1>2, ItemParts
<1>8. \A i : In(s, i) <=> i = Head(s).import \/ In(Tail(s), i)
    BY Split
<1>9. \A i : Has(Enter(l), Item(i, "entered")) <=> i = Head(s).import \/ Has(Tail(s), Item(i, "entered"))
    BY <1>4, <1>6, <1>7
<1>10. \A i : In(Enter(l), i) <=> In(w, i) \/ i = Head(s).import \/ In(Tail(s), i)
    BY <1>4, <1>7 DEF In
<1> QED
    BY <1>5, <1>6, <1>8, <1>9, <1>10
-----------------------------------------------------------------------------
(* What a step makes of the load that takes it.                            *)
Turned(l, phase, at, todo, staged, additions, left, reason) ==
    /\ load'[l].entry = load[l].entry
    /\ load'[l].phase = phase /\ load'[l].at = at /\ load'[l].todo = todo
    /\ load'[l].staged = staged /\ load'[l].additions = additions /\ load'[l].left = left
    /\ load'[l].reason = reason
Dropped(l, reason) ==
    Turned(l, "rejected", load[l].at, load[l].todo, load[l].staged, load[l].additions, load[l].left, reason)

Others(ls) == load' \in [Loads -> LoadRecord] /\ \A k \in Loads \ ls : load'[k] = load[k]
Became(l, phase, at, todo, staged, additions, left, reason) ==
    Others({l}) /\ Turned(l, phase, at, todo, staged, additions, left, reason)
Moved(l, phase) ==
    Became(l, phase, load[l].at, load[l].todo, load[l].staged, load[l].additions, load[l].left, load[l].reason)
Fetched(l, phase, m) ==
    Became(l, phase, m, load[l].todo, load[l].staged, load[l].additions, load[l].left, load[l].reason)
Returned(l) ==
    /\ ~Misused(Upcoming(l).import)
    /\ Became(l, "walk", load[l].at, Tail(load[l].todo), load[l].staged,
              load[l].additions, load[l].left, load[l].reason)
Failed(l, reason) == Others({l}) /\ Dropped(l, reason)

AreRejected(ls, reason) == load' = Rejected(ls, reason)

(* The effects, one lemma per operation. Failed: only the phase and the     *)
(* reason of the load change.                                               *)
LEMMA RejectedEffect ==
    ASSUME LoaderTyped, NEW ls \in SUBSET Loads,
           NEW reason \in {"disposed", "limit", "read", "inspection", "declaration", "compiler"},
           AreRejected(ls, reason)
    PROVE  Others(ls) /\ \A l \in ls : Dropped(l, reason)
<1> DEFINE f(l) == [load[l] EXCEPT !.phase = "rejected", !.reason = reason]
<1>1. ASSUME NEW l \in Loads
      PROVE  /\ load[l] \in LoadRecord /\ f(l) \in LoadRecord
             /\ f(l).entry = load[l].entry
             /\ f(l).phase = "rejected" /\ f(l).at = load[l].at /\ f(l).todo = load[l].todo
             /\ f(l).staged = load[l].staged /\ f(l).additions = load[l].additions
             /\ f(l).left = load[l].left /\ f(l).reason = reason
  <2>1. load[l] \in LoadRecord
    BY DEF LoaderTyped
  <2> DEFINE r == load[l]
             t == [r EXCEPT !.phase = "rejected", !.reason = reason]
  <2>2. r \in LoadRecord
    BY <2>1
  <2> HIDE DEF r
  <2>3. /\ t \in LoadRecord
        /\ t.entry = r.entry
        /\ t.phase = "rejected" /\ t.at = r.at /\ t.todo = r.todo
        /\ t.staged = r.staged /\ t.additions = r.additions
        /\ t.left = r.left /\ t.reason = reason
    BY <2>2 DEF LoadRecord, Phases
  <2> QED
    BY <2>1, <2>3 DEF r
<1>2. load' = [l \in Loads |-> IF l \in ls THEN f(l) ELSE load[l]]
    BY DEF AreRejected, Rejected
<1> HIDE DEF f
<1> QED
    BY <1>1, <1>2 DEF Others, Dropped, Turned

LEMMA FailedEffect ==
    ASSUME LoaderTyped, NEW l \in Loads,
           NEW reason \in {"disposed", "limit", "read", "inspection", "declaration", "compiler"},
           load' = Rejected({l}, reason)
    PROVE  Failed(l, reason)
<1>1. {l} \in SUBSET Loads /\ AreRejected({l}, reason)
    BY DEF AreRejected
<1>2. Others({l}) /\ \A k \in {l} : Dropped(k, reason)
    BY <1>1, RejectedEffect
<1> QED
    BY <1>2 DEF Failed

(* A turn ends, and is passed on.                                          *)
LEMMA EndEffect ==
    ASSUME LoaderTyped, NEW l \in Loads, NEW phase \in {"resolved", "rejected"},
           NEW reason \in {"none", "disposed", "duplicate", "registry", "sandbox", "types", "compiler"},
           End(l, phase, reason)
    PROVE  /\ Became(l, phase, load[l].at, load[l].todo, load[l].staged, load[l].additions, load[l].left, reason)
           /\ serial' = Tail(serial)
<1> DEFINE t == [load[l] EXCEPT !.phase = phase, !.reason = reason]
<1>1. load[l] \in LoadRecord
    BY DEF LoaderTyped
<1>2. /\ t \in LoadRecord /\ t.entry = load[l].entry /\ t.phase = phase /\ t.reason = reason
      /\ t.at = load[l].at /\ t.todo = load[l].todo /\ t.staged = load[l].staged
      /\ t.additions = load[l].additions /\ t.left = load[l].left
    BY <1>1 DEF LoadRecord, Phases
<1>3. load' = [load EXCEPT ![l] = t] /\ serial' = Tail(serial)
    BY DEF End, PassTurn
<1> HIDE DEF t
<1> QED
    BY <1>2, <1>3 DEF LoaderTyped, Became, Turned, Others

LEMMA ReturnEffect ==
    ASSUME LoaderTyped, NEW l \in Loads, load[l].todo # <<>>, load' = Return(l)
    PROVE  Failed(l, "declaration") \/ Returned(l)
<1> DEFINE o == load[l]
           rest == Tail(o.todo)
           t == [o EXCEPT !.phase = "walk", !.todo = rest]
<1>1. o \in LoadRecord /\ rest \in Seq(Items)
    BY Split DEF LoaderTyped, LoadRecord
<1>2. \/ load' = Rejected({l}, "declaration")
      \/ ~Misused(Upcoming(l).import) /\ load' = [load EXCEPT ![l] = t]
    BY DEF Return
<1> HIDE DEF o, rest
<1>3. /\ t \in LoadRecord /\ t.entry = o.entry /\ t.phase = "walk" /\ t.reason = o.reason
      /\ t.at = o.at /\ t.todo = rest /\ t.staged = o.staged
      /\ t.additions = o.additions /\ t.left = o.left
    BY <1>1 DEF LoadRecord, Phases
<1> HIDE DEF t
<1>4. load' = Rejected({l}, "declaration") => Failed(l, "declaration")
    BY FailedEffect
<1>5. load' = [load EXCEPT ![l] = t]
      => Became(l, "walk", o.at, rest, o.staged, o.additions, o.left, o.reason)
    BY <1>3 DEF LoaderTyped, Became, Turned, Others, o
<1> QED
    BY <1>2, <1>4, <1>5, Zenon DEF Returned, o, rest

LEMMA LeaveEffect ==
    ASSUME LoaderTyped, NEW l \in Loads, Leave(l)
    PROVE  /\ load[l].phase = "walk" /\ load[l].todo # <<>> /\ Upcoming(l).status = "entered"
           /\ UNCHANGED <<records, shared, jobs, serial, registry, disposed, bad, faults>>
           /\ Failed(l, "declaration") \/ Returned(l)
<1>1. /\ load[l].phase = "walk" /\ load[l].todo # <<>> /\ Upcoming(l).status = "entered"
      /\ load' = Return(l)
      /\ UNCHANGED <<records, shared, jobs, serial, registry, disposed, bad, faults>>
    BY DEF Leave, Walking
<1> QED
    BY <1>1, ReturnEffect

LEMMA TakeTurnEffect ==
    ASSUME LoaderTyped, NEW l \in Loads, TakeTurn(l)
    PROVE  /\ load[l].phase = "walk" /\ load[l].todo = <<>>
           /\ UNCHANGED <<records, shared, jobs, registry, disposed, bad, faults>>
           /\ serial' = Append(serial, l) /\ Moved(l, "queued")
<1> DEFINE o == load[l]
           t == [o EXCEPT !.phase = "queued"]
<1>1. /\ o.phase = "walk" /\ o.todo = <<>>
      /\ UNCHANGED <<records, shared, jobs, registry, disposed, bad, faults>>
      /\ serial' = Append(serial, l) /\ load' = [load EXCEPT ![l] = t]
    BY DEF TakeTurn, Walking, Move
<1>2. o \in LoadRecord
    BY DEF LoaderTyped
<1> HIDE DEF o
<1>3. /\ t \in LoadRecord /\ t.entry = o.entry /\ t.phase = "queued" /\ t.reason = o.reason
      /\ t.at = o.at /\ t.todo = o.todo /\ t.staged = o.staged
      /\ t.additions = o.additions /\ t.left = o.left
    BY <1>2 DEF LoadRecord, Phases
<1> HIDE DEF t
<1> QED
    BY <1>1, <1>3 DEF LoaderTyped, Moved, Became, Turned, Others, o

LEMMA CollectEffect ==
    ASSUME LoaderTyped, NEW l \in Loads, Collect(l)
    PROVE  /\ load[l].phase = "walk" /\ load[l].todo # <<>>
           /\ reads' \subseteq Modules
           /\ UNCHANGED <<records, aliases, sources, inspection, jobs, serial, registry, disposed, bad, faults>>
           /\ \/ Failed(l, "disposed") \/ Failed(l, "limit") \/ Failed(l, "declaration")
              \/ \E m \in Modules :
                    /\ Redirect[m] = Redirect[Upcoming(l).import.url]
                    /\ \/ Collected(l, m) /\ Returned(l)
                       \/ m \in DOMAIN sources /\ Fetched(l, "sourced", m)
                       \/ Fetched(l, "reading", m)
<1> DEFINE o == load[l]
           i == Upcoming(l).import.url
           m == Final(i)
           full == Cardinality(DOMAIN sources) + Cardinality(reads) >= MAX_MODULES
           known == m \in DOMAIN sources \/ m \in reads
<1>0. o.todo # <<>> /\ o.phase = "walk"
    BY DEF Collect, Walking
<1>1. o \in LoadRecord /\ i \in Modules
  <2>1. o \in LoadRecord /\ o.todo \in Seq(Items)
    BY DEF LoaderTyped, LoadRecord
  <2>2. Head(o.todo).import \in Imported
    BY <1>0, <2>1, Split
  <2> QED
    BY <2>1, <2>2 DEF Upcoming, Imported
<1>2. m \in Modules /\ Redirect[m] = Redirect[i]
    BY <1>1, ModulesAssumption DEF Final
<1>3. /\ load' = IF ~Alive THEN Rejected({l}, "disposed")
                 ELSE IF Collected(l, m) THEN Return(l)
                 ELSE IF m \in DOMAIN sources THEN Fetch(l, "sourced", m)
                 ELSE IF ~known /\ full THEN Rejected({l}, "limit")
                 ELSE Fetch(l, "reading", m)
      /\ reads' = IF Alive /\ ~Collected(l, m) /\ ~known /\ ~full THEN reads \cup {m} ELSE reads
      /\ UNCHANGED <<records, aliases, sources, inspection, jobs, serial, registry, disposed, bad, faults>>
    BY DEF Collect
<1>4. reads' \subseteq Modules
    BY <1>2, <1>3 DEF LoaderTyped
<1> HIDE DEF m, i, full, known
<1>5. ASSUME NEW phase \in {"sourced", "reading"}, load' = Fetch(l, phase, m)
      PROVE  Fetched(l, phase, m)
  <2> DEFINE u == [o EXCEPT !.phase = phase, !.at = m]
  <2> HIDE DEF o
  <2>1. /\ u \in LoadRecord /\ u.entry = o.entry /\ u.phase = phase /\ u.at = m /\ u.todo = o.todo
        /\ u.staged = o.staged /\ u.additions = o.additions /\ u.left = o.left /\ u.reason = o.reason
    BY <1>1, <1>2 DEF LoadRecord, Phases
  <2>2. load' = [load EXCEPT ![l] = u]
    BY <1>5 DEF Fetch, o
  <2> HIDE DEF u
  <2> QED
    BY <2>1, <2>2 DEF LoaderTyped, Fetched, Became, Turned, Others, o
<1>6. /\ load' = Rejected({l}, "disposed") => Failed(l, "disposed")
      /\ load' = Rejected({l}, "limit") => Failed(l, "limit")
    BY FailedEffect
<1>7. load' = Return(l) => Failed(l, "declaration") \/ Returned(l)
    BY <1>0, ReturnEffect
<1>8. \/ load' = Rejected({l}, "disposed") \/ load' = Rejected({l}, "limit")
      \/ Collected(l, m) /\ load' = Return(l)
      \/ m \in DOMAIN sources /\ load' = Fetch(l, "sourced", m)
      \/ load' = Fetch(l, "reading", m)
    BY <1>3, Zenon
<1>9. \/ Failed(l, "disposed") \/ Failed(l, "limit") \/ Failed(l, "declaration")
      \/ Collected(l, m) /\ Returned(l)
      \/ m \in DOMAIN sources /\ Fetched(l, "sourced", m)
      \/ Fetched(l, "reading", m)
    BY <1>5, <1>6, <1>7, <1>8
<1> QED
    BY <1>0, <1>2, <1>3, <1>4, <1>9, Zenon DEF i

LEMMA StageEffect ==
    ASSUME LoaderTyped, NEW l \in Loads, load[l].at \in Modules, load[l].todo # <<>>, Stage(l)
    PROVE  LET o == load[l]
           IN  /\ o.phase = "sourced"
               /\ UNCHANGED <<records, aliases, sources, reads, serial, registry, disposed, bad, faults>>
               /\ jobs' = jobs \/ jobs' = Append(jobs, Inspect(o.at))
               /\ \/ Failed(l, "disposed") \/ Failed(l, "declaration")
                  \/ Collected(l, o.at) /\ Returned(l)
                  \/ /\ Alive /\ ~Collected(l, o.at)
                     /\ Became(l, "inspecting", o.at, o.todo, o.staged \cup {o.at}, o.additions, o.left, o.reason)
<1> DEFINE o == load[l]
           u == [o EXCEPT !.phase = "inspecting", !.staged = o.staged \cup {o.at}]
<1>0. /\ o.phase = "sourced"
      /\ UNCHANGED <<records, aliases, sources, reads, serial, registry, disposed, bad, faults>>
      /\ jobs' = jobs \/ jobs' = Append(jobs, Inspect(o.at))
    BY DEF Stage
<1>1. o \in LoadRecord /\ o.at \in Modules
    BY DEF LoaderTyped
<1>2. \/ load' = Rejected({l}, "disposed")
      \/ Collected(l, o.at) /\ load' = Return(l)
      \/ Alive /\ ~Collected(l, o.at) /\ load' = [load EXCEPT ![l] = u]
    BY DEF Stage
<1>3. load' = Return(l) => Failed(l, "declaration") \/ Returned(l)
    BY ReturnEffect
<1> HIDE DEF o
<1>4. /\ u \in LoadRecord /\ u.entry = o.entry /\ u.phase = "inspecting" /\ u.at = o.at
      /\ u.todo = o.todo /\ u.staged = o.staged \cup {o.at} /\ u.additions = o.additions
      /\ u.left = o.left /\ u.reason = o.reason
    BY <1>1 DEF LoadRecord, Phases
<1> HIDE DEF u
<1>5. load' = Rejected({l}, "disposed") => Failed(l, "disposed")
    BY FailedEffect
<1>6. load' = [load EXCEPT ![l] = u]
      => Became(l, "inspecting", o.at, o.todo, o.staged \cup {o.at}, o.additions, o.left, o.reason)
    BY <1>4 DEF LoaderTyped, Became, Turned, Others, o
<1> QED
    BY <1>0, <1>2, <1>3, <1>5, <1>6, Zenon DEF o

LEMMA InspectedEffect ==
    ASSUME LoaderTyped, NEW l \in Loads, load[l].at \in Modules, load[l].todo # <<>>, Inspected(l)
    PROVE  LET o == load[l]
           IN  /\ o.phase = "inspecting"
               /\ UNCHANGED <<records, shared, jobs, serial, registry, disposed, bad, faults>>
               /\ \/ Failed(l, "inspection")
                  \/ Became(l, "walk", o.at, Enter(l), o.staged, o.additions, o.left, o.reason)
<1> DEFINE o == load[l]
           more == Enter(l)
           t == [o EXCEPT !.phase = "walk", !.todo = more]
<1>0. /\ o.phase = "inspecting"
      /\ UNCHANGED <<records, shared, jobs, serial, registry, disposed, bad, faults>>
    BY DEF Inspected
<1>1. o \in LoadRecord /\ o.todo \in Seq(Items)
    BY DEF LoaderTyped, LoadRecord
<1>3. more \in Seq(Items)
    BY <1>1, EnterItems
<1>4. load' = Rejected({l}, "inspection") \/ load' = [load EXCEPT ![l] = t]
    BY DEF Inspected
<1> HIDE DEF o, more
<1>5. /\ t \in LoadRecord /\ t.entry = o.entry /\ t.phase = "walk" /\ t.at = o.at
      /\ t.todo = more /\ t.staged = o.staged /\ t.additions = o.additions
      /\ t.left = o.left /\ t.reason = o.reason
    BY <1>1, <1>3 DEF LoadRecord, Phases
<1> HIDE DEF t
<1>6. load' = Rejected({l}, "inspection") => Failed(l, "inspection")
    BY FailedEffect
<1>7. load' = [load EXCEPT ![l] = t]
      => Became(l, "walk", o.at, more, o.staged, o.additions, o.left, o.reason)
    BY <1>5 DEF LoaderTyped, Became, Turned, Others, o
<1> QED
    BY <1>0, <1>4, <1>6, <1>7, Zenon DEF o, more

LEMMA ReadEndsEffect ==
    ASSUME LoaderTyped, NEW m \in Modules, ReadEnds(m)
    PROVE  /\ reads' \subseteq Modules
           /\ UNCHANGED <<records, inspection, jobs, serial, registry, disposed, bad, faults>>
           /\ \/ Others(Readers(m)) /\ (\A l \in Readers(m) : Dropped(l, "disposed")) /\ sources' = sources
              \/ /\ Others(Readers(m)) /\ sources' = Stored(Redirect[m])
                 /\ \A l \in Readers(m) :
                       Turned(l, "sourced", Redirect[m], load[l].todo, load[l].staged,
                              load[l].additions, load[l].left, load[l].reason)
<1> DEFINE f(l) == [load[l] EXCEPT !.phase = "sourced", !.at = Redirect[m]]
<1>1. ASSUME NEW l \in Loads
      PROVE  /\ load[l] \in LoadRecord /\ f(l) \in LoadRecord
             /\ f(l).entry = load[l].entry
             /\ f(l).phase = "sourced" /\ f(l).at = Redirect[m] /\ f(l).todo = load[l].todo
             /\ f(l).staged = load[l].staged /\ f(l).additions = load[l].additions
             /\ f(l).left = load[l].left /\ f(l).reason = load[l].reason
  <2>1. load[l] \in LoadRecord /\ Redirect[m] \in Modules
    BY ModulesAssumption DEF LoaderTyped
  <2> DEFINE r == load[l]
             t == [r EXCEPT !.phase = "sourced", !.at = Redirect[m]]
  <2>2. r \in LoadRecord
    BY <2>1
  <2> HIDE DEF r
  <2>3. /\ t \in LoadRecord /\ t.entry = r.entry /\ t.phase = "sourced" /\ t.at = Redirect[m]
        /\ t.todo = r.todo /\ t.staged = r.staged /\ t.additions = r.additions
        /\ t.left = r.left /\ t.reason = r.reason
      BY <2>1, <2>2 DEF LoadRecord, Phases
  <2> QED
    BY <2>1, <2>3 DEF r
<1>2. /\ reads' \subseteq Modules
      /\ UNCHANGED <<records, inspection, jobs, serial, registry, disposed, bad, faults>>
    BY DEF ReadEnds, LoaderTyped
<1>3. Readers(m) \in SUBSET Loads
    BY DEF Readers
<1>4. \/ AreRejected(Readers(m), "disposed") /\ sources' = sources
      \/ /\ load' = [l \in Loads |-> IF l \in Readers(m) THEN f(l) ELSE load[l]]
         /\ sources' = Stored(Redirect[m])
    BY DEF ReadEnds, AreRejected
<1> HIDE DEF f
<1>5. CASE AreRejected(Readers(m), "disposed") /\ sources' = sources
    BY <1>2, <1>3, <1>5, RejectedEffect
<1>6. CASE /\ load' = [l \in Loads |-> IF l \in Readers(m) THEN f(l) ELSE load[l]]
           /\ sources' = Stored(Redirect[m])
    BY <1>1, <1>2, <1>3, <1>6 DEF Others, Turned
<1> QED
    BY <1>4, <1>5, <1>6

LEMMA ReadFailsEffect ==
    ASSUME LoaderTyped, NEW m \in Modules, ReadFails(m)
    PROVE  /\ reads' \subseteq Modules
           /\ UNCHANGED <<records, aliases, sources, inspection, jobs, serial, registry, disposed, bad>>
           /\ Others(Readers(m)) /\ (\A l \in Readers(m) : Dropped(l, "read"))
<1>1. /\ reads' \subseteq Modules
      /\ UNCHANGED <<records, aliases, sources, inspection, jobs, serial, registry, disposed, bad>>
      /\ AreRejected(Readers(m), "read")
    BY DEF ReadFails, LoaderTyped, AreRejected
<1>2. Readers(m) \in SUBSET Loads
    BY DEF Readers
<1> QED
    BY <1>1, <1>2, RejectedEffect

LEMMA BeginEffect ==
    ASSUME LoaderTyped, NEW l \in Loads, NEW m \in Entries, Begin(l, m)
    PROVE  /\ load[l].phase = "idle" /\ Others({l})
           /\ UNCHANGED <<records, shared, serial, registry, disposed, bad, faults>>
           /\ load'[l].entry = m /\ load'[l].at = "none" /\ load'[l].staged = {}
           /\ load'[l].additions = {} /\ load'[l].left = {}
           /\ \/ /\ load'[l].phase = "rejected" /\ load'[l].reason \in {"disposed", "pending"}
                 /\ load'[l].todo = <<>> /\ jobs' = jobs
              \/ /\ load'[l].phase = "cell" /\ load'[l].reason = "none" /\ m \in Cells
                 /\ load'[l].todo = <<>> /\ jobs' = Append(jobs, Cell(l))
              \/ /\ load'[l].phase = "walk" /\ load'[l].reason = "none" /\ m \notin Cells
                 /\ load'[l].todo = <<Item(Executed(m), "wanted")>> /\ jobs' = jobs
<1> DEFINE n == NoLoad
           t(reason) == Refused(m, reason)
           u == Begun(m, "cell", <<>>)
           v == Begun(m, "walk", <<Item(Executed(m), "wanted")>>)
<1>1. /\ load[l].phase = "idle"
      /\ UNCHANGED <<records, shared, serial, registry, disposed, bad, faults>>
      /\ jobs' = IF load'[l].phase = "cell" THEN Append(jobs, Cell(l)) ELSE jobs
      /\ \/ load' = [load EXCEPT ![l] = t("disposed")] \/ load' = [load EXCEPT ![l] = t("pending")]
         \/ m \in Cells /\ load' = [load EXCEPT ![l] = u]
         \/ m \notin Cells /\ load' = [load EXCEPT ![l] = v]
  <2>1. /\ load[l].phase = "idle"
        /\ UNCHANGED <<records, shared, serial, registry, disposed, bad, faults>>
        /\ jobs' = IF load'[l].phase = "cell" THEN Append(jobs, Cell(l)) ELSE jobs
    BY DEF Begin
  <2> DEFINE full == Cardinality(Pending) >= MaxPending
  <2>2. load' = [load EXCEPT ![l] = CASE ~Alive -> t("disposed") [] Alive /\ m \in Cells -> u
                                      [] Alive /\ m \notin Cells /\ full -> t("pending") [] OTHER -> v]
    BY DEF Begin
  <2> HIDE DEF full, t, u, v
  <2> QED
    BY <2>1, <2>2
<1>2. m \in Modules
    BY ModulesAssumption
<1>3. /\ n \in LoadRecord /\ n.at = "none" /\ n.staged = {} /\ n.additions = {} /\ n.left = {}
      /\ n.todo = <<>> /\ n.reason = "none"
  <2>1. <<>> \in Seq(Items)
    OBVIOUS
  <2> QED
    BY <2>1 DEF NoLoad, LoadRecord, Phases
<1>4. <<Item(Executed(m), "wanted")>> \in Seq(Items)
  <2>1. Item(Executed(m), "wanted") \in Items
    BY <1>2 DEF Item, Executed, Items, Imported
  <2> QED
    BY <2>1, Single
<1>5. ASSUME NEW reason \in {"disposed", "pending"}
      PROVE  /\ t(reason) \in LoadRecord /\ t(reason).entry = m /\ t(reason).phase = "rejected"
             /\ t(reason).at = "none" /\ t(reason).todo = <<>> /\ t(reason).staged = {}
             /\ t(reason).additions = {} /\ t(reason).left = {} /\ t(reason).reason = reason
  <2> DEFINE w == [n EXCEPT !.entry = m, !.phase = "rejected", !.reason = reason]
  <2>1. t(reason) = w
    BY DEF Refused
  <2> HIDE DEF n
  <2>2. /\ w \in LoadRecord /\ w.entry = m /\ w.phase = "rejected" /\ w.at = "none" /\ w.todo = <<>>
        /\ w.staged = {} /\ w.additions = {} /\ w.left = {} /\ w.reason = reason
    BY <1>2, <1>3 DEF LoadRecord, Phases
  <2> QED
    BY <2>1, <2>2
<1>6. /\ u \in LoadRecord /\ u.entry = m /\ u.phase = "cell" /\ u.at = "none" /\ u.todo = <<>>
      /\ u.staged = {} /\ u.additions = {} /\ u.left = {} /\ u.reason = "none"
  <2> DEFINE e == <<>>
             w == [n EXCEPT !.entry = m, !.phase = "cell", !.todo = e]
  <2>1. u = w /\ e \in Seq(Items)
    BY DEF Begun
  <2> HIDE DEF n, e
  <2>2. /\ w \in LoadRecord /\ w.entry = m /\ w.phase = "cell" /\ w.at = "none" /\ w.todo = e
        /\ w.staged = {} /\ w.additions = {} /\ w.left = {} /\ w.reason = "none"
    BY <1>2, <1>3, <2>1 DEF LoadRecord, Phases
  <2> QED
    BY <2>1, <2>2 DEF e
<1>7. /\ v \in LoadRecord /\ v.entry = m /\ v.phase = "walk" /\ v.at = "none" /\ v.todo = <<Item(Executed(m), "wanted")>>
      /\ v.staged = {} /\ v.additions = {} /\ v.left = {} /\ v.reason = "none"
  <2> DEFINE e == <<Item(Executed(m), "wanted")>>
             w == [n EXCEPT !.entry = m, !.phase = "walk", !.todo = e]
  <2>1. v = w /\ e \in Seq(Items)
    BY <1>4 DEF Begun
  <2> HIDE DEF n, e
  <2>2. /\ w \in LoadRecord /\ w.entry = m /\ w.phase = "walk" /\ w.at = "none" /\ w.todo = e
        /\ w.staged = {} /\ w.additions = {} /\ w.left = {} /\ w.reason = "none"
    BY <1>2, <1>3, <2>1 DEF LoadRecord, Phases
  <2> QED
    BY <2>1, <2>2 DEF e
<1> HIDE DEF t, u, v
<1>8. CASE load' = [load EXCEPT ![l] = t("disposed")] \/ load' = [load EXCEPT ![l] = t("pending")]
    BY <1>1, <1>5, <1>8 DEF LoaderTyped, Others
<1>9. CASE m \in Cells /\ load' = [load EXCEPT ![l] = u]
    BY <1>1, <1>6, <1>9 DEF LoaderTyped, Others
<1>10. CASE m \notin Cells /\ load' = [load EXCEPT ![l] = v]
    BY <1>1, <1>7, <1>10 DEF LoaderTyped, Others
<1> QED
    BY <1>1, <1>8, <1>9, <1>10

LEMMA RegisterEffect ==
    ASSUME LoaderTyped, NEW l \in Loads, Register(l)
    PROVE  LET o == load[l]
           IN  /\ o.phase = "queued" /\ serial # <<>> /\ Head(serial) = l
               /\ UNCHANGED <<records, shared, registry, disposed, bad, faults>>
               /\ \/ Failed(l, "disposed") /\ serial' = Tail(serial) /\ jobs' = jobs
                  \/ /\ Alive /\ Additions(l) = {} /\ serial' = Tail(serial) /\ jobs' = jobs
                     /\ Became(l, "resolved", o.at, o.todo, o.staged, o.additions, o.left, "none")
                  \/ /\ Alive /\ serial' = serial /\ jobs' = Append(jobs, Compile(l))
                     /\ Became(l, "compiling", o.at, o.todo, o.staged, Additions(l), o.left, o.reason)
<1> DEFINE o == load[l]
           more == Additions(l)
           t == [o EXCEPT !.phase = "compiling", !.additions = more]
<1>0. /\ o.phase = "queued" /\ serial # <<>> /\ Head(serial) = l
      /\ UNCHANGED <<records, shared, registry, disposed, bad, faults>>
    BY DEF Register
<1>1. o \in LoadRecord /\ more \in SUBSET Modules
    BY DEF LoaderTyped, LoadRecord, Additions
<1>2. \/ End(l, "rejected", "disposed") /\ jobs' = jobs
      \/ Alive /\ more = {} /\ End(l, "resolved", "none") /\ jobs' = jobs
      \/ Alive /\ load' = [load EXCEPT ![l] = t] /\ jobs' = Append(jobs, Compile(l)) /\ serial' = serial
    BY DEF Register
<1> HIDE DEF o, more
<1>3. /\ t \in LoadRecord /\ t.entry = o.entry /\ t.phase = "compiling" /\ t.at = o.at
      /\ t.todo = o.todo /\ t.staged = o.staged /\ t.additions = more /\ t.left = o.left
      /\ t.reason = o.reason
    BY <1>1 DEF LoadRecord, Phases
<1> HIDE DEF t
<1>4. CASE End(l, "rejected", "disposed") /\ jobs' = jobs
  <2>1. Failed(l, "disposed") /\ serial' = Tail(serial)
    BY <1>4, EndEffect DEF Failed, Dropped, Became
  <2> QED
    BY <1>0, <1>4, <2>1 DEF o, more
<1>5. CASE Alive /\ more = {} /\ End(l, "resolved", "none") /\ jobs' = jobs
  <2>1. /\ serial' = Tail(serial)
        /\ Became(l, "resolved", o.at, o.todo, o.staged, o.additions, o.left, "none")
    BY <1>5, EndEffect DEF o
  <2> QED
    BY <1>0, <1>5, <2>1 DEF o, more
<1>6. CASE Alive /\ load' = [load EXCEPT ![l] = t] /\ jobs' = Append(jobs, Compile(l)) /\ serial' = serial
  <2>1. Became(l, "compiling", o.at, o.todo, o.staged, more, o.left, o.reason)
    BY <1>3, <1>6 DEF LoaderTyped, Became, Turned, Others, o
  <2> QED
    BY <1>0, <1>6, <2>1 DEF o, more
<1> QED
    BY <1>2, <1>4, <1>5, <1>6

LEMMA DefineEffect ==
    ASSUME LoaderTyped, NEW l \in Loads, NEW m \in Modules, Define(l, m) \/ DefineRefused(l)
    PROVE  LET o == load[l]
           IN  /\ o.phase = "defining" /\ UNCHANGED <<records, shared, jobs, bad>>
               /\ \/ /\ serial' = Tail(serial) /\ registry' = registry /\ disposed' = AfterFailure(l)
                     /\ \/ Failed(l, "disposed") \/ Failed(l, "registry") \/ Failed(l, "sandbox")
                        \/ Failed(l, "duplicate") /\ Alive /\ m \in registry /\ m \in o.left
                  \/ /\ serial' = serial /\ registry' = registry \cup {m} /\ disposed' = disposed
                     /\ Alive /\ m \in o.left
                     /\ Became(l, "defining", o.at, o.todo, o.staged, o.additions, o.left \ {m}, o.reason)
<1> DEFINE o == load[l]
           t == [o EXCEPT !.left = o.left \ {m}]
<1>0. /\ o.phase = "defining" /\ UNCHANGED <<records, shared, jobs, bad>>
    BY DEF Define, DefineRefused
<1>1. o \in LoadRecord
    BY DEF LoaderTyped
<1>2. \/ DefinitionFails(l, "disposed") \/ DefinitionFails(l, "registry") \/ DefinitionFails(l, "sandbox")
      \/ DefinitionFails(l, "duplicate") /\ Alive /\ m \in registry /\ m \in o.left
      \/ /\ registry' = registry \cup {m} /\ load' = [load EXCEPT ![l] = t]
         /\ UNCHANGED <<serial, disposed>> /\ Alive /\ m \in o.left
    BY DEF Define, DefineRefused
<1> HIDE DEF o
<1>3. /\ t \in LoadRecord /\ t.entry = o.entry /\ t.phase = o.phase /\ t.at = o.at
      /\ t.todo = o.todo /\ t.staged = o.staged /\ t.additions = o.additions
      /\ t.left = o.left \ {m} /\ t.reason = o.reason
    BY <1>1 DEF LoadRecord, Phases
<1> HIDE DEF t
<1>4. ASSUME NEW reason \in {"disposed", "registry", "sandbox", "duplicate"}, DefinitionFails(l, reason)
      PROVE  /\ Failed(l, reason) /\ serial' = Tail(serial)
             /\ registry' = registry /\ disposed' = AfterFailure(l)
    BY <1>4, EndEffect DEF DefinitionFails, Failed, Dropped, Became
<1>5. load' = [load EXCEPT ![l] = t]
      => Became(l, "defining", o.at, o.todo, o.staged, o.additions, o.left \ {m}, o.reason)
    BY <1>0, <1>3 DEF LoaderTyped, Became, Turned, Others, o
<1>6. \/ /\ serial' = Tail(serial) /\ registry' = registry /\ disposed' = AfterFailure(l)
         /\ \/ Failed(l, "disposed") \/ Failed(l, "registry") \/ Failed(l, "sandbox")
            \/ Failed(l, "duplicate") /\ Alive /\ m \in registry /\ m \in o.left
      \/ /\ serial' = serial /\ registry' = registry \cup {m} /\ disposed' = disposed
         /\ Alive /\ m \in o.left
         /\ Became(l, "defining", o.at, o.todo, o.staged, o.additions, o.left \ {m}, o.reason)
    BY <1>2, <1>4, <1>5
<1> QED
    BY <1>0, <1>6 DEF o

LEMMA RegisteredEffect ==
    ASSUME LoaderTyped, NEW l \in Loads, Registered(l)
    PROVE  LET o == load[l]
           IN  /\ o.phase = "defining" /\ o.left = {} /\ records' = records \cup o.additions
               /\ UNCHANGED <<shared, jobs, registry, disposed, bad, faults>>
               /\ serial' = Tail(serial)
               /\ Became(l, "resolved", o.at, o.todo, o.staged, o.additions, o.left, "none")
<1>1. End(l, "resolved", "none")
    BY DEF Registered
<1> QED
    BY <1>1, EndEffect DEF Registered

(* A compiler ends: an inspection, of which the loads learn later, the      *)
(* inspection of a cell, or the compilation of a graph.                     *)
CellEnds(l) ==
    /\ serial' = serial /\ inspection' = inspection
    /\ \/ Failed(l, "compiler") \/ Failed(l, "disposed")
       \/ Became(l, "walk", load[l].at, Wanted(load[l].entry), load[l].staged,
                 load[l].additions, load[l].left, load[l].reason)

CompileEnds(l) ==
    /\ inspection' = inspection
    /\ \/ /\ serial' = Tail(serial)
          /\ Failed(l, "compiler") \/ Failed(l, "disposed") \/ (Failed(l, "types") /\ Errors(Texts(l)) # {})
       \/ /\ serial' = serial /\ Alive /\ Errors(Texts(l)) = {}
          /\ Became(l, "defining", load[l].at, load[l].todo, load[l].staged,
                    load[l].additions, Emitted(l), load[l].reason)

LEMMA CompilerEffect ==
    ASSUME LoaderTyped, \A l \in Loads : Shaped(l), JobsAwaited, CompilerEnds
    PROVE  /\ jobs # <<>> /\ jobs' = Tail(jobs)
           /\ UNCHANGED <<records, aliases, sources, reads, registry, disposed, bad>>
           /\ \/ load' = load /\ serial' = serial
              \/ \E l \in Loads : Job = Cell(l) /\ CellEnds(l)
              \/ \E l \in Loads : Job = Compile(l) /\ CompileEnds(l)
<1>1. /\ jobs # <<>> /\ jobs' = Tail(jobs)
      /\ UNCHANGED <<records, aliases, sources, reads, registry, disposed, bad>>
      /\ (Alive /\ Answer) \/ (\E reason \in {"compiler", "disposed"} : Fail(reason))
    BY DEF CompilerEnds
<1>2. jobs \in Seq(Jobs) /\ Job \in Jobs /\ 1 \in DOMAIN jobs /\ jobs[1] = Job
    BY <1>1 DEF LoaderTyped, Job
<1>3. CASE Job.op = "inspect"
  <2>1. load' = load /\ serial' = serial
    BY <1>1, <1>3 DEF Answer, Fail
  <2> QED
    BY <1>1, <2>1
<1>4. CASE Job.op # "inspect"
  <2>1. PICK l \in Loads : Job = Cell(l) \/ Job = Compile(l)
    BY <1>2, <1>4 DEF Jobs, Cell, Compile
  <2>2. Job.load = l /\ load[l].phase = PhaseOf(Job.op)
    BY <1>2, <1>4, <2>1 DEF JobsAwaited, Cell, Compile
  <2> DEFINE o == load[l]
             s == Wanted(o.entry)
             e == Emitted(l)
             t == [o EXCEPT !.phase = "walk", !.todo = s]
             u == [o EXCEPT !.phase = "defining", !.left = e]
  <2>3. o \in LoadRecord
    BY DEF LoaderTyped
  <2>4. CASE Job = Cell(l)
    <3>1. Job.op = "cell"
      BY <2>4 DEF Cell
    <3>2. o.entry \in Modules
      BY <2>2, <3>1 DEF Shaped, PhaseOf
    <3>3. s \in Seq(Items)
      BY <3>2, WantedItems
    <3>4. \/ load' = [load EXCEPT ![l] = t] /\ UNCHANGED <<inspection, serial>>
          \/ load' = Rejected({l}, "compiler") /\ UNCHANGED <<inspection, serial>>
          \/ load' = Rejected({l}, "disposed") /\ UNCHANGED <<inspection, serial>>
      BY <1>1, <2>2, <3>1 DEF Answer, Fail
    <3> HIDE DEF o, s
    <3>5. /\ t \in LoadRecord /\ t.entry = o.entry /\ t.phase = "walk" /\ t.at = o.at /\ t.todo = s
          /\ t.staged = o.staged /\ t.additions = o.additions /\ t.left = o.left /\ t.reason = o.reason
      BY <2>3, <3>3 DEF LoadRecord, Phases
    <3> HIDE DEF t
    <3>6. load' = [load EXCEPT ![l] = t]
          => Became(l, "walk", o.at, s, o.staged, o.additions, o.left, o.reason)
      BY <3>5 DEF LoaderTyped, Became, Turned, Others, o
    <3>7. CellEnds(l)
      BY <3>4, <3>6, FailedEffect DEF CellEnds, o, s
    <3> QED
      BY <1>1, <2>4, <3>7
  <2>5. CASE Job = Compile(l)
    <3>1. Job.op = "compile"
      BY <2>5 DEF Compile
    <3>2. \/ End(l, "rejected", "types") /\ inspection' = inspection /\ Errors(Texts(l)) # {}
          \/ End(l, "rejected", "compiler") /\ inspection' = inspection
          \/ End(l, "rejected", "disposed") /\ inspection' = inspection
          \/ load' = [load EXCEPT ![l] = u] /\ UNCHANGED <<inspection, serial>> /\ Alive /\ Errors(Texts(l)) = {}
      BY <1>1, <2>2, <3>1 DEF Answer, Fail
    <3>0. e \in SUBSET Modules
      BY <2>3 DEF Emitted, LoadRecord
    <3> HIDE DEF o, e
    <3>3. /\ u \in LoadRecord /\ u.entry = o.entry /\ u.phase = "defining" /\ u.at = o.at
          /\ u.todo = o.todo /\ u.staged = o.staged /\ u.additions = o.additions
          /\ u.left = e /\ u.reason = o.reason
      BY <2>3, <3>0 DEF LoadRecord, Phases
    <3> HIDE DEF u
    <3>4. ASSUME NEW reason \in {"types", "compiler", "disposed"}, End(l, "rejected", reason)
          PROVE  Failed(l, reason) /\ serial' = Tail(serial)
      BY <3>4, EndEffect DEF Failed, Dropped, Became
    <3>5. load' = [load EXCEPT ![l] = u]
          => Became(l, "defining", o.at, o.todo, o.staged, o.additions, e, o.reason)
      BY <3>3 DEF LoaderTyped, Became, Turned, Others, o
    <3>6. CompileEnds(l)
      BY <3>2, <3>4, <3>5 DEF CompileEnds, o, e
    <3> QED
      BY <1>1, <2>5, <3>6
  <2> QED
    BY <2>1, <2>4, <2>5
<1> QED
    BY <1>3, <1>4
-----------------------------------------------------------------------------
(* The first layer: shapes, turns and jobs.                                 *)
AwaitsJob(l) == load[l].phase \in {"cell", "compiling"}

(* A job of a load, rather than of a source.                               *)
LEMMA JobLoads ==
    ASSUME LoaderTyped, NEW p \in DOMAIN jobs, jobs[p].op # "inspect"
    PROVE  jobs[p].load \in Loads /\ PhaseOf(jobs[p].op) \in {"cell", "compiling"}
<1>1. jobs[p] \in Jobs
    BY DEF LoaderTyped
<1> QED
    BY <1>1 DEF Jobs, PhaseOf

(* A step moves some loads, and the chain of turns by at most one of them. *)
LEMMA TurnsKept ==
    ASSUME LoaderTyped, OneTurn, NEW ls \in SUBSET Loads, Others(ls),
           \A l \in ls : load'[l].phase \in Turning => serial' # <<>> /\ Head(serial') = l,
           \/ serial' = serial
           \/ \E k \in Loads : serial' = Append(serial, k)
           \/ serial # <<>> /\ Head(serial) \in ls
    PROVE  OneTurn'
<1> SUFFICES ASSUME NEW l \in Loads, load'[l].phase \in Turning, l \notin ls
             PROVE  serial' # <<>> /\ Head(serial') = l
    BY DEF OneTurn
<1>1. load[l].phase \in Turning
    BY DEF Others
<1>2. serial \in Seq(Loads) /\ serial # <<>> /\ Head(serial) = l
    BY <1>1 DEF OneTurn, LoaderTyped
<1>3. ASSUME NEW k \in Loads, serial' = Append(serial, k)
      PROVE  serial' # <<>> /\ Head(serial') = l
    BY <1>2, <1>3
<1> QED
    BY <1>2, <1>3

(* The jobs are those of before, or the first has ended, or another has     *)
(* been added by a load that begins to wait for it.                         *)
LEMMA JobsKept ==
    ASSUME LoaderTyped, JobsAwaited, NEW ls \in SUBSET Loads, Others(ls), jobs' = jobs,
           \A l \in ls : ~AwaitsJob(l)
    PROVE  JobsAwaited'
<1>1. ASSUME NEW p \in DOMAIN jobs, jobs[p].op # "inspect"
      PROVE  load'[jobs[p].load].phase = PhaseOf(jobs[p].op)
  <2>1. /\ jobs[p].load \in Loads /\ PhaseOf(jobs[p].op) \in {"cell", "compiling"}
        /\ load[jobs[p].load].phase = PhaseOf(jobs[p].op)
    BY <1>1, JobLoads DEF JobsAwaited
  <2>2. jobs[p].load \notin ls
    BY <2>1 DEF AwaitsJob
  <2> QED
    BY <2>1, <2>2 DEF Others
<1> QED
    BY <1>1 DEF JobsAwaited, PhaseOf

LEMMA JobsAdded ==
    ASSUME LoaderTyped, JobsAwaited, NEW l \in Loads, Others({l}), ~AwaitsJob(l),
           NEW j \in Jobs, jobs' = Append(jobs, j),
           j.op # "inspect" => j.load = l /\ load'[l].phase = PhaseOf(j.op)
    PROVE  JobsAwaited' /\ jobs' \in Seq(Jobs)
<1> DEFINE n == Len(jobs)
<1>1. jobs \in Seq(Jobs)
    BY DEF LoaderTyped
<1>2. /\ jobs' \in Seq(Jobs) /\ n \in Nat /\ DOMAIN jobs = 1..n /\ DOMAIN jobs' = 1..(n + 1)
      /\ \A p \in 1..n : jobs'[p] = jobs[p]
      /\ jobs'[n + 1] = j
    BY <1>1
<1> HIDE DEF n
<1>3. ASSUME NEW p \in DOMAIN jobs, jobs[p].op # "inspect"
      PROVE  jobs[p].load # l /\ load'[jobs[p].load].phase = PhaseOf(jobs[p].op)
  <2>1. /\ jobs[p].load \in Loads /\ PhaseOf(jobs[p].op) \in {"cell", "compiling"}
        /\ load[jobs[p].load].phase = PhaseOf(jobs[p].op)
    BY <1>3, JobLoads DEF JobsAwaited
  <2>2. jobs[p].load # l
    BY <2>1 DEF AwaitsJob
  <2> QED
    BY <2>1, <2>2 DEF Others
<1>4. \A p \in DOMAIN jobs' : (p \in DOMAIN jobs /\ jobs'[p] = jobs[p]) \/ (p = n + 1 /\ jobs'[p] = j)
    BY <1>2
<1>5. ASSUME NEW p \in DOMAIN jobs', jobs'[p].op # "inspect"
      PROVE  load'[jobs'[p].load].phase = PhaseOf(jobs'[p].op)
    BY <1>3, <1>4, <1>5
<1>6. ASSUME NEW p \in DOMAIN jobs', NEW q \in DOMAIN jobs',
             jobs'[p].op # "inspect", jobs'[q].op # "inspect", jobs'[p].load = jobs'[q].load
      PROVE  p = q
    BY <1>3, <1>4, <1>6 DEF JobsAwaited
<1> QED
    BY <1>2, <1>5, <1>6 DEF JobsAwaited, PhaseOf

LEMMA JobEnds ==
    ASSUME LoaderTyped, JobsAwaited, jobs # <<>>, jobs' = Tail(jobs),
           \/ load' = load
           \/ \E l \in Loads : Job.op # "inspect" /\ Job.load = l /\ Others({l})
    PROVE  JobsAwaited' /\ jobs' \in Seq(Jobs)
<1> DEFINE n == Len(jobs)
<1>1. jobs \in Seq(Jobs)
    BY DEF LoaderTyped
<1>2. /\ jobs' \in Seq(Jobs) /\ n \in Nat /\ n >= 1 /\ DOMAIN jobs = 1..n /\ DOMAIN jobs' = 1..(n - 1)
      /\ \A p \in 1..(n - 1) : jobs'[p] = jobs[p + 1]
      /\ jobs[1] = Job
    BY <1>1 DEF Job
<1> HIDE DEF n
<1>3. ASSUME NEW p \in DOMAIN jobs'
      PROVE  p + 1 \in DOMAIN jobs /\ jobs'[p] = jobs[p + 1] /\ p + 1 # 1 /\ p \in Int
    BY <1>2
<1>4. ASSUME NEW p \in DOMAIN jobs, p # 1, jobs[p].op # "inspect"
      PROVE  load'[jobs[p].load].phase = PhaseOf(jobs[p].op)
  <2>1. jobs[p].load \in Loads /\ load[jobs[p].load].phase = PhaseOf(jobs[p].op)
    BY <1>4, JobLoads DEF JobsAwaited
  <2>2. ASSUME NEW l \in Loads, Job.op # "inspect", Job.load = l, Others({l})
        PROVE  load'[jobs[p].load] = load[jobs[p].load]
    <3>1. 1 \in DOMAIN jobs
      BY <1>2
    <3>2. jobs[p].load # l
      BY <1>2, <1>4, <2>2, <3>1 DEF JobsAwaited
    <3> QED
      BY <2>1, <2>2, <3>2 DEF Others
  <2> QED
    BY <2>1, <2>2
<1>5. ASSUME NEW p \in DOMAIN jobs', jobs'[p].op # "inspect"
      PROVE  load'[jobs'[p].load].phase = PhaseOf(jobs'[p].op)
    BY <1>3, <1>4, <1>5
<1>6. ASSUME NEW p \in DOMAIN jobs', NEW q \in DOMAIN jobs',
             jobs'[p].op # "inspect", jobs'[q].op # "inspect", jobs'[p].load = jobs'[q].load
      PROVE  p = q
  <2>1. p + 1 = q + 1
    BY <1>3, <1>6 DEF JobsAwaited
  <2> QED
    BY <1>3, <2>1
<1> QED
    BY <1>2, <1>5, <1>6 DEF JobsAwaited, PhaseOf

(* The loads that do not move keep their shape, for texts are never         *)
(* dropped, and those that fail keep what they hold.                        *)
LEMMA ShapeKept ==
    ASSUME NEW l \in Loads, Shaped(l), DOMAIN sources \subseteq DOMAIN sources', load'[l] = load[l]
    PROVE  Shaped(l)'
    BY DEF Shaped, Fetching, Upcoming, Emitted

LEMMA ShapeDropped ==
    ASSUME NEW l \in Loads, Shaped(l), DOMAIN sources \subseteq DOMAIN sources',
           load[l].phase # "idle", NEW reason, Dropped(l, reason)
    PROVE  Shaped(l)'
    BY DEF Shaped, Dropped, Turned, Fetching, Upcoming, Emitted

LEMMA OthersKeepShape ==
    ASSUME NEW ls \in SUBSET Loads, \A l \in Loads : Shaped(l), Others(ls),
           DOMAIN sources \subseteq DOMAIN sources', \A l \in ls : Shaped(l)'
    PROVE  \A l \in Loads : Shaped(l)'
<1>1. ASSUME NEW l \in Loads, l \notin ls PROVE Shaped(l)'
    BY <1>1, ShapeKept DEF Others
<1> QED
    BY <1>1

(* A text is added, and none is changed.                                   *)
LEMMA MoreTexts ==
    ASSUME NEW m \in Modules
    PROVE  /\ DOMAIN Stored(m) = DOMAIN sources \cup {m}
           /\ \A s \in DOMAIN sources : Stored(m)[s] = sources[s]
    BY DEF Stored

(* The layer itself: one lemma per group of operations.                    *)
LEMMA StructureStarts == Init => Structure
<1> SUFFICES ASSUME Init PROVE Structure
    OBVIOUS
<1>1. NoLoad \in LoadRecord
  <2>1. <<>> \in Seq(Items)
    OBVIOUS
  <2> QED
    BY <2>1 DEF NoLoad, LoadRecord, Phases
<1>2. DOMAIN sources = {} /\ jobs \in Seq(Jobs) /\ serial \in Seq(Loads) /\ DOMAIN jobs = {}
    BY DEF Init
<1>3. LoaderTyped
    BY <1>1, <1>2 DEF Init, LoaderTyped
<1>4. ASSUME NEW l \in Loads
      PROVE  /\ load[l].phase = "idle" /\ load[l].reason = "none" /\ load[l].staged = {}
             /\ load[l].additions = {} /\ load[l].left = {}
    BY DEF Init, NoLoad
<1>5. \A l \in Loads : Shaped(l)
    BY <1>4 DEF Shaped, Fetching, Upcoming, Emitted
<1>6. OneTurn
    BY <1>4 DEF OneTurn, Turning
<1> QED
    BY <1>2, <1>3, <1>5, <1>6 DEF Structure, JobsAwaited

(* A load takes a step of its own.                                         *)
LEMMA StepKeepsStructure ==
    ASSUME Structure, NEW l \in Loads, Step(l) \/ DefineRefused(l)
    PROVE  Structure'
<1> DEFINE o == load[l]
<1>1. /\ LoaderTyped /\ (\A k \in Loads : Shaped(k)) /\ OneTurn /\ JobsAwaited
      /\ Shaped(l) /\ o \in LoadRecord /\ serial \in Seq(Loads) /\ jobs \in Seq(Jobs)
    BY DEF Structure, LoaderTyped
<1>2. /\ records \subseteq DOMAIN sources /\ reads \subseteq Modules
      /\ DOMAIN sources \subseteq {m \in Modules : Redirect[m] = m}
      /\ disposed \in {"no", "broken", "disposed"}
    BY <1>1 DEF LoaderTyped
<1>3. \A k \in Loads : Append(serial, k) \in Seq(Loads) /\ Append(serial, k) # <<>>
    BY <1>1, AppendProperties
<1>4. serial # <<>> => Tail(serial) \in Seq(Loads)
    BY <1>1
<1>5. ASSUME Others({l}), Shaped(l)', sources' = sources, records' \subseteq DOMAIN sources, reads' \subseteq Modules,
             disposed' \in {"no", "broken", "disposed"}, jobs' \in Seq(Jobs), serial' \in Seq(Loads),
             JobsAwaited', OneTurn'
      PROVE  Structure'
  <2>1. \A k \in Loads : Shaped(k)'
    BY <1>1, <1>5, OthersKeepShape
  <2> QED
    BY <1>2, <1>5, <2>1 DEF Structure, LoaderTyped, Others
<1>6. ASSUME Others({l}), Shaped(l)', sources' = sources, records' \subseteq DOMAIN sources, reads' \subseteq Modules,
             disposed' \in {"no", "broken", "disposed"}, jobs' = jobs, ~AwaitsJob(l),
             serial' = serial \/ serial' = Append(serial, l) \/ (serial # <<>> /\ Head(serial) = l /\ serial' = Tail(serial)),
             load'[l].phase \in Turning => serial' # <<>> /\ Head(serial') = l
      PROVE  Structure'
  <2>1. JobsAwaited'
    BY <1>1, <1>6, JobsKept
  <2>2. OneTurn'
    BY <1>1, <1>6, TurnsKept
  <2> QED
    BY <1>1, <1>3, <1>4, <1>5, <1>6, <2>1, <2>2
<1>7. ASSUME NEW reason, Dropped(l, reason), o.phase # "idle", sources' = sources
      PROVE  Shaped(l)' /\ load'[l].phase \notin Turning
    BY <1>1, <1>7, ShapeDropped DEF Dropped, Turned, Turning
<1>15. ASSUME Returned(l), o.phase # "idle", o.phase \notin {"defining", "rejected"},
              o.todo # <<>>, sources' = sources
       PROVE  Others({l}) /\ Shaped(l)' /\ load'[l].phase \notin Turning
    BY <1>1, <1>15 DEF Returned, Became, Turned, Shaped, Fetching, Upcoming, Emitted, Turning
<1>8. CASE Leave(l)
  <2>1. /\ o.phase = "walk" /\ o.todo # <<>>
        /\ UNCHANGED <<records, sources, reads, disposed, jobs, serial>>
        /\ Failed(l, "declaration") \/ Returned(l)
    BY <1>1, <1>8, LeaveEffect DEF shared
  <2>2. Others({l}) /\ Shaped(l)' /\ load'[l].phase \notin Turning
    BY <1>1, <1>7, <1>15, <2>1 DEF Failed
  <2> QED
    BY <1>2, <1>6, <2>1, <2>2 DEF AwaitsJob
<1>16. CASE TakeTurn(l)
  <2>1. /\ o.phase = "walk" /\ o.todo = <<>> /\ Moved(l, "queued")
        /\ UNCHANGED <<records, sources, reads, disposed, jobs>> /\ serial' = Append(serial, l)
    BY <1>1, <1>16, TakeTurnEffect DEF shared
  <2>2. Others({l}) /\ Shaped(l)' /\ load'[l].phase \notin Turning
    BY <1>1, <2>1 DEF Moved, Became, Turned, Shaped, Fetching, Upcoming, Emitted, Turning
  <2> QED
    BY <1>2, <1>6, <2>1, <2>2 DEF AwaitsJob
<1>9. CASE Collect(l)
  <2>1. /\ o.phase = "walk" /\ o.todo # <<>> /\ reads' \subseteq Modules
        /\ UNCHANGED <<records, sources, disposed, jobs, serial>>
    BY <1>1, <1>9, CollectEffect
  <2>2. \/ Failed(l, "disposed") \/ Failed(l, "limit") \/ Failed(l, "declaration")
        \/ Returned(l)
        \/ \E m \in Modules, phase \in {"sourced", "reading"} :
              /\ Redirect[m] = Redirect[Upcoming(l).import.url]
              /\ phase = "sourced" => m \in DOMAIN sources
              /\ Fetched(l, phase, m)
    BY <1>1, <1>9, CollectEffect
  <2>3. ASSUME NEW m \in Modules, NEW phase \in {"sourced", "reading"}, Fetched(l, phase, m),
               Redirect[m] = Redirect[Upcoming(l).import.url], phase = "sourced" => m \in DOMAIN sources
        PROVE  Others({l}) /\ Shaped(l)' /\ load'[l].phase \notin Turning
    BY <1>1, <2>1, <2>3 DEF Fetched, Became, Turned, Shaped, Fetching, Upcoming, Emitted, Turning
  <2>4. Others({l}) /\ Shaped(l)' /\ load'[l].phase \notin Turning
    BY <1>7, <1>15, <2>1, <2>2, <2>3 DEF Failed
  <2> QED
    BY <1>2, <1>6, <2>1, <2>4 DEF AwaitsJob
<1>10. CASE Stage(l)
  <2>1. o.phase = "sourced" /\ o.todo # <<>> /\ o.at \in DOMAIN sources /\ o.at \in Modules
    BY <1>1, <1>10 DEF Stage, Shaped, Fetching
  <2>2. /\ UNCHANGED <<records, sources, reads, serial, disposed>>
        /\ jobs' = jobs \/ jobs' = Append(jobs, Inspect(o.at))
        /\ \/ Failed(l, "disposed") \/ Failed(l, "declaration") \/ Returned(l)
           \/ Became(l, "inspecting", o.at, o.todo, o.staged \cup {o.at}, o.additions, o.left, o.reason)
    BY <1>1, <1>10, <2>1, StageEffect
  <2>3. ASSUME Became(l, "inspecting", o.at, o.todo, o.staged \cup {o.at}, o.additions, o.left, o.reason)
        PROVE  Others({l}) /\ Shaped(l)' /\ load'[l].phase \notin Turning
    BY <1>1, <2>1, <2>2, <2>3 DEF Became, Turned, Shaped, Fetching, Upcoming, Emitted, Turning
  <2>4. Others({l}) /\ Shaped(l)' /\ load'[l].phase \notin Turning
    BY <1>7, <1>15, <2>1, <2>2, <2>3 DEF Failed
  <2>5. CASE jobs' = jobs
    BY <1>2, <1>6, <2>1, <2>2, <2>4, <2>5 DEF AwaitsJob
  <2>6. CASE jobs' = Append(jobs, Inspect(o.at))
    <3>1. Inspect(o.at) \in Jobs /\ Inspect(o.at).op = "inspect"
      BY <2>1 DEF Inspect, Jobs
    <3>2. JobsAwaited' /\ jobs' \in Seq(Jobs)
      BY <1>1, <2>1, <2>4, <2>6, <3>1, JobsAdded DEF AwaitsJob
    <3>3. OneTurn'
      BY <1>1, <2>2, <2>4, TurnsKept
    <3> QED
      BY <1>1, <1>2, <1>5, <2>2, <2>4, <3>2, <3>3
  <2> QED
    BY <2>2, <2>5, <2>6
<1>11. CASE Inspected(l)
  <2>1. o.phase = "inspecting" /\ o.todo # <<>> /\ o.at \in Modules
    BY <1>1, <1>11 DEF Inspected, Shaped, Fetching
  <2>2. /\ UNCHANGED <<records, sources, reads, serial, disposed, jobs>>
        /\ \/ Failed(l, "inspection")
           \/ Became(l, "walk", o.at, Enter(l), o.staged, o.additions, o.left, o.reason)
    BY <1>1, <1>11, <2>1, InspectedEffect DEF shared
  <2>3. ASSUME Became(l, "walk", o.at, Enter(l), o.staged, o.additions, o.left, o.reason)
        PROVE  Others({l}) /\ Shaped(l)' /\ load'[l].phase \notin Turning
    BY <1>1, <2>1, <2>2, <2>3 DEF Became, Turned, Shaped, Fetching, Upcoming, Emitted, Turning
  <2>4. Others({l}) /\ Shaped(l)' /\ load'[l].phase \notin Turning
    BY <1>7, <2>1, <2>2, <2>3 DEF Failed
  <2> QED
    BY <1>2, <1>6, <2>1, <2>2, <2>4 DEF AwaitsJob
<1>12. CASE Register(l)
  <2>1. /\ o.phase = "queued" /\ serial # <<>> /\ Head(serial) = l
        /\ UNCHANGED <<records, sources, reads, disposed>>
    BY <1>1, <1>12, RegisterEffect DEF shared
  <2>2. CASE Failed(l, "disposed") /\ serial' = Tail(serial) /\ jobs' = jobs
    BY <1>2, <1>6, <1>7, <2>1, <2>2 DEF Failed, AwaitsJob
  <2>3. CASE /\ serial' = Tail(serial) /\ jobs' = jobs
             /\ Became(l, "resolved", o.at, o.todo, o.staged, o.additions, o.left, "none")
    <3>1. Shaped(l)' /\ load'[l].phase \notin Turning /\ Others({l})
      BY <1>1, <2>1, <2>3 DEF Became, Turned, Shaped, Fetching, Upcoming, Emitted, Turning
    <3> QED
      BY <1>2, <1>6, <2>1, <2>3, <3>1 DEF AwaitsJob
  <2>4. CASE /\ serial' = serial /\ jobs' = Append(jobs, Compile(l))
             /\ Became(l, "compiling", o.at, o.todo, o.staged, Additions(l), o.left, o.reason)
    <3>1. Shaped(l)' /\ Others({l}) /\ load'[l].phase = "compiling"
      BY <1>1, <2>1, <2>4 DEF Became, Turned, Shaped, Fetching, Upcoming, Emitted, Additions
    <3>2. Compile(l) \in Jobs /\ Compile(l).load = l /\ PhaseOf(Compile(l).op) = "compiling"
      BY DEF Compile, Jobs, PhaseOf
    <3>3. JobsAwaited' /\ jobs' \in Seq(Jobs)
      BY <1>1, <2>1, <2>4, <3>1, <3>2, JobsAdded DEF AwaitsJob
    <3>4. OneTurn'
      BY <1>1, <2>1, <2>4, <3>1, TurnsKept
    <3> QED
      BY <1>1, <1>2, <1>5, <2>1, <2>4, <3>1, <3>3, <3>4
  <2> QED
    BY <1>1, <1>12, <2>2, <2>3, <2>4, RegisterEffect
<1>13. CASE (\E m \in Modules : Define(l, m)) \/ DefineRefused(l)
  <2>1. DefineRefused(l) => \E m \in Modules : m \in o.left
    BY <1>1 DEF DefineRefused, LoadRecord
  <2>2. PICK m \in Modules : Define(l, m) \/ DefineRefused(l)
    BY <1>13, <2>1
  <2>3. o.phase = "defining" /\ UNCHANGED <<records, sources, reads, jobs>>
    BY <1>1, <2>2, DefineEffect DEF shared
  <2>4. serial # <<>> /\ Head(serial) = l
    BY <1>1, <2>3 DEF OneTurn, Turning
  <2>5. AfterFailure(l) \in {"no", "broken", "disposed"}
    BY <1>2 DEF AfterFailure
  <2>6. CASE /\ serial' = Tail(serial) /\ disposed' = AfterFailure(l)
             /\ \/ Failed(l, "disposed") \/ Failed(l, "registry") \/ Failed(l, "sandbox") \/ Failed(l, "duplicate")
    <3>1. Others({l}) /\ Shaped(l)' /\ load'[l].phase \notin Turning
      BY <1>7, <2>3, <2>6 DEF Failed
    <3> QED
      BY <1>2, <1>6, <2>3, <2>4, <2>5, <2>6, <3>1 DEF AwaitsJob
  <2>7. CASE /\ serial' = serial /\ disposed' = disposed
             /\ Became(l, "defining", o.at, o.todo, o.staged, o.additions, o.left \ {m}, o.reason)
    <3>1. Others({l}) /\ Shaped(l)'
      BY <1>1, <2>3, <2>7 DEF Became, Turned, Shaped, Fetching, Upcoming, Emitted
    <3> QED
      BY <1>2, <1>6, <2>3, <2>4, <2>7, <3>1 DEF AwaitsJob
  <2> QED
    BY <1>1, <2>2, <2>6, <2>7, DefineEffect
<1>14. CASE Registered(l)
  <2>1. /\ o.phase = "defining" /\ o.left = {}
        /\ records' = records \cup o.additions /\ serial' = Tail(serial)
        /\ UNCHANGED <<sources, reads, jobs, disposed>>
        /\ Became(l, "resolved", o.at, o.todo, o.staged, o.additions, o.left, "none")
    BY <1>1, <1>14, RegisteredEffect DEF shared
  <2>2. serial # <<>> /\ Head(serial) = l
    BY <1>1, <2>1 DEF OneTurn, Turning
  <2>3. Shaped(l)' /\ load'[l].phase \notin Turning /\ Others({l}) /\ records' \subseteq DOMAIN sources
    BY <1>1, <1>2, <2>1 DEF Became, Turned, Shaped, Fetching, Upcoming, Emitted, Turning
  <2> QED
    BY <1>2, <1>6, <2>1, <2>2, <2>3 DEF AwaitsJob
<1> QED
    BY <1>8, <1>9, <1>10, <1>11, <1>12, <1>13, <1>14, <1>16 DEF Step

LEMMA BeginKeepsStructure ==
    ASSUME Structure, NEW l \in Loads, NEW m \in Entries, Begin(l, m)
    PROVE  Structure'
<1>1. LoaderTyped /\ (\A k \in Loads : Shaped(k)) /\ OneTurn /\ JobsAwaited
    BY DEF Structure
<1>2. /\ load[l].phase = "idle" /\ Others({l})
      /\ UNCHANGED <<records, sources, reads, serial, registry, disposed, bad, faults>>
      /\ jobs' = jobs \/ (jobs' = Append(jobs, Cell(l)) /\ load'[l].phase = "cell")
      /\ load'[l].phase \notin Turning
    BY <1>1, BeginEffect DEF shared, Turning
<1>3. m \in Modules
    BY ModulesAssumption
<1>4. Shaped(l)'
    BY <1>1, <1>3, BeginEffect DEF Shaped, Fetching, Upcoming, Emitted
<1>5. \A k \in Loads : Shaped(k)'
    BY <1>1, <1>2, <1>4, OthersKeepShape
<1>6. OneTurn'
    BY <1>1, <1>2, TurnsKept
<1>7. JobsAwaited' /\ jobs' \in Seq(Jobs)
  <2>1. CASE jobs' = jobs
    BY <1>1, <1>2, <2>1, JobsKept DEF AwaitsJob, LoaderTyped
  <2>2. CASE jobs' = Append(jobs, Cell(l)) /\ load'[l].phase = "cell"
    <3>1. Cell(l) \in Jobs /\ Cell(l).load = l /\ PhaseOf(Cell(l).op) = "cell"
      BY DEF Cell, Jobs, PhaseOf
    <3> QED
      BY <1>1, <1>2, <2>2, <3>1, JobsAdded DEF AwaitsJob
  <2> QED
    BY <1>2, <2>1, <2>2
<1> QED
    BY <1>1, <1>2, <1>5, <1>6, <1>7 DEF Structure, LoaderTyped, Others

LEMMA ReadKeepsStructure ==
    ASSUME Structure, NEW m \in Modules, ReadEnds(m) \/ ReadFails(m)
    PROVE  Structure'
<1> DEFINE ls == Readers(m)
<1>1. LoaderTyped /\ (\A k \in Loads : Shaped(k)) /\ OneTurn /\ JobsAwaited
    BY DEF Structure
<1>2. ls \in SUBSET Loads /\ \A l \in ls : load[l].phase = "reading" /\ load[l].at = m
    BY DEF Readers
<1>3. Redirect[m] \in Modules /\ Redirect[Redirect[m]] = Redirect[m]
    BY ModulesAssumption
<1>4. DOMAIN Stored(Redirect[m]) = DOMAIN sources \cup {Redirect[m]}
    BY <1>3, MoreTexts
<1>5. /\ Others(ls) /\ reads' \subseteq Modules /\ UNCHANGED <<records, jobs, serial, disposed>>
      /\ \/ sources' = sources /\ \A l \in ls : Dropped(l, "disposed")
         \/ sources' = sources /\ \A l \in ls : Dropped(l, "read")
         \/ /\ sources' = Stored(Redirect[m])
            /\ \A l \in ls :
                  Turned(l, "sourced", Redirect[m], load[l].todo, load[l].staged,
                         load[l].additions, load[l].left, load[l].reason)
    BY <1>1, ReadEndsEffect, ReadFailsEffect
<1> HIDE DEF ls
<1>6. DOMAIN sources \subseteq DOMAIN sources' /\ DOMAIN sources' \subseteq {x \in Modules : Redirect[x] = x}
    BY <1>1, <1>3, <1>4, <1>5 DEF LoaderTyped
<1>7. ASSUME NEW l \in ls PROVE Shaped(l)' /\ load'[l].phase \notin Turning
  <2>1. l \in Loads /\ Shaped(l) /\ load[l].phase = "reading" /\ load[l].at = m
    BY <1>1, <1>2
  <2>2. CASE Dropped(l, "disposed") \/ Dropped(l, "read")
    BY <1>6, <2>1, <2>2, ShapeDropped DEF Dropped, Turned, Turning
  <2>3. CASE /\ sources' = Stored(Redirect[m])
             /\ Turned(l, "sourced", Redirect[m], load[l].todo, load[l].staged,
                       load[l].additions, load[l].left, load[l].reason)
    BY <1>3, <1>4, <1>6, <2>1, <2>3 DEF Turned, Shaped, Fetching, Upcoming, Emitted, Turning
  <2> QED
    BY <1>5, <2>2, <2>3
<1>8. \A k \in Loads : Shaped(k)'
    BY <1>1, <1>2, <1>5, <1>6, <1>7, OthersKeepShape
<1>9. OneTurn'
    BY <1>1, <1>2, <1>5, <1>7, TurnsKept
<1>10. JobsAwaited'
    BY <1>1, <1>2, <1>5, JobsKept DEF AwaitsJob
<1> QED
    BY <1>1, <1>5, <1>6, <1>8, <1>9, <1>10 DEF Structure, LoaderTyped, Others

LEMMA CompilerKeepsStructure ==
    ASSUME Structure, CompilerEnds
    PROVE  Structure'
<1>1. LoaderTyped /\ (\A k \in Loads : Shaped(k)) /\ OneTurn /\ JobsAwaited
    BY DEF Structure
<1>2. /\ jobs # <<>> /\ jobs' = Tail(jobs)
      /\ UNCHANGED <<records, sources, reads, registry, disposed, bad>>
      /\ \/ load' = load /\ serial' = serial
         \/ \E l \in Loads : Job = Cell(l) /\ CellEnds(l)
         \/ \E l \in Loads : Job = Compile(l) /\ CompileEnds(l)
    BY <1>1, CompilerEffect
<1>3. Job \in Jobs /\ 1 \in DOMAIN jobs /\ jobs[1] = Job
    BY <1>1, <1>2 DEF LoaderTyped, Job
<1>4. CASE load' = load /\ serial' = serial
  <2>1. JobsAwaited' /\ jobs' \in Seq(Jobs)
    BY <1>1, <1>2, <1>4, JobEnds
  <2>2. (\A k \in Loads : Shaped(k)') /\ OneTurn'
    BY <1>1, <1>2, <1>4, ShapeKept DEF OneTurn
  <2> QED
    BY <1>1, <1>2, <1>4, <2>1, <2>2 DEF Structure, LoaderTyped
<1>5. ASSUME NEW l \in Loads, Job.op # "inspect", Job.load = l, Others({l}), Shaped(l)',
             \/ serial' = serial
             \/ serial # <<>> /\ Head(serial) = l /\ serial' = Tail(serial),
             load'[l].phase \in Turning => serial' # <<>> /\ Head(serial') = l
      PROVE  Structure'
  <2>1. JobsAwaited' /\ jobs' \in Seq(Jobs)
    BY <1>1, <1>2, <1>5, JobEnds
  <2>2. OneTurn'
    BY <1>1, <1>5, TurnsKept
  <2>3. \A k \in Loads : Shaped(k)'
    BY <1>1, <1>2, <1>5, OthersKeepShape
  <2>4. serial' \in Seq(Loads)
    BY <1>1, <1>5 DEF LoaderTyped
  <2> QED
    BY <1>1, <1>2, <1>5, <2>1, <2>2, <2>3, <2>4 DEF Structure, LoaderTyped, Others
<1>6. ASSUME NEW l \in Loads, Job = Cell(l), CellEnds(l)
      PROVE  Structure'
  <2>1. Job.op # "inspect" /\ Job.load = l /\ load[l].phase = "cell"
    BY <1>1, <1>3, <1>6 DEF Cell, JobsAwaited, PhaseOf
  <2>2. /\ serial' = serial /\ Others({l}) /\ load'[l].phase \notin Turning
    BY <1>6 DEF CellEnds, Failed, Dropped, Became, Turned, Turning
  <2>3. Shaped(l)'
    <3>1. CASE Failed(l, "compiler") \/ Failed(l, "disposed")
      BY <1>1, <1>2, <2>1, <3>1, ShapeDropped DEF Failed
    <3>2. CASE Became(l, "walk", load[l].at, Wanted(load[l].entry), load[l].staged,
                      load[l].additions, load[l].left, load[l].reason)
      BY <1>1, <1>2, <2>1, <3>2 DEF Became, Turned, Shaped, Fetching, Upcoming, Emitted
    <3> QED
      BY <1>6, <3>1, <3>2 DEF CellEnds
  <2> QED
    BY <1>5, <2>1, <2>2, <2>3
<1>7. ASSUME NEW l \in Loads, Job = Compile(l), CompileEnds(l)
      PROVE  Structure'
  <2>1. Job.op # "inspect" /\ Job.load = l /\ load[l].phase = "compiling"
    BY <1>1, <1>3, <1>7 DEF Compile, JobsAwaited, PhaseOf
  <2>2. serial # <<>> /\ Head(serial) = l
    BY <1>1, <2>1 DEF OneTurn, Turning
  <2>3. CASE /\ serial' = Tail(serial)
             /\ Failed(l, "compiler") \/ Failed(l, "disposed") \/ Failed(l, "types")
    <3>1. Others({l}) /\ Shaped(l)' /\ load'[l].phase \notin Turning
      BY <1>1, <1>2, <2>1, <2>3, ShapeDropped DEF Failed, Dropped, Turned, Turning
    <3> QED
      BY <1>5, <2>1, <2>2, <2>3, <3>1
  <2>4. CASE /\ serial' = serial
             /\ Became(l, "defining", load[l].at, load[l].todo, load[l].staged,
                       load[l].additions, Emitted(l), load[l].reason)
    <3>1. Others({l}) /\ Shaped(l)'
      BY <1>1, <1>2, <2>1, <2>4 DEF Became, Turned, Shaped, Fetching, Upcoming, Emitted
    <3> QED
      BY <1>5, <2>1, <2>2, <2>4, <3>1
  <2> QED
    BY <1>7, <2>3, <2>4 DEF CompileEnds
<1> QED
    BY <1>2, <1>4, <1>6, <1>7

LEMMA StructureKept == Structure /\ [Next]_vars => Structure'
<1> SUFFICES ASSUME Structure, [Next]_vars PROVE Structure'
    OBVIOUS
<1>1. ASSUME NEW l \in Loads, Step(l) \/ DefineRefused(l) PROVE Structure'
    BY <1>1, StepKeepsStructure
<1>2. ASSUME NEW l \in Loads, NEW m \in Entries, Begin(l, m) PROVE Structure'
    BY <1>2, BeginKeepsStructure
<1>3. ASSUME NEW m \in Modules, ReadEnds(m) \/ ReadFails(m) PROVE Structure'
    BY <1>3, ReadKeepsStructure
<1>4. CASE CompilerEnds
    BY <1>4, CompilerKeepsStructure
<1>5. ASSUME UNCHANGED <<load, sources, reads, jobs, serial>>, records' \subseteq records,
             disposed' \in {"no", "broken", "disposed"}
      PROVE  Structure'
  <2>1. LoaderTyped /\ (\A k \in Loads : Shaped(k)) /\ OneTurn /\ JobsAwaited
    BY DEF Structure
  <2>2. \A k \in Loads : Shaped(k)'
    BY <1>5, <2>1, ShapeKept
  <2>3. LoaderTyped' /\ OneTurn' /\ JobsAwaited'
    BY <1>5, <2>1 DEF LoaderTyped, OneTurn, JobsAwaited, PhaseOf
  <2> QED
    BY <2>2, <2>3 DEF Structure
<1>6. ASSUME NEW m \in Modules, Correct(m) PROVE Structure'
    BY <1>5, <1>6 DEF Correct, shared, Structure, LoaderTyped
<1>7. CASE Dispose
    BY <1>5, <1>7 DEF Dispose
<1>8. CASE UNCHANGED vars
    BY <1>5, <1>8 DEF vars, shared, Structure, LoaderTyped
<1> QED
    BY <1>1, <1>2, <1>3, <1>4, <1>6, <1>7, <1>8 DEF Next
-----------------------------------------------------------------------------
(* The graph of a module: the least complete set around it.                *)

(* A graph holds its entry, and modules only.                              *)
LEMMA GraphRoot ==
    ASSUME NEW e \in Modules
    PROVE  e \in Graph[e] /\ Graph[e] \subseteq Modules
    BY DEF Graph

(* It is the least such set,                                               *)
LEMMA GraphLeast ==
    ASSUME NEW e \in Modules, NEW ms \in SUBSET Modules, e \in ms, Complete(ms)
    PROVE  Graph[e] \subseteq ms
    BY DEF Graph

(* and is complete.                                                        *)
LEMMA TargetsIn ==
    ASSUME NEW is, NEW ms
    PROVE  Targets(is) \subseteq ms <=> \A i \in is : Redirect[i.url] \in ms
    BY DEF Targets

LEMMA GraphClosed ==
    ASSUME NEW e \in Modules, NEW m \in Graph[e], NEW i \in ImportsOf(m)
    PROVE  Redirect[i.url] \in Graph[e]
<1>1. m \in Modules /\ i.url \in Modules
    BY GraphRoot, ImportsAreModules
<1>2. Redirect[i.url] \in Modules
    BY <1>1, ModulesAssumption
<1>3. ASSUME NEW ms \in SUBSET Modules, e \in ms, Complete(ms)
      PROVE  Redirect[i.url] \in ms
  <2>1. m \in ms
    BY <1>3, GraphLeast
  <2>2. Targets(ImportsOf(m)) \subseteq ms
    BY <1>3, <2>1 DEF Complete
  <2> QED
    BY <2>2, TargetsIn
<1> QED
    BY <1>2, <1>3 DEF Graph

(* The second layer.  What is never taken back before the loader is          *)
(* disposed of: a text that was read, the text of a cell, and a record.     *)
TextsKept ==
    /\ DOMAIN sources \subseteq DOMAIN sources'
    /\ \A m \in Cells \cup DOMAIN sources : BadText(m)' <=> BadText(m)
    /\ disposed' # "disposed" => disposed # "disposed" /\ records \subseteq records'

(* What is wrong with some texts stays wrong with more of them.            *)
LEMMA ErrorsGrow ==
    ASSUME NEW ms, NEW ns, ms \subseteq ns
    PROVE  Errors(ms) \subseteq Errors(ns)
    BY DEF Errors

LEMMA ErrorsOfNone == Errors({}) = {}
    BY ModulesAssumption DEF Errors

(* A load that is defining has had its texts compiled.                      *)
LEMMA CompiledStays ==
    ASSUME LoaderTyped, \A l \in Loads : Shaped(l), Compiled, TextsKept, records' = records,
           NEW ls \in SUBSET Loads, Others(ls),
           \A l \in ls : load'[l].phase = "defining" =>
                             load[l].phase = "defining" /\ load'[l].additions = load[l].additions
    PROVE  Compiled'
<1>1. ASSUME NEW ms \in SUBSET (DOMAIN sources)
      PROVE  {m \in ms : BadText(m)'} = {m \in ms : BadText(m)}
    BY <1>1 DEF TextsKept
<1>2. Errors(records)' = Errors(records)
  <2>1. {m \in records : BadText(m)'} = {m \in records : BadText(m)}
    BY <1>1 DEF LoaderTyped
  <2> QED
    BY <2>1 DEF Errors
<1>3. ASSUME NEW l \in Loads, load'[l].phase = "defining"
      PROVE  Errors(records \cup load[l].additions)' = {}
  <2>1. load[l].phase = "defining" /\ load'[l].additions = load[l].additions
    BY <1>3 DEF Others
  <2> DEFINE ms == records \cup load[l].additions
  <2>2. ms \in SUBSET (DOMAIN sources)
    BY DEF LoaderTyped, Shaped
  <2>3. {m \in ms : BadText(m)'} = {m \in ms : BadText(m)} /\ Errors(ms) = {} /\ ms' = ms
    BY <1>1, <2>1, <2>2 DEF Compiled
  <2> QED
    BY <2>3 DEF Errors
<1> QED
    BY <1>2, <1>3 DEF Compiled

(* The loads that do not move stay within their graphs, which never change.*)
LEMMA OthersStayLocal ==
    ASSUME Local, Compiled', NEW ls \in SUBSET Loads, Others(ls), TextsKept,
           \A l \in ls : Within(l)' /\ Blamed(l)'
    PROVE  Local'
<1>1. ASSUME NEW l \in Loads, l \notin ls PROVE Within(l)' /\ Blamed(l)'
  <2>1. load'[l] = load[l] /\ Within(l) /\ Blamed(l)
    BY <1>1 DEF Local, Others
  <2>2. Within(l)' /\ GraphOf(l)' = GraphOf(l)
    BY <2>1 DEF Within, GraphOf
  <2>3. ASSUME load[l].reason = "types", disposed' # "disposed"
        PROVE  Blamed(l)'
    <3>1. PICK m \in GraphOf(l) : \/ BadText(m) /\ m \in Cells \cup DOMAIN sources
                                  \/ \E c \in Clashes : m \in c /\ c \subseteq GraphOf(l) \cup records
      BY <2>1, <2>3 DEF Blamed, TextsKept
    <3>2. \/ BadText(m)' /\ m \in Cells \cup DOMAIN sources'
          \/ \E c \in Clashes : m \in c /\ c \subseteq GraphOf(l) \cup records'
      BY <2>3, <3>1 DEF TextsKept
    <3> QED
      BY <2>2, <3>2 DEF Blamed
  <2> QED
    BY <2>1, <2>2, <2>3 DEF Blamed
<1> QED
    BY <1>1 DEF Local

LEMMA DroppedStaysLocal ==
    ASSUME NEW l \in Loads, Within(l), load[l].phase # "idle",
           NEW reason, reason # "types", Dropped(l, reason)
    PROVE  Within(l)' /\ Blamed(l)'
    BY DEF Within, Blamed, GraphOf, Dropped, Turned

LEMMA LocalStarts == Init => Local
<1> SUFFICES ASSUME Init PROVE Local
    OBVIOUS
<1>1. ASSUME NEW l \in Loads PROVE load[l].phase = "idle" /\ load[l].reason = "none"
    BY DEF Init, NoLoad
<1>2. records = {}
    BY DEF Init
<1> QED
    BY <1>1, <1>2, ErrorsOfNone DEF Local, Within, Blamed, Compiled

LEMMA StepStaysLocal ==
    ASSUME Structure, Local, NEW l \in Loads, Step(l) \/ DefineRefused(l)
    PROVE  Local'
<1> DEFINE o == load[l]
           entry == Redirect[o.entry]
           Still == /\ UNCHANGED <<sources, bad, records>> /\ disposed' \in {disposed, "broken"}
                    /\ disposed' = "broken" => disposed # "disposed"
<1>1. /\ LoaderTyped /\ Shaped(l) /\ Within(l) /\ Blamed(l) /\ o \in LoadRecord
      /\ (\A k \in Loads : Shaped(k)) /\ Compiled
    BY DEF Structure, LoaderTyped, Local
<1>2. ASSUME Still, Others({l}), Within(l)' /\ Blamed(l)',
             load'[l].phase = "defining" => o.phase = "defining" /\ load'[l].additions = o.additions
      PROVE  Local'
  <2>1. {l} \in SUBSET Loads
    OBVIOUS
  <2>2. TextsKept
    BY <1>2 DEF TextsKept, BadText
  <2>3. Compiled'
    BY <1>1, <1>2, <2>1, <2>2, CompiledStays
  <2> QED
    BY <1>2, <2>1, <2>2, <2>3, OthersStayLocal
<1>3. ASSUME NEW reason, reason # "types", Failed(l, reason), o.phase # "idle", Still
      PROVE  Local'
  <2>1. Others({l}) /\ Within(l)' /\ Blamed(l)' /\ load'[l].phase # "defining"
    BY <1>1, <1>3, DroppedStaysLocal DEF Failed, Dropped, Turned
  <2> QED
    BY <1>2, <1>3, <2>1
<1>4. o.phase # "idle" => o.entry \in Modules /\ entry \in Modules
    BY <1>1, ModulesAssumption DEF Shaped
<1>5. ASSUME o.phase # "idle", Still,
             NEW phase, NEW at, NEW todo, NEW staged, NEW additions, NEW left, NEW reason,
             Became(l, phase, at, todo, staged, additions, left, reason), reason # "types",
             staged \subseteq GraphOf(l),
             \A i \in Imported : In(todo, i) => Redirect[i.url] \in GraphOf(l),
             phase = "defining" => o.phase = "defining" /\ additions = o.additions
      PROVE  Local'
  <2>1. Others({l}) /\ Within(l)' /\ Blamed(l)'
    BY <1>1, <1>5 DEF Within, Blamed, GraphOf, Became, Turned
  <2>2. load'[l].phase = "defining" => o.phase = "defining" /\ load'[l].additions = o.additions
    BY <1>5 DEF Became, Turned
  <2> QED
    BY <1>2, <1>5, <2>1, <2>2
<1>6. o.phase \notin {"idle", "rejected"} =>
         /\ o.reason = "none" /\ o.staged \subseteq GraphOf(l)
         /\ \A i \in Imported : In(o.todo, i) => Redirect[i.url] \in GraphOf(l)
    BY <1>1 DEF Shaped, Within
<1>7. o.todo # <<>> => Upcoming(l).import \in Imported /\ \A i : In(o.todo, i) <=> i = Upcoming(l).import \/ In(Tail(o.todo), i)
    BY <1>1, Split DEF LoadRecord, Upcoming
<1>8. ASSUME Returned(l), Still, o.phase \in Traversing, o.todo # <<>>
      PROVE  Local'
  <2>1. \A i \in Imported : In(Tail(o.todo), i) => Redirect[i.url] \in GraphOf(l)
    BY <1>6, <1>7, <1>8 DEF Traversing, Fetching
  <2> QED
    BY <1>5, <1>6, <1>8, <2>1 DEF Returned, Traversing, Fetching
<1>9. CASE Leave(l)
  <2>1. o.phase = "walk" /\ o.todo # <<>> /\ Still /\ (Failed(l, "declaration") \/ Returned(l))
    BY <1>1, <1>9, LeaveEffect DEF shared
  <2> QED
    BY <1>3, <1>8, <2>1 DEF Traversing
<1>10. CASE TakeTurn(l)
  <2>1. o.phase = "walk" /\ Still /\ Moved(l, "queued")
    BY <1>1, <1>10, TakeTurnEffect DEF shared
  <2> QED
    BY <1>5, <1>6, <2>1 DEF Moved
<1>11. CASE Collect(l)
  <2>1. /\ o.phase = "walk" /\ o.todo # <<>> /\ Still
        /\ \/ Failed(l, "disposed") \/ Failed(l, "limit") \/ Failed(l, "declaration")
           \/ Returned(l)
           \/ \E m \in Modules, phase \in {"sourced", "reading"} : Fetched(l, phase, m)
    BY <1>1, <1>11, CollectEffect
  <2>2. ASSUME NEW m \in Modules, NEW phase \in {"sourced", "reading"}, Fetched(l, phase, m)
        PROVE  Local'
    BY <1>5, <1>6, <2>1, <2>2 DEF Fetched
  <2> QED
    BY <1>3, <1>8, <2>1, <2>2 DEF Traversing
<1>12. CASE Stage(l)
  <2>1. o.phase = "sourced" /\ o.todo # <<>> /\ o.at \in Modules /\ Redirect[o.at] = o.at
    BY <1>1, <1>12 DEF Stage, Shaped, Fetching, LoaderTyped
  <2>2. o.at \in GraphOf(l)
    <3>1. Redirect[o.at] = Redirect[Upcoming(l).import.url]
      BY <1>1, <2>1 DEF Shaped, Fetching
    <3> QED
      BY <1>6, <1>7, <2>1, <3>1
  <2>3. /\ Still
        /\ \/ Failed(l, "disposed") \/ Failed(l, "declaration") \/ Returned(l)
           \/ Became(l, "inspecting", o.at, o.todo, o.staged \cup {o.at}, o.additions, o.left, o.reason)
    BY <1>1, <1>12, <2>1, StageEffect
  <2>4. ASSUME Became(l, "inspecting", o.at, o.todo, o.staged \cup {o.at}, o.additions, o.left, o.reason)
        PROVE  Local'
    <3>1. o.staged \cup {o.at} \subseteq GraphOf(l)
      BY <1>6, <2>1, <2>2
    <3> QED
      BY <1>5, <1>6, <2>1, <2>3, <2>4, <3>1
  <2> QED
    BY <1>3, <1>8, <2>1, <2>3, <2>4 DEF Traversing, Fetching
<1>13. CASE Inspected(l)
  <2>1. /\ o.phase = "inspecting" /\ o.todo # <<>> /\ o.at \in Modules /\ o.at \in o.staged
        /\ o.todo \in Seq(Items)
    BY <1>1, <1>13 DEF Inspected, Shaped, Fetching, LoadRecord
  <2>2. \A j \in Imported : In(Enter(l), j) => Redirect[j.url] \in GraphOf(l)
    <3>1. \A j \in ImportsOf(o.at) : Redirect[j.url] \in GraphOf(l)
      BY <1>4, <1>6, <2>1, GraphClosed DEF GraphOf
    <3>2. \A j : In(Enter(l), j) <=> j \in ImportsOf(o.at) \/ In(o.todo, j)
      BY <2>1, EnterItems
    <3> QED
      BY <1>6, <2>1, <3>1, <3>2
  <2>3. /\ Still
        /\ \/ Failed(l, "inspection")
           \/ Became(l, "walk", o.at, Enter(l), o.staged, o.additions, o.left, o.reason)
    BY <1>1, <1>13, <2>1, InspectedEffect DEF shared
  <2>4. ASSUME Became(l, "walk", o.at, Enter(l), o.staged, o.additions, o.left, o.reason)
        PROVE  Local'
    BY <1>5, <1>6, <2>1, <2>2, <2>3, <2>4
  <2> QED
    BY <1>3, <2>1, <2>3, <2>4
<1>14. CASE Register(l)
  <2>1. o.phase = "queued" /\ Still
    BY <1>1, <1>14, RegisterEffect DEF shared
  <2>2. \/ Failed(l, "disposed")
        \/ Became(l, "resolved", o.at, o.todo, o.staged, o.additions, o.left, "none")
        \/ Became(l, "compiling", o.at, o.todo, o.staged, Additions(l), o.left, o.reason)
    BY <1>1, <1>14, RegisterEffect
  <2>3. CASE Failed(l, "disposed")
    BY <1>3, <2>1, <2>3
  <2>4. CASE \/ Became(l, "resolved", o.at, o.todo, o.staged, o.additions, o.left, "none")
             \/ Became(l, "compiling", o.at, o.todo, o.staged, Additions(l), o.left, o.reason)
    BY <1>5, <1>6, <2>1, <2>4
  <2> QED
    BY <2>2, <2>3, <2>4
<1>15. CASE (\E m \in Modules : Define(l, m)) \/ DefineRefused(l)
  <2>1. PICK m \in Modules : Define(l, m) \/ DefineRefused(l)
    BY <1>1, <1>15 DEF DefineRefused, LoadRecord
  <2>2. o.phase = "defining" /\ Still
    BY <1>1, <2>1, DefineEffect DEF shared, AfterFailure, Alive
  <2>3. \/ Failed(l, "disposed") \/ Failed(l, "registry") \/ Failed(l, "sandbox") \/ Failed(l, "duplicate")
        \/ Became(l, "defining", o.at, o.todo, o.staged, o.additions, o.left \ {m}, o.reason)
    BY <1>1, <2>1, DefineEffect
  <2>4. CASE Failed(l, "disposed") \/ Failed(l, "registry") \/ Failed(l, "sandbox") \/ Failed(l, "duplicate")
    BY <1>3, <2>2, <2>4
  <2>5. CASE Became(l, "defining", o.at, o.todo, o.staged, o.additions, o.left \ {m}, o.reason)
    BY <1>5, <1>6, <2>2, <2>5
  <2> QED
    BY <2>3, <2>4, <2>5
<1>16. CASE Registered(l)
  <2>1. /\ o.phase = "defining" /\ records' = records \cup o.additions
        /\ UNCHANGED <<sources, bad, disposed>>
        /\ Became(l, "resolved", o.at, o.todo, o.staged, o.additions, o.left, "none")
    BY <1>1, <1>16, RegisteredEffect DEF shared
  <2>2. Others({l}) /\ Within(l)' /\ Blamed(l)' /\ load'[l].phase # "defining"
    BY <1>1, <2>1 DEF Within, Blamed, GraphOf, Became, Turned
  <2>3. TextsKept
    BY <2>1 DEF TextsKept, BadText
  <2>4. \A k \in Loads : load'[k].phase # "defining"
    <3>1. ASSUME NEW k \in Loads, k # l, load[k].phase = "defining" PROVE FALSE
      BY <2>1, <3>1 DEF Structure, OneTurn, Turning
    <3> QED
      BY <2>2, <3>1 DEF Others
  <2>5. Errors(records)' = {}
  <3>1. Errors(records \cup o.additions) = {}
      BY <1>1, <2>1 DEF Compiled
    <3> QED
      BY <2>1, <3>1 DEF Errors, BadText
  <2>6. Compiled'
    BY <2>4, <2>5 DEF Compiled
  <2>7. {l} \in SUBSET Loads
    OBVIOUS
  <2> QED
    BY <2>2, <2>3, <2>6, <2>7, OthersStayLocal
<1> QED
    BY <1>9, <1>10, <1>11, <1>12, <1>13, <1>14, <1>15, <1>16 DEF Step

LEMMA BeginStaysLocal ==
    ASSUME Structure, Local, NEW l \in Loads, NEW m \in Entries, Begin(l, m)
    PROVE  Local'
<1>1. LoaderTyped /\ (\A k \in Loads : Shaped(k)) /\ Compiled
    BY DEF Structure, Local
<1>2. /\ Others({l}) /\ UNCHANGED <<sources, bad, records, disposed>>
      /\ load'[l].entry = m /\ load'[l].staged = {}
      /\ load'[l].phase # "defining" /\ load'[l].reason # "types"
      /\ load'[l].todo = <<>> \/ (load'[l].todo = <<Item(Executed(m), "wanted")>> /\ m \notin Cells)
    BY <1>1, BeginEffect DEF shared
<1>3. m \in Modules /\ Redirect[m] \in Modules /\ Redirect[m] \in Graph[Redirect[m]]
    BY GraphRoot, ModulesAssumption
<1>4. \A i : In(<<Item(Executed(m), "wanted")>>, i) => i.url = m
  <2>1. Item(Executed(m), "wanted") \in Items
    BY <1>3 DEF Item, Executed, Items, Imported
  <2>2. \A x : Has(<<Item(Executed(m), "wanted")>>, x) <=> x = Item(Executed(m), "wanted")
    BY <2>1, Single
  <2>3. ASSUME NEW i, NEW e, Item(i, e) = Item(Executed(m), "wanted") PROVE i.url = m
    <3>1. i = Executed(m)
      BY <2>3, ItemParts
    <3> QED
      BY <3>1 DEF Executed
  <2> QED
    BY <2>2, <2>3 DEF In
<1>5. Within(l)' /\ Blamed(l)'
    BY <1>2, <1>3, <1>4, Nothing DEF Within, Blamed, GraphOf
<1>6. TextsKept /\ {l} \in SUBSET Loads
    BY <1>2 DEF TextsKept, BadText
<1>7. Compiled'
    BY <1>1, <1>2, <1>6, CompiledStays
<1> QED
    BY <1>2, <1>5, <1>6, <1>7, OthersStayLocal

LEMMA ReadStaysLocal ==
    ASSUME Structure, Local, NEW m \in Modules, ReadEnds(m) \/ ReadFails(m)
    PROVE  Local'
<1> DEFINE ls == Readers(m)
<1>1. LoaderTyped /\ (\A l \in Loads : Shaped(l) /\ Within(l)) /\ Compiled
    BY DEF Structure, Local
<1>2. /\ ls \in SUBSET Loads
      /\ \A l \in ls : l \in Loads /\ load[l].phase = "reading" /\ load[l].at = m
    BY DEF Readers
<1>3. Redirect[m] \in Modules /\ Redirect[Redirect[m]] = Redirect[m]
    BY ModulesAssumption
<1>4. /\ Others(ls) /\ UNCHANGED <<bad, records, disposed>>
      /\ \/ sources' = sources /\ \A l \in ls : Dropped(l, "disposed")
         \/ sources' = sources /\ \A l \in ls : Dropped(l, "read")
         \/ /\ sources' = Stored(Redirect[m])
            /\ \A l \in ls :
                  Turned(l, "sourced", Redirect[m], load[l].todo, load[l].staged,
                         load[l].additions, load[l].left, load[l].reason)
    BY <1>1, ReadEndsEffect, ReadFailsEffect
<1>5. TextsKept
  <2>1. /\ DOMAIN sources \subseteq DOMAIN sources'
        /\ \A s \in DOMAIN sources : sources'[s] = sources[s]
    BY <1>3, <1>4, MoreTexts
  <2>2. ASSUME NEW c \in Cells, c \notin DOMAIN sources PROVE BadText(c)' <=> BadText(c)
    <3>1. CASE c \in DOMAIN sources'
      BY <1>3, <1>4, <2>2, <3>1 DEF Stored, BadText
    <3>2. CASE c \notin DOMAIN sources'
      BY <1>4, <2>2, <3>2 DEF BadText
    <3> QED
      BY <3>1, <3>2
  <2> QED
    BY <1>4, <2>1, <2>2 DEF TextsKept, BadText
<1> HIDE DEF ls
<1>6. ASSUME NEW l \in ls PROVE Within(l)' /\ Blamed(l)' /\ load'[l].phase # "defining"
  <2>1. l \in Loads /\ Within(l) /\ Shaped(l) /\ load[l].phase = "reading" /\ load[l].at = m
    BY <1>1, <1>2
  <2>2. CASE Dropped(l, "disposed") \/ Dropped(l, "read")
    BY <2>1, <2>2, DroppedStaysLocal DEF Dropped, Turned
  <2>3. CASE Turned(l, "sourced", Redirect[m], load[l].todo, load[l].staged,
                    load[l].additions, load[l].left, load[l].reason)
    BY <2>1, <2>3 DEF Turned, Shaped, Within, Blamed, GraphOf
  <2> QED
    BY <1>4, <2>2, <2>3
<1>7. Compiled'
    BY <1>1, <1>2, <1>4, <1>5, <1>6, CompiledStays
<1> QED
    BY <1>2, <1>4, <1>5, <1>6, <1>7, OthersStayLocal

LEMMA CompilerStaysLocal ==
    ASSUME Structure, Local, CompilerEnds
    PROVE  Local'
<1>1. /\ LoaderTyped /\ JobsAwaited /\ OneTurn /\ Compiled
      /\ \A l \in Loads : Shaped(l) /\ Within(l) /\ Blamed(l)
    BY DEF Structure, Local
<1>2. /\ jobs # <<>> /\ UNCHANGED <<sources, bad, records, disposed>>
      /\ \/ load' = load /\ serial' = serial
         \/ \E l \in Loads : Job = Cell(l) /\ CellEnds(l)
         \/ \E l \in Loads : Job = Compile(l) /\ CompileEnds(l)
    BY <1>1, CompilerEffect DEF Structure
<1>3. 1 \in DOMAIN jobs /\ jobs[1] = Job
    BY <1>1, <1>2 DEF LoaderTyped, Job
<1>4. TextsKept
    BY <1>2 DEF TextsKept, BadText
<1>5. ASSUME NEW l \in Loads, Others({l}), Within(l)' /\ Blamed(l)', load'[l].phase # "defining"
      PROVE  Local'
  <2>1. {l} \in SUBSET Loads
    OBVIOUS
  <2>2. Compiled'
    BY <1>1, <1>2, <1>4, <1>5, <2>1, CompiledStays
  <2> QED
    BY <1>4, <1>5, <2>1, <2>2, OthersStayLocal
<1>6. CASE load' = load
  <2>1. (\A l \in Loads : Within(l)') /\ (\A l \in Loads : Blamed(l)')
    BY <1>1, <1>2, <1>6 DEF Within, Blamed, GraphOf, BadText
  <2>2. Compiled'
    BY <1>1, <1>2, <1>6 DEF Compiled, Errors, BadText
  <2> QED
    BY <2>1, <2>2 DEF Local
<1>7. ASSUME NEW l \in Loads, Job = Cell(l), CellEnds(l) PROVE Local'
  <2>1. load[l].phase = "cell" /\ load[l].entry \in Cells /\ load[l].entry \in Modules /\ load[l].reason = "none"
    BY <1>1, <1>3, <1>7 DEF Cell, JobsAwaited, PhaseOf, Shaped
  <2>2. CASE Failed(l, "compiler") \/ Failed(l, "disposed")
    BY <1>1, <1>5, <2>1, <2>2, DroppedStaysLocal DEF Failed, Dropped, Turned
  <2>3. CASE Became(l, "walk", load[l].at, Wanted(load[l].entry), load[l].staged,
                    load[l].additions, load[l].left, load[l].reason)
    <3> DEFINE e == load[l].entry
    <3>1. Redirect[e] = e /\ e \in Graph[e]
      BY <2>1, GraphRoot, ModulesAssumption
    <3>2. \A i \in ImportsOf(e) : Redirect[i.url] \in GraphOf(l)
      BY <2>1, <3>1, GraphClosed DEF GraphOf
    <3>3. \A i : In(Wanted(e), i) => i \in ImportsOf(e)
      BY <2>1, WantedItems
    <3>4. Within(l)' /\ Blamed(l)' /\ Others({l}) /\ load'[l].phase # "defining"
      BY <1>1, <2>1, <2>3, <3>2, <3>3 DEF Became, Turned, Within, Blamed, GraphOf
    <3> QED
      BY <1>5, <3>4
  <2> QED
    BY <1>7, <2>2, <2>3 DEF CellEnds
<1>8. ASSUME NEW l \in Loads, Job = Compile(l), CompileEnds(l) PROVE Local'
  <2>1. load[l].phase = "compiling" /\ load[l].entry \in Modules /\ load[l].reason = "none"
    BY <1>1, <1>3, <1>8 DEF Compile, JobsAwaited, PhaseOf, Shaped
  <2>2. CASE Failed(l, "compiler") \/ Failed(l, "disposed")
    BY <1>1, <1>5, <2>1, <2>2, DroppedStaysLocal DEF Failed, Dropped, Turned
  <2>3. CASE Failed(l, "types") /\ Errors(Texts(l)) # {}
    <3>1. Within(l)' /\ Others({l}) /\ load'[l].phase # "defining"
      BY <1>1, <2>1, <2>3 DEF Failed, Dropped, Turned, Within, GraphOf
    <3>2. GraphOf(l)' = GraphOf(l)
      BY <2>3 DEF Failed, Dropped, Turned, GraphOf
    <3>3. ASSUME NEW m \in Texts(l) \ records
          PROVE  m \in GraphOf(l) /\ m \in Cells \cup DOMAIN sources
      <4>1. CASE m \in load[l].additions
        BY <1>1, <2>1, <4>1 DEF Shaped, Within
      <4>2. CASE m = load[l].entry /\ m \in Cells
        <5>1. Redirect[m] = m /\ m \in Graph[m]
          BY <2>1, <4>2, GraphRoot, ModulesAssumption
        <5> QED
          BY <4>2, <5>1 DEF GraphOf
      <4> QED
        BY <3>3, <4>1, <4>2 DEF Texts
    <3>4. ASSUME \E m \in Texts(l) : BadText(m)
          PROVE  \E m \in GraphOf(l) : \/ BadText(m)' /\ m \in Cells \cup DOMAIN sources'
                                       \/ \E c \in Clashes : m \in c /\ c \subseteq GraphOf(l) \cup records'
      <4>1. PICK m \in Texts(l) : BadText(m)
        BY <3>4
      <4>2. m \notin records
        BY <1>1, <4>1 DEF Compiled, Errors
      <4>3. BadText(m)' /\ m \in GraphOf(l) /\ m \in Cells \cup DOMAIN sources'
        BY <1>2, <3>3, <4>1, <4>2 DEF BadText
      <4> QED
        BY <4>3
    <3>5. ASSUME \E c \in Clashes : c \subseteq Texts(l)
          PROVE  \E m \in GraphOf(l) : \/ BadText(m)' /\ m \in Cells \cup DOMAIN sources'
                                       \/ \E c \in Clashes : m \in c /\ c \subseteq GraphOf(l) \cup records'
      <4>1. PICK c \in Clashes : c \subseteq Texts(l)
        BY <3>5
      <4>2. c # {} /\ ~(c \subseteq records)
        BY <1>1, ModulesAssumption DEF Compiled, Errors
      <4>3. PICK m \in c : m \notin records
        BY <4>2
      <4>4. m \in GraphOf(l) /\ c \subseteq GraphOf(l) \cup records'
        BY <1>2, <3>3, <4>1, <4>3
      <4> QED
        BY <4>3, <4>4
    <3>6. (\E m \in Texts(l) : BadText(m)) \/ (\E c \in Clashes : c \subseteq Texts(l))
      BY <2>3 DEF Errors
    <3>7. Blamed(l)'
      BY <3>2, <3>4, <3>5, <3>6 DEF Blamed
    <3> QED
      BY <1>5, <3>1, <3>7
  <2>4. CASE /\ Errors(Texts(l)) = {}
             /\ Became(l, "defining", load[l].at, load[l].todo, load[l].staged,
                       load[l].additions, Emitted(l), load[l].reason)
    <3>1. Within(l)' /\ Blamed(l)' /\ Others({l})
      BY <1>1, <2>1, <2>4 DEF Became, Turned, Within, Blamed, GraphOf
    <3>2. \A k \in Loads \ {l} : load'[k].phase # "defining"
      <4>1. ASSUME NEW k \in Loads, k # l, load[k].phase = "defining" PROVE FALSE
        BY <1>1, <2>1, <4>1 DEF OneTurn, Turning
      <4> QED
        BY <3>1, <4>1 DEF Others
    <3>3. Errors(records \cup load[l].additions) = {}
      BY <2>4, ErrorsGrow DEF Texts
    <3>4. Errors(records \cup load[l].additions)' = {} /\ Errors(records)' = {}
      BY <1>1, <1>2, <2>4, <3>3 DEF Compiled, Errors, BadText, Became, Turned
    <3>5. Compiled'
      BY <3>2, <3>4 DEF Compiled
    <3> QED
      BY <1>4, <3>1, <3>5, OthersStayLocal
  <2> QED
    BY <1>8, <2>2, <2>3, <2>4 DEF CompileEnds
<1> QED
    BY <1>2, <1>6, <1>7, <1>8

LEMMA LocalKept == Structure /\ Local /\ [Next]_vars => Local'
<1> SUFFICES ASSUME Structure, Local, [Next]_vars PROVE Local'
    OBVIOUS
<1>0. /\ LoaderTyped /\ Compiled /\ \A l \in Loads : Shaped(l) /\ Within(l) /\ Blamed(l)
    BY DEF Structure, Local
<1>1. ASSUME NEW l \in Loads, Step(l) \/ DefineRefused(l) PROVE Local'
    BY <1>1, StepStaysLocal
<1>2. ASSUME NEW l \in Loads, NEW m \in Entries, Begin(l, m) PROVE Local'
    BY <1>2, BeginStaysLocal
<1>3. ASSUME NEW m \in Modules, ReadEnds(m) \/ ReadFails(m) PROVE Local'
    BY <1>3, ReadStaysLocal
<1>4. CASE CompilerEnds
    BY <1>4, CompilerStaysLocal
<1>5. ASSUME UNCHANGED <<load, sources, records, disposed>>, bad' \cap Cells = bad \cap Cells PROVE Local'
  <2>1. TextsKept
    BY <1>5 DEF TextsKept, BadText
  <2>2. {} \in SUBSET Loads /\ Others({})
    BY <1>0, <1>5 DEF Others, LoaderTyped
  <2>3. Compiled'
    BY <1>0, <1>5, <2>1, <2>2, CompiledStays
  <2> QED
    BY <2>1, <2>2, <2>3, OthersStayLocal
<1>6. ASSUME NEW m \in Modules, Correct(m) PROVE Local'
    BY <1>5, <1>6 DEF Correct, shared
<1>7. CASE Dispose
  <2>1. records' = {} /\ disposed' = "disposed" /\ UNCHANGED <<load, sources, bad>>
    BY <1>7 DEF Dispose
  <2>2. (\A l \in Loads : Within(l)') /\ (\A l \in Loads : Blamed(l)')
    BY <1>0, <2>1 DEF Within, Blamed, GraphOf
  <2>3. \A l \in Loads : load[l].phase = "defining" => Errors(load[l].additions) = {}
    <3>1. ASSUME NEW l \in Loads, load[l].phase = "defining"
          PROVE  Errors(load[l].additions) \subseteq Errors(records \cup load[l].additions)
      BY ErrorsGrow
    <3> QED
      BY <1>0, <3>1 DEF Compiled
  <2>4. Errors({})' = {} /\ \A l \in Loads : load'[l].phase = "defining" => Errors(load[l].additions)' = {}
    BY <2>1, <2>3, ErrorsOfNone DEF Errors, BadText
  <2>5. \A l \in Loads : load'[l].phase = "defining" => Errors(records \cup load[l].additions)' = {}
    BY <2>1, <2>4 DEF Errors
  <2>6. Compiled'
    BY <2>1, <2>4, <2>5 DEF Compiled, Errors
  <2> QED
    BY <2>2, <2>6 DEF Local
<1>8. CASE UNCHANGED vars
    BY <1>5, <1>8 DEF vars, shared
<1> QED
    BY <1>1, <1>2, <1>3, <1>4, <1>6, <1>7, <1>8 DEF Next
-----------------------------------------------------------------------------
(* The third layer.  A load whose imports are all collected holds, with the *)
(* registered modules, the graph of its entry, and uses it as it may.      *)
LEMMA QueuedIsClosed ==
    ASSUME LoaderTyped, NEW l \in Loads, Shaped(l), load[l].phase = "queued",
           Alive, Covering(l), Linked(records)
    PROVE  LET ms == records \cup load[l].staged
           IN  GraphOf(l) \ Cells \subseteq ms /\ Linked(ms) /\ Rooted(l)
<1> DEFINE ms == records \cup load[l].staged
           e == load[l].entry
<1>1. /\ load[l].todo = <<>> /\ e \in Modules /\ ms \in SUBSET Modules
      /\ RootsCovered(l) /\ ImportsCovered(l)
    BY DEF Shaped, LoaderTyped, Covering
<1>2. ASSUME NEW i, Covered(l, i) PROVE Redirect[i.url] \in ms /\ ~Misused(i)
    BY <1>1, <1>2, Nothing DEF Covered, Settled
<1>3. \A m \in ms : \A i \in ImportsOf(m) : Redirect[i.url] \in ms /\ ~Misused(i)
  <2>1. ASSUME NEW m \in ms, NEW i \in ImportsOf(m) PROVE Redirect[i.url] \in ms /\ ~Misused(i)
    <3>1. CASE m \in records
      BY <2>1, <3>1, TargetsIn DEF Linked, Complete
    <3>2. CASE m \in load[l].staged
      BY <1>1, <1>2, <2>1, <3>2 DEF ImportsCovered
    <3> QED
      BY <3>1, <3>2
  <2> QED
    BY <2>1
<1>4. Complete(ms) /\ Linked(ms)
  <2> HIDE DEF ms
  <2>1. ASSUME NEW m \in ms PROVE Targets(ImportsOf(m)) \subseteq ms
    BY <1>3, <2>1, TargetsIn
  <2>2. Complete(ms)
    BY <2>1 DEF Complete
  <2> QED
    BY <1>3, <2>2 DEF Linked
<1>5. Redirect[e] \in Modules
    BY <1>1, ModulesAssumption
<1>6. CASE e \notin Cells
  <2>1. Redirect[e] \in ms /\ ~Misused(Executed(e))
    BY <1>1, <1>2, <1>6 DEF RootsCovered, Executed
  <2>2. Graph[Redirect[e]] \subseteq ms
    BY <1>1, <1>4, <1>5, <2>1, GraphLeast
  <2> QED
    BY <1>4, <1>6, <2>1, <2>2 DEF GraphOf, Rooted
<1>7. CASE e \in Cells
  <2> DEFINE all == ms \cup {e}
  <2>1. Redirect[e] = e /\ all \in SUBSET Modules
    BY <1>1, <1>7, ModulesAssumption
  <2>2. \A i \in ImportsOf(e) : Redirect[i.url] \in ms /\ ~Misused(i)
    BY <1>1, <1>2, <1>7 DEF RootsCovered
  <2>3. Complete(all)
    <3>1. ASSUME NEW m \in all PROVE Targets(ImportsOf(m)) \subseteq all
      BY <1>3, <2>2, TargetsIn
    <3> QED
      BY <3>1 DEF Complete
  <2>4. Graph[e] \subseteq all
    BY <1>1, <2>1, <2>3, GraphLeast
  <2> QED
    BY <1>4, <1>7, <2>1, <2>2, <2>4 DEF GraphOf, Rooted
<1> QED
    BY <1>6, <1>7

(* Records that are added cover more; those that are cleared are not looked *)
(* at.                                                                      *)
LEMMA CoveringKept ==
    ASSUME NEW l \in Loads, Covering(l), load'[l] = load[l],
           Alive' => Alive /\ records \subseteq records'
    PROVE  Covering(l)'
<1> SUFFICES ASSUME Alive', load[l].phase \in Traversing \cup {"queued"}
             PROVE  RootsCovered(l)' /\ ImportsCovered(l)' /\ EnteredCollected(l)'
    BY DEF Covering
<1>1. RootsCovered(l) /\ ImportsCovered(l) /\ EnteredCollected(l) /\ records \subseteq records'
    BY DEF Covering
<1>2. ASSUME NEW i, Covered(l, i) PROVE Covered(l, i)'
    BY <1>1, <1>2 DEF Covered, Settled
<1>3. RootsCovered(l)'
    BY <1>1, <1>2 DEF RootsCovered
<1> QED
    BY <1>1, <1>2, <1>3 DEF ImportsCovered, EnteredCollected

(* A load without the turn is owed nothing by the registry but what it had.*)
LEMMA ClosingKept ==
    ASSUME NEW l \in Loads, Closing(l), load'[l] = load[l], load[l].phase \notin Turning,
           registry \subseteq registry'
    PROVE  Closing(l)'
    BY DEF Closing, Turning, GraphOf, Rooted

(* While one load has the turn, no other has.                              *)
LEMMA OthersStandBy ==
    ASSUME OneTurn, NEW l \in Loads, load[l].phase \in Turning,
           NEW k \in Loads, k # l
    PROVE  load[k].phase \notin Turning
    BY DEF OneTurn

LEMMA DroppedIsWhole ==
    ASSUME NEW l \in Loads, Closing(l), NEW reason, reason # "duplicate", Dropped(l, reason)
    PROVE  Covering(l)' /\ Closing(l)' /\ load'[l].phase \notin Turning
    BY DEF Covering, Closing, Dropped, Turned, Traversing, Fetching, Turning

(* A step of loads that neither had nor take the turn.                     *)
LEMMA QuietlyWhole ==
    ASSUME Whole, NEW ls \in SUBSET Loads, Others(ls), UNCHANGED <<records, registry, disposed>>,
           \A l \in ls : /\ load[l].phase \notin Turning /\ load'[l].phase \notin Turning
                         /\ Covering(l)' /\ Closing(l)'
    PROVE  Whole'
<1>1. ASSUME NEW l \in Loads, l \notin ls PROVE Covering(l)' /\ Closing(l)'
  <2>1. load'[l] = load[l] /\ Covering(l) /\ Closing(l)
    BY <1>1 DEF Whole, Others
  <2>2. Covering(l)'
    BY <2>1, CoveringKept DEF Alive
  <2>3. Closing(l)'
    BY <2>1 DEF Closing, GraphOf, Alive, Linked, Complete, Rooted, Emitted
  <2> QED
    BY <2>2, <2>3
<1>2. \A l \in Loads : Covering(l)' /\ Closing(l)'
    BY <1>1
<1>3. \A l \in Loads : /\ load'[l].phase = "defining" <=> load[l].phase = "defining"
                       /\ load'[l].phase \in Turning <=> load[l].phase \in Turning
  <2>1. ASSUME NEW l \in Loads, l \in ls
        PROVE  /\ load'[l].phase = "defining" <=> load[l].phase = "defining"
               /\ load'[l].phase \in Turning <=> load[l].phase \in Turning
    BY <2>1 DEF Turning
  <2>2. ASSUME NEW l \in Loads, l \notin ls PROVE load'[l] = load[l]
    BY <2>2 DEF Others
  <2> QED
    BY <2>1, <2>2
<1>4. Alive' => Linked(records)'
    BY DEF Whole, Alive, Linked, Complete
<1> QED
    BY <1>2, <1>3, <1>4 DEF Whole, Alive

LEMMA WholeStarts == Init => Whole
<1> SUFFICES ASSUME Init PROVE Whole
    OBVIOUS
<1>1. \A l \in Loads : load[l].phase = "idle" /\ load[l].reason = "none"
    BY DEF Init, NoLoad
<1>2. records = {} /\ registry = {} /\ disposed = "no"
    BY DEF Init
<1>3. \A l \in Loads : Covering(l) /\ Closing(l)
    BY <1>1 DEF Covering, Closing, Traversing, Fetching
<1> QED
    BY <1>2, <1>3 DEF Whole, Linked, Complete

(* A load that collects.                                                   *)
LEMMA WalkIsWhole ==
    ASSUME Structure, Whole, NEW l \in Loads,
           Leave(l) \/ TakeTurn(l) \/ Collect(l) \/ Stage(l) \/ Inspected(l)
    PROVE  Whole'
<1> DEFINE o == load[l]
<1>1. /\ LoaderTyped /\ Shaped(l) /\ o \in LoadRecord /\ Covering(l) /\ Closing(l)
      /\ o.todo \in Seq(Items)
    BY DEF Structure, LoaderTyped, Whole, LoadRecord
<1>2. UNCHANGED <<records, registry, disposed>>
    BY DEF Leave, TakeTurn, Collect, Stage, Inspected
<1>3. ASSUME Others({l}), o.phase \notin Turning, load'[l].phase \notin Turning, Covering(l)', Closing(l)'
      PROVE  Whole'
  <2>1. {l} \in SUBSET Loads
    OBVIOUS
  <2> QED
    BY <1>2, <1>3, <2>1, QuietlyWhole
<1>4. ASSUME NEW reason, reason # "duplicate", Failed(l, reason), o.phase \notin Turning
      PROVE  Whole'
    BY <1>1, <1>3, <1>4, DroppedIsWhole DEF Failed
<1>5. ASSUME o.phase \in Traversing, NEW phase \in Traversing \cup {"queued"}, NEW at, NEW todo, NEW staged,
             Became(l, phase, at, todo, staged, o.additions, o.left, o.reason),
             o.staged \subseteq staged,
             Alive => \A i \in Imported : Covered(l, i) => Covered(l, i)',
             Alive => EnteredCollected(l)',
             Alive => \A m \in staged : ~(phase = "inspecting" /\ at = m) =>
                 (/\ m \in o.staged
                  /\ ~(o.phase = "inspecting" /\ o.at = m))
                 \/ (\A i \in ImportsOf(m) : Covered(l, i)')
      PROVE  Whole'
  <2>1. /\ Others({l}) /\ load'[l].phase = phase /\ load'[l].at = at /\ load'[l].staged = staged
        /\ load'[l].entry = o.entry /\ load'[l].reason = o.reason
    BY <1>5 DEF Became, Turned
  <2>2. o.phase \notin Turning /\ phase \notin Turning /\ phase # "resolved"
    BY <1>5 DEF Traversing, Fetching, Turning
  <2>3. Closing(l)'
    BY <1>1, <2>1, <2>2 DEF Closing, Turning
  <2>4. ASSUME Alive
        PROVE  (RootsCovered(l) /\ ImportsCovered(l))'
    <3>1. RootsCovered(l) /\ ImportsCovered(l) /\ o.entry \in Modules
      BY <1>1, <1>5, <2>4 DEF Covering, Shaped, Traversing, Fetching
    <3>2. (\A i \in ImportsOf(o.entry) : i \in Imported) /\ Executed(o.entry) \in Imported
      BY <3>1, ImportsAreModules DEF Executed, Imported
    <3>3. RootsCovered(l)'
      BY <1>5, <2>1, <2>4, <3>1, <3>2 DEF RootsCovered
    <3>4. o.staged \subseteq Modules
      BY <1>1 DEF LoadRecord
    <3>5. ASSUME NEW m \in staged, ~(phase = "inspecting" /\ at = m), NEW i \in ImportsOf(m)
          PROVE  Covered(l, i)'
      <4>1. CASE m \in o.staged /\ ~(o.phase = "inspecting" /\ o.at = m)
        <5>1. Covered(l, i) /\ i \in Imported
          BY <3>1, <3>4, <3>5, <4>1, ImportsAreModules DEF ImportsCovered
        <5> QED
          BY <1>5, <2>4, <5>1
      <4>2. CASE \A j \in ImportsOf(m) : Covered(l, j)'
        BY <3>5, <4>2
      <4> QED
        BY <1>5, <2>4, <3>5, <4>1, <4>2
    <3>6. ImportsCovered(l)'
      BY <2>1, <3>5 DEF ImportsCovered
    <3> QED
      BY <3>3, <3>6
  <2>5. Covering(l)'
    BY <1>2, <1>5, <2>4 DEF Covering, Alive
  <2> QED
    BY <1>3, <2>1, <2>2, <2>3, <2>5
(* The load has the import at the front of its list, and goes on.          *)
<1>6. ASSUME Returned(l), o.todo # <<>>, o.phase \in {"walk", "sourced"},
             Alive => Redirect[Upcoming(l).import.url] \in records \cup o.staged
      PROVE  Whole'
  <2> DEFINE h == Upcoming(l).import
             rest == Tail(o.todo)
  <2>1. /\ \A i : In(o.todo, i) <=> i = h \/ In(rest, i)
        /\ \A x : Has(rest, x) => Has(o.todo, x)
    BY <1>1, <1>6, Split DEF Upcoming
  <2>2. /\ Became(l, "walk", o.at, rest, o.staged, o.additions, o.left, o.reason)
        /\ ~Misused(h) /\ load'[l].todo = rest /\ load'[l].staged = o.staged
    BY <1>6 DEF Returned, Became, Turned
  <2> HIDE DEF h, rest
  <2>3. ASSUME NEW i, Alive, Covered(l, i) PROVE Covered(l, i)'
    <3>1. CASE Settled(l, i)
      BY <1>2, <2>2, <3>1 DEF Covered, Settled
    <3>2. CASE In(rest, i)
      BY <2>2, <3>2 DEF Covered
    <3>3. CASE i = h
      BY <1>2, <1>6, <2>2, <2>3, <3>3 DEF Covered, Settled, h
    <3> QED
      BY <2>1, <2>3, <3>1, <3>2, <3>3 DEF Covered
  <2>4. Alive => EnteredCollected(l)'
    BY <1>1, <1>2, <1>6, <2>1, <2>2 DEF EnteredCollected, Covering, Traversing, Fetching
  <2> QED
    BY <1>5, <1>6, <2>2, <2>3, <2>4 DEF Traversing, Fetching
<1>7. CASE Leave(l)
  <2>1. /\ o.phase = "walk" /\ o.todo # <<>> /\ Upcoming(l).status = "entered"
        /\ Failed(l, "declaration") \/ Returned(l)
    BY <1>1, <1>7, LeaveEffect
  <2>2. Alive => Redirect[Upcoming(l).import.url] \in records \cup o.staged
    <3>1. /\ Upcoming(l) = Item(Upcoming(l).import, "entered") /\ Upcoming(l).import \in Imported
          /\ Has(o.todo, Upcoming(l))
      BY <1>1, <2>1, Split DEF Upcoming
    <3>2. Alive => EnteredCollected(l)
      BY <1>1, <2>1 DEF Covering, Traversing
    <3> QED
      BY <3>1, <3>2 DEF EnteredCollected
  <2> QED
    BY <1>4, <1>6, <2>1, <2>2 DEF Turning
<1>8. CASE TakeTurn(l)
  <2>1. /\ o.phase = "walk" /\ Moved(l, "queued")
    BY <1>1, <1>8, TakeTurnEffect
  <2>2. ASSUME NEW i, Covered(l, i) PROVE Covered(l, i)'
    BY <1>2, <2>1, <2>2 DEF Covered, Settled, Moved, Became, Turned
  <2>3. Alive => EnteredCollected(l)'
    BY <1>1, <1>2, <2>1 DEF EnteredCollected, Covering, Traversing, Moved, Became, Turned
  <2> QED
    BY <1>5, <2>1, <2>2, <2>3 DEF Moved, Traversing, Fetching
<1>9. CASE Collect(l)
  <2>1. o.phase = "walk" /\ o.todo # <<>>
    BY <1>1, <1>9, CollectEffect
  <2>2. \/ Failed(l, "disposed") \/ Failed(l, "limit") \/ Failed(l, "declaration")
        \/ \E m \in Modules :
              /\ Redirect[m] = Redirect[Upcoming(l).import.url]
              /\ (Collected(l, m) /\ Returned(l)) \/ Fetched(l, "sourced", m) \/ Fetched(l, "reading", m)
    BY <1>1, <1>9, CollectEffect
  <2>3. ASSUME NEW m \in Modules, NEW phase \in {"sourced", "reading"}, Fetched(l, phase, m)
        PROVE  Whole'
    <3>1. ASSUME NEW i, Covered(l, i) PROVE Covered(l, i)'
      BY <1>2, <2>3, <3>1 DEF Covered, Settled, Fetched, Became, Turned
    <3>2. Alive => EnteredCollected(l)'
      BY <1>1, <1>2, <2>1, <2>3 DEF EnteredCollected, Covering, Traversing, Fetched, Became, Turned
    <3> QED
      BY <1>5, <2>1, <2>3, <3>1, <3>2 DEF Fetched, Traversing, Fetching
  <2>4. ASSUME NEW m \in Modules, Collected(l, m), Returned(l), Redirect[m] = Redirect[Upcoming(l).import.url]
        PROVE  Whole'
    <3>1. Redirect[m] = m /\ m \in records \cup o.staged
      BY <1>1, <2>4 DEF Collected, LoaderTyped, Shaped
    <3> QED
      BY <1>6, <2>1, <2>4, <3>1
  <2> QED
    BY <1>4, <2>1, <2>2, <2>3, <2>4 DEF Turning
<1>10. CASE Stage(l)
  <2>1. /\ o.phase = "sourced" /\ o.todo # <<>> /\ o.at \in Modules /\ Redirect[o.at] = o.at
        /\ Redirect[o.at] = Redirect[Upcoming(l).import.url]
    BY <1>1, <1>10 DEF Stage, Shaped, Fetching, LoaderTyped
  <2>2. \/ Failed(l, "disposed") \/ Failed(l, "declaration") \/ (Collected(l, o.at) /\ Returned(l))
        \/ Became(l, "inspecting", o.at, o.todo, o.staged \cup {o.at}, o.additions, o.left, o.reason)
    BY <1>1, <1>10, <2>1, StageEffect
  <2>3. CASE Failed(l, "disposed") \/ Failed(l, "declaration")
    BY <1>4, <2>1, <2>3 DEF Turning
  <2>4. CASE Collected(l, o.at) /\ Returned(l)
    BY <1>6, <2>1, <2>4 DEF Collected
  <2>5. CASE Became(l, "inspecting", o.at, o.todo, o.staged \cup {o.at}, o.additions, o.left, o.reason)
    <3>1. ASSUME NEW j, Covered(l, j) PROVE Covered(l, j)'
      BY <1>2, <2>1, <2>5, <3>1 DEF Covered, Settled, Became, Turned
    <3>2. Alive => EnteredCollected(l)'
      BY <1>1, <1>2, <2>1, <2>5 DEF EnteredCollected, Covering, Traversing, Fetching, Became, Turned
    <3> QED
      BY <1>5, <2>1, <2>5, <3>1, <3>2 DEF Traversing, Fetching
  <2> QED
    BY <2>2, <2>3, <2>4, <2>5
<1>11. CASE Inspected(l)
  <2>1. /\ o.phase = "inspecting" /\ o.todo # <<>> /\ o.at \in Modules /\ o.at \in o.staged
        /\ Redirect[o.at] = o.at /\ Redirect[o.at] = Redirect[Upcoming(l).import.url]
    BY <1>1, <1>11 DEF Inspected, Shaped, Fetching, LoaderTyped
  <2>2. /\ \A i : Has(Enter(l), Item(i, "entered")) =>
                     i = Upcoming(l).import \/ Has(o.todo, Item(i, "entered"))
        /\ \A i : In(Enter(l), i) <=> i \in ImportsOf(o.at) \/ In(o.todo, i)
    BY <1>1, <2>1, EnterItems, Split DEF Upcoming
  <2>3. \/ Failed(l, "inspection")
        \/ Became(l, "walk", o.at, Enter(l), o.staged, o.additions, o.left, o.reason)
    BY <1>1, <1>11, <2>1, InspectedEffect
  <2>4. CASE Failed(l, "inspection")
    BY <1>4, <2>1, <2>4 DEF Turning
  <2>5. CASE Became(l, "walk", o.at, Enter(l), o.staged, o.additions, o.left, o.reason)
    <3>0. load'[l].todo = Enter(l) /\ load'[l].staged = o.staged
      BY <2>5 DEF Became, Turned
    <3>1. ASSUME NEW j, Covered(l, j) PROVE Covered(l, j)'
      BY <1>2, <2>2, <3>0, <3>1 DEF Covered, Settled
    <3>2. \A j \in ImportsOf(o.at) : Covered(l, j)'
      BY <2>2, <3>0 DEF Covered
    <3>3. \A m \in o.staged : m # o.at \/ \A j \in ImportsOf(m) : Covered(l, j)'
      BY <3>2
    <3>4. Alive => EnteredCollected(l)'
      BY <1>1, <1>2, <2>1, <2>2, <3>0 DEF EnteredCollected, Covering, Traversing, Fetching
    <3> QED
      BY <1>5, <2>1, <2>5, <3>1, <3>3, <3>4 DEF Traversing, Fetching
  <2> QED
    BY <2>3, <2>4, <2>5
<1> QED
    BY <1>7, <1>8, <1>9, <1>10, <1>11

(* A load that takes its turn: with nothing to add it is done, for what it  *)
(* wants is registered; otherwise it compiles what is missing of its graph. *)
LEMMA RegisterIsWhole ==
    ASSUME Structure, Whole, NEW l \in Loads, Register(l)
    PROVE  Whole'
<1> DEFINE o == load[l]
<1>1. /\ LoaderTyped /\ OneTurn /\ Shaped(l) /\ Covering(l) /\ Closing(l) /\ {l} \in SUBSET Loads
    BY DEF Structure, Whole
<1>2. o.phase = "queued" /\ serial # <<>> /\ Head(serial) = l /\ UNCHANGED <<records, registry, disposed>>
    BY <1>1, RegisterEffect
<1>3. \A k \in Loads \ {l} : load[k].phase \notin Turning
    BY <1>1, <1>2 DEF OneTurn
<1>4. o.phase \notin Turning
    BY <1>2 DEF Turning
<1>5. CASE Failed(l, "disposed")
    BY <1>1, <1>2, <1>4, <1>5, DroppedIsWhole, QuietlyWhole DEF Failed
<1>6. Alive => /\ GraphOf(l) \ Cells \subseteq records \cup o.staged
               /\ Linked(records \cup o.staged) /\ Rooted(l) /\ registry = records \ Declarations
               /\ Linked(records)
  <2>1. Alive => registry = records \ Declarations /\ Linked(records)
    BY <1>3, <1>4 DEF Whole, Turning
  <2> QED
    BY <1>1, <1>2, <2>1, QueuedIsClosed
<1>7. CASE Alive /\ Additions(l) = {} /\ Became(l, "resolved", o.at, o.todo, o.staged, o.additions, o.left, "none")
  <2>1. (GraphOf(l) \ Cells) \ Declarations \subseteq registry
    BY <1>6, <1>7 DEF Additions
  <2>2. /\ Others({l}) /\ load'[l].phase = "resolved" /\ load'[l].reason = "none"
        /\ load'[l].entry = o.entry
    BY <1>7 DEF Became, Turned
  <2>3. Covering(l)' /\ Closing(l)' /\ load'[l].phase \notin Turning
    BY <1>2, <1>6, <1>7, <2>1, <2>2 DEF Covering, Closing, GraphOf, Rooted, Traversing, Fetching, Turning
  <2> QED
    BY <1>1, <1>2, <1>4, <2>2, <2>3, QuietlyWhole
<1>8. CASE Alive /\ Became(l, "compiling", o.at, o.todo, o.staged, Additions(l), o.left, o.reason)
  <2>1. /\ Others({l}) /\ load'[l].phase = "compiling" /\ load'[l].reason = o.reason
        /\ load'[l].entry = o.entry /\ load'[l].additions = Additions(l)
    BY <1>8 DEF Became, Turned
  <2>2. records \cup Additions(l) = records \cup o.staged /\ Additions(l) \cap records = {}
    BY DEF Additions
  <2>3. Closing(l)' /\ Covering(l)'
    BY <1>1, <1>2, <1>6, <1>8, <2>1, <2>2
    DEF Covering, Closing, GraphOf, Rooted, Traversing, Fetching, Alive, Linked, Complete
  <2>4. ASSUME NEW k \in Loads, k # l PROVE load'[k] = load[k] /\ Closing(k)' /\ Covering(k)'
    <3>1. load'[k] = load[k] /\ Closing(k) /\ Covering(k)
      BY <2>1, <2>4 DEF Others, Whole
    <3> QED
      BY <1>2, <1>3, <2>4, <3>1, ClosingKept, CoveringKept DEF Alive
  <2>5. \A k \in Loads : load'[k].phase # "defining"
    BY <1>3, <2>1, <2>4 DEF Turning
  <2> QED
    BY <1>2, <1>6, <1>8, <2>3, <2>4, <2>5 DEF Whole, Alive, Linked, Complete
<1> QED
    BY <1>1, <1>5, <1>7, <1>8, RegisterEffect

(* A definition: another module of the turn's graph is registered; or it   *)
(* fails, and the loader with it unless it was the first one.              *)
LEMMA DefineIsWhole ==
    ASSUME Structure, Whole, NEW l \in Loads, NEW m \in Modules, Define(l, m) \/ DefineRefused(l)
    PROVE  Whole'
<1> DEFINE o == load[l]
<1>1. /\ LoaderTyped /\ OneTurn /\ Shaped(l) /\ Covering(l) /\ Closing(l)
    BY DEF Structure, Whole
<1>2. o.phase = "defining" /\ records' = records
    BY <1>1, DefineEffect
<1>3. \A k \in Loads \ {l} : load[k].phase \notin Turning
    BY <1>1, <1>2, OthersStandBy DEF Turning
<1>4. disposed # "broken"
    BY <1>2 DEF Whole, Turning
<1>5. Alive => /\ o.additions \cap records = {}
               /\ registry = (records \ Declarations) \cup (Emitted(l) \ o.left)
               /\ Linked(records \cup o.additions) /\ Linked(records)
    BY <1>1, <1>2 DEF Closing, Whole
<1>6. ~(Alive /\ m \in registry /\ m \in o.left)
    BY <1>1, <1>5 DEF Shaped, Emitted
<1>7. CASE /\ registry' = registry /\ disposed' = AfterFailure(l)
           /\ Failed(l, "disposed") \/ Failed(l, "registry") \/ Failed(l, "sandbox")
  <2>1. Others({l}) /\ Covering(l)' /\ Closing(l)' /\ load'[l].phase \notin Turning
    BY <1>1, <1>7, DroppedIsWhole DEF Failed
  <2>2. /\ Alive' => Alive /\ o.left = Emitted(l)
        /\ disposed' = "broken" => Alive /\ o.left # Emitted(l)
    BY <1>4, <1>7 DEF AfterFailure, Alive
  <2>3. ASSUME NEW k \in Loads, k # l
        PROVE  Closing(k)' /\ Covering(k)' /\ load'[k].phase \notin Turning
    <3>1. load'[k] = load[k] /\ Closing(k) /\ Covering(k)
      BY <2>1, <2>3 DEF Others, Whole
    <3> QED
      BY <1>2, <1>3, <1>7, <2>2, <2>3, <3>1, ClosingKept, CoveringKept
  <2>4. Alive' => registry' = records' \ Declarations /\ Linked(records)'
    BY <1>2, <1>5, <1>7, <2>2 DEF Linked, Complete
  <2>5. disposed' = "broken" => registry' # records' \ Declarations
    BY <1>1, <1>2, <1>5, <1>7, <2>2 DEF Shaped, Emitted
  <2> QED
    BY <2>1, <2>3, <2>4, <2>5 DEF Whole
<1>8. CASE /\ registry' = registry \cup {m} /\ disposed' = disposed /\ Alive /\ m \in o.left
           /\ Became(l, "defining", o.at, o.todo, o.staged, o.additions, o.left \ {m}, o.reason)
  <2>1. /\ Others({l}) /\ load'[l].phase = "defining" /\ load'[l].reason = o.reason
        /\ load'[l].entry = o.entry /\ load'[l].additions = o.additions /\ load'[l].left = o.left \ {m}
    BY <1>8 DEF Became, Turned
  <2>2. registry' = (records \ Declarations) \cup (Emitted(l) \ (o.left \ {m}))
    BY <1>1, <1>5, <1>8 DEF Shaped
  <2>3. (GraphOf(l) \ Cells) \ Declarations \subseteq registry' \cup (o.left \ {m}) /\ Rooted(l)
    BY <1>1, <1>2, <1>8 DEF Closing
  <2>4. Closing(l)' /\ Covering(l)'
    BY <1>1, <1>2, <1>5, <1>8, <2>1, <2>2, <2>3
    DEF Covering, Closing, GraphOf, Rooted, Emitted, Traversing, Fetching, Linked, Complete
  <2>5. ASSUME NEW k \in Loads, k # l PROVE Closing(k)' /\ Covering(k)'
    <3>1. load'[k] = load[k] /\ Closing(k) /\ Covering(k)
      BY <2>1, <2>5 DEF Others, Whole
    <3> QED
      BY <1>2, <1>3, <1>8, <2>5, <3>1, ClosingKept, CoveringKept DEF Alive
  <2> QED
    BY <1>2, <1>4, <1>5, <1>8, <2>1, <2>4, <2>5 DEF Whole, Alive, Linked, Complete
<1> QED
    BY <1>1, <1>6, <1>7, <1>8, DefineEffect

(* The additions become records: the registry held them all.               *)
LEMMA RegisteredIsWhole ==
    ASSUME Structure, Whole, NEW l \in Loads, Registered(l)
    PROVE  Whole'
<1> DEFINE o == load[l]
<1>1. /\ LoaderTyped /\ OneTurn /\ Shaped(l) /\ Covering(l) /\ Closing(l)
    BY DEF Structure, Whole
<1>2. /\ o.phase = "defining" /\ o.left = {} /\ records' = records \cup o.additions
      /\ UNCHANGED <<registry, disposed>>
      /\ Became(l, "resolved", o.at, o.todo, o.staged, o.additions, o.left, "none")
    BY <1>1, RegisteredEffect
<1>3. \A k \in Loads \ {l} : load[k].phase \notin Turning
    BY <1>1, <1>2, OthersStandBy DEF Turning
<1>4. /\ Others({l}) /\ load'[l].phase = "resolved" /\ load'[l].reason = "none" /\ load'[l].entry = o.entry
    BY <1>2 DEF Became, Turned
<1>5. Covering(l)' /\ Closing(l)'
    BY <1>1, <1>2, <1>4 DEF Covering, Closing, GraphOf, Rooted, Traversing, Fetching
<1>6. ASSUME NEW k \in Loads, k # l PROVE Closing(k)' /\ Covering(k)'
  <2>1. load'[k] = load[k] /\ Closing(k) /\ Covering(k)
    BY <1>4, <1>6 DEF Others, Whole
  <2> QED
    BY <1>2, <1>3, <1>6, <2>1, ClosingKept, CoveringKept DEF Alive
<1>7. Alive' => registry' = records' \ Declarations /\ Linked(records')
    BY <1>1, <1>2 DEF Closing, Alive, Emitted
<1>8. disposed' # "broken"
    BY <1>2 DEF Whole, Turning
<1>9. Linked(records') = Linked(records)'
    BY DEF Linked, Complete
<1> QED
    BY <1>5, <1>6, <1>7, <1>8, <1>9 DEF Whole

LEMMA BeginIsWhole ==
    ASSUME Structure, Whole, NEW l \in Loads, NEW m \in Entries, Begin(l, m)
    PROVE  Whole'
<1>1. LoaderTyped
    BY DEF Structure
<1>2. load[l].phase \notin Turning /\ Others({l}) /\ UNCHANGED <<records, registry, disposed>>
    BY <1>1, BeginEffect DEF Turning
<1>3. /\ load'[l].entry = m /\ load'[l].staged = {}
      /\ load'[l].phase \in {"rejected", "cell", "walk"} /\ load'[l].reason # "duplicate"
      /\ load'[l].phase = "walk" => m \notin Cells /\ load'[l].todo = <<Item(Executed(m), "wanted")>>
    BY <1>1, BeginEffect
<1> DEFINE i == Executed(m)
             s == <<Item(i, "wanted")>>
<1>4. /\ Has(s, Item(i, "wanted"))
      /\ \A x : ~Has(s, Item(x, "entered"))
  <2>1. m \in Modules
    BY ModulesAssumption
  <2>2. Item(i, "wanted") \in Items
    BY <2>1 DEF Item, Executed, Items, Imported
  <2>3. \A x : Has(s, x) <=> x = Item(i, "wanted")
    BY <2>2, Single
  <2>4. \A x : Item(x, "entered") # Item(i, "wanted")
    BY ItemParts
  <2> QED
    BY <2>3, <2>4
<1>5. Covering(l)' /\ Closing(l)' /\ load'[l].phase \notin Turning
  <2>1. load'[l].phase = "walk" => load'[l].entry = m /\ m \notin Cells /\ load'[l].todo = s /\ load'[l].staged = {}
    BY <1>3
  <2> HIDE DEF s
  <2>2. load'[l].phase = "walk" => RootsCovered(l)' /\ ImportsCovered(l)' /\ EnteredCollected(l)'
    BY <1>4, <2>1 DEF RootsCovered, ImportsCovered, EnteredCollected, Covered, In
  <2> QED
    BY <1>3, <2>2 DEF Covering, Closing, Traversing, Fetching, Turning
<1> QED
    BY <1>2, <1>5, QuietlyWhole

LEMMA ReadIsWhole ==
    ASSUME Structure, Whole, NEW m \in Modules, ReadEnds(m) \/ ReadFails(m)
    PROVE  Whole'
<1> DEFINE ls == Readers(m)
<1>1. LoaderTyped /\ \A l \in Loads : Shaped(l) /\ Covering(l) /\ Closing(l)
    BY DEF Structure, Whole
<1>2. /\ ls \in SUBSET Loads
      /\ \A l \in ls : l \in Loads /\ load[l].phase = "reading" /\ load[l].at = m
    BY DEF Readers
<1>3. Redirect[m] \in Modules /\ Redirect[Redirect[m]] = Redirect[m]
    BY ModulesAssumption
<1>4. /\ Others(ls) /\ UNCHANGED <<records, registry, disposed>>
      /\ \/ \A l \in ls : Dropped(l, "disposed")
         \/ \A l \in ls : Dropped(l, "read")
         \/ \A l \in ls : Turned(l, "sourced", Redirect[m], load[l].todo, load[l].staged,
                                 load[l].additions, load[l].left, load[l].reason)
    BY <1>1, ReadEndsEffect, ReadFailsEffect
<1> HIDE DEF ls
<1>5. ASSUME NEW l \in ls
      PROVE  load[l].phase \notin Turning /\ load'[l].phase \notin Turning /\ Covering(l)' /\ Closing(l)'
  <2>1. l \in Loads /\ Shaped(l) /\ Covering(l) /\ Closing(l) /\ load[l].phase = "reading" /\ load[l].at = m
    BY <1>1, <1>2
  <2>2. CASE Dropped(l, "disposed") \/ Dropped(l, "read")
    BY <2>1, <2>2, DroppedIsWhole DEF Turning
  <2>3. CASE Turned(l, "sourced", Redirect[m], load[l].todo, load[l].staged,
                    load[l].additions, load[l].left, load[l].reason)
    <3>1. load'[l].phase = "sourced" /\ Closing(l)'
      BY <2>1, <2>3 DEF Turned, Closing
    <3>2. ASSUME NEW i, Covered(l, i) PROVE Covered(l, i)'
      BY <1>3, <1>4, <2>1, <2>3, <3>2 DEF Covered, Settled, Turned
    <3>3. Covering(l)'
      <4>1. ASSUME RootsCovered(l) PROVE RootsCovered(l)'
        BY <2>3, <3>2, <4>1 DEF RootsCovered, Turned
      <4>2. ASSUME ImportsCovered(l) PROVE ImportsCovered(l)'
        BY <2>1, <2>3, <3>2, <4>2 DEF ImportsCovered, Turned
      <4>3. ASSUME EnteredCollected(l) PROVE EnteredCollected(l)'
        BY <1>4, <2>3, <4>3 DEF EnteredCollected, Turned
      <4> QED
        BY <1>4, <2>1, <4>1, <4>2, <4>3 DEF Covering, Traversing, Fetching, Alive
    <3> QED
      BY <2>1, <3>1, <3>3 DEF Turning
  <2> QED
    BY <1>4, <2>2, <2>3
<1> QED
    BY <1>2, <1>4, <1>5, QuietlyWhole

(* A compiler ends: the graph of the turn is about to be defined, or is     *)
(* given up.                                                                *)
LEMMA CompilerIsWhole ==
    ASSUME Structure, Whole, CompilerEnds
    PROVE  Whole'
<1>1. LoaderTyped /\ OneTurn /\ (\A l \in Loads : Shaped(l) /\ Covering(l) /\ Closing(l)) /\ JobsAwaited
    BY DEF Structure, Whole
<1>2. /\ jobs # <<>> /\ UNCHANGED <<records, registry, disposed>>
      /\ \/ load' = load /\ serial' = serial
         \/ \E l \in Loads : Job = Cell(l) /\ CellEnds(l)
         \/ \E l \in Loads : Job = Compile(l) /\ CompileEnds(l)
    BY <1>1, CompilerEffect DEF Structure
<1>3. 1 \in DOMAIN jobs /\ jobs[1] = Job
    BY <1>1, <1>2 DEF LoaderTyped, Job
<1>4. CASE load' = load
  <2>1. {} \in SUBSET Loads /\ (load \in [Loads -> LoadRecord] => Others({}))
    BY <1>4 DEF Others
  <2> QED
    BY <1>1, <1>2, <2>1, QuietlyWhole DEF LoaderTyped
<1>5. ASSUME NEW l \in Loads, Job = Cell(l), CellEnds(l) PROVE Whole'
  <2>1. load[l].phase = "cell" /\ load[l].entry \in Cells /\ load[l].entry \in Modules /\ load[l].staged = {} /\ {l} \in SUBSET Loads
    BY <1>1, <1>3, <1>5 DEF Cell, JobsAwaited, PhaseOf, Shaped
  <2>2. CASE Failed(l, "compiler") \/ Failed(l, "disposed")
    BY <1>1, <1>2, <2>1, <2>2, DroppedIsWhole, QuietlyWhole DEF Failed, Turning
  <2>3. CASE Became(l, "walk", load[l].at, Wanted(load[l].entry), load[l].staged,
                    load[l].additions, load[l].left, load[l].reason)
    <3> DEFINE e == load[l].entry
               s == Wanted(e)
    <3>1. (\A i \in ImportsOf(e) : In(s, i)) /\ (\A i : ~Has(s, Item(i, "entered")))
      BY <2>1, WantedItems
    <3>2. /\ Others({l}) /\ load'[l].phase = "walk" /\ load'[l].todo = s /\ load'[l].staged = {}
          /\ load'[l].entry = e /\ load'[l].reason = load[l].reason
      BY <2>1, <2>3 DEF Became, Turned
    <3> HIDE DEF s
    <3>3. ASSUME NEW i \in ImportsOf(e) PROVE Covered(l, i)'
      BY <3>1, <3>2 DEF Covered
    <3>4. RootsCovered(l)' /\ ImportsCovered(l)' /\ EnteredCollected(l)'
      BY <2>1, <3>1, <3>2, <3>3 DEF RootsCovered, ImportsCovered, EnteredCollected
    <3>5. Covering(l)' /\ Closing(l)'
      BY <1>1, <3>2, <3>4 DEF Covering, Closing
    <3> QED
      BY <1>2, <2>1, <3>2, <3>5, QuietlyWhole DEF Turning
  <2> QED
    BY <1>5, <2>2, <2>3 DEF CellEnds
<1>6. ASSUME NEW l \in Loads, Job = Compile(l), CompileEnds(l) PROVE Whole'
  <2>1. load[l].phase = "compiling"
    BY <1>1, <1>3, <1>6 DEF Compile, JobsAwaited, PhaseOf
  <2>2. \A k \in Loads \ {l} : load[k].phase \notin Turning
    BY <1>1, <2>1, OthersStandBy DEF Turning
  <2>3. disposed # "broken" /\ (Alive => registry = records \ Declarations /\ Linked(records))
    BY <2>1, <2>2 DEF Whole, Turning
  <2>4. ASSUME Others({l}), NEW k \in Loads, k # l
        PROVE  load'[k] = load[k] /\ Closing(k)' /\ Covering(k)'
    <3>1. load'[k] = load[k] /\ Closing(k) /\ Covering(k)
      BY <2>4 DEF Others, Whole
    <3> QED
      BY <1>2, <2>2, <2>4, <3>1, ClosingKept, CoveringKept DEF Alive
  <2>5. ASSUME Others({l}), Closing(l)', Covering(l)' PROVE Whole'
    BY <1>2, <2>3, <2>4, <2>5 DEF Whole, Alive, Linked, Complete
  <2>6. CASE Failed(l, "compiler") \/ Failed(l, "disposed") \/ Failed(l, "types")
    BY <1>1, <2>5, <2>6, DroppedIsWhole DEF Failed
  <2>7. CASE /\ Alive
             /\ Became(l, "defining", load[l].at, load[l].todo, load[l].staged,
                       load[l].additions, Emitted(l), load[l].reason)
    <3>1. /\ Others({l}) /\ load'[l].phase = "defining" /\ load'[l].reason = load[l].reason
          /\ load'[l].entry = load[l].entry /\ load'[l].additions = load[l].additions
          /\ load'[l].left = Emitted(l)
      BY <2>7 DEF Became, Turned
    <3>2. /\ load[l].additions \cap records = {} /\ Linked(records \cup load[l].additions) /\ Rooted(l)
          /\ (GraphOf(l) \ Cells) \ Declarations \subseteq registry \cup Emitted(l)
          /\ registry = (records \ Declarations) \cup (Emitted(l) \ Emitted(l))
      BY <1>1, <2>1, <2>3, <2>7 DEF Closing, Emitted
    <3>3. Closing(l)' /\ Covering(l)'
      BY <1>1, <1>2, <3>1, <3>2 DEF Closing, Covering, GraphOf, Rooted, Emitted, Linked, Complete, Traversing, Fetching
    <3> QED
      BY <2>5, <3>1, <3>3
  <2> QED
    BY <1>6, <2>6, <2>7 DEF CompileEnds
<1> QED
    BY <1>2, <1>4, <1>5, <1>6

LEMMA DisposeIsWhole ==
    ASSUME Whole, Dispose
    PROVE  Whole'
<1>1. load' = load /\ registry' = registry /\ disposed' = "disposed"
    BY DEF Dispose
<1>2. ASSUME NEW l \in Loads PROVE Covering(l)' /\ Closing(l)'
    BY <1>1 DEF Whole, Covering, Closing, GraphOf, Rooted, Alive
<1> QED
    BY <1>1, <1>2 DEF Whole, Alive

LEMMA WholeKept == Structure /\ Whole /\ [Next]_vars => Whole'
<1> SUFFICES ASSUME Structure, Whole, [Next]_vars PROVE Whole'
    OBVIOUS
<1>1. ASSUME NEW l \in Loads, Step(l) \/ DefineRefused(l) PROVE Whole'
  <2>1. DefineRefused(l) => \E m \in Modules : m \in load[l].left
    BY DEF DefineRefused, Structure, LoaderTyped, LoadRecord
  <2> QED
    BY <1>1, <2>1, WalkIsWhole, RegisterIsWhole, DefineIsWhole, RegisteredIsWhole DEF Step
<1>2. ASSUME NEW l \in Loads, NEW m \in Entries, Begin(l, m) PROVE Whole'
    BY <1>2, BeginIsWhole
<1>3. ASSUME NEW m \in Modules, ReadEnds(m) \/ ReadFails(m) PROVE Whole'
    BY <1>3, ReadIsWhole
<1>4. CASE CompilerEnds
    BY <1>4, CompilerIsWhole
<1>5. CASE Dispose
    BY <1>5, DisposeIsWhole
<1>6. ASSUME UNCHANGED <<load, records, registry, disposed>> PROVE Whole'
  <2>1. {} \in SUBSET Loads /\ Others({})
    BY <1>6 DEF Others, Structure, LoaderTyped
  <2> QED
    BY <1>6, <2>1, QuietlyWhole
<1>7. ASSUME NEW m \in Modules, Correct(m) PROVE Whole'
    BY <1>6, <1>7 DEF Correct
<1>8. CASE UNCHANGED vars
    BY <1>6, <1>8 DEF vars
<1> QED
    BY <1>1, <1>2, <1>3, <1>4, <1>5, <1>7, <1>8 DEF Next
-----------------------------------------------------------------------------
IInv == Structure /\ Local /\ Whole

(* The three layers hold in every state.                                   *)
THEOREM LoaderInvariant == Spec => []IInv
<1>1. Init => IInv
    BY StructureStarts, LocalStarts, WholeStarts DEF IInv
<1>2. IInv /\ [Next]_vars => IInv'
    BY StructureKept, LocalKept, WholeKept DEF IInv
<1> QED
    BY <1>1, <1>2, PTL DEF Spec

(* Between registrations the sandbox holds the records but for declaration *)
(* files, each with whatever it needs when it is executed, and a load that  *)
(* has resolved has its graph there, and what it was asked for              *)
(* (registerGraph): for any import graph, and any interleaving of loads,    *)
(* reads, compilers, failures and disposal.                                *)
THEOREM RegistrationsAreWhole == Spec => []RegisteredWhole
<1>1. IInv => RegisteredWhole
  <2> SUFFICES ASSUME IInv PROVE RegisteredWhole
    OBVIOUS
  <2>1. ASSUME Alive, \A l \in Loads : load[l].phase # "defining"
        PROVE  /\ registry = records \ Declarations /\ Complete(records)
               /\ \A m \in registry : Needed(m) \subseteq registry
    <3>1. registry = records \ Declarations /\ Linked(records)
      BY <2>1 DEF IInv, Whole
    <3>2. ASSUME NEW m \in registry, NEW i \in ImportsOf(m), i.runtime
          PROVE  Redirect[i.url] \in registry
      BY <3>1, <3>2, TargetsIn DEF Linked, Complete, Misused
    <3>3. ASSUME NEW m \in registry PROVE Needed(m) \subseteq registry
      BY <3>2, TargetsIn DEF Needed
    <3> QED
      BY <3>1, <3>3 DEF Linked
  <2>2. ASSUME NEW l \in Loads, load[l].phase = "resolved"
        PROVE  (GraphOf(l) \ Cells) \ Declarations \subseteq registry /\ Promised(l) \subseteq registry
    <3> DEFINE e == load[l].entry
    <3>1. (GraphOf(l) \ Cells) \ Declarations \subseteq registry /\ Rooted(l) /\ e \in Modules
      BY <2>2 DEF IInv, Whole, Closing, Structure, Shaped
    <3>2. Redirect[e] \in Modules /\ Redirect[e] \in GraphOf(l)
      BY <3>1, GraphRoot, ModulesAssumption DEF GraphOf
    <3>3. CASE e \in Cells
      <4>1. Redirect[e] = e
        BY <3>3, ModulesAssumption
      <4>2. ASSUME NEW i \in ImportsOf(e), i.runtime PROVE Redirect[i.url] \in registry
        <5>1. Redirect[i.url] \in GraphOf(l) /\ i.url \in Modules \ Cells
          BY <3>1, <3>2, <4>1, <4>2, GraphClosed, ImportsAreModules DEF GraphOf
        <5>2. Redirect[i.url] \notin Cells /\ Redirect[i.url] \notin Declarations
          BY <3>1, <3>3, <4>2, <5>1, ModulesAssumption DEF Rooted, Misused
        <5> QED
          BY <3>1, <5>1, <5>2
      <4> QED
        BY <3>1, <3>3, <4>2, TargetsIn DEF Promised, Needed
    <3>4. CASE e \notin Cells
      <4>1. Redirect[e] \notin Cells /\ Redirect[e] \notin Declarations
        BY <3>1, <3>4, ModulesAssumption DEF Rooted, Misused, Executed
      <4> QED
        BY <3>1, <3>2, <3>4, <4>1 DEF Promised
    <3> QED
      BY <3>3, <3>4
  <2> QED
    BY <2>1, <2>2 DEF RegisteredWhole
<1> QED
    BY <1>1, LoaderInvariant, PTL

(* No load fails because another registered a module of its graph, nor for  *)
(* a text outside of that graph unless a registered one clashes with it;    *)
(* and a loader is given up only over a graph that was registered in part   *)
(* (registerGraph, check): for any import graph and any texts that clash.   *)
THEOREM FailuresAreLocal == Spec => []FailuresStayLocal
<1>1. IInv => FailuresStayLocal
  <2> SUFFICES ASSUME IInv PROVE FailuresStayLocal
    OBVIOUS
  <2>1. ASSUME NEW l \in Loads
        PROVE  /\ load[l].reason # "duplicate"
               /\ load[l].reason = "types" /\ disposed # "disposed" => \E m \in GraphOf(l) : ToBlame(l, m)
    BY DEF IInv, Local, Blamed, ToBlame, Whole, Closing
  <2> QED
    BY <2>1 DEF IInv, Whole, FailuresStayLocal
<1> QED
    BY <1>1, LoaderInvariant, PTL
=============================================================================
