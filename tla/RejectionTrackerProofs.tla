----------------------- MODULE RejectionTrackerProofs -----------------------
(***************************************************************************)
(* The tracker, for any promises and any number of slots.  What a          *)
(* checkpoint reports nobody had handled, nor is it reported twice,        *)
(* whatever the getters of the inspected reasons do.  The tracker's        *)
(* references are those of its live slots if no getter handles the very    *)
(* rejection it is read from: with "handleOwn" the slot under inspection   *)
(* is given back by the handler, and then again by the report.             *)
(***************************************************************************)
EXTENDS RejectionTracker, FiniteSetTheorems, WellFoundedInduction, TLAPS

Records == [live : BOOLEAN, promise : Promises \cup {Nobody}]

(* The types.  What was collected or reported had been rejected, so a      *)
(* promise that is rejected now was neither: it is rejected once.          *)
TrackerTyped ==
    /\ rejected \subseteq Promises /\ handled \subseteq Promises /\ last \subseteq handled
    /\ slots \in [Slots -> Records]
    /\ references \in [Promises -> Int]
    /\ reports \in [Promises -> Nat]
    /\ cursor \in 1..(MAX_REJECTIONS + 1)
    /\ collected \subseteq rejected
    /\ \A p \in Promises : reports[p] > 0 => p \in rejected

(* A live slot holds a rejection that nobody handled, that was not         *)
(* reported before and that this checkpoint has not passed.                *)
LiveAreUnhandled ==
    \A i \in Slots : slots[i].live =>
        /\ slots[i].promise \in rejected \ handled
        /\ reports[slots[i].promise] = 0
        /\ pc \in {"checkpoint", "inspect"} => slots[i].promise \notin collected

(* No rejection has two slots.                                             *)
TrackedOnce ==
    \A i, j \in Slots : slots[i].live /\ slots[j].live /\ slots[i].promise = slots[j].promise => i = j

(* While a reason is inspected its slot holds a rejection that was not     *)
(* handled when the inspection began, and no other slot holds it.          *)
Inspecting ==
    pc = "inspect" =>
        /\ cursor \in Slots
        /\ slots[cursor].promise \in rejected \ last
        /\ reports[slots[cursor].promise] = 0
        /\ \A i \in Slots : slots[i].live /\ slots[i].promise = slots[cursor].promise => i = cursor

Watch == TrackerTyped /\ LiveAreUnhandled /\ TrackedOnce

IInv == Watch /\ Inspecting

(* The references: the slot under inspection has to be live for its own.   *)
Owned == /\ ReferencesOwned
         /\ pc = "inspect" => slots[cursor].live
-----------------------------------------------------------------------------
(* The slots of a promise can be counted.                                  *)
LEMMA SlotsAreFinite == IsFiniteSet(Slots) /\ Slots \subseteq Nat
<1>1. MAX_REJECTIONS \in Int
    BY TrackerAssumption
<1> QED
    BY <1>1, FS_Interval DEF Slots

(* There are finitely many live slots, so they can be counted.              *)
LEMMA LiveIsFinite ==
    ASSUME NEW p
    PROVE  IsFiniteSet(Live(p)) /\ Cardinality(Live(p)) \in Nat
<1>1. Live(p) \in SUBSET Slots
    BY DEF Live
<1> QED
    BY <1>1, SlotsAreFinite, FS_Subset, FS_CardinalityType

(* When some slot is free, one is the first ...                            *)
LEMMA FirstFreeExists ==
    ASSUME ~Full
    PROVE  \E i \in Slots : FirstFree(i)
<1> DEFINE Less == {p \in Nat \X Nat : p[1] < p[2]}
           frees == {i \in Slots : ~slots[i].live}
<1>1. IsWellFoundedOn(Less, Nat)
    BY NatLessThanWellFounded, Zenon DEF OpToRel
<1>2. frees \subseteq Nat /\ frees # {}
    BY SlotsAreFinite DEF Full
<1>3. PICK i \in frees : \A j \in frees : ~ (<<j, i>> \in Less)
  <2> HIDE DEF Less, frees
  <2> QED
    BY <1>1, <1>2, WFMin
<1>4. \A j \in frees : ~ (j < i)
    BY <1>2, <1>3
<1>5. i \in Slots /\ i \in Nat /\ ~slots[i].live
    BY <1>2
<1>6. ASSUME NEW j \in 1..(i-1)
      PROVE  slots[j].live
  <2>1. j \in Slots /\ j < i
    BY <1>5, TrackerAssumption DEF Slots
  <2> QED
    BY <1>4, <2>1
<1> QED
    BY <1>5, <1>6 DEF FirstFree

(* ... and only one.                                                       *)
LEMMA FirstFreeIsUnique ==
    ASSUME NEW i \in Slots, NEW j \in Slots, FirstFree(i), FirstFree(j)
    PROVE  i = j
<1>1. i \in Nat /\ j \in Nat /\ 1 =< i /\ 1 =< j
    BY TrackerAssumption DEF Slots
<1> QED
    BY <1>1 DEF FirstFree

(* What the tracker does with a rejection: one more slot, or nothing.      *)
LEMMA RejectCases ==
    ASSUME TrackerTyped, NEW p \in Promises, Reject(p)
    PROVE  \/ UNCHANGED <<slots, references>>
           \/ /\ p \notin handled
              /\ references' = [references EXCEPT ![p] = @ + 1]
              /\ \E k \in Slots : /\ ~slots[k].live
                                  /\ slots' = [slots EXCEPT ![k] = [live |-> TRUE, promise |-> p]]
<1>0. slots \in [Slots -> Records] /\ references \in [Promises -> Int]
    BY DEF TrackerTyped
<1>1. CASE p \in handled
    BY <1>1 DEF Reject
<1>2. CASE p \notin handled /\ Full
  <2>1. Tracked(p) = slots
    BY <1>0, <1>2 DEF Tracked, FirstFree, Full
  <2>2. references' = [references EXCEPT ![p] = @ + 0]
    BY <1>2 DEF Reject
  <2> QED
    BY <1>0, <1>2, <2>1, <2>2 DEF Reject
<1>3. CASE p \notin handled /\ ~Full
  <2>1. PICK k \in Slots : FirstFree(k)
    BY <1>3, FirstFreeExists
  <2>2. \A i \in Slots : FirstFree(i) <=> i = k
    BY <2>1, FirstFreeIsUnique
  <2>3. Tracked(p) = [slots EXCEPT ![k] = [live |-> TRUE, promise |-> p]]
    BY <1>0, <2>2 DEF Tracked
  <2>4. references' = [references EXCEPT ![p] = @ + 1]
    BY <1>3 DEF Reject
  <2> QED
    BY <1>3, <2>1, <2>3, <2>4 DEF Reject, FirstFree
<1> QED
    BY <1>1, <1>2, <1>3

(* A rejection takes a slot that was free, perhaps the one under           *)
(* inspection: it is a new one, which nobody has handled yet.              *)
LEMMA RejectKeeps ==
    ASSUME IInv, NEW p \in Promises, Reject(p), UNCHANGED <<cursor, collected, reports, pc, last>>
    PROVE  IInv'
<1>0. /\ TrackerTyped /\ LiveAreUnhandled /\ TrackedOnce /\ Inspecting
      /\ p \notin rejected /\ rejected' = rejected \cup {p} /\ handled' = handled
    BY DEF IInv, Watch, Reject
<1>1. CASE UNCHANGED <<slots, references>>
    BY <1>0, <1>1 DEF IInv, Watch, TrackerTyped, LiveAreUnhandled, TrackedOnce, Inspecting
<1>2. ASSUME p \notin handled, references' = [references EXCEPT ![p] = @ + 1],
             NEW k \in Slots, ~slots[k].live,
             slots' = [slots EXCEPT ![k] = [live |-> TRUE, promise |-> p]]
      PROVE  IInv'
  <2>1. /\ slots'[k].live /\ slots'[k].promise = p
        /\ \A i \in Slots \ {k} : slots'[i] = slots[i]
    BY <1>0, <1>2 DEF TrackerTyped
  <2>2. TrackerTyped'
    <3>1. slots' \in [Slots -> Records]
      BY <1>0, <1>2 DEF TrackerTyped, Records
    <3>2. references' \in [Promises -> Int]
      BY <1>0, <1>2 DEF TrackerTyped
    <3> QED
      BY <1>0, <3>1, <3>2 DEF TrackerTyped
  <2>3. reports[p] = 0 /\ p \notin collected /\ p \notin last
    BY <1>0, <1>2 DEF TrackerTyped
  <2>4. LiveAreUnhandled'
    BY <1>0, <1>2, <2>1, <2>3 DEF LiveAreUnhandled
  <2>5. \A i \in Slots : slots[i].live => slots[i].promise # p
    BY <1>0 DEF LiveAreUnhandled
  <2>6. TrackedOnce'
    BY <1>0, <2>1, <2>5 DEF TrackedOnce
  <2>7. Inspecting'
    <3>1. CASE cursor = k
      BY <1>0, <2>1, <2>3, <2>5, <3>1 DEF Inspecting
    <3>2. CASE cursor # k
      BY <1>0, <2>1, <2>5, <3>2 DEF Inspecting
    <3> QED
      BY <3>1, <3>2
  <2> QED
    BY <2>2, <2>4, <2>6, <2>7 DEF IInv, Watch
<1> QED
    BY <1>0, <1>1, <1>2, RejectCases

(* ... and one reference.                                                  *)
LEMMA RejectOwns ==
    ASSUME TrackerTyped, Owned, NEW p \in Promises, Reject(p), UNCHANGED <<cursor, pc>>,
           pc = "inspect" => cursor \in Slots
    PROVE  Owned'
<1>1. CASE UNCHANGED <<slots, references>>
    BY <1>1 DEF Owned, ReferencesOwned, Live, Tracks
<1>2. ASSUME references' = [references EXCEPT ![p] = @ + 1],
             NEW k \in Slots, ~slots[k].live,
             slots' = [slots EXCEPT ![k] = [live |-> TRUE, promise |-> p]]
      PROVE  Owned'
  <2>1. /\ slots'[k].live /\ slots'[k].promise = p
        /\ \A i \in Slots \ {k} : slots'[i] = slots[i]
    BY <1>2 DEF TrackerTyped
  <2>2. ASSUME NEW q \in Promises
        PROVE  references'[q] = Cardinality(Live(q)')
    <3>1. CASE q = p
      <4>1. Live(q)' = Live(q) \cup {k} /\ k \notin Live(q)
        BY <1>2, <2>1, <3>1 DEF Live, Tracks
      <4>2. Cardinality(Live(q)') = Cardinality(Live(q)) + 1
        BY <4>1, LiveIsFinite, FS_AddElement
      <4>3. references'[q] = references[q] + 1
        BY <1>2, <3>1 DEF TrackerTyped
      <4> QED
        BY <4>2, <4>3 DEF Owned, ReferencesOwned
    <3>2. CASE q # p
      <4>1. Live(q)' = Live(q)
        BY <1>2, <2>1, <3>2 DEF Live, Tracks
      <4>2. references'[q] = references[q]
        BY <1>2, <3>2 DEF TrackerTyped
      <4> QED
        BY <4>1, <4>2 DEF Owned, ReferencesOwned
    <3> QED
      BY <3>1, <3>2
  <2>3. pc' = "inspect" => slots'[cursor'].live
    BY <2>1 DEF Owned
  <2> QED
    BY <2>2, <2>3 DEF Owned, ReferencesOwned
<1> QED
    BY <1>1, <1>2, RejectCases

(* A slot that is given back keeps its promise.                            *)
LEMMA Unlive ==
    ASSUME NEW s \in Records, NEW b \in BOOLEAN, NEW t, t = [s EXCEPT !.live = b]
    PROVE  t \in Records /\ t.live = b /\ t.promise = s.promise
    BY DEF Records

(* What the tracker does with a handler: it gives the slots of that        *)
(* promise back, and touches no other.                                     *)
LEMMA HandleCases ==
    ASSUME TrackerTyped, NEW p \in Promises, Handle(p)
    PROVE  /\ slots' \in [Slots -> Records]
           /\ \A i \in Slots : IF i \in Live(p)
                               THEN ~slots'[i].live /\ slots'[i].promise = p
                               ELSE slots'[i] = slots[i]
           /\ references' = [references EXCEPT ![p] = @ - Cardinality(Live(p))]
<1>0. slots \in [Slots -> Records]
    BY DEF TrackerTyped
<1>1. ASSUME NEW i \in Slots
      PROVE  /\ slots'[i] \in Records
             /\ slots'[i].promise = slots[i].promise
             /\ slots'[i].live <=> slots[i].live /\ ~Tracks(i, p)
  <2> DEFINE b == slots[i].live /\ ~Tracks(i, p)
  <2>1. b \in BOOLEAN
    BY Zenon
  <2>2. slots'[i] = [slots[i] EXCEPT !.live = b]
    BY DEF Handle, Untracked
  <2>3. slots[i] \in Records
    BY <1>0
  <2> HIDE DEF b
  <2>4. slots'[i] \in Records /\ slots'[i].live = b /\ slots'[i].promise = slots[i].promise
    BY <2>1, <2>2, <2>3, Unlive
  <2>5. slots'[i].live <=> b
    BY <2>4
  <2> QED
    BY <2>4, <2>5 DEF b
<1>2. slots' \in [Slots -> Records]
  <2>1. slots' = [i \in Slots |-> slots'[i]]
    BY DEF Handle, Untracked
  <2> QED
    BY <1>1, <2>1
<1>3. ASSUME NEW i \in Slots
      PROVE  IF i \in Live(p) THEN ~slots'[i].live /\ slots'[i].promise = p /\ slots'[i] # slots[i]
                              ELSE slots'[i] = slots[i]
  <2>1. CASE i \in Live(p)
    BY <1>1, <2>1 DEF Live, Tracks
  <2>2. CASE i \notin Live(p)
    <3>1. slots'[i].live <=> slots[i].live
      BY <1>1, <2>2 DEF Live
    <3>2. /\ slots'[i] \in Records /\ slots[i] \in Records
          /\ slots'[i].promise = slots[i].promise
      BY <1>0, <1>1
    <3> QED
      BY <2>2, <3>1, <3>2 DEF Records
  <2> QED
    BY <2>1, <2>2
<1>4. {i \in Slots : slots'[i] # slots[i]} = Live(p)
    BY <1>3 DEF Live
<1>5. references' = [references EXCEPT ![p] = @ - Cardinality({i \in Slots : slots'[i] # slots[i]})]
    BY DEF Handle
<1> QED
    BY <1>2, <1>3, <1>4, <1>5

(* A promise that is handled gives up its slot; the others stay.            *)
LEMMA HandleKeeps ==
    ASSUME IInv, NEW p \in Promises, Handle(p), UNCHANGED <<cursor, collected, reports, pc, last>>
    PROVE  IInv'
<1>0. /\ TrackerTyped /\ LiveAreUnhandled /\ TrackedOnce /\ Inspecting
      /\ handled' = handled \cup {p} /\ rejected' = rejected
    BY DEF IInv, Watch, Handle
<1>1. /\ slots' \in [Slots -> Records]
      /\ \A i \in Slots : IF i \in Live(p) THEN ~slots'[i].live /\ slots'[i].promise = p
                                           ELSE slots'[i] = slots[i]
      /\ references' = [references EXCEPT ![p] = @ - Cardinality(Live(p))]
    BY <1>0, HandleCases
<1>2. TrackerTyped'
  <2>1. \A q \in Promises : Cardinality(Live(q)) \in Nat
    BY LiveIsFinite
  <2>2. references' \in [Promises -> Int]
    BY <1>0, <1>1, <2>1 DEF TrackerTyped
  <2> QED
    BY <1>0, <1>1, <2>2 DEF TrackerTyped
<1>3. \A i \in Slots : /\ slots'[i].promise = slots[i].promise
                       /\ slots'[i].live => slots[i].live /\ slots[i].promise # p
    BY <1>1 DEF Live, Tracks
<1>4. LiveAreUnhandled' /\ TrackedOnce' /\ Inspecting'
    BY <1>0, <1>3 DEF LiveAreUnhandled, TrackedOnce, Inspecting
<1> QED
    BY <1>2, <1>4 DEF IInv, Watch

(* A reference is given back for each of those slots.                      *)
LEMMA HandleOwns ==
    ASSUME TrackerTyped, Owned, NEW p \in Promises, Handle(p), UNCHANGED <<cursor, pc>>,
           pc = "inspect" => cursor \in Slots /\ slots[cursor].promise # p
    PROVE  Owned'
<1>1. /\ \A i \in Slots : IF i \in Live(p) THEN ~slots'[i].live ELSE slots'[i] = slots[i]
      /\ references' = [references EXCEPT ![p] = @ - Cardinality(Live(p))]
    BY HandleCases
<1>2. ASSUME NEW q \in Promises
      PROVE  references'[q] = Cardinality(Live(q)')
  <2>1. CASE q = p
    <3>1. Live(q)' = {}
      BY <1>1, <2>1 DEF Live, Tracks
    <3>2. references[q] = Cardinality(Live(q)) /\ references[q] \in Int
      BY DEF Owned, ReferencesOwned, TrackerTyped
    <3>3. references'[q] = 0
      BY <1>1, <2>1, <3>2 DEF TrackerTyped
    <3> QED
      BY <3>1, <3>3, FS_EmptySet
  <2>2. CASE q # p
    <3>1. Live(q)' = Live(q)
      BY <1>1, <2>2 DEF Live, Tracks
    <3>2. references'[q] = references[q]
      BY <1>1, <2>2 DEF TrackerTyped
    <3> QED
      BY <3>1, <3>2 DEF Owned, ReferencesOwned
  <2> QED
    BY <2>1, <2>2
<1>3. pc' = "inspect" => slots'[cursor'].live
    BY <1>1 DEF Owned, Live, Tracks
<1> QED
    BY <1>2, <1>3 DEF Owned, ReferencesOwned

(* A report frees the slot, live or not; no other slot has its promise.    *)
LEMMA ReportKeeps ==
    ASSUME IInv, Report
    PROVE  IInv'
<1> DEFINE p == slots[cursor].promise
<1>0. /\ TrackerTyped /\ LiveAreUnhandled /\ TrackedOnce
      /\ cursor \in Slots /\ p \in rejected /\ p \in Promises /\ reports[p] = 0
      /\ \A i \in Slots : slots[i].live /\ slots[i].promise = p => i = cursor
      /\ pc = "inspect"
    BY DEF IInv, Watch, Inspecting, Report, TrackerTyped
<1>1. /\ collected' = collected \cup {p}
      /\ references' = [references EXCEPT ![p] = @ - 1]
      /\ slots' = [slots EXCEPT ![cursor].live = FALSE]
      /\ cursor' = cursor + 1 /\ pc' = "checkpoint"
      /\ UNCHANGED <<rejected, handled, reports, last>>
    BY DEF Report, SlotFreed
<1> HIDE DEF p
<1>2. /\ slots' \in [Slots -> Records]
      /\ ~slots'[cursor].live
      /\ \A i \in Slots \ {cursor} : slots'[i] = slots[i]
    BY <1>0, <1>1 DEF TrackerTyped, Records
<1>3. TrackerTyped'
  <2>1. cursor' \in 1..(MAX_REJECTIONS + 1)
    BY <1>0, <1>1, TrackerAssumption DEF Slots
  <2>2. references' \in [Promises -> Int]
    BY <1>0, <1>1 DEF TrackerTyped
  <2> QED
    BY <1>0, <1>1, <1>2, <2>1, <2>2 DEF TrackerTyped
<1>4. \A i \in Slots : slots'[i].live => slots'[i] = slots[i] /\ slots[i].promise # p
    BY <1>0, <1>2
<1>5. LiveAreUnhandled' /\ TrackedOnce' /\ Inspecting'
    BY <1>0, <1>1, <1>4 DEF LiveAreUnhandled, TrackedOnce, Inspecting
<1> QED
    BY <1>3, <1>5 DEF IInv, Watch

(* A report takes over the reference of its slot, if that is live still.   *)
LEMMA ReportOwns ==
    ASSUME IInv, Owned, Report
    PROVE  Owned'
<1> DEFINE p == slots[cursor].promise
<1>0. /\ TrackerTyped /\ cursor \in Slots /\ slots[cursor].live /\ p \in Promises
    BY DEF IInv, Watch, Inspecting, Report, TrackerTyped, Owned
<1>1. /\ references' = [references EXCEPT ![p] = @ - 1]
      /\ slots' = [slots EXCEPT ![cursor].live = FALSE]
      /\ pc' = "checkpoint"
    BY DEF Report, SlotFreed
<1>2. /\ ~slots'[cursor].live
      /\ \A i \in Slots \ {cursor} : slots'[i] = slots[i]
    BY <1>0, <1>1 DEF TrackerTyped, Records
<1> HIDE DEF p
<1>3. ASSUME NEW q \in Promises
      PROVE  references'[q] = Cardinality(Live(q)')
  <2>1. CASE q = p
    <3>1. Live(q)' = Live(q) \ {cursor} /\ cursor \in Live(q)
      BY <1>0, <1>2, <2>1 DEF Live, Tracks, p
    <3>2. Cardinality(Live(q)') = Cardinality(Live(q)) - 1
      BY <3>1, LiveIsFinite, FS_RemoveElement
    <3>3. references'[q] = references[q] - 1
      BY <1>0, <1>1, <2>1 DEF TrackerTyped
    <3> QED
      BY <3>2, <3>3 DEF Owned, ReferencesOwned
  <2>2. CASE q # p
    <3>1. Live(q)' = Live(q)
      BY <1>0, <1>2, <2>2 DEF Live, Tracks, p
    <3>2. references'[q] = references[q]
      BY <1>0, <1>1, <2>2 DEF TrackerTyped
    <3> QED
      BY <3>1, <3>2 DEF Owned, ReferencesOwned
  <2> QED
    BY <2>1, <2>2
<1> QED
    BY <1>1, <1>3 DEF Owned, ReferencesOwned

(* A step that leaves the tracker alone.                                   *)
LEMMA OthersKeep ==
    ASSUME Watch, UNCHANGED <<rejected, handled, slots, references>>,
           cursor' \in 1..(MAX_REJECTIONS + 1),
           last' \subseteq handled, collected' \subseteq collected,
           pc' \in {"checkpoint", "inspect"} => pc \in {"checkpoint", "inspect"} \/ collected' = {},
           \/ reports' = reports
           \/ /\ reports' = [p \in Promises |-> reports[p] + (IF p \in collected THEN 1 ELSE 0)]
              /\ pc = "checkpoint"
    PROVE  Watch'
<1>0. TrackerTyped /\ LiveAreUnhandled /\ TrackedOnce
    BY DEF Watch
<1>1. TrackedOnce'
    BY <1>0 DEF TrackedOnce
<1>2. TrackerTyped'
    BY <1>0 DEF TrackerTyped
<1>3. LiveAreUnhandled'
    BY <1>0 DEF TrackerTyped, LiveAreUnhandled
<1> QED
    BY <1>1, <1>2, <1>3 DEF Watch

(* The invariant survives every step.                                       *)
LEMMA TrackerKept ==
    ASSUME IInv, [Next]_vars
    PROVE  IInv'
<1> USE DEF trackerVars, turnVars
<1>0. Watch /\ Inspecting /\ cursor \in 1..(MAX_REJECTIONS + 1) /\ last \subseteq handled
    BY DEF IInv, Watch, TrackerTyped
<1>1. CASE Command \/ StartTurn \/ JobsDone
    BY <1>0, <1>1, OthersKeep DEF Command, StartTurn, JobsDone, IInv, Inspecting
<1>2. CASE GuestRuns \/ Inspect
  <2>1. UNCHANGED <<cursor, collected, reports, pc, last>>
    BY <1>2 DEF GuestRuns, Inspect
  <2>2. CASE Work
    BY <1>0, <2>1, <2>2, OthersKeep DEF Work, IInv, Inspecting
  <2>3. ASSUME NEW p \in Promises, Reject(p) \/ Handle(p)
        PROVE  IInv'
    BY <2>1, <2>3, RejectKeeps, HandleKeeps
  <2> QED
    BY <1>2, <2>2, <2>3 DEF GuestRuns, Inspect
<1>3. CASE EndOfJobs
  <2>1. cursor' \in 1..(MAX_REJECTIONS + 1) /\ collected' = {}
    BY <1>3, TrackerAssumption DEF EndOfJobs
  <2> QED
    BY <1>0, <1>3, <2>1, OthersKeep DEF EndOfJobs, IInv, Inspecting
<1>4. CASE NextSlot
  <2>1. cursor' \in 1..(MAX_REJECTIONS + 1)
    BY <1>0, <1>4, TrackerAssumption DEF NextSlot, Slots
  <2>2. Watch'
    BY <1>0, <1>4, <2>1, OthersKeep DEF NextSlot
  <2>3. Inspecting'
    BY <1>0, <1>4 DEF NextSlot, Inspecting, Watch, LiveAreUnhandled, TrackedOnce
  <2> QED
    BY <2>2, <2>3 DEF IInv
<1>5. CASE Deliver
    BY <1>0, <1>5, OthersKeep DEF Deliver, IInv, Inspecting
<1>6. CASE UNCHANGED vars
    BY <1>0, <1>6, OthersKeep DEF vars, IInv, Inspecting
<1> QED
    BY <1>1, <1>2, <1>3, <1>4, <1>5, <1>6, ReportKeeps DEF Next

(* So does the count of references, when no inspection handles its own.     *)
LEMMA OwnedKept ==
    ASSUME "handleOwn" \notin INSPECTION, IInv, Owned, [Next]_vars
    PROVE  Owned'
<1> USE DEF trackerVars, turnVars
<1>0. TrackerTyped /\ Inspecting
    BY DEF IInv, Watch
<1>1. CASE Command \/ StartTurn \/ JobsDone \/ EndOfJobs \/ Deliver
    BY <1>1 DEF Command, StartTurn, JobsDone, EndOfJobs, Deliver, Owned, ReferencesOwned, Live, Tracks
<1>2. CASE NextSlot \/ UNCHANGED vars
    BY <1>2 DEF NextSlot, vars, Owned, ReferencesOwned, Live, Tracks
<1>3. CASE GuestRuns
  <2>1. pc = "guest" /\ UNCHANGED <<cursor, pc>>
    BY <1>3 DEF GuestRuns
  <2>2. CASE Work
    BY <2>1, <2>2 DEF Work, Owned, ReferencesOwned, Live, Tracks
  <2>3. ASSUME NEW p \in Promises, Reject(p) \/ Handle(p)
        PROVE  Owned'
    BY <1>0, <2>1, <2>3, RejectOwns, HandleOwns
  <2> QED
    BY <1>3, <2>2, <2>3 DEF GuestRuns
<1>4. CASE Inspect
  <2>1. pc = "inspect" /\ UNCHANGED <<cursor, pc>> /\ cursor \in Slots
    BY <1>0, <1>4 DEF Inspect, Inspecting
  <2>2. CASE Work
    BY <2>1, <2>2 DEF Work, Owned, ReferencesOwned, Live, Tracks
  <2>3. ASSUME NEW p \in Promises, Reject(p)
        PROVE  Owned'
    BY <1>0, <2>1, <2>3, RejectOwns
  <2>4. ASSUME NEW p \in Promises, MayHandle(p), Handle(p)
        PROVE  Owned'
    BY <1>0, <2>1, <2>4, HandleOwns DEF MayHandle
  <2> QED
    BY <1>4, <2>2, <2>3, <2>4 DEF Inspect
<1> QED
    BY <1>1, <1>2, <1>3, <1>4, ReportOwns DEF Next

(* At first nothing is tracked.                                            *)
LEMMA TrackerStarts == Init => IInv /\ Owned
<1> SUFFICES ASSUME Init
             PROVE  IInv /\ Owned
    OBVIOUS
<1>1. TrackerTyped
    BY TrackerAssumption DEF Init, TrackerTyped, Records, Free
<1>2. LiveAreUnhandled /\ TrackedOnce /\ Inspecting
    BY DEF Init, LiveAreUnhandled, TrackedOnce, Inspecting, Free
<1>3. \A p \in Promises : Live(p) = {}
    BY DEF Init, Live, Tracks, Free
<1>4. Owned
    BY <1>3, FS_EmptySet DEF Init, Owned, ReferencesOwned
<1> QED
    BY <1>1, <1>2, <1>4 DEF IInv, Watch

(* The inductive invariant of the tracker.                                 *)
THEOREM TrackerInvariant == Spec => []IInv
<1>1. IInv /\ [Next]_vars => IInv'
    BY TrackerKept
<1> QED
    BY <1>1, TrackerStarts, PTL DEF Spec

(* One reference for each live slot, given back once: see ReferencesOwned. *)
THEOREM ReferencesAreOwned ==
    ASSUME "handleOwn" \notin INSPECTION
    PROVE  Spec => []ReferencesOwned
<1>1. IInv /\ Owned /\ [Next]_vars => Owned'
    BY OwnedKept
<1>2. Owned => ReferencesOwned
    BY DEF Owned
<1> QED
    BY <1>1, <1>2, TrackerStarts, TrackerInvariant, PTL DEF Spec

(* A promise handled before its checkpoint is not reported, and none is    *)
(* reported twice: see OnlyUnhandledReported.                              *)
THEOREM HandledAreNotReported == Spec => OnlyUnhandledReported
<1>1. IInv /\ [Next]_vars
        => [\A p \in Promises : p \in collected' \ collected => p \notin last /\ reports[p] = 0]_vars
  <2> SUFFICES ASSUME IInv, Next, NEW p \in Promises, p \in collected' \ collected
               PROVE  p \notin last /\ reports[p] = 0
    OBVIOUS
  <2>1. Report
    BY DEF Next, Command, StartTurn, GuestRuns, JobsDone, EndOfJobs, NextSlot, Inspect, Deliver
  <2>2. p = slots[cursor].promise /\ pc = "inspect"
    BY <2>1 DEF Report
  <2> QED
    BY <2>2 DEF IInv, Inspecting
<1> QED
    BY <1>1, TrackerInvariant, PTL DEF Spec, OnlyUnhandledReported
=============================================================================
