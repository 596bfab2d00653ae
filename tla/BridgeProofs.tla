---------------------------- MODULE BridgeProofs ----------------------------
(***************************************************************************)
(* The handle table, for every number of slots and generations: ids are    *)
(* distinct, stay in range, and the table implements HandleSpace.          *)
(*                                                                         *)
(* The bridge, for any number of slots, generations, callbacks and calls:  *)
(* each action uses the handle table properly until disposal clears it,    *)
(* every value in the table has one owner unless a failing command lost    *)
(* it, every sent call has one answer, and every watch asks for what its   *)
(* operation asked for.                                                    *)
(*                                                                         *)
(* The argument has three layers.  TableInv types the table.  Calls says   *)
(* which records of host calls are live and sent.  Owned, which rests on   *)
(* both, says who owns each id; it is inductive because every owner's id   *)
(* was issued, so that a fresh one has no owner.                           *)
(***************************************************************************)
EXTENDS Bridge, SequenceTheorems, TLAPS

(* An id determines its slot and its generation (engine.c:238, 253, 261). *)
LEMMA IdRoundTrip ==
    ASSUME NEW s \in Slots, NEW g \in Nat
    PROVE  /\ IdOf(s, g) \in Nat
           /\ SlotOf(IdOf(s, g)) = s
           /\ GenerationOf(IdOf(s, g)) = g
<1>1. /\ (g * HANDLE_SLOTS + s) % HANDLE_SLOTS = s
      /\ (g * HANDLE_SLOTS + s) \div HANDLE_SLOTS = g
      /\ g * HANDLE_SLOTS + s \in Nat
    BY SlotsAssumption DEF Slots
<1>2. IdOf(s, g) - 1 = g * HANDLE_SLOTS + s
    BY <1>1 DEF IdOf
<1> QED
    BY <1>1, <1>2 DEF IdOf, SlotOf, GenerationOf

(* Euclidean division by the number of slots. *)
LEMMA Division ==
    ASSUME NEW n \in Nat
    PROVE  /\ n % HANDLE_SLOTS \in Slots
           /\ n \div HANDLE_SLOTS \in Nat
           /\ n = ((n \div HANDLE_SLOTS) * HANDLE_SLOTS) + (n % HANDLE_SLOTS)
    BY SlotsAssumption DEF Slots

LEMMA QuotientBelow ==
    ASSUME NEW q \in Nat, NEW r \in Nat, NEW b \in Nat,
           (q * HANDLE_SLOTS) + r < b * HANDLE_SLOTS
    PROVE  q < b
<1>1. SUFFICES ASSUME q >= b PROVE FALSE
    OBVIOUS
<1>2. PICK d \in Nat : q = b + d
    BY <1>1
<1>3. /\ q * HANDLE_SLOTS = b * HANDLE_SLOTS + d * HANDLE_SLOTS
      /\ d * HANDLE_SLOTS \in Nat
      /\ b * HANDLE_SLOTS \in Nat
    BY <1>2, SlotsAssumption
<1> QED
    BY <1>3

(* The slot and the generation determine the id. *)
LEMMA IdDecomposition ==
    ASSUME NEW id \in Ids
    PROVE  /\ SlotOf(id) \in Slots
           /\ GenerationOf(id) \in 0 .. (MAX_GENERATION - 1)
           /\ IdOf(SlotOf(id), GenerationOf(id)) = id
<1> DEFINE n == id - 1
<1>1. MAX_GENERATION * HANDLE_SLOTS \in Nat
    BY SlotsAssumption, GenerationAssumption
<1>2. n \in Nat /\ n < MAX_GENERATION * HANDLE_SLOTS
    BY <1>1 DEF Ids
<1> HIDE DEF n
<1>3. /\ n % HANDLE_SLOTS \in Slots
      /\ n \div HANDLE_SLOTS \in Nat
      /\ n = ((n \div HANDLE_SLOTS) * HANDLE_SLOTS) + (n % HANDLE_SLOTS)
    BY <1>2, Division
<1>4. n \div HANDLE_SLOTS < MAX_GENERATION
  <2>1. n % HANDLE_SLOTS \in Nat
    BY <1>3 DEF Slots
  <2>2. (n \div HANDLE_SLOTS) * HANDLE_SLOTS + (n % HANDLE_SLOTS) < MAX_GENERATION * HANDLE_SLOTS
    BY <1>2, <1>3
  <2> QED
    BY <1>3, <2>1, <2>2, GenerationAssumption, QuotientBelow
<1>5. /\ SlotOf(id) = n % HANDLE_SLOTS
      /\ GenerationOf(id) = n \div HANDLE_SLOTS
      /\ IdOf(n % HANDLE_SLOTS, n \div HANDLE_SLOTS) = n + 1
      /\ id = n + 1
    BY <1>1, <1>3, SlotsAssumption DEF n, IdOf, SlotOf, GenerationOf, Ids, Slots
<1> QED
    BY <1>3, <1>4, <1>5, GenerationAssumption

(* Ids given out before a slot is retired never leave the declared range:  *)
(* with the code's constants they stay below 2^31.                         *)
LEMMA IdInRange ==
    ASSUME NEW s \in Slots, NEW g \in 0 .. (MAX_GENERATION - 1)
    PROVE  IdOf(s, g) \in Ids
<1>1. /\ g * HANDLE_SLOTS \in Nat
      /\ (g + 1) * HANDLE_SLOTS =< MAX_GENERATION * HANDLE_SLOTS
      /\ (g + 1) * HANDLE_SLOTS = g * HANDLE_SLOTS + HANDLE_SLOTS
      /\ MAX_GENERATION * HANDLE_SLOTS \in Nat
    BY SlotsAssumption, GenerationAssumption
<1> QED
    BY <1>1, SlotsAssumption DEF IdOf, Slots, Ids
-----------------------------------------------------------------------------
LEMMA RetainKeepsTypes ==
    ASSUME TableTypeOK, NEW s \in Slots, NEW v \in Values, Retain(s, v)
    PROVE  TableTypeOK'
<1>1. (s + 1) % HANDLE_SLOTS \in Slots
    BY SlotsAssumption DEF Slots
<1>2. generation[s] < MAX_GENERATION
    BY DEF Retain, NextSlot, Usable
<1> QED
    BY <1>1, <1>2 DEF TableTypeOK, Retain

LEMMA ReleaseKeepsTypes ==
    ASSUME TableTypeOK, NEW ids, Release(ids)
    PROVE  TableTypeOK'
<1>1. live' \in [Slots -> BOOLEAN]
    BY Zenon DEF Release, GenerationAfter
<1>2. ASSUME NEW s \in Slots
      PROVE  /\ generation'[s] \in 0 .. MAX_GENERATION
             /\ live'[s] => generation'[s] < MAX_GENERATION
  <2>1. CASE Freed(s, ids)
    <3>1. generation[s] \in 0 .. (MAX_GENERATION - 1)
      BY <2>1, GenerationAssumption DEF TableTypeOK, Freed
    <3>2. generation'[s] = generation[s] + 1 /\ ~live'[s]
      BY <2>1 DEF Release, GenerationAfter
    <3> QED
      BY <3>1, <3>2, GenerationAssumption
  <2>2. CASE ~Freed(s, ids)
    BY <2>2 DEF Release, GenerationAfter, TableTypeOK
  <2> QED
    BY <2>1, <2>2
<1>3. generation' \in [Slots -> 0 .. MAX_GENERATION]
    BY <1>2 DEF Release, GenerationAfter
<1> QED
    BY <1>1, <1>2, <1>3 DEF TableTypeOK, Release

LEMMA ReplaceKeepsTypes ==
    ASSUME TableTypeOK, NEW id, NEW v \in Values, Replace(id, v)
    PROVE  TableTypeOK'
    BY DEF TableTypeOK, Replace

LEMMA TableInitTypes == TableInit => TableTypeOK
    BY SlotsAssumption, GenerationAssumption DEF TableInit, TableTypeOK, Slots

(* The table keeps its types, and only a slot with generations left is     *)
(* ever live (retain's guard, release's increment).                        *)
THEOREM TableTypeCorrect == TableSpec => []TableTypeOK
<1>1. TableInit => TableTypeOK
    BY TableInitTypes
<1>2. TableTypeOK /\ [TableNext]_tableVars => TableTypeOK'
  <2> SUFFICES ASSUME TableTypeOK, [TableNext]_tableVars
               PROVE  TableTypeOK'
    OBVIOUS
  <2>1. ASSUME NEW s \in Slots, NEW v \in Values, Retain(s, v)
        PROVE  TableTypeOK'
    BY <2>1, RetainKeepsTypes
  <2>2. ASSUME NEW ids \in SUBSET Ids, Release(ids)
        PROVE  TableTypeOK'
    BY <2>2, ReleaseKeepsTypes
  <2>3. ASSUME NEW id \in Ids, NEW v \in Values, Replace(id, v)
        PROVE  TableTypeOK'
    BY <2>3, ReplaceKeepsTypes
  <2>4. CASE UNCHANGED tableVars
    BY <2>4 DEF TableTypeOK, tableVars
  <2> QED
    BY <2>1, <2>2, <2>3, <2>4 DEF TableNext
<1> QED
    BY <1>1, <1>2, PTL DEF TableSpec
-----------------------------------------------------------------------------
(* retain binds one id, never issued before, and unbinds none. *)
LEMMA RetainIssues ==
    ASSUME TableTypeOK, NEW s \in Slots, NEW v \in Values, Retain(s, v)
    PROVE  /\ CurrentId(s) \in Ids \ IssuedIds
           /\ IssuedIds' = IssuedIds \cup {CurrentId(s)}
           /\ BoundIds' = BoundIds \cup {CurrentId(s)}
<1>1. /\ generation[s] \in 0 .. (MAX_GENERATION - 1)
      /\ ~live[s]
    BY GenerationAssumption DEF TableTypeOK, Retain, NextSlot, Usable
<1>2. /\ CurrentId(s) \in Ids
      /\ SlotOf(CurrentId(s)) = s
      /\ GenerationOf(CurrentId(s)) = generation[s]
    BY <1>1, IdInRange, IdRoundTrip DEF CurrentId
<1>3. CurrentId(s) \notin IssuedIds
    BY <1>1, <1>2 DEF IssuedIds, Bound
<1>4. ASSUME NEW id \in Ids
      PROVE  Bound(id)' <=> (Bound(id) \/ id = CurrentId(s))
  <2>1. SlotOf(id) \in Slots /\ IdOf(SlotOf(id), GenerationOf(id)) = id
    BY IdDecomposition
  <2>2. CASE SlotOf(id) = s
    BY <1>1, <1>2, <2>1, <2>2 DEF Bound, Retain, TableTypeOK, CurrentId
  <2>3. CASE SlotOf(id) # s
    BY <1>2, <2>1, <2>3 DEF Bound, Retain, TableTypeOK
  <2> QED
    BY <2>2, <2>3
<1>5. BoundIds' = BoundIds \cup {CurrentId(s)}
    BY <1>2, <1>4 DEF BoundIds
<1>6. IssuedIds' = IssuedIds \cup {CurrentId(s)}
    BY <1>2, <1>4 DEF IssuedIds, Retain
<1> QED
    BY <1>2, <1>3, <1>5, <1>6

(* release unbinds exactly the named ids that are bound, and issues none. *)
LEMMA ReleaseUnbindsOnlyNamed ==
    ASSUME TableTypeOK, NEW ids, Release(ids)
    PROVE  /\ IssuedIds' = IssuedIds
           /\ BoundIds' = BoundIds \ ids
<1>1. ASSUME NEW id \in Ids
      PROVE  /\ Bound(id)' <=> (Bound(id) /\ id \notin ids)
             /\ (id \in IssuedIds)' <=> (id \in IssuedIds)
  <2> DEFINE s == SlotOf(id)
  <2>1. /\ s \in Slots
        /\ GenerationOf(id) \in Nat
        /\ IdOf(s, GenerationOf(id)) = id
    BY IdDecomposition, GenerationAssumption
  <2>2. generation[s] \in Nat /\ live[s] \in BOOLEAN
    BY <2>1, GenerationAssumption DEF TableTypeOK
  <2>3. CASE Freed(s, ids)
    <3>1. ~live'[s] /\ generation'[s] = generation[s] + 1
      BY <2>1, <2>3 DEF Release, GenerationAfter
    <3>2. live[s] /\ IdOf(s, generation[s]) \in ids
      BY <2>3 DEF Freed, CurrentId
    <3>3. ~Bound(id)' /\ (Bound(id) => id \in ids)
      BY <2>1, <3>1, <3>2 DEF Bound
    <3>4. (id \in IssuedIds)' <=> GenerationOf(id) < generation[s] + 1
      BY <3>1, <3>3 DEF IssuedIds
    <3>5. (id \in IssuedIds) <=> GenerationOf(id) =< generation[s]
      BY <2>1, <2>2, <3>2 DEF IssuedIds, Bound
    <3> QED
      BY <2>1, <2>2, <3>3, <3>4, <3>5
  <2>4. CASE ~Freed(s, ids)
    <3>1. live'[s] = live[s] /\ generation'[s] = generation[s]
      BY <2>1, <2>2, <2>4 DEF Release, GenerationAfter
    <3>2. Bound(id)' <=> Bound(id)
      BY <3>1 DEF Bound
    <3>3. Bound(id) => id \notin ids
      BY <2>1, <2>4 DEF Bound, Freed, CurrentId
    <3>4. (id \in IssuedIds)' <=> (id \in IssuedIds)
      BY <3>1, <3>2 DEF IssuedIds
    <3> QED
      BY <3>2, <3>3, <3>4
  <2> QED
    BY <2>3, <2>4
<1>2. BoundIds' = BoundIds \ ids
    BY <1>1 DEF BoundIds
<1>3. IssuedIds' = IssuedIds
    BY <1>1 DEF IssuedIds
<1> QED
    BY <1>2, <1>3
-----------------------------------------------------------------------------
(* The table's operations are steps of HandleSpace. *)
LEMMA TableInitMaps == TableInit => Space!Init
<1> SUFFICES ASSUME TableInit
             PROVE  IssuedIds = {} /\ BoundIds = {}
    BY DEF Space!Init
<1>1. ASSUME NEW id \in Ids
      PROVE  ~Bound(id) /\ ~(GenerationOf(id) < generation[SlotOf(id)])
    BY IdDecomposition, GenerationAssumption DEF TableInit, Bound
<1> QED
    BY <1>1 DEF IssuedIds, BoundIds

LEMMA RetainMaps ==
    ASSUME TableTypeOK, NEW s \in Slots, NEW v \in Values, Retain(s, v)
    PROVE  Space!Next
    BY RetainIssues DEF Space!Next, BoundIds, IssuedIds

LEMMA ReleaseMaps ==
    ASSUME TableTypeOK, NEW ids, Release(ids)
    PROVE  Space!Next
    BY ReleaseUnbindsOnlyNamed DEF Space!Next, BoundIds, IssuedIds

LEMMA ReplaceMaps ==
    ASSUME NEW id, NEW v, Replace(id, v)
    PROVE  UNCHANGED Space!vars
    BY DEF Replace, Space!vars, IssuedIds, BoundIds, Bound

LEMMA StutterMaps ==
    ASSUME UNCHANGED tableVars
    PROVE  UNCHANGED Space!vars
    BY DEF tableVars, Space!vars, IssuedIds, BoundIds, Bound

(* The table implements HandleSpace: an id, once dropped, is never bound   *)
(* again (retain, release and poll's replacement of a watch's value).      *)
THEOREM TableImplementsHandleSpace == TableSpec => ImplementsHandleSpace
<1>1. TableTypeOK /\ [TableNext]_tableVars => [Space!Next]_Space!vars
    BY RetainMaps, ReleaseMaps, ReplaceMaps, StutterMaps DEF TableNext
<1> QED
    BY <1>1, TableInitMaps, TableTypeCorrect, PTL
    DEF TableSpec, ImplementsHandleSpace, Space!Spec

(* Releasing stale ids frees no slot that has been given to another owner. *)
THEOREM StaleReleaseHarmless == TableSpec => StaleReleaseIsHarmless
<1>1. TableTypeOK => [\A ids \in SUBSET Ids : Release(ids) => BoundIds' = BoundIds \ ids]_tableVars
    BY ReleaseUnbindsOnlyNamed
<1> QED
    BY <1>1, TableTypeCorrect, PTL DEF StaleReleaseIsHarmless
-----------------------------------------------------------------------------

(* A poll in progress keeps a guest value, which PollOwn retains.          *)
Result == frame.op = "poll" => frame.result \in Values

TableInv == TableTypeOK /\ Result

(* What a step does to the table. *)
TableStep ==
    \/ \E s \in Slots, v \in Values : Retain(s, v)
    \/ \E ids : Release(ids)
    \/ \E id : \E v \in Values : Replace(id, v)
    \/ UNCHANGED tableVars

Cleared ==
    /\ ~open'
    /\ live' = [s \in Slots |-> FALSE]
    /\ UNCHANGED <<generation, value, cursor>>
-----------------------------------------------------------------------------
(* Retains take values the guest has: the operand of a dup is one.         *)
LEMMA BoundValue ==
    ASSUME TableTypeOK, NEW id, Bound(id)
    PROVE  value[SlotOf(id)] \in Values
    BY IdDecomposition DEF Bound, TableTypeOK

LEMMA TableSteps ==
    ASSUME TableInv, Next
    PROVE  TableStep \/ Cleared
<1>1. ASSUME NEW v \in Values, OwnResult(v)
      PROVE  TableStep
    BY <1>1 DEF OwnResult, RetainWith, TableStep
<1>2. ASSUME NEW id, Dup(id)
      PROVE  TableStep
  <2>1. value[SlotOf(id)] \in Values
    BY <1>2, BoundValue DEF Dup, TableInv
  <2> QED
    BY <1>2, <2>1, <1>1 DEF Dup
<1>3. ASSUME NEW id, ReleaseHandle(id)
      PROVE  TableStep
    BY <1>3 DEF ReleaseHandle, TableStep
<1>4. ASSUME NEW v \in Values, NEW eval, NEW want, Watch(v, eval, want)
      PROVE  TableStep
    BY <1>4 DEF Watch, RetainWith, TableStep
<1>5. ASSUME NEW w, PollFails(w)
      PROVE  TableStep
    BY <1>5 DEF PollFails, TableStep
<1>6. ASSUME NEW w, NEW v \in Values, PollCompletion(w, v)
      PROVE  TableStep
    BY <1>6 DEF PollCompletion, TableStep
<1>7. ASSUME NEW w, NEW v \in Values, PollFulfilled(w, v)
      PROVE  TableStep
    BY <1>7 DEF PollFulfilled, TableStep
<1>8. ASSUME PollOwn
      PROVE  TableStep
    BY <1>8 DEF PollOwn, RetainWith, TableStep, TableInv, Result
<1>9. ASSUME NEW c, CallCopied(c)
      PROVE  TableStep
    BY <1>9 DEF CallCopied, TableStep
<1>10. ASSUME NEW c, NEW argc, CallBegin(c, argc)
       PROVE  TableStep
    BY <1>10 DEF CallBegin, TableStep
<1>11. ASSUME NEW v \in Values, CallRetain(v)
       PROVE  TableStep
    BY <1>11 DEF CallRetain, RetainWith, TableStep
<1>12. ASSUME CallRollback
       PROVE  TableStep
    BY <1>12 DEF CallRollback, Clear, TableStep
<1>13. ASSUME Events
       PROVE  TableStep
    BY <1>13 DEF Events, TableStep
<1>14. ASSUME NEW k, Settle(k)
       PROVE  TableStep
    BY <1>14 DEF Settle, Clear, TableStep
<1>15. ASSUME Dispose
       PROVE  Cleared
    BY <1>15 DEF Dispose, Cleared
<1>16. ASSUME NEW id, ReleaseFails(id) \/ PollUnanswered(id)
       PROVE  TableStep
    BY <1>16 DEF ReleaseFails, PollUnanswered, TableStep
<1> QED
    BY <1>1, <1>2, <1>3, <1>4, <1>5, <1>6, <1>7, <1>8, <1>9, <1>10, <1>11,
       <1>12, <1>13, <1>14, <1>15, <1>16 DEF Next

(* The frame holds a value from the moment poll looks at a result on. *)
LEMMA ResultKept ==
    ASSUME TableInv, Next
    PROVE  Result'
<1>1. ASSUME NEW w, NEW v \in Values, PollFulfilled(w, v)
      PROVE  Result'
    BY <1>1 DEF PollFulfilled, Result, Idle
<1>2. CASE UNCHANGED frame
    BY <1>2 DEF TableInv, Result
<1>3. CASE frame' = Idle
    BY <1>3 DEF Result, Idle
<1>4. CASE frame'.op = "call"
    BY <1>4 DEF Result
<1>5. ASSUME NEW v, CallRetain(v)
      PROVE  frame' = Idle \/ frame'.op = "call"
    BY <1>5 DEF CallRetain
<1>6. ASSUME NEW v, OwnResult(v) \/ Dup(v) \/ ReleaseHandle(v) \/ PollFails(v) \/ CallCopied(v)
                    \/ Settle(v) \/ Events \/ Dispose
      PROVE  UNCHANGED frame
    BY <1>6 DEF OwnResult, Dup, ReleaseHandle, PollFails, CallCopied, Settle, Events, Dispose
<1>7. ASSUME NEW w, NEW v, PollCompletion(w, v)
      PROVE  UNCHANGED frame
    BY <1>7 DEF PollCompletion
<1>8. ASSUME NEW w, NEW eval, NEW want, Watch(w, eval, want)
      PROVE  UNCHANGED frame
    BY <1>8 DEF Watch
<1>9. ASSUME NEW c, NEW argc, CallBegin(c, argc)
      PROVE  frame'.op = "call"
    BY <1>9 DEF CallBegin
<1>10. ASSUME PollOwn \/ CallRollback
       PROVE  frame' = Idle
    BY <1>10 DEF PollOwn, CallRollback
<1>11. ASSUME NEW id, ReleaseFails(id) \/ PollUnanswered(id)
       PROVE  UNCHANGED frame
    BY <1>11 DEF ReleaseFails, PollUnanswered
<1> QED
    BY <1>1, <1>2, <1>3, <1>4, <1>5, <1>6, <1>7, <1>8, <1>9, <1>10, <1>11 DEF Next
-----------------------------------------------------------------------------
LEMMA TypesKept ==
    ASSUME TableInv, TableStep \/ Cleared
    PROVE  TableTypeOK'
<1>1. CASE Cleared
    BY <1>1 DEF Cleared, TableInv, TableTypeOK
<1>2. CASE UNCHANGED tableVars
    BY <1>2 DEF tableVars, TableInv, TableTypeOK
<1> QED
    BY <1>1, <1>2, RetainKeepsTypes, ReleaseKeepsTypes, ReplaceKeepsTypes DEF TableStep, TableInv

LEMMA Inductive == Spec => []TableInv
<1>1. Init => TableInv
    BY TableInitTypes DEF Init, TableInv, Result, Idle
<1>2. TableInv /\ [Next]_vars => TableInv'
  <2>1. ASSUME TableInv, Next PROVE TableInv'
    BY <2>1, TableSteps, TypesKept, ResultKept DEF TableInv
  <2>2. ASSUME TableInv, UNCHANGED vars PROVE TableInv'
    BY <2>2 DEF vars, tableVars, bridgeVars, TableInv, Result, TableTypeOK
  <2> QED
    BY <2>1, <2>2
<1> QED
    BY <1>1, <1>2, PTL DEF Spec

(* The bridge keeps its table within its types whatever order commands,    *)
(* polls, host calls and disposal come in (engine.c: retain, release).     *)
THEOREM BridgeTableTypes == Spec => []TableTypeOK
    BY Inductive, PTL DEF TableInv

(* No id names a value again once it has been let go, whichever of the     *)
(* bridge's operations released it (engine.c: command, host_call,          *)
(* callback_clear, jss_dispose).                                           *)
THEOREM BridgeKeepsHandleSpace == Spec => KeepsHandleSpace
<1>1. Init => Space!Init
    BY TableInitMaps DEF Init
<1>2. TableInv /\ [Next]_vars => [open' => [Space!Next]_(Space!vars)]_vars
  <2>1. ASSUME TableInv, Next, open'
        PROVE  [Space!Next]_(Space!vars)
    BY <2>1, TableSteps, RetainMaps, ReleaseMaps, ReplaceMaps, StutterMaps
    DEF TableStep, Cleared, TableInv
  <2> QED
    BY <2>1
<1> QED
    BY <1>1, <1>2, Inductive, PTL DEF Spec, KeepsHandleSpace

(* A stale release, by the host or by a settlement, frees no slot that has *)
(* been given to another owner.                                            *)
THEOREM BridgeReleasesAreHarmless == Spec => StaleReleaseIsHarmless
<1>1. TableTypeOK => [\A ids \in SUBSET Ids : Release(ids) => BoundIds' = BoundIds \ ids]_tableVars
    BY ReleaseUnbindsOnlyNamed
<1> QED
    BY <1>1, BridgeTableTypes, PTL DEF StaleReleaseIsHarmless
-----------------------------------------------------------------------------
(***************************************************************************)
(* Records of host calls: what an update of one field leaves alone.        *)
(***************************************************************************)
LEMMA NoCallbackTyped == NoCallback \in Callback
    BY CallbacksAssumption DEF NoCallback, Callback

LEMMA RecordBegun ==
    ASSUME NEW id \in 0 .. MaxCalls, NEW t,
           \/ t = [NoCallback EXCEPT !.live = TRUE, !.id = id]
           \/ t = [NoCallback EXCEPT !.live = TRUE, !.id = id, !.copyArgs = TRUE]
    PROVE  t \in Callback /\ t.live /\ t.id = id /\ ~t.sent /\ t.ids = <<>>
<1>1. NoCallback \in Callback /\ ~NoCallback.sent /\ NoCallback.ids = <<>>
    BY NoCallbackTyped DEF NoCallback
<1> QED
    BY <1>1 DEF Callback

LEMMA RangeOfAppend ==
    ASSUME NEW S, NEW seq \in Seq(S), NEW e \in S
    PROVE  Range(Append(seq, e)) = Range(seq) \cup {e}
<1> DEFINE longer == Append(seq, e)
<1>1. Len(seq) \in Nat /\ DOMAIN seq = 1 .. Len(seq)
    OBVIOUS
<1>2. /\ DOMAIN longer = 1 .. (Len(seq) + 1)
      /\ \A i \in 1 .. Len(seq) : longer[i] = seq[i]
      /\ longer[Len(seq) + 1] = e
    BY AppendProperties
<1> HIDE DEF longer
<1>3. ASSUME NEW x
      PROVE  x \in Range(longer) <=> x \in Range(seq) \/ x = e
    BY <1>1, <1>2 DEF Range
<1> QED
    BY <1>3 DEF longer

LEMMA RecordExtended ==
    ASSUME NEW r \in Callback, NEW id \in Ids, NEW t, t = [r EXCEPT !.ids = Append(@, id)]
    PROVE  /\ t \in Callback /\ t.live = r.live /\ t.id = r.id /\ t.sent = r.sent
           /\ Range(t.ids) = Range(r.ids) \cup {id}
<1> DEFINE longer == Append(r.ids, id)
<1>1. longer \in Seq(Ids) /\ Range(longer) = Range(r.ids) \cup {id}
    BY AppendProperties, RangeOfAppend DEF Callback
<1>2. t = [r EXCEPT !.ids = longer]
    OBVIOUS
<1> HIDE DEF longer
<1> QED
    BY <1>1, <1>2 DEF Callback

LEMMA RecordSent ==
    ASSUME NEW c \in CallbackSlots, callbacks[c] \in Callback
    PROVE  /\ Sent(c) \in Callback /\ Sent(c).live = callbacks[c].live
           /\ Sent(c).id = callbacks[c].id /\ Sent(c).sent
           /\ Sent(c).ids = callbacks[c].ids
    BY DEF Sent, Callback

(* A cleared record names no call and no handle. *)
LEMMA NoCallbackFields ==
    ~NoCallback.live /\ ~NoCallback.sent /\ NoCallback.ids = <<>> /\ NoCallback.id = 0
    BY DEF NoCallback

(* A live record has an id that was given out; the others are clear        *)
(* (callback_clear, host_call).                                            *)
Records ==
    \A c \in CallbackSlots :
       IF callbacks[c].live THEN callbacks[c].id \in 1 .. callbackNext
       ELSE callbacks[c] = NoCallback

(* What a retain gives out, with the flags still flags. *)
LEMMA RetainWithIssues ==
    ASSUME TypeOK, NEW s \in Slots, NEW v \in Values, NEW eval \in BOOLEAN, NEW copy \in BOOLEAN,
           RetainWith(s, v, eval, copy)
    PROVE  /\ CurrentId(s) \in Ids \ IssuedIds
           /\ IssuedIds' = IssuedIds \cup {CurrentId(s)}
           /\ BoundIds' = BoundIds \cup {CurrentId(s)}
           /\ evalCompletion' \in [Slots -> BOOLEAN]
           /\ copyResult' \in [Slots -> BOOLEAN]
<1>1. Retain(s, v)
    BY DEF RetainWith
<1>2. TableTypeOK
    BY DEF TypeOK
<1> QED
    BY <1>1, <1>2, RetainIssues DEF RetainWith, TypeOK

(* Types of the whole bridge. The ids handed to the driver are typed       *)
(* because a sent record is live.                                          *)
LEMMA WholeTypesKept ==
    ASSUME TableInv, TypeOK, Records, Next
    PROVE  TypeOK'
<1>0. TableTypeOK' /\ TableTypeOK
    BY TableSteps, TypesKept DEF TableInv
<1> USE <1>0
<1>1. ASSUME NEW v \in Values, OwnResult(v)
      PROVE  TypeOK'
    BY <1>1, RetainWithIssues DEF OwnResult, Own, Lose, TypeOK, callVars
<1>2. ASSUME NEW id, Dup(id)
      PROVE  TypeOK'
  <2>1. value[SlotOf(id)] \in Values
    BY <1>2, BoundValue DEF Dup, TableInv
  <2> QED
    BY <1>2, <2>1, <1>1 DEF Dup
<1>3. ASSUME NEW id, ReleaseHandle(id)
      PROVE  TypeOK'
    BY <1>3 DEF ReleaseHandle, TypeOK, callVars, flagVars
<1>4. ASSUME NEW v \in Values, NEW eval \in BOOLEAN, NEW want \in Wanted, Watch(v, eval, want)
      PROVE  TypeOK'
  <2>1. PICK s \in Slots :
           /\ RetainWith(s, v, eval, want = "copy")
           /\ \/ Observe(CurrentId(s), want) /\ UNCHANGED <<held, lost>>
              \/ Lose(CurrentId(s)) /\ UNCHANGED watches
    BY <1>4 DEF Watch
  <2>2. /\ CurrentId(s) \in Ids
        /\ evalCompletion' \in [Slots -> BOOLEAN]
        /\ copyResult' \in [Slots -> BOOLEAN]
    BY <2>1, RetainWithIssues
  <2>3. watches' \in [DOMAIN watches' -> Wanted] /\ DOMAIN watches' \subseteq Ids
    BY <2>1, <2>2 DEF TypeOK, Observe
  <2>4. held' \subseteq Ids /\ lost' \subseteq Ids
    BY <2>1, <2>2 DEF TypeOK, Lose
  <2> QED
    BY <1>4, <2>2, <2>3, <2>4 DEF Watch, TypeOK, callVars
<1>5. ASSUME NEW w, PollFails(w)
      PROVE  TypeOK'
    BY <1>5 DEF PollFails, TypeOK, callVars, flagVars, Without, Restrict
<1>6. ASSUME NEW w, NEW v \in Values, PollCompletion(w, v)
      PROVE  TypeOK'
    BY <1>6 DEF PollCompletion, TypeOK, callVars, hostVars
<1>7. ASSUME NEW w, NEW v \in Values, PollFulfilled(w, v)
      PROVE  TypeOK'
  <2>1. frame' \in Frame
    BY <1>7 DEF PollFulfilled, TypeOK, Frame
  <2>2. watches' \in [DOMAIN watches' -> Wanted] /\ DOMAIN watches' \subseteq Ids
    BY <1>7 DEF PollFulfilled, TypeOK, Without, Restrict
  <2> QED
    BY <1>7, <2>1, <2>2 DEF PollFulfilled, TypeOK, callVars, flagVars
<1>8. ASSUME PollOwn
      PROVE  TypeOK'
  <2>1. frame.result \in Values
    BY <1>8 DEF PollOwn, TableInv, Result
  <2>2. /\ evalCompletion' \in [Slots -> BOOLEAN]
        /\ copyResult' \in [Slots -> BOOLEAN]
        /\ held' \subseteq Ids
        /\ lost' \subseteq Ids
    BY <1>8, <2>1, RetainWithIssues DEF PollOwn, Own, Lose, TypeOK, flagVars
  <2>3. watches' \in [DOMAIN watches' -> Wanted] /\ DOMAIN watches' \subseteq Ids
    BY <1>8 DEF PollOwn, TypeOK, Without, Restrict
  <2> QED
    BY <1>8, <2>2, <2>3 DEF PollOwn, TypeOK, callVars, Frame
<1>9. ASSUME NEW c \in CallbackSlots, CallCopied(c)
      PROVE  TypeOK'
  <2>1. callbackNext + 1 \in 0 .. MaxCalls
    BY <1>9, CallbacksAssumption DEF CallCopied, TypeOK
  <2>2. callbacks' \in [CallbackSlots -> Callback]
    BY <1>9, <2>1, RecordBegun DEF CallCopied, TypeOK
  <2> QED
    BY <1>9, <2>1, <2>2 DEF CallCopied, TypeOK, flagVars, hostVars
<1>10. ASSUME NEW c \in CallbackSlots, NEW argc \in 0 .. MaxArgs, CallBegin(c, argc)
       PROVE  TypeOK'
  <2>1. callbackNext + 1 \in 0 .. MaxCalls
    BY <1>10, CallbacksAssumption DEF CallBegin, TypeOK
  <2>2. callbacks' \in [CallbackSlots -> Callback]
    BY <1>10, <2>1, RecordBegun DEF CallBegin, TypeOK
  <2>3. frame' \in Frame
    BY <1>10, CallbacksAssumption DEF CallBegin, Frame
  <2> QED
    BY <1>10, <2>1, <2>2, <2>3 DEF CallBegin, TypeOK, flagVars, hostVars
<1>11. ASSUME NEW v \in Values, CallRetain(v)
       PROVE  TypeOK'
  <2>1. frame.callback \in CallbackSlots /\ frame' \in Frame
    BY <1>11, CallbacksAssumption DEF CallRetain, TypeOK, Frame, Idle
  <2>2. PICK s \in Slots :
           /\ RetainWith(s, v, FALSE, FALSE)
           /\ callbacks' = [callbacks EXCEPT ![frame.callback].ids = Append(@, CurrentId(s))]
    BY <1>11 DEF CallRetain
  <2>3. /\ CurrentId(s) \in Ids
        /\ evalCompletion' \in [Slots -> BOOLEAN]
        /\ copyResult' \in [Slots -> BOOLEAN]
    BY <2>2, RetainWithIssues
  <2>4. callbacks[frame.callback] \in Callback
    BY <2>1 DEF TypeOK
  <2>5. [callbacks[frame.callback] EXCEPT !.ids = Append(@, CurrentId(s))] \in Callback
    BY <2>3, <2>4, RecordExtended
  <2>6. callbacks' \in [CallbackSlots -> Callback]
    BY <2>1, <2>2, <2>5 DEF TypeOK
  <2> QED
    BY <1>11, <2>1, <2>3, <2>6 DEF CallRetain, TypeOK, hostVars
<1>12. ASSUME CallRollback
       PROVE  TypeOK'
    BY <1>12, NoCallbackTyped DEF CallRollback, Clear, TypeOK, flagVars, hostVars, Frame
<1>13. ASSUME Events
       PROVE  TypeOK'
  <2>1. \A c \in CallbackSlots : Sent(c) \in Callback
    BY RecordSent DEF TypeOK
  <2>2. callbacks' \in [CallbackSlots -> Callback]
    BY <1>13, <2>1 DEF Events, TypeOK
  <2>3. \A c \in CallbackSlots : IdsOf(c) \subseteq Ids
    BY RangeOfSeq DEF IdsOf, TypeOK, Callback
  <2>4. outstanding' \subseteq 1 .. MaxCalls
    <3>1. \A c \in CallbackSlots : callbacks[c].live => callbacks[c].id \in 1 .. MaxCalls
      BY CallbacksAssumption DEF Records, TypeOK
    <3> QED
      BY <1>13, <3>1 DEF Events, TypeOK
  <2>5. held' \subseteq Ids
    BY <1>13, <2>3 DEF Events, TypeOK
  <2> QED
    BY <1>13, <2>2, <2>4, <2>5 DEF Events, TypeOK, flagVars
<1>14. ASSUME NEW k, Settle(k)
       PROVE  TypeOK'
  <2>1. callbacks' \in [CallbackSlots -> Callback]
    BY <1>14, NoCallbackTyped DEF Settle, Clear, TypeOK
  <2> QED
    BY <1>14, <2>1 DEF Settle, TypeOK, flagVars
<1>15. ASSUME Dispose
       PROVE  TypeOK'
  <2>1. callbacks' \in [CallbackSlots -> Callback]
    BY <1>15, NoCallbackTyped DEF Dispose
  <2>2. watches' \in [DOMAIN watches' -> Wanted] /\ DOMAIN watches' \subseteq Ids
    BY <1>15 DEF Dispose
  <2> QED
    BY <1>15, <2>1, <2>2 DEF Dispose, TypeOK, flagVars
<1>16. ASSUME NEW id, ReleaseFails(id)
       PROVE  TypeOK'
    BY <1>16 DEF ReleaseFails, TypeOK, callVars, flagVars
<1>17. ASSUME NEW w, PollUnanswered(w)
       PROVE  TypeOK'
    BY <1>17 DEF PollUnanswered, TypeOK, callVars, flagVars, Without, Restrict
<1> QED
    BY <1>1, <1>2, <1>3, <1>4, <1>5, <1>6, <1>7, <1>8, <1>9, <1>10, <1>11,
       <1>12, <1>13, <1>14, <1>15, <1>16, <1>17 DEF Next

-----------------------------------------------------------------------------
(* What each action does to the records of host calls. *)
Begins(c) ==
    /\ ~callbacks[c].live
    /\ callbackNext' = callbackNext + 1
    /\ \A d \in CallbackSlots \ {c} : callbacks'[d] = callbacks[d]
    /\ \/ callbacks'[c] = callbacks[c]
       \/ /\ callbacks'[c].live /\ ~callbacks'[c].sent
          /\ callbacks'[c].id = callbackNext + 1
          /\ callbacks'[c].ids = <<>>

Extends(c, id) ==
    /\ callbackNext' = callbackNext
    /\ \A d \in CallbackSlots \ {c} : callbacks'[d] = callbacks[d]
    /\ callbacks'[c].live = callbacks[c].live
    /\ callbacks'[c].id = callbacks[c].id
    /\ callbacks'[c].sent = callbacks[c].sent
    /\ Range(callbacks'[c].ids) = Range(callbacks[c].ids) \cup {id}

Clears(c) ==
    /\ callbackNext' = callbackNext
    /\ \A d \in CallbackSlots \ {c} : callbacks'[d] = callbacks[d]
    /\ callbacks'[c] = NoCallback

Sends ==
    /\ callbackNext' = callbackNext
    /\ \A c \in CallbackSlots :
          /\ callbacks'[c].live = callbacks[c].live
          /\ callbacks'[c].id = callbacks[c].id
          /\ callbacks'[c].ids = callbacks[c].ids
          /\ callbacks'[c].sent <=> callbacks[c].live \/ callbacks[c].sent
          /\ ~callbacks[c].live => callbacks'[c] = callbacks[c]

(* host_call takes a free record, or fails and leaves it clear. *)
LEMMA CallBegins ==
    ASSUME TypeOK, NEW c \in CallbackSlots, NEW argc, CallCopied(c) \/ CallBegin(c, argc)
    PROVE  Begins(c)
<1>1. callbackNext + 1 \in 0 .. MaxCalls
    BY CallbacksAssumption DEF CallCopied, CallBegin, TypeOK
<1>2. ASSUME NEW t, callbacks' = [callbacks EXCEPT ![c] = t]
      PROVE  callbacks'[c] = t /\ \A d \in CallbackSlots \ {c} : callbacks'[d] = callbacks[d]
    BY <1>2 DEF TypeOK
<1>3. ~callbacks[c].live
    BY DEF CallCopied, CallBegin, FreeCallback
<1>4. ASSUME NEW t,
             \/ t = [NoCallback EXCEPT !.live = TRUE, !.id = callbackNext + 1]
             \/ t = [NoCallback EXCEPT !.live = TRUE, !.id = callbackNext + 1, !.copyArgs = TRUE],
             callbacks' = [callbacks EXCEPT ![c] = t],
             callbackNext' = callbackNext + 1
      PROVE  Begins(c)
  <2>1. t.live /\ t.id = callbackNext + 1 /\ ~t.sent /\ t.ids = <<>>
    BY <1>1, <1>4, RecordBegun
  <2>2. callbacks'[c] = t /\ \A d \in CallbackSlots \ {c} : callbacks'[d] = callbacks[d]
    BY <1>2, <1>4
  <2> QED
    BY <1>3, <1>4, <2>1, <2>2 DEF Begins
<1>5. CASE callbacks' = callbacks
    BY <1>3, <1>5 DEF Begins, CallCopied, CallBegin
<1> QED
    BY <1>4, <1>5 DEF CallCopied, CallBegin

(* One retain of host_call adds one id to the record being built. *)
LEMMA CallExtends ==
    ASSUME TypeOK, NEW v \in Values, CallRetain(v)
    PROVE  /\ frame.callback \in CallbackSlots
           /\ \E s \in Slots : /\ RetainWith(s, v, FALSE, FALSE)
                             /\ Extends(frame.callback, CurrentId(s))
<1> DEFINE c == frame.callback
<1>1. c \in CallbackSlots
    BY DEF CallRetain, TypeOK, Frame, Idle
<1>2. PICK s \in Slots :
         /\ RetainWith(s, v, FALSE, FALSE)
         /\ callbacks' = [callbacks EXCEPT ![c].ids = Append(@, CurrentId(s))]
    BY DEF CallRetain
<1>3. CurrentId(s) \in Ids
    BY <1>2, RetainWithIssues
<1>4. callbacks[c] \in Callback
    BY <1>1 DEF TypeOK
<1>5. /\ callbacks'[c] = [callbacks[c] EXCEPT !.ids = Append(@, CurrentId(s))]
      /\ \A d \in CallbackSlots \ {c} : callbacks'[d] = callbacks[d]
    BY <1>1, <1>2 DEF TypeOK
<1>6. /\ callbacks'[c].live = callbacks[c].live
      /\ callbacks'[c].id = callbacks[c].id
      /\ callbacks'[c].sent = callbacks[c].sent
      /\ Range(callbacks'[c].ids) = Range(callbacks[c].ids) \cup {CurrentId(s)}
  <2> DEFINE r == callbacks[c]
             t == [r EXCEPT !.ids = Append(@, CurrentId(s))]
  <2>1. r \in Callback
    BY <1>4
  <2>2. t = [r EXCEPT !.ids = Append(@, CurrentId(s))]
    OBVIOUS
  <2>3. callbacks'[c] = t /\ callbacks[c] = r
    BY <1>5
  <2> HIDE DEF r, t
  <2>4. /\ t.live = r.live /\ t.id = r.id /\ t.sent = r.sent
        /\ Range(t.ids) = Range(r.ids) \cup {CurrentId(s)}
    BY <1>3, <2>1, <2>2, RecordExtended
  <2> QED
    BY <2>3, <2>4
<1>7. Extends(c, CurrentId(s))
    BY <1>5, <1>6 DEF Extends, CallRetain
<1> QED
    BY <1>1, <1>2, <1>7

(* callback_clear empties one record and leaves the others alone. *)
LEMMA CallClears ==
    ASSUME TypeOK, NEW c \in CallbackSlots, Clear(c), callbackNext' = callbackNext
    PROVE  Clears(c)
    BY DEF Clear, Clears, TypeOK

(* jss_events sends exactly the live calls not yet sent. *)
LEMMA CallSends ==
    ASSUME TypeOK, Records, Events
    PROVE  Sends
<1> SUFFICES ASSUME NEW c \in CallbackSlots
             PROVE  /\ callbacks'[c].live = callbacks[c].live
                    /\ callbacks'[c].id = callbacks[c].id
                    /\ callbacks'[c].ids = callbacks[c].ids
                    /\ callbacks'[c].sent <=> callbacks[c].live \/ callbacks[c].sent
                    /\ ~callbacks[c].live => callbacks'[c] = callbacks[c]
    BY DEF Sends, Events
<1>1. callbacks'[c] = IF callbacks[c].live /\ ~callbacks[c].sent THEN Sent(c) ELSE callbacks[c]
    BY DEF Events
<1>2. callbacks[c] \in Callback
    BY DEF TypeOK
<1>3. callbacks[c].live \/ ~callbacks[c].sent
    BY NoCallbackFields DEF Records
<1>4. callbacks[c].live \in BOOLEAN /\ callbacks[c].sent \in BOOLEAN
    BY <1>2 DEF Callback
<1>5. CASE callbacks[c].live /\ ~callbacks[c].sent
    BY <1>1, <1>2, <1>5, RecordSent
<1>6. CASE ~(callbacks[c].live /\ ~callbacks[c].sent)
    BY <1>1, <1>3, <1>4, <1>6
<1> QED
    BY <1>5, <1>6

-----------------------------------------------------------------------------
(* The record a host call is still filling is live and unsent. *)
Collecting == frame.op = "call" => /\ callbacks[frame.callback].live
                                   /\ ~callbacks[frame.callback].sent

(* After jss_dispose nothing is owned and no call is in progress. *)
Disposed == ~open => /\ frame = Idle
                     /\ watches = <<>>
                     /\ outstanding = {}
                     /\ \A c \in CallbackSlots : callbacks[c] = NoCallback

(* What is true of the records of host calls. *)
Calls == TypeOK /\ Records /\ Collecting /\ OutstandingIsSent

(* Steps that touch no record of a call. *)
CallsAlone == /\ UNCHANGED <<callVars, outstanding>>
              /\ frame'.op = "call" => frame' = frame

LEMMA AloneKeepsCalls ==
    ASSUME Calls, CallsAlone
    PROVE  Records' /\ Collecting' /\ OutstandingIsSent'
<1>1. Records'
    BY DEF CallsAlone, Calls, callVars, Records
<1>2. Collecting'
    BY DEF CallsAlone, Calls, callVars, Collecting
<1>3. OutstandingIsSent'
    BY DEF CallsAlone, Calls, callVars, OutstandingIsSent
<1> QED
    BY <1>1, <1>2, <1>3

(* Every command that is not of a host call leaves the records alone.       *)
LEMMA OthersAreAlone ==
    ASSUME NEW x, NEW y, NEW z,
           \/ OwnResult(x) \/ Dup(x) \/ ReleaseHandle(x) \/ PollFails(x) \/ PollOwn
           \/ Watch(x, y, z) \/ PollCompletion(x, y) \/ PollFulfilled(x, y)
           \/ ReleaseFails(x) \/ PollUnanswered(x)
    PROVE  CallsAlone
<1>1. CASE OwnResult(x) \/ Dup(x)
    BY <1>1 DEF OwnResult, Dup, CallsAlone
<1>2. CASE ReleaseHandle(x) \/ PollFails(x)
    BY <1>2 DEF ReleaseHandle, PollFails, CallsAlone
<1>3. CASE PollOwn
    BY <1>3 DEF PollOwn, CallsAlone, Idle
<1>4. CASE Watch(x, y, z)
    BY <1>4 DEF Watch, CallsAlone
<1>5. CASE PollCompletion(x, y) \/ PollFulfilled(x, y)
    BY <1>5 DEF PollCompletion, PollFulfilled, CallsAlone, Idle, hostVars
<1>6. CASE ReleaseFails(x) \/ PollUnanswered(x)
    BY <1>6 DEF ReleaseFails, PollUnanswered, CallsAlone
<1> QED
    BY <1>1, <1>2, <1>3, <1>4, <1>5, <1>6

(* A cleared record was not sent.                                           *)
LEMMA SentIsLive ==
    ASSUME Records, NEW c \in CallbackSlots, callbacks[c].sent
    PROVE  callbacks[c].live
    BY NoCallbackFields DEF Records

(* A call that begins has a new id.                                         *)
LEMMA BeginKeepsCalls ==
    ASSUME Calls, NEW c \in CallbackSlots, Begins(c), outstanding' = outstanding,
           \/ frame' = Idle
           \/ frame'.op = "call" /\ frame'.callback = c /\ callbacks'[c].live /\ ~callbacks'[c].sent
    PROVE  Records' /\ Collecting' /\ OutstandingIsSent'
<1>1. callbackNext \in Nat
    BY DEF Calls, TypeOK
<1>2. Records'
    BY <1>1 DEF Calls, Begins, Records
<1>3. Collecting'
    BY DEF Collecting, Idle
<1>4. ~callbacks[c].sent /\ ~callbacks'[c].sent
    BY SentIsLive DEF Begins, Calls
<1>5. outstanding' = {callbacks'[e].id : e \in {d \in CallbackSlots : callbacks'[d].sent}}
    BY <1>4 DEF Calls, OutstandingIsSent, Begins
<1>6. ASSUME NEW d \in CallbackSlots, NEW e \in CallbackSlots, d # e,
             callbacks'[d].live, callbacks'[e].live
      PROVE  callbacks'[d].id # callbacks'[e].id
    BY <1>1, <1>6 DEF Calls, OutstandingIsSent, Begins, Records
<1> QED
    BY <1>2, <1>3, <1>5, <1>6 DEF OutstandingIsSent

(* An argument that is retained joins the record being built.               *)
LEMMA ExtendKeepsCalls ==
    ASSUME Calls, NEW c \in CallbackSlots, NEW id, Extends(c, id), outstanding' = outstanding,
           frame.op = "call", frame.callback = c,
           frame' = Idle \/ (frame'.op = "call" /\ frame'.callback = c)
    PROVE  Records' /\ Collecting' /\ OutstandingIsSent'
<1>1. callbacks[c].live /\ ~callbacks[c].sent
    BY DEF Calls, Collecting
<1>2. Records'
    BY <1>1 DEF Calls, Extends, Records
<1>3. Collecting'
  <2>1. callbacks'[c].live /\ ~callbacks'[c].sent
    BY <1>1 DEF Extends
  <2> QED
    BY <2>1 DEF Collecting, Idle
<1>4. OutstandingIsSent'
    BY <1>1 DEF Calls, OutstandingIsSent, Extends
<1> QED
    BY <1>2, <1>3, <1>4

(* A record that is cleared takes its id out of the outstanding ones.       *)
LEMMA ClearKeepsCalls ==
    ASSUME Calls, NEW c \in CallbackSlots, Clears(c), callbacks[c].live,
           outstanding' = outstanding \ {callbacks[c].id},
           frame' = Idle
    PROVE  Records' /\ Collecting' /\ OutstandingIsSent'
<1>1. ~callbacks'[c].sent /\ ~callbacks'[c].live
    BY NoCallbackFields DEF Clears
<1>2. Records'
    BY <1>1 DEF Calls, Clears, Records
<1>3. Collecting'
    BY DEF Collecting, Idle
<1>4. ASSUME NEW k
      PROVE  k \in outstanding' <=> \E d \in CallbackSlots : callbacks'[d].sent /\ callbacks'[d].id = k
    BY <1>1, SentIsLive DEF Calls, OutstandingIsSent, Clears
<1>5. outstanding' = {callbacks'[e].id : e \in {d \in CallbackSlots : callbacks'[d].sent}}
    BY <1>4
<1>6. ASSUME NEW d \in CallbackSlots, NEW e \in CallbackSlots, d # e,
             callbacks'[d].live, callbacks'[e].live
      PROVE  callbacks'[d].id # callbacks'[e].id
    BY <1>1, <1>6 DEF Calls, OutstandingIsSent, Clears
<1> QED
    BY <1>2, <1>3, <1>5, <1>6 DEF OutstandingIsSent

(* What is sent becomes outstanding.                                        *)
LEMMA SendKeepsCalls ==
    ASSUME Calls, Events
    PROVE  Records' /\ Collecting' /\ OutstandingIsSent'
<1>1. Sends /\ frame = Idle /\ frame' = Idle
    BY CallSends DEF Calls, Events, Ready
<1>2. Records'
    BY <1>1 DEF Calls, Sends, Records
<1>3. Collecting'
    BY <1>1 DEF Collecting, Idle
<1>4. ASSUME NEW k
      PROVE  k \in outstanding' <=> \E d \in CallbackSlots : callbacks'[d].sent /\ callbacks'[d].id = k
  <2>1. k \in outstanding' <=> \/ k \in outstanding
                               \/ \E d \in CallbackSlots : /\ callbacks[d].live /\ ~callbacks[d].sent
                                                           /\ callbacks[d].id = k
    BY DEF Events
  <2>2. k \in outstanding <=> \E d \in CallbackSlots : callbacks[d].sent /\ callbacks[d].id = k
    BY DEF Calls, OutstandingIsSent
  <2> QED
    BY <1>1, <2>1, <2>2, SentIsLive DEF Sends, Calls
<1>5. outstanding' = {callbacks'[e].id : e \in {d \in CallbackSlots : callbacks'[d].sent}}
    BY <1>4
<1>6. ASSUME NEW d \in CallbackSlots, NEW e \in CallbackSlots, d # e,
             callbacks'[d].live, callbacks'[e].live
      PROVE  callbacks'[d].id # callbacks'[e].id
    BY <1>1, <1>6 DEF Calls, OutstandingIsSent, Sends
<1> QED
    BY <1>2, <1>3, <1>5, <1>6 DEF OutstandingIsSent

(* Records, the call being built and the driver's view of them survive     *)
(* every step.                                                             *)
LEMMA CallsKept ==
    ASSUME Calls, Next
    PROVE  Records' /\ Collecting' /\ OutstandingIsSent'
<1> DEFINE Goal == Records' /\ Collecting' /\ OutstandingIsSent'
<1>1. ASSUME CallsAlone PROVE Goal
    BY <1>1, AloneKeepsCalls
<1>2. ASSUME NEW c \in CallbackSlots, CallCopied(c) PROVE Goal
  <2>1. Begins(c)
    BY <1>2, CallBegins DEF Calls
  <2> QED
    BY <1>2, <2>1, BeginKeepsCalls DEF CallCopied, Ready, hostVars
<1>3. ASSUME NEW c \in CallbackSlots, NEW argc, CallBegin(c, argc) PROVE Goal
  <2>1. Begins(c)
    BY <1>3, CallBegins DEF Calls
  <2>2. callbacks'[c].live /\ ~callbacks'[c].sent
    <3>1. callbackNext + 1 \in 0 .. MaxCalls
      BY <1>3, CallbacksAssumption DEF CallBegin, Calls, TypeOK
    <3> QED
      BY <1>3, <3>1, RecordBegun DEF CallBegin, Calls, TypeOK
  <2> QED
    BY <1>3, <2>1, <2>2, BeginKeepsCalls DEF CallBegin, hostVars
<1>4. ASSUME NEW v \in Values, CallRetain(v) PROVE Goal
  <2>1. PICK s \in Slots : frame.callback \in CallbackSlots /\ Extends(frame.callback, CurrentId(s))
    BY <1>4, CallExtends DEF Calls
  <2>2. frame' = Idle \/ (frame'.op = "call" /\ frame'.callback = frame.callback)
    BY <1>4, <2>1 DEF CallRetain, Calls, TypeOK, Frame
  <2> QED
    BY <1>4, <2>1, <2>2, ExtendKeepsCalls DEF CallRetain, hostVars
<1>5. ASSUME CallRollback PROVE Goal
  <2>1. frame.callback \in CallbackSlots
    BY <1>5 DEF CallRollback, Calls, TypeOK, Frame, Idle
  <2>2. callbacks[frame.callback].live /\ ~callbacks[frame.callback].sent
    BY <1>5 DEF CallRollback, Calls, Collecting
  <2>3. Clears(frame.callback)
    BY <1>5, <2>1, CallClears DEF CallRollback, Calls
  <2>4. callbacks[frame.callback].id \notin outstanding
    BY <2>1, <2>2, SentIsLive DEF Calls, OutstandingIsSent
  <2> QED
    BY <1>5, <2>1, <2>2, <2>3, <2>4, ClearKeepsCalls DEF CallRollback, hostVars
<1>6. ASSUME Events PROVE Goal
    BY <1>6, SendKeepsCalls
<1>7. ASSUME NEW k, Settle(k) PROVE Goal
  <2>1. PICK d \in CallbackSlots : callbacks[d].sent /\ callbacks[d].id = k
    BY <1>7 DEF Settle, Calls, OutstandingIsSent
  <2>2. callbacks[d].live
    BY <2>1, SentIsLive DEF Calls
  <2>3. PICK c \in CallbackSlots : callbacks[c].live /\ callbacks[c].id = k /\ Clear(c)
    BY <1>7, <2>1, <2>2 DEF Settle
  <2>4. Clears(c)
    BY <1>7, <2>3, CallClears DEF Settle, Calls
  <2> QED
    BY <1>7, <2>3, <2>4, ClearKeepsCalls DEF Settle, Ready
<1>8. ASSUME Dispose PROVE Goal
  <2>1. frame' = Idle /\ outstanding' = {} /\ \A c \in CallbackSlots : callbacks'[c] = NoCallback
    BY <1>8 DEF Dispose, Ready
  <2> QED
    BY <2>1, NoCallbackFields DEF Records, Collecting, OutstandingIsSent, Idle
<1> QED
    BY <1>1, <1>2, <1>3, <1>4, <1>5, <1>6, <1>7, <1>8, OthersAreAlone DEF Next

-----------------------------------------------------------------------------
(* The watch a poll is answering is released before its result is          *)
(* retained.                                                               *)
Wanting == frame.op = "poll" => frame.watch \in DOMAIN watches \ BoundIds

(* Whoever owns an id was given it, and whoever lost one: a fresh id is   *)
(* nobody's yet.                                                           *)
Issued == open => held \cup DOMAIN watches \cup Borrowed \cup lost \subseteq IssuedIds

(* Every other watch is bound and its slot says what was asked for. *)
Polled ==
    open => \A w \in DOMAIN watches :
              ~(frame.op = "poll" /\ frame.watch = w)
                 => w \in BoundIds /\ (copyResult[SlotOf(w)] <=> watches[w] = "copy")

(* What is true of the owners of ids. *)
Owned == Disposed /\ Wanting /\ Issued /\ Polled /\ OneOwner

(* Nothing runs on a disposed bridge, and only disposal closes it. *)
LEMMA OnlyOpen ==
    ASSUME TypeOK, Disposed, Next
    PROVE  open /\ (open' \/ Dispose)
<1>1. ASSUME NEW x, \/ OwnResult(x) \/ Dup(x) \/ ReleaseHandle(x) \/ PollFails(x)
                    \/ ReleaseFails(x) \/ PollUnanswered(x)
      PROVE  open /\ open'
  <2>1. ASSUME NEW v, OwnResult(v)
        PROVE  open /\ open'
    BY <2>1 DEF OwnResult, Ready
  <2> QED
    BY <1>1, <2>1 DEF Dup, ReleaseHandle, PollFails, ReleaseFails, PollUnanswered, Ready
<1>7. ASSUME NEW x, CallCopied(x) \/ Settle(x)
      PROVE  open /\ open'
    BY <1>7 DEF CallCopied, Settle, Ready
<1>2. ASSUME NEW x, NEW y, CallBegin(x, y) \/ PollCompletion(x, y) \/ PollFulfilled(x, y)
      PROVE  open /\ open'
    BY <1>2 DEF CallBegin, PollCompletion, PollFulfilled, Ready
<1>3. ASSUME NEW x, NEW y, NEW z, Watch(x, y, z)
      PROVE  open /\ open'
    BY <1>3 DEF Watch, Ready
<1>4. ASSUME NEW x, CallRetain(x) \/ CallRollback \/ PollOwn
      PROVE  open /\ open'
  <2>1. frame.op = "call" \/ frame.op = "poll"
    BY <1>4 DEF CallRetain, CallRollback, PollOwn
  <2>2. open
    BY <2>1 DEF Disposed, Idle
  <2> QED
    BY <1>4, <2>2 DEF CallRetain, CallRollback, PollOwn
<1>5. ASSUME Events
      PROVE  open /\ open'
    BY <1>5 DEF Events, Ready
<1>6. ASSUME Dispose
      PROVE  open
    BY <1>6 DEF Dispose, Ready
<1> QED
    BY <1>1, <1>2, <1>3, <1>4, <1>5, <1>6, <1>7 DEF Next

(* Disposal leaves nothing, and nothing follows it.                         *)
LEMMA DisposedKept ==
    ASSUME TypeOK, Disposed, Next
    PROVE  Disposed'
<1>1. CASE open'
    BY <1>1 DEF Disposed
<1>2. CASE Dispose
    BY <1>2 DEF Dispose, Disposed, Ready
<1> QED
    BY <1>1, <1>2, OnlyOpen

(* retain takes a slot no bound id names, so it alters no watch's flags. *)
LEMMA RetainFlags ==
    ASSUME TypeOK, NEW s \in Slots, NEW v \in Values, NEW eval \in BOOLEAN, NEW copy \in BOOLEAN,
           RetainWith(s, v, eval, copy)
    PROVE  /\ \A w \in BoundIds : copyResult'[SlotOf(w)] = copyResult[SlotOf(w)]
           /\ copyResult'[SlotOf(CurrentId(s))] = copy
<1>1. ~live[s] /\ generation[s] \in Nat
    BY GenerationAssumption DEF RetainWith, Retain, NextSlot, Usable, TypeOK, TableTypeOK
<1>2. ASSUME NEW w \in BoundIds
      PROVE  SlotOf(w) \in Slots \ {s}
    BY <1>1, IdDecomposition DEF BoundIds, Bound
<1>3. SlotOf(CurrentId(s)) = s
    BY <1>1, IdRoundTrip DEF CurrentId
<1> QED
    BY <1>2, <1>3 DEF RetainWith, TypeOK

(* The effect of the table's operations on ids. *)
LEMMA ReleaseIds ==
    ASSUME TypeOK, NEW ids, Release(ids)
    PROVE  IssuedIds' = IssuedIds /\ BoundIds' = BoundIds \ ids
    BY ReleaseUnbindsOnlyNamed DEF TypeOK

LEMMA SameTableIds ==
    ASSUME UNCHANGED <<live, generation>>
    PROVE  IssuedIds' = IssuedIds /\ BoundIds' = BoundIds
    BY DEF IssuedIds, BoundIds, Bound

LEMMA SameCalls ==
    ASSUME UNCHANGED callbacks
    PROVE  Borrowed' = Borrowed /\ \A c \in CallbackSlots : IdsOf(c)' = IdsOf(c)
    BY DEF Borrowed, IdsOf
-----------------------------------------------------------------------------
(* A fresh id is the host's alone, or lost with the answer that names it.  *)
LEMMA HostGains ==
    ASSUME Calls, Owned, NEW s \in Slots, NEW v \in Values,
           NEW eval \in BOOLEAN, NEW copy \in BOOLEAN, RetainWith(s, v, eval, copy),
           UNCHANGED <<callVars, open, watches>>, open,
           Own(CurrentId(s)) \/ Lose(CurrentId(s)), frame.op # "poll", frame'.op # "poll"
    PROVE  Wanting' /\ Issued' /\ Polled' /\ OneOwner'
<1> DEFINE id == CurrentId(s)
<1>1. /\ id \in Ids \ IssuedIds
      /\ IssuedIds' = IssuedIds \cup {id}
      /\ BoundIds' = BoundIds \cup {id}
    BY RetainWithIssues DEF Calls
<1>2. Borrowed' = Borrowed /\ \A c \in CallbackSlots : IdsOf(c)' = IdsOf(c)
    BY SameCalls DEF callVars
<1>3. \A w \in BoundIds : copyResult'[SlotOf(w)] = copyResult[SlotOf(w)]
    BY RetainFlags DEF Calls
<1>4. \/ held' = held \cup {id} /\ lost' = lost
      \/ lost' = lost \cup {id} /\ held' = held
    BY DEF Own, Lose
<1> HIDE DEF id
<1>5. id \notin held \cup DOMAIN watches \cup Borrowed \cup lost
    BY <1>1 DEF Owned, Issued
<1>6. \A c \in CallbackSlots : id \notin IdsOf(c)
    BY <1>5 DEF Borrowed
<1>7. Issued'
    BY <1>1, <1>2, <1>4 DEF Owned, Issued
<1>8. Polled'
    BY <1>1, <1>3 DEF Owned, Polled
<1>9. OneOwner'
  <2>1. callbacks' = callbacks /\ watches' = watches /\ open'
    BY DEF callVars
  <2>2. BoundIds' \subseteq held' \cup DOMAIN watches' \cup Borrowed' \cup lost'
    BY <1>1, <1>2, <1>4, <2>1 DEF Owned, OneOwner
  <2>3. /\ DOMAIN watches' \cap (held' \cup Borrowed') = {}
        /\ lost' \cap (held' \cup DOMAIN watches') = {}
    BY <1>2, <1>4, <1>5, <2>1 DEF Owned, OneOwner
  <2>4. \A c \in CallbackSlots : ~callbacks'[c].sent => IdsOf(c)' \cap (held' \cup lost') = {}
    BY <1>2, <1>4, <1>6, <2>1 DEF Owned, OneOwner
  <2> QED
    BY <1>2, <2>2, <2>3, <2>4 DEF Owned, OneOwner
<1> QED
    BY <1>7, <1>8, <1>9 DEF Wanting

(* A new watch is a fresh id for the driver alone, or lost. *)
LEMMA DriverWatches ==
    ASSUME Calls, Owned, NEW v \in Values, NEW eval \in BOOLEAN, NEW want \in Wanted,
           Watch(v, eval, want)
    PROVE  Wanting' /\ Issued' /\ Polled' /\ OneOwner'
<1>1. PICK s \in Slots :
         /\ RetainWith(s, v, eval, want = "copy")
         /\ \/ Observe(CurrentId(s), want) /\ UNCHANGED <<held, lost>>
            \/ Lose(CurrentId(s)) /\ UNCHANGED watches
    BY DEF Watch
<1>0. /\ open /\ frame = Idle /\ frame' = Idle /\ callbacks' = callbacks /\ open'
      /\ UNCHANGED callVars
    BY DEF Watch, Ready, callVars
<1>a. CASE Lose(CurrentId(s)) /\ UNCHANGED watches
  <2>1. (want = "copy") \in BOOLEAN
    OBVIOUS
  <2> QED
    BY <1>0, <1>1, <1>a, <2>1, HostGains DEF Idle
<1>b. CASE Observe(CurrentId(s), want) /\ UNCHANGED <<held, lost>>
  <2> DEFINE id == CurrentId(s)
  <2>2. /\ id \in Ids \ IssuedIds
        /\ IssuedIds' = IssuedIds \cup {id}
        /\ BoundIds' = BoundIds \cup {id}
    <3>1. Retain(s, v) /\ TableTypeOK
      BY <1>1 DEF RetainWith, Calls, TypeOK
    <3> QED
      BY <3>1, RetainIssues
  <2>3. Borrowed' = Borrowed /\ \A c \in CallbackSlots : IdsOf(c)' = IdsOf(c)
    BY <1>0, SameCalls
  <2>4. /\ \A w \in BoundIds : copyResult'[SlotOf(w)] = copyResult[SlotOf(w)]
        /\ copyResult'[SlotOf(id)] = (want = "copy")
    BY <1>1, RetainFlags DEF Calls
  <2>5. /\ DOMAIN watches' = DOMAIN watches \cup {id}
        /\ \A w \in DOMAIN watches : w # id => watches'[w] = watches[w]
        /\ watches'[id] = want
    BY <1>b DEF Observe
  <2>6. held' = held /\ lost' = lost
    BY <1>b
  <2> HIDE DEF id
  <2>7. id \notin held \cup DOMAIN watches \cup Borrowed \cup lost
    BY <1>0, <2>2 DEF Owned, Issued
  <2>8. Issued'
    BY <1>0, <2>2, <2>3, <2>5, <2>6 DEF Owned, Issued
  <2>9. Polled'
    BY <1>0, <2>2, <2>4, <2>5, <2>7 DEF Owned, Polled, Idle
  <2>10. OneOwner'
    BY <1>0, <2>2, <2>3, <2>5, <2>6, <2>7 DEF Owned, OneOwner
  <2> QED
    BY <1>0, <2>8, <2>9, <2>10 DEF Wanting, Idle
<1> QED
    BY <1>1, <1>a, <1>b

(* A release by the host takes back only an id it held. *)
LEMMA HostReleases ==
    ASSUME Calls, Owned, NEW id, ReleaseHandle(id)
    PROVE  Wanting' /\ Issued' /\ Polled' /\ OneOwner'
<1>1. IssuedIds' = IssuedIds /\ BoundIds' = BoundIds \ {id}
    BY ReleaseIds DEF ReleaseHandle, Calls
<1>2. Borrowed' = Borrowed /\ \A c \in CallbackSlots : IdsOf(c)' = IdsOf(c)
    BY SameCalls DEF ReleaseHandle, callVars
<1>3. /\ open /\ frame = Idle /\ frame' = Idle /\ callbacks' = callbacks /\ open'
      /\ id \in held /\ held' = held \ {id} /\ watches' = watches /\ copyResult' = copyResult
      /\ lost' = lost
    BY DEF ReleaseHandle, Ready, callVars, flagVars
<1>4. Polled'
    BY <1>1, <1>3 DEF Owned, Polled, OneOwner
<1>5. OneOwner' /\ Issued'
    BY <1>1, <1>2, <1>3 DEF Owned, OneOwner, Issued
<1> QED
    BY <1>3, <1>4, <1>5 DEF Wanting, Idle

LEMMA WatchWithout ==
    ASSUME NEW w
    PROVE  /\ DOMAIN Without(watches, w) = DOMAIN watches \ {w}
           /\ \A x \in DOMAIN watches \ {w} : Without(watches, w)[x] = watches[x]
    BY DEF Without, Restrict

(* A command that fails takes an id from the host, or a watch from the     *)
(* driver, and leaves it bound.                                            *)
LEMMA ReleaseForgotten ==
    ASSUME Calls, Owned, NEW id, ReleaseFails(id)
    PROVE  Wanting' /\ Issued' /\ Polled' /\ OneOwner'
<1>1. IssuedIds' = IssuedIds /\ BoundIds' = BoundIds
    BY SameTableIds DEF ReleaseFails, tableVars
<1>2. Borrowed' = Borrowed /\ \A c \in CallbackSlots : IdsOf(c)' = IdsOf(c)
    BY SameCalls DEF ReleaseFails, callVars
<1>3. /\ open /\ frame = Idle /\ frame' = Idle /\ callbacks' = callbacks /\ open'
      /\ id \in held /\ held' = held \ {id} /\ lost' = lost \cup {id}
      /\ watches' = watches /\ copyResult' = copyResult
    BY DEF ReleaseFails, Ready, callVars, flagVars
<1>4. Polled'
    BY <1>1, <1>3 DEF Owned, Polled
<1>5. Issued'
    BY <1>1, <1>2, <1>3 DEF Owned, Issued
<1>6. OneOwner'
    BY <1>1, <1>2, <1>3 DEF Owned, OneOwner
<1> QED
    BY <1>3, <1>4, <1>5, <1>6 DEF Wanting, Idle

LEMMA WatchForgotten ==
    ASSUME Calls, Owned, NEW w, PollUnanswered(w)
    PROVE  Wanting' /\ Issued' /\ Polled' /\ OneOwner'
<1>1. IssuedIds' = IssuedIds /\ BoundIds' = BoundIds
    BY SameTableIds DEF PollUnanswered, tableVars
<1>2. Borrowed' = Borrowed /\ \A c \in CallbackSlots : IdsOf(c)' = IdsOf(c)
    BY SameCalls DEF PollUnanswered, callVars
<1>3. /\ open /\ frame = Idle /\ frame' = Idle /\ callbacks' = callbacks /\ open'
      /\ w \in DOMAIN watches /\ held' = held /\ lost' = lost \cup {w}
      /\ copyResult' = copyResult
    BY DEF PollUnanswered, Ready, callVars, flagVars
<1>4. /\ DOMAIN watches' = DOMAIN watches \ {w}
      /\ \A x \in DOMAIN watches \ {w} : watches'[x] = watches[x]
    BY WatchWithout DEF PollUnanswered
<1>5. Polled'
    BY <1>1, <1>3, <1>4 DEF Owned, Polled, Idle
<1>6. Issued'
    BY <1>1, <1>2, <1>3, <1>4 DEF Owned, Issued
<1>7. \A c \in CallbackSlots : IdsOf(c) \subseteq Borrowed
    BY DEF Borrowed
<1>8. OneOwner'
    BY <1>1, <1>2, <1>3, <1>4, <1>7 DEF Owned, OneOwner
<1> QED
    BY <1>3, <1>5, <1>6, <1>8 DEF Wanting, Idle

(* Replacing a watch's value changes no owner. *)
LEMMA CompletionReplaced ==
    ASSUME Calls, Owned, NEW w, NEW v, PollCompletion(w, v)
    PROVE  Wanting' /\ Issued' /\ Polled' /\ OneOwner'
<1>1. IssuedIds' = IssuedIds /\ BoundIds' = BoundIds
    BY SameTableIds DEF PollCompletion, Replace
<1>2. Borrowed' = Borrowed /\ \A c \in CallbackSlots : IdsOf(c)' = IdsOf(c)
    BY SameCalls DEF PollCompletion, callVars
<1>3. UNCHANGED <<held, watches, lost, frame, open, copyResult, callbacks>>
    BY DEF PollCompletion, callVars, hostVars
<1> QED
    BY <1>1, <1>2, <1>3 DEF Owned, Wanting, Issued, Polled, OneOwner

(* A settled watch takes back its own id. *)
LEMMA WatchReleased ==
    ASSUME Calls, Owned, NEW w \in DOMAIN watches, Ready, Release({w}),
           UNCHANGED <<copyResult, callbacks, held, lost, open>>,
           \/ watches' = Without(watches, w) /\ frame' = Idle
           \/ UNCHANGED watches /\ frame'.op = "poll" /\ frame'.watch = w
    PROVE  Wanting' /\ Issued' /\ Polled' /\ OneOwner'
<1>1. IssuedIds' = IssuedIds /\ BoundIds' = BoundIds \ {w}
    BY ReleaseIds DEF Calls
<1>2. Borrowed' = Borrowed /\ \A c \in CallbackSlots : IdsOf(c)' = IdsOf(c)
    BY SameCalls
<1>3. frame = Idle /\ open
    BY DEF Ready
<1>4. /\ DOMAIN watches' \subseteq DOMAIN watches
      /\ DOMAIN watches \ {w} \subseteq DOMAIN watches'
      /\ \A x \in DOMAIN watches \ {w} : watches'[x] = watches[x]
    BY WatchWithout
<1>5. Wanting'
    BY <1>1 DEF Wanting, Idle
<1>6. Issued'
    BY <1>1, <1>2, <1>3, <1>4 DEF Owned, Issued
<1>7. ASSUME NEW x \in DOMAIN watches', ~(frame'.op = "poll" /\ frame'.watch = x)
      PROVE  x \in DOMAIN watches \ {w}
    BY <1>7, WatchWithout
<1>8. Polled'
    BY <1>1, <1>3, <1>4, <1>7 DEF Owned, Polled, Idle
<1>9. OneOwner'
    BY <1>1, <1>2, <1>3, <1>4 DEF Owned, OneOwner
<1> QED
    BY <1>5, <1>6, <1>8, <1>9

(* The value of a settled watch is a fresh id, of the host or lost, or no  *)
(* slot is free.                                                           *)
LEMMA WatchAnswered ==
    ASSUME Calls, Owned, PollOwn
    PROVE  Wanting' /\ Issued' /\ Polled' /\ OneOwner'
<1> DEFINE w == frame.watch
<1>1. /\ frame.op = "poll" /\ frame' = Idle /\ open /\ open'
      /\ callbacks' = callbacks /\ watches' = Without(watches, w)
    BY DEF PollOwn, Owned, Disposed, Idle, callVars
<1>2. frame.result \in Values /\ w \in DOMAIN watches /\ w \notin BoundIds
    BY <1>1 DEF Calls, TypeOK, Frame, Idle, Owned, Wanting
<1>3. Borrowed' = Borrowed /\ \A c \in CallbackSlots : IdsOf(c)' = IdsOf(c)
    BY <1>1, SameCalls
<1>4. /\ DOMAIN watches' = DOMAIN watches \ {w}
      /\ \A x \in DOMAIN watches \ {w} : watches'[x] = watches[x]
    BY <1>1, WatchWithout
<1>5. PICK mine \in SUBSET (Ids \ IssuedIds), nobodys \in SUBSET (Ids \ IssuedIds) :
         /\ IssuedIds' = IssuedIds \cup mine \cup nobodys
         /\ BoundIds' = BoundIds \cup mine \cup nobodys
         /\ mine \cap nobodys = {}
         /\ held' = held \cup mine
         /\ lost' = lost \cup nobodys
         /\ \A x \in BoundIds : copyResult'[SlotOf(x)] = copyResult[SlotOf(x)]
  <2> DEFINE Split(mine, nobodys) ==
               /\ IssuedIds' = IssuedIds \cup mine \cup nobodys
               /\ BoundIds' = BoundIds \cup mine \cup nobodys
               /\ mine \cap nobodys = {}
               /\ held' = held \cup mine
               /\ lost' = lost \cup nobodys
               /\ \A x \in BoundIds : copyResult'[SlotOf(x)] = copyResult[SlotOf(x)]
  <2>0. {} \in SUBSET (Ids \ IssuedIds)
    OBVIOUS
  <2>1. CASE UNCHANGED <<tableVars, flagVars, held, lost>>
    <3>1. /\ IssuedIds' = IssuedIds /\ BoundIds' = BoundIds
          /\ held' = held /\ lost' = lost /\ copyResult' = copyResult
      BY <2>1, SameTableIds DEF tableVars, flagVars
    <3>2. Split({}, {})
      BY <3>1
    <3> QED
      BY <2>0, <3>2
  <2>2. ASSUME NEW s \in Slots, RetainWith(s, frame.result, FALSE, FALSE),
               Own(CurrentId(s)) \/ Lose(CurrentId(s))
        PROVE  \E mine \in SUBSET (Ids \ IssuedIds), nobodys \in SUBSET (Ids \ IssuedIds) :
                  Split(mine, nobodys)
    <3>1. /\ CurrentId(s) \in Ids \ IssuedIds
          /\ IssuedIds' = IssuedIds \cup {CurrentId(s)}
          /\ BoundIds' = BoundIds \cup {CurrentId(s)}
      BY <1>2, <2>2, RetainWithIssues DEF Calls
    <3>2. \A x \in BoundIds : copyResult'[SlotOf(x)] = copyResult[SlotOf(x)]
      BY <1>2, <2>2, RetainFlags DEF Calls
    <3>3. {CurrentId(s)} \in SUBSET (Ids \ IssuedIds)
      BY <3>1
    <3>4. CASE Own(CurrentId(s))
      <4>1. Split({CurrentId(s)}, {})
        BY <3>1, <3>2, <3>4 DEF Own
      <4> QED
        BY <2>0, <3>3, <4>1
    <3>5. CASE Lose(CurrentId(s))
      <4>1. Split({}, {CurrentId(s)})
        BY <3>1, <3>2, <3>5 DEF Lose
      <4> QED
        BY <2>0, <3>3, <4>1
    <3> QED
      BY <2>2, <3>4, <3>5
  <2> QED
    BY <2>1, <2>2 DEF PollOwn
<1> HIDE DEF w
<1>6. (mine \cup nobodys) \cap (held \cup DOMAIN watches \cup Borrowed \cup lost) = {}
    BY <1>1, <1>5 DEF Owned, Issued
<1>7. Issued'
    BY <1>1, <1>3, <1>4, <1>5 DEF Owned, Issued
<1>8. Polled'
    BY <1>1, <1>4, <1>5 DEF Owned, Polled, w, Idle
<1>9. \A c \in CallbackSlots : IdsOf(c) \subseteq Borrowed
    BY DEF Borrowed
<1>10. OneOwner'
  <2>1. BoundIds' \subseteq held' \cup DOMAIN watches' \cup Borrowed' \cup lost'
    BY <1>1, <1>2, <1>3, <1>4, <1>5 DEF Owned, OneOwner
  <2>2. DOMAIN watches' \cap (held' \cup Borrowed') = {}
    BY <1>3, <1>4, <1>5, <1>6 DEF Owned, OneOwner
  <2>3. \A c \in CallbackSlots : ~callbacks'[c].sent => IdsOf(c)' \cap (held' \cup lost') = {}
    BY <1>1, <1>3, <1>5, <1>6, <1>9 DEF Owned, OneOwner
  <2>4. lost' \cap (held' \cup DOMAIN watches') = {}
    BY <1>4, <1>5, <1>6 DEF Owned, OneOwner
  <2> QED
    BY <1>3, <2>1, <2>2, <2>3, <2>4 DEF Owned, OneOwner
<1> QED
    BY <1>1, <1>7, <1>8, <1>10 DEF Wanting, Idle
-----------------------------------------------------------------------------
(* A call owns nothing when it begins. *)
LEMMA BeginKeepsOwned ==
    ASSUME Calls, Owned, NEW c \in CallbackSlots, Begins(c),
           UNCHANGED <<tableVars, flagVars, open, held, watches, lost>>, Ready, frame'.op # "poll"
    PROVE  Wanting' /\ Issued' /\ Polled' /\ OneOwner'
<1>1. IssuedIds' = IssuedIds /\ BoundIds' = BoundIds /\ copyResult' = copyResult
    BY SameTableIds DEF tableVars, flagVars
<1>2. callbacks[c].ids = <<>> /\ callbacks'[c].ids = <<>>
    BY NoCallbackFields DEF Begins, Calls, Records
<1>3. \A d \in CallbackSlots : IdsOf(d)' = IdsOf(d)
    BY <1>2 DEF IdsOf, Begins
<1>4. Borrowed' = Borrowed
    BY <1>3 DEF Borrowed
<1>5. IdsOf(c) = {}
    BY <1>2 DEF IdsOf, Range
<1>6. \A d \in CallbackSlots \ {c} : callbacks'[d] = callbacks[d]
    BY DEF Begins
<1>7. Issued'
    BY <1>1, <1>4 DEF Owned, Issued
<1>8. Polled'
    BY <1>1 DEF Owned, Polled, Ready, Idle
<1>9. OneOwner'
    BY <1>1, <1>3, <1>4, <1>5, <1>6 DEF Owned, OneOwner
<1> QED
    BY <1>7, <1>8, <1>9 DEF Wanting

(* A call being built gains a fresh id. *)
LEMMA ExtendKeepsOwned ==
    ASSUME Calls, Owned, NEW v \in Values, CallRetain(v)
    PROVE  Wanting' /\ Issued' /\ Polled' /\ OneOwner'
<1>1. PICK s \in Slots, c \in CallbackSlots :
         c = frame.callback /\ RetainWith(s, v, FALSE, FALSE) /\ Extends(c, CurrentId(s))
    BY CallExtends DEF Calls
<1> DEFINE id == CurrentId(s)
<1>2. /\ id \in Ids \ IssuedIds
      /\ IssuedIds' = IssuedIds \cup {id}
      /\ BoundIds' = BoundIds \cup {id}
      /\ \A w \in BoundIds : copyResult'[SlotOf(w)] = copyResult[SlotOf(w)]
    BY <1>1, RetainWithIssues, RetainFlags DEF Calls
<1>3. IdsOf(c)' = IdsOf(c) \cup {id} /\ \A d \in CallbackSlots \ {c} : IdsOf(d)' = IdsOf(d)
    BY <1>1 DEF IdsOf, Extends
<1>4. /\ callbacks'[c].sent = callbacks[c].sent
      /\ \A d \in CallbackSlots \ {c} : callbacks'[d] = callbacks[d]
    BY <1>1 DEF Extends
<1>5. /\ frame.op = "call" /\ open /\ UNCHANGED <<open, held, watches, lost>>
      /\ frame'.op # "poll"
    BY DEF CallRetain, Owned, Disposed, Idle, hostVars, Calls, TypeOK, Frame
<1>6. c \in CallbackSlots /\ ~callbacks[c].sent
    BY <1>1, <1>5 DEF Calls, Collecting
<1> HIDE DEF id
<1>7. Borrowed' = Borrowed \cup {id}
    BY <1>3, <1>6 DEF Borrowed
<1>8. id \notin held \cup DOMAIN watches \cup Borrowed \cup lost
    BY <1>2, <1>5 DEF Owned, Issued
<1>9. \A d \in CallbackSlots : IdsOf(d) \subseteq Borrowed
    BY DEF Borrowed
<1>10. Issued'
    BY <1>2, <1>5, <1>7 DEF Owned, Issued
<1>11. Polled'
    BY <1>2, <1>5 DEF Owned, Polled
<1>12. OneOwner'
  <2>1. \A d, e \in CallbackSlots : d # e => IdsOf(d)' \cap IdsOf(e)' = {}
    BY <1>3, <1>8, <1>9 DEF Owned, OneOwner
  <2>2. \A d \in CallbackSlots : ~callbacks'[d].sent => IdsOf(d)' \cap (held' \cup lost') = {}
    BY <1>3, <1>4, <1>5, <1>6, <1>8 DEF Owned, OneOwner
  <2>3. /\ open' => BoundIds' \subseteq held' \cup DOMAIN watches' \cup Borrowed' \cup lost'
        /\ DOMAIN watches' \cap (held' \cup Borrowed') = {}
        /\ lost' \cap (held' \cup DOMAIN watches') = {}
    BY <1>2, <1>5, <1>7, <1>8 DEF Owned, OneOwner
  <2> QED
    BY <2>1, <2>2, <2>3 DEF OneOwner
<1> QED
    BY <1>5, <1>10, <1>11, <1>12 DEF Wanting

(* A cleared call gives back its own ids. *)
LEMMA ClearKeepsOwned ==
    ASSUME Calls, Owned, NEW c \in CallbackSlots, Clears(c), Release(IdsOf(c)),
           UNCHANGED <<flagVars, open, held, watches, lost>>, open, frame.op # "poll", frame' = Idle
    PROVE  Wanting' /\ Issued' /\ Polled' /\ OneOwner'
<1>1. IssuedIds' = IssuedIds /\ BoundIds' = BoundIds \ IdsOf(c) /\ copyResult' = copyResult
    BY ReleaseIds DEF Calls, flagVars
<1>2. IdsOf(c)' = {} /\ \A d \in CallbackSlots \ {c} : IdsOf(d)' = IdsOf(d)
  <2>1. callbacks'[c].ids = <<>>
    BY NoCallbackFields DEF Clears
  <2> QED
    BY <2>1 DEF Clears, IdsOf, Range
<1>3. \A d \in CallbackSlots \ {c} : callbacks'[d] = callbacks[d]
    BY DEF Clears
<1>4. Borrowed = Borrowed' \cup IdsOf(c)
    BY <1>2 DEF Borrowed
<1>5. Issued'
    BY <1>1, <1>4 DEF Owned, Issued
<1>6. Polled'
    BY <1>1, <1>4 DEF Owned, Polled, OneOwner
<1>7. OneOwner'
    BY <1>1, <1>2, <1>3, <1>4 DEF Owned, OneOwner
<1> QED
    BY <1>5, <1>6, <1>7 DEF Wanting, Idle

(* A sent call shares its ids with the host. *)
LEMMA SendKeepsOwned ==
    ASSUME Calls, Owned, Events
    PROVE  Wanting' /\ Issued' /\ Polled' /\ OneOwner'
<1>1. /\ Sends /\ frame = Idle /\ frame' = Idle /\ open /\ open'
      /\ watches' = watches /\ copyResult' = copyResult /\ lost' = lost
    BY CallSends DEF Calls, Events, Ready, flagVars
<1>2. IssuedIds' = IssuedIds /\ BoundIds' = BoundIds
    BY SameTableIds DEF Events, tableVars
<1>3. \A d \in CallbackSlots : IdsOf(d)' = IdsOf(d)
    BY <1>1 DEF Sends, IdsOf
<1>4. Borrowed' = Borrowed
    BY <1>3 DEF Borrowed
<1>5. held \subseteq held' /\ held' \subseteq held \cup Borrowed
    BY DEF Events, Borrowed
<1>6. ASSUME NEW d \in CallbackSlots, ~callbacks'[d].sent
      PROVE  IdsOf(d) = {}
  <2>1. callbacks[d].ids = <<>>
    BY <1>1, <1>6, NoCallbackFields DEF Sends, Calls, Records
  <2> QED
    BY <2>1 DEF IdsOf, Range
<1>7. Issued'
    BY <1>1, <1>2, <1>4, <1>5 DEF Owned, Issued
<1>8. Polled'
    BY <1>1, <1>2 DEF Owned, Polled
<1>9. lost' \cap (held' \cup DOMAIN watches') = {}
    BY <1>1 DEF Events, Owned, OneOwner
<1>10. /\ BoundIds' \subseteq held' \cup DOMAIN watches' \cup Borrowed' \cup lost'
       /\ DOMAIN watches' \cap (held' \cup Borrowed') = {}
    BY <1>1, <1>2, <1>4, <1>5 DEF Owned, OneOwner
<1>11. /\ \A c, d \in CallbackSlots : c # d => IdsOf(c)' \cap IdsOf(d)' = {}
       /\ \A c \in CallbackSlots : ~callbacks'[c].sent => IdsOf(c)' \cap (held' \cup lost') = {}
    BY <1>3, <1>6 DEF Owned, OneOwner
<1>12. OneOwner'
    BY <1>9, <1>10, <1>11 DEF OneOwner
<1> QED
    BY <1>1, <1>7, <1>8, <1>12 DEF Wanting, Idle
-----------------------------------------------------------------------------
(* Ownership survives every step. *)
LEMMA OwnedKept ==
    ASSUME Calls, TableInv, Owned, Next
    PROVE  Wanting' /\ Issued' /\ Polled' /\ OneOwner'
<1> DEFINE Goal == Wanting' /\ Issued' /\ Polled' /\ OneOwner'
<1>1. ASSUME NEW v \in Values, OwnResult(v) PROVE Goal
    BY <1>1, HostGains DEF OwnResult, Ready, Idle
<1>2. ASSUME NEW id, Dup(id) PROVE Goal
  <2>1. value[SlotOf(id)] \in Values
    BY <1>2, BoundValue DEF Dup, TableInv
  <2> QED
    BY <1>2, <2>1, <1>1 DEF Dup
<1>3. ASSUME NEW id, ReleaseHandle(id) PROVE Goal
    BY <1>3, HostReleases
<1>4. ASSUME NEW v \in Values, NEW eval \in BOOLEAN, NEW want \in Wanted, Watch(v, eval, want) PROVE Goal
    BY <1>4, DriverWatches
<1>5. ASSUME NEW w \in DOMAIN watches, PollFails(w) PROVE Goal
    BY <1>5, WatchReleased DEF PollFails, Ready, flagVars, callVars
<1>6. ASSUME NEW w, NEW v, PollCompletion(w, v) PROVE Goal
    BY <1>6, CompletionReplaced
<1>7. ASSUME NEW w \in DOMAIN watches, NEW v, PollFulfilled(w, v) PROVE Goal
  <2>1. CASE copyResult[SlotOf(w)]
    BY <1>7, <2>1, WatchReleased DEF PollFulfilled, flagVars, callVars
  <2>2. CASE ~copyResult[SlotOf(w)]
    BY <1>7, <2>2, WatchReleased DEF PollFulfilled, flagVars, callVars
  <2> QED
    BY <2>1, <2>2
<1>8. ASSUME PollOwn PROVE Goal
    BY <1>8, WatchAnswered
<1>9. ASSUME NEW c \in CallbackSlots, CallCopied(c) PROVE Goal
  <2>1. Begins(c)
    BY <1>9, CallBegins DEF Calls
  <2> QED
    BY <1>9, <2>1, BeginKeepsOwned DEF CallCopied, Ready, Idle, hostVars
<1>10. ASSUME NEW c \in CallbackSlots, NEW argc, CallBegin(c, argc) PROVE Goal
  <2>1. Begins(c)
    BY <1>10, CallBegins DEF Calls
  <2> QED
    BY <1>10, <2>1, BeginKeepsOwned DEF CallBegin, hostVars
<1>11. ASSUME NEW v \in Values, CallRetain(v) PROVE Goal
    BY <1>11, ExtendKeepsOwned
<1>12. ASSUME CallRollback PROVE Goal
  <2>1. frame.op = "call" /\ frame.callback \in CallbackSlots
    BY <1>12 DEF CallRollback, Calls, TypeOK, Frame, Idle
  <2>2. Clears(frame.callback) /\ Release(IdsOf(frame.callback))
    BY <1>12, <2>1, CallClears DEF CallRollback, Calls, Clear
  <2>3. open /\ frame' = Idle /\ UNCHANGED <<flagVars, open, held, watches, lost>>
    BY <1>12, <2>1 DEF CallRollback, hostVars, Owned, Disposed, Idle
  <2> QED
    BY <2>1, <2>2, <2>3, ClearKeepsOwned
<1>13. ASSUME Events PROVE Goal
    BY <1>13, SendKeepsOwned
<1>14. ASSUME NEW k, Settle(k) PROVE Goal
  <2>1. PICK d \in CallbackSlots : callbacks[d].live /\ callbacks[d].id = k
    BY <1>14, SentIsLive DEF Settle, Calls, OutstandingIsSent
  <2>2. PICK c \in CallbackSlots : Clear(c)
    BY <1>14, <2>1 DEF Settle
  <2>3. Clears(c) /\ Release(IdsOf(c))
    BY <1>14, <2>2, CallClears DEF Settle, Calls, Clear
  <2> QED
    BY <1>14, <2>3, ClearKeepsOwned DEF Settle, Ready, Idle
<1>15. ASSUME Dispose PROVE Goal
  <2>1. /\ ~open' /\ frame' = Idle /\ watches' = <<>>
        /\ \A c \in CallbackSlots : callbacks'[c] = NoCallback
    BY <1>15 DEF Dispose, Ready
  <2>2. \A c \in CallbackSlots : IdsOf(c)' = {}
    BY <2>1, NoCallbackFields DEF IdsOf, Range
  <2>3. DOMAIN watches' = {}
    BY <2>1
  <2>4. lost' \cap held' = {}
    BY <1>15 DEF Dispose, Owned, OneOwner
  <2> QED
    BY <2>1, <2>2, <2>3, <2>4 DEF Wanting, Issued, Polled, OneOwner, Borrowed, Idle
<1>16. ASSUME NEW id, ReleaseFails(id) PROVE Goal
    BY <1>16, ReleaseForgotten
<1>17. ASSUME NEW w, PollUnanswered(w) PROVE Goal
    BY <1>17, WatchForgotten
<1> QED
    BY <1>1, <1>2, <1>3, <1>4, <1>5, <1>6, <1>7, <1>8, <1>9, <1>10, <1>11,
       <1>12, <1>13, <1>14, <1>15, <1>16, <1>17 DEF Next

-----------------------------------------------------------------------------
(* The inductive invariant of the bridge. *)
IInv == TableInv /\ Calls /\ Owned

(* An empty bridge owns nothing. *)
LEMMA InitOwned == Init => Calls /\ Owned
<1> SUFFICES ASSUME Init
             PROVE  Calls /\ Owned
    OBVIOUS
<1>1. TableTypeOK /\ IssuedIds = {} /\ BoundIds = {}
    BY TableInitTypes, TableInitMaps DEF Init, Space!Init
<1>2. TypeOK
    BY <1>1, NoCallbackTyped, CallbacksAssumption DEF Init, TypeOK, Frame
<1>3. \A c \in CallbackSlots : callbacks[c] = NoCallback
    BY DEF Init
<1>4. Records /\ Collecting /\ OutstandingIsSent
    BY <1>3, NoCallbackFields DEF Init, Records, Collecting, OutstandingIsSent, Idle
<1>5. \A c \in CallbackSlots : IdsOf(c) = {}
    BY <1>3, NoCallbackFields DEF IdsOf, Range
<1>6. Borrowed = {} /\ DOMAIN watches = {}
    BY <1>5 DEF Borrowed, Init
<1>7. Disposed /\ Wanting /\ Issued /\ Polled /\ OneOwner
    BY <1>1, <1>5, <1>6 DEF Init, Disposed, Wanting, Issued, Polled, OneOwner, Idle
<1> QED
    BY <1>2, <1>4, <1>7 DEF Calls, Owned

(* The layers together hold of every reachable state of the bridge.         *)
LEMMA BridgeInvariant == Spec => []IInv
<1>1. Init => IInv
    BY InitOwned, TableInitTypes DEF Init, TableInv, Result, Idle, IInv
<1>2. IInv /\ [Next]_vars => IInv'
  <2>1. ASSUME IInv, Next PROVE IInv'
    <3>1. TableInv'
      BY <2>1, TableSteps, TypesKept, ResultKept DEF TableInv, IInv
    <3>2. TypeOK'
      BY <2>1, WholeTypesKept DEF IInv, Calls
    <3>3. Records' /\ Collecting' /\ OutstandingIsSent'
      BY <2>1, CallsKept DEF IInv
    <3>4. Disposed'
      BY <2>1, DisposedKept DEF IInv, Calls, Owned
    <3>5. Wanting' /\ Issued' /\ Polled' /\ OneOwner'
      BY <2>1, OwnedKept DEF IInv
    <3> QED
      BY <3>1, <3>2, <3>3, <3>4, <3>5 DEF IInv, Calls, Owned
  <2>2. ASSUME IInv, UNCHANGED vars PROVE IInv'
    <3>1. TableInv'
      BY <2>2 DEF vars, tableVars, bridgeVars, IInv, TableInv, Result, TableTypeOK
    <3>2. Calls'
      BY <2>2 DEF vars, tableVars, bridgeVars, hostVars, IInv, Calls, TypeOK, TableTypeOK, Records,
                  Collecting, OutstandingIsSent
    <3>3. IssuedIds' = IssuedIds /\ BoundIds' = BoundIds
      BY <2>2, SameTableIds DEF vars, tableVars
    <3>4. Borrowed' = Borrowed /\ \A c \in CallbackSlots : IdsOf(c)' = IdsOf(c)
      BY <2>2, SameCalls DEF vars, bridgeVars
    <3>5. Owned'
      BY <2>2, <3>3, <3>4 DEF vars, bridgeVars, hostVars, IInv, Owned, Disposed, Wanting, Issued,
                              Polled, OneOwner
    <3> QED
      BY <3>1, <3>2, <3>5 DEF IInv
  <2> QED
    BY <2>1, <2>2
<1> QED
    BY <1>1, <1>2, PTL DEF Spec

(* The state of the bridge and of the driver's maps keeps its types        *)
(* (engine.c: retain, host_call, jss_events; engine.ts: pending,           *)
(* callbacks).                                                             *)
THEOREM BridgeTypes == Spec => []TypeOK
    BY BridgeInvariant, PTL DEF IInv, Calls

(* Whatever order commands, polls, host calls, settlements and stale       *)
(* releases come in, and wherever commands fail, every bound id has an     *)
(* owner who can release it or was lost by a command that failed, and no   *)
(* owner's release takes another's value (engine.c: host_call, poll,       *)
(* success, callback_clear).                                               *)
THEOREM ValuesHaveOneOwner == Spec => []OneOwner
    BY BridgeInvariant, PTL DEF IInv, Owned

(* The driver waits for exactly the live sent calls, each with an id of    *)
(* its own, so every settlement finds its call (engine.c: jss_events,      *)
(* settle).                                                                *)
THEOREM CallsAreAnswerable == Spec => []OutstandingIsSent
    BY BridgeInvariant, PTL DEF IInv, Calls

(* Between two commands each watch names a value and asks for what its     *)
(* operation asked for (engine.c: pending, poll).                          *)
THEOREM WatchesAreFaithful == Spec => []WatchesFaithful
<1>1. IInv => WatchesFaithful
    BY DEF IInv, Owned, Polled, WatchesFaithful, Ready, Idle, BoundIds
<1> QED
    BY <1>1, BridgeInvariant, PTL

(* A handle borrowed by a callback stays valid until the callback          *)
(* settles, unless the host disposes of it (README.md; engine.c:           *)
(* callback_clear).                                                        *)
THEOREM HandlesOutliveTheCall == Spec => BorrowedUntilSettled
<1> DEFINE Kept(c) == (callbacks[c].live /\ callbacks'[c].id = callbacks[c].id)
                         => (IdsOf(c) \cap BoundIds) \ BoundIds' \subseteq held \ held'
<1>1. ASSUME IInv, Next, NEW c \in CallbackSlots
      PROVE  Kept(c)
  <2>0. Calls /\ Owned /\ TypeOK /\ TableInv
    BY <1>1 DEF IInv, Calls
  <2>1. CASE BoundIds \subseteq BoundIds'
    BY <2>1
  <2>2. ASSUME NEW s \in Slots, NEW v \in Values, Retain(s, v)
        PROVE  Kept(c)
    BY <2>0, <2>1, <2>2, RetainIssues DEF TypeOK
  <2>3. ASSUME UNCHANGED <<live, generation>>
        PROVE  Kept(c)
    BY <2>1, <2>3, SameTableIds
  <2>4. ASSUME NEW w \in DOMAIN watches, Release({w})
        PROVE  Kept(c)
    BY <2>0, <2>4, ReleaseIds DEF Owned, OneOwner, Borrowed
  <2>5. ASSUME NEW id, ReleaseHandle(id)
        PROVE  Kept(c)
    BY <2>0, <2>5, ReleaseIds DEF ReleaseHandle
  <2>6. ASSUME NEW d \in CallbackSlots, Clear(d), callbackNext' = callbackNext
        PROVE  Kept(c)
    <3>1. Clears(d) /\ BoundIds' = BoundIds \ IdsOf(d)
      BY <2>0, <2>6, CallClears, ReleaseIds DEF Clear
    <3>2. CASE c = d
      BY <2>0, <3>1, <3>2, NoCallbackFields DEF Clears, Calls, Records
    <3>3. CASE c # d
      BY <2>0, <3>1, <3>3 DEF Owned, OneOwner
    <3> QED
      BY <3>2, <3>3
  <2>7. CASE Dispose
    BY <2>0, <2>7, NoCallbackFields DEF Dispose, Calls, Records
  <2> HIDE DEF Kept
  <2>8. ASSUME NEW v \in Values, OwnResult(v)
        PROVE  Kept(c)
    BY <2>2, <2>8 DEF OwnResult, RetainWith
  <2>9. ASSUME NEW id, Dup(id)
        PROVE  Kept(c)
    BY <2>0, <2>8, <2>9, BoundValue DEF Dup, TableInv
  <2>10. ASSUME NEW v \in Values, NEW eval, NEW want, Watch(v, eval, want)
         PROVE  Kept(c)
    BY <2>2, <2>10 DEF Watch, RetainWith
  <2>11. ASSUME NEW w \in DOMAIN watches, NEW v, PollFails(w) \/ PollFulfilled(w, v)
         PROVE  Kept(c)
    BY <2>4, <2>11 DEF PollFails, PollFulfilled
  <2>12. ASSUME NEW w, NEW v, PollCompletion(w, v)
         PROVE  Kept(c)
    BY <2>3, <2>12 DEF PollCompletion, Replace
  <2>13. CASE PollOwn
    BY <2>0, <2>2, <2>3, <2>13 DEF PollOwn, RetainWith, TableInv, Result, tableVars
  <2>14. ASSUME NEW d, NEW argc, CallCopied(d) \/ CallBegin(d, argc) \/ Events
         PROVE  Kept(c)
    BY <2>3, <2>14 DEF CallCopied, CallBegin, Events, tableVars
  <2>15. ASSUME NEW v \in Values, CallRetain(v)
         PROVE  Kept(c)
    BY <2>2, <2>15 DEF CallRetain, RetainWith
  <2>16. CASE CallRollback
    <3>1. frame.callback \in CallbackSlots
      BY <2>0, <2>16 DEF CallRollback, TypeOK, Frame, Idle
    <3> QED
      BY <2>6, <2>16, <3>1 DEF CallRollback
  <2>17. ASSUME NEW k, Settle(k)
         PROVE  Kept(c)
    BY <2>3, <2>6, <2>17 DEF Settle, tableVars
  <2>18. ASSUME NEW x, ReleaseFails(x) \/ PollUnanswered(x)
         PROVE  Kept(c)
    BY <2>3, <2>18 DEF ReleaseFails, PollUnanswered, tableVars
  <2> QED
    BY <1>1, <2>5, <2>7, <2>8, <2>9, <2>10, <2>11, <2>12, <2>13, <2>14, <2>15, <2>16, <2>17, <2>18 DEF Next
<1>2. IInv /\ [Next]_vars => [\A c \in CallbackSlots : Kept(c)]_vars
    BY <1>1
<1> QED
    BY <1>2, BridgeInvariant, PTL DEF Spec, BorrowedUntilSettled
=============================================================================
