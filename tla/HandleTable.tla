---------------------------- MODULE HandleTable ----------------------------
(***************************************************************************)
(* The table of guest values the host can name (bridge/engine.c: handles,  *)
(* handle_cursor, lookup, retain, release).  A slot is reused; its         *)
(* generation, part of the id, is not.                                     *)
(*                                                                         *)
(* handle_cursor is a uint32_t used only modulo HANDLE_SLOTS, and 2^32 is a *)
(* multiple of HANDLE_SLOTS (16384): it is kept modulo HANDLE_SLOTS.       *)
(*                                                                         *)
(* A definition marked "fault" is a plausible mistake in the one below it. *)
(* No action uses it: it is there to show that a property can fail.        *)
(***************************************************************************)
EXTENDS Integers

CONSTANTS
    HANDLE_SLOTS,     \* 16384 in the code
    MAX_GENERATION,   \* 131071: a slot that has reached it is retired
    Values            \* guest values, told apart and never inspected

ASSUME SlotsAssumption == HANDLE_SLOTS \in Nat \ {0}
ASSUME GenerationAssumption == MAX_GENERATION \in Nat \ {0}
ASSUME ValuesAssumption == Values # {}

VARIABLES live, generation, value, cursor

tableVars == <<live, generation, value, cursor>>

Slots == 0 .. (HANDLE_SLOTS - 1)

(* The last id is that of the last slot in its last usable generation. *)
Ids == 1 .. (MAX_GENERATION * HANDLE_SLOTS)

IdOf(s, g) == g * HANDLE_SLOTS + s + 1
SlotOf(id) == (id - 1) % HANDLE_SLOTS
GenerationOf(id) == (id - 1) \div HANDLE_SLOTS

CurrentId(s) == IdOf(s, generation[s])

(* The test shared by lookup and release. *)
Bound(id) == /\ id \in Ids
             /\ live[SlotOf(id)]
             /\ generation[SlotOf(id)] = GenerationOf(id)

BoundIds == {id \in Ids : Bound(id)}
IssuedIds == {id \in Ids : \/ GenerationOf(id) < generation[SlotOf(id)]
                           \/ Bound(id)}

UsableOnceMore(s) == ~live[s] /\ generation[s] =< MAX_GENERATION   \* fault
UsableWhileLive(s) == generation[s] < MAX_GENERATION              \* fault
Usable(s) == ~live[s] /\ generation[s] < MAX_GENERATION

(* How many slots retain passes before it looks at s. *)
Distance(s) == (s - cursor) % HANDLE_SLOTS

(* The slot retain takes: the first usable one from the cursor on. *)
NextSlot(s) == /\ Usable(s)
               /\ \A t \in Slots : Usable(t) => Distance(s) =< Distance(t)

TableInit ==
    /\ live = [s \in Slots |-> FALSE]
    /\ generation = [s \in Slots |-> 0]
    /\ \E v \in Values : value = [s \in Slots |-> v]
    /\ cursor = 0

(* retain(v) finds slot s. *)
Retain(s, v) ==
    /\ s \in Slots
    /\ NextSlot(s)
    /\ live' = [live EXCEPT ![s] = TRUE]
    /\ value' = [value EXCEPT ![s] = v]
    /\ cursor' = (s + 1) % HANDLE_SLOTS
    /\ UNCHANGED generation

(* retain finds no slot: HANDLE_SLOTS increments leave the cursor where it was. *)
Full == \A s \in Slots : ~Usable(s)

(* release(id) of every id in the set; an id that is not bound is ignored. *)
FreedBySlot(s, ids) == live[s] /\ s \in {SlotOf(id) : id \in ids}   \* fault
Freed(s, ids) == live[s] /\ CurrentId(s) \in ids

SameGeneration(s, ids) == generation[s]   \* fault
GenerationAfter(s, ids) == IF Freed(s, ids) THEN generation[s] + 1 ELSE generation[s]

Release(ids) ==
    /\ live' = [s \in Slots |-> live[s] /\ ~Freed(s, ids)]
    /\ generation' = [s \in Slots |-> GenerationAfter(s, ids)]
    /\ UNCHANGED <<value, cursor>>

(* poll puts the observed completion in the watch's own slot. *)
Replace(id, v) ==
    /\ Bound(id)
    /\ value' = [value EXCEPT ![SlotOf(id)] = v]
    /\ UNCHANGED <<live, generation, cursor>>

TableNext ==
    \/ \E s \in Slots, v \in Values : Retain(s, v)
    \/ \E ids \in SUBSET Ids : Release(ids)
    \/ \E id \in Ids, v \in Values : Replace(id, v)

TableSpec == TableInit /\ [][TableNext]_tableVars

TableTypeOK ==
    /\ live \in [Slots -> BOOLEAN]
    /\ generation \in [Slots -> 0 .. MAX_GENERATION]
    /\ value \in [Slots -> Values]
    /\ cursor \in Slots
    /\ \A s \in Slots : live[s] => generation[s] < MAX_GENERATION
-----------------------------------------------------------------------------
(* No id that was dropped is ever bound again, however often its slot is   *)
(* reused and whatever stale ids release is given (retain, release): the   *)
(* table implements HandleSpace.                                           *)
Space == INSTANCE HandleSpace WITH issued <- IssuedIds, bound <- BoundIds
ImplementsHandleSpace == Space!Spec

(* The ABA hazard of slot reuse (release, lookup): releasing ids frees no  *)
(* slot whose current id was not among them, and an id that stays bound    *)
(* stays bound to the same slot.                                           *)
StaleReleaseIsHarmless ==
    [][\A ids \in SUBSET Ids : Release(ids) => BoundIds' = BoundIds \ ids]_tableVars
=============================================================================
