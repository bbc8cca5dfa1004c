--------------------------- MODULE CardTableProofs ---------------------------
(* Proofs about the card table for every number of slots, cards and paths.    *)
EXTENDS CardTable, FiniteSetTheorems, TLAPS

(* The inductive invariant: the types of the array and of the paths, and the  *)
(* two facts of TableConsistent, from which the bound of reg_num follows.     *)
TableInv ==
    /\ acc_cards \in [Slots -> Card \cup {NULL}]
    /\ vmpath \in [Card -> Path \cup {NULL}]
    /\ UniquePath
    /\ RegNumCounts

(* The occupied slots are finitely many, at most as many as there are slots,  *)
(* and fewer when a slot is free.                                             *)
LEMMA OccupiedBound ==
    /\ IsFiniteSet(Occupied)
    /\ Cardinality(Occupied) \in 0 .. ACC_CARD_MAX_NUM
    /\ \A i \in Slots : acc_cards[i] = NULL => Cardinality(Occupied) < ACC_CARD_MAX_NUM
<1>1. IsFiniteSet(Slots) /\ Cardinality(Slots) = ACC_CARD_MAX_NUM
  BY FS_Interval, TableAssumption DEF Slots
<1>2. IsFiniteSet(Occupied) /\ Cardinality(Occupied) <= ACC_CARD_MAX_NUM
  BY <1>1, FS_Subset DEF Occupied
<1>3. Cardinality(Occupied) \in Nat
  BY <1>2, FS_CardinalityType
<1>4. ASSUME NEW i \in Slots, acc_cards[i] = NULL
      PROVE  Cardinality(Occupied) < ACC_CARD_MAX_NUM
  <2>1. Occupied \in SUBSET (Slots \ {i})
    BY <1>4 DEF Occupied
  <2>2. IsFiniteSet(Slots \ {i}) /\ Cardinality(Slots \ {i}) = ACC_CARD_MAX_NUM - 1
    BY <1>1, FS_RemoveElement
  <2>3. Cardinality(Occupied) <= ACC_CARD_MAX_NUM - 1
    BY <2>1, <2>2, FS_Subset
  <2> QED  BY <2>3, <1>3, TableAssumption
<1> QED  BY <1>2, <1>3, <1>4, TableAssumption

(* Two slots never hold the same block. *)
LEMMA SlotsDistinct ==
    ASSUME TableInv
    PROVE  \A i, j \in Slots : (acc_cards[i] # NULL /\ acc_cards[i] = acc_cards[j]) => i = j
BY DEF TableInv, UniquePath, HoldsPath

(* A registration adds exactly its block to the table and keeps the paths of  *)
(* the cards that were there.                                                 *)
LEMMA RegEffect ==
    ASSUME TableInv, NEW p \in Path, NEW c \in Card, NEW i \in Slots, Reg(p, c, i)
    PROVE  /\ Occupied' = Occupied \cup {i}
           /\ i \notin Occupied
           /\ Registered' = Registered \cup {c}
           /\ \A d \in Registered : vmpath'[d] = vmpath[d]
           /\ vmpath'[c] = p
<1>1. acc_cards' = [acc_cards EXCEPT ![i] = c] /\ vmpath' = [vmpath EXCEPT ![c] = p]
      /\ c # NULL /\ acc_cards[i] = NULL /\ c \notin Registered
  BY TableAssumption DEF Reg, IsFirstFree
<1>2. Occupied' = Occupied \cup {i} /\ i \notin Occupied
  BY <1>1 DEF Occupied, TableInv
<1>3. Registered' = Registered \cup {c}
  BY <1>1, <1>2 DEF Registered, Occupied, TableInv
<1>4. vmpath'[c] = p /\ \A d \in Registered : vmpath'[d] = vmpath[d]
  BY <1>1 DEF TableInv, Registered, Occupied
<1> QED  BY <1>2, <1>3, <1>4

(* A removal takes exactly the cards of its path out of the table. *)
LEMMA UnregEffect ==
    ASSUME TableInv, NEW p, Unreg(p)
    PROVE  /\ Registered' = {c \in Registered : vmpath[c] # p}
           /\ vmpath' = vmpath
           /\ \/ \E i \in Occupied : Occupied' = Occupied \ {i} /\ reg_num' = reg_num - 1
              \/ Occupied' = Occupied /\ reg_num' = reg_num
           /\ \A j \in Slots : acc_cards'[j] # NULL => acc_cards'[j] = acc_cards[j]
           /\ acc_cards' \in [Slots -> Card \cup {NULL}]
<1>1. CASE \E i \in Slots : /\ IsCardIndex(i, p)
                            /\ acc_cards' = [acc_cards EXCEPT ![i] = NULL]
                            /\ reg_num' = reg_num - 1
  <2>1. PICK i \in Slots : /\ IsCardIndex(i, p)
                           /\ acc_cards' = [acc_cards EXCEPT ![i] = NULL]
                           /\ reg_num' = reg_num - 1
    BY <1>1
  <2>2. acc_cards[i] # NULL /\ vmpath[acc_cards[i]] = p
    BY <2>1 DEF IsCardIndex, HoldsPath
  <2>3. Occupied' = Occupied \ {i} /\ i \in Occupied
    BY <2>1, <2>2 DEF Occupied, TableInv
  <2>4. \A j \in Slots : acc_cards[j] # NULL /\ vmpath[acc_cards[j]] = p => j = i
    BY <2>2 DEF TableInv, UniquePath, HoldsPath
  <2>5. Registered' = {c \in Registered : vmpath[c] # p}
    <3>1. \A j \in Slots : acc_cards'[j] = IF j = i THEN NULL ELSE acc_cards[j]
      BY <2>1 DEF TableInv
    <3>2. \A j \in Occupied' : acc_cards'[j] \in Registered /\ vmpath[acc_cards'[j]] # p
      BY <2>3, <2>4, <3>1 DEF Occupied, Registered
    <3>3. \A c \in Registered : vmpath[c] # p => c \in Registered'
      BY <2>2, <2>3, <3>1 DEF Occupied, Registered
    <3> QED  BY <3>2, <3>3 DEF Registered
  <2> QED  BY <2>1, <2>3, <2>5 DEF Unreg, TableInv
<1>2. CASE (\A i \in Slots : ~HoldsPath(i, p)) /\ UNCHANGED <<acc_cards, reg_num>>
  <2>1. Occupied' = Occupied /\ Registered' = Registered
    BY <1>2 DEF Occupied, Registered
  <2>2. \A c \in Registered : vmpath[c] # p
    BY <1>2 DEF Registered, Occupied, HoldsPath
  <2> QED  BY <1>2, <2>1, <2>2 DEF Unreg, TableInv
<1> QED  BY <1>1, <1>2 DEF Unreg

(* A registration keeps the table consistent: the path was absent and the     *)
(* slot free.                                                                 *)
LEMMA RegKeeps ==
    ASSUME TableInv, NEW p \in Path, NEW c \in Card, NEW i \in Slots, Reg(p, c, i)
    PROVE  TableInv'
<1>1. acc_cards' = [acc_cards EXCEPT ![i] = c] /\ vmpath' = [vmpath EXCEPT ![c] = p]
      /\ reg_num' = reg_num + 1
  BY DEF Reg
<1>2. /\ acc_cards' \in [Slots -> Card \cup {NULL}]
      /\ vmpath' \in [Card -> Path \cup {NULL}]
  BY <1>1 DEF TableInv
<1>3. UniquePath'
  <2>1. \A j \in Slots : j # i /\ acc_cards[j] # NULL =>
          acc_cards'[j] = acc_cards[j] /\ vmpath'[acc_cards[j]] = vmpath[acc_cards[j]]
          /\ vmpath[acc_cards[j]] # p
    BY <1>1, RegEffect DEF TableInv, Registered, Occupied, Reg, HoldsPath
  <2>2. acc_cards'[i] = c /\ vmpath'[c] = p
    BY <1>1 DEF TableInv
  <2>3. \A j \in Slots : j # i /\ acc_cards[j] = NULL => acc_cards'[j] = NULL
    BY <1>1 DEF TableInv
  <2> QED  BY <2>1, <2>2, <2>3 DEF TableInv, UniquePath, HoldsPath
<1>4. RegNumCounts'
  BY <1>1, RegEffect, OccupiedBound, FS_AddElement DEF TableInv, RegNumCounts
<1> QED  BY <1>2, <1>3, <1>4 DEF TableInv

(* So does a removal, whether or not a card matched. *)
LEMMA UnregKeeps ==
    ASSUME TableInv, NEW p, Unreg(p)
    PROVE  TableInv'
<1>1. vmpath' = vmpath /\ acc_cards' \in [Slots -> Card \cup {NULL}]
  BY UnregEffect
<1>2. UniquePath'
  BY UnregEffect DEF TableInv, UniquePath, HoldsPath
<1>3. RegNumCounts'
  BY UnregEffect, OccupiedBound, FS_RemoveElement DEF TableInv, RegNumCounts
<1> QED  BY <1>1, <1>2, <1>3 DEF TableInv

(* The empty table is consistent. *)
LEMMA InitTableInv == TableInit => TableInv
<1> SUFFICES ASSUME TableInit PROVE TableInv
  OBVIOUS
<1>1. Occupied = {}
  BY DEF TableInit, Occupied
<1>2. RegNumCounts
  BY <1>1, FS_EmptySet DEF TableInit, RegNumCounts
<1>3. UniquePath
  BY DEF TableInit, UniquePath
<1> QED  BY <1>2, <1>3 DEF TableInit, TableInv

LEMMA StepTableInv == TableInv /\ [TableNext]_tableVars => TableInv'
<1> SUFFICES ASSUME TableInv, [TableNext]_tableVars PROVE TableInv'
  OBVIOUS
<1>1. CASE TableNext
  BY <1>1, RegKeeps, UnregKeeps DEF TableNext
<1>2. CASE UNCHANGED tableVars
  <2>1. Occupied' = Occupied
    BY <1>2 DEF tableVars, Occupied
  <2> QED  BY <1>2, <2>1 DEF tableVars, TableInv, UniquePath, HoldsPath, RegNumCounts
<1> QED  BY <1>1, <1>2

LEMMA TableInvImplies == TableInv => TableTypeOK /\ TableConsistent
BY OccupiedBound DEF TableInv, TableTypeOK, TableConsistent, RegNumCounts

LEMMA TableInvariant == TableSpec => []TableInv
BY InitTableInv, StepTableInv, PTL DEF TableSpec

(* Type correctness: the counter never leaves 0 .. ACC_CARD_MAX_NUM.          *)
THEOREM TableTypes == TableSpec => []TableTypeOK
BY TableInvariant, TableInvImplies, PTL

(* vmpath stays a unique index and reg_num counts the cards, for any sequence *)
(* of registrations and removals.                                             *)
THEOREM TableCorrect == TableSpec => []TableConsistent
BY TableInvariant, TableInvImplies, PTL

-----------------------------------------------------------------------------

(* The array implements the directory: a path is registered when it was       *)
(* absent and a slot was free, and a removal takes away that path alone.      *)
RegisteredPaths == {vmpath[c] : c \in Registered}

LEMMA PathsBound ==
    ASSUME TableInv
    PROVE  IsFiniteSet(RegisteredPaths) /\ Cardinality(RegisteredPaths) <= Cardinality(Occupied)
<1> DEFINE f == [i \in Occupied |-> vmpath[acc_cards[i]]]
<1>1. f \in Surjection(Occupied, RegisteredPaths)
  BY DEF Surjection, RegisteredPaths, Registered
<1> QED  BY <1>1, OccupiedBound, FS_Surjection

(* The abstract module counts with its own instance of FiniteSets. *)
LEMMA SameCardinality == \A S : Directory!Cardinality(S) = Cardinality(S)
BY DEF Directory!Cardinality, Cardinality, Directory!IsFiniteSet, IsFiniteSet

LEMMA RegRefines ==
    ASSUME TableInv, NEW p \in Path, NEW c \in Card, NEW i \in Slots, Reg(p, c, i)
    PROVE  Directory!Register(p)
<1>1. p \notin RegisteredPaths
  BY DEF Reg, HoldsPath, RegisteredPaths, Registered, Occupied
<1>2. Cardinality(RegisteredPaths) < ACC_CARD_MAX_NUM
  <2>1. acc_cards[i] = NULL
    BY DEF Reg, IsFirstFree
  <2> QED  BY <2>1, PathsBound, OccupiedBound, FS_CardinalityType, TableAssumption
<1>3. RegisteredPaths' = RegisteredPaths \cup {p}
  BY RegEffect DEF RegisteredPaths
<1> QED  BY <1>1, <1>2, <1>3, SameCardinality DEF Directory!Register, RegisteredPaths

LEMMA UnregRefines ==
    ASSUME TableInv, NEW p \in Path, Unreg(p)
    PROVE  Directory!Unregister(p)
BY UnregEffect DEF Directory!Unregister

LEMMA StepRefines ==
    TableInv /\ [TableNext]_tableVars => [Directory!Next]_RegisteredPaths
<1> SUFFICES ASSUME TableInv, [TableNext]_tableVars
             PROVE  [Directory!Next]_RegisteredPaths
  OBVIOUS
<1>1. CASE TableNext
  BY <1>1, RegRefines, UnregRefines DEF TableNext, Directory!Next
<1>2. CASE UNCHANGED tableVars
  BY <1>2 DEF tableVars, RegisteredPaths, Registered, Occupied
<1> QED  BY <1>1, <1>2

LEMMA InitRefines == TableInit => Directory!Init
BY DEF TableInit, Directory!Init, Registered, Occupied

(* The card table implements the directory of paths. *)
THEOREM TableImplementsDirectory == TableSpec => DirectorySpec
<1>1. TableSpec => [][Directory!Next]_RegisteredPaths
  BY TableInvariant, StepRefines, PTL DEF TableSpec
<1> QED  BY <1>1, InitRefines, PTL DEF TableSpec, DirectorySpec, Directory!Spec, RegisteredPaths
=============================================================================
