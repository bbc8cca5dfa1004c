------------------------------ MODULE CardTable ------------------------------
(****************************************************************************)
(* The table of accelerator cards of the backend (be_la/be_acc_card.c): a   *)
(* fixed array of card pointers, a counter, and the vmpath that identifies  *)
(* each card.  A card is a heap block, so Card is a set of addresses: calloc *)
(* returns one the table does not hold, and a freed block keeps its contents *)
(* until it is handed out again.                                            *)
(****************************************************************************)
EXTENDS Integers, FiniteSets

CONSTANTS
    Card,               \* heap addresses that can hold a card
    Path,               \* vmpath strings, the unique index of a card
    ACC_CARD_MAX_NUM,   \* number of slots in the table
    NULL                \* the null pointer

ASSUME TableAssumption ==
    /\ ACC_CARD_MAX_NUM \in Nat \ {0}
    /\ NULL \notin Card
    /\ NULL \notin Path

VARIABLES
    acc_cards,   \* g_acc_cards.acc_cards[]
    reg_num,     \* g_acc_cards.reg_num
    vmpath       \* the vmpath field of every card block

tableVars == <<acc_cards, reg_num, vmpath>>

Slots == 0 .. ACC_CARD_MAX_NUM - 1

Occupied == {i \in Slots : acc_cards[i] # NULL}

Registered == {acc_cards[i] : i \in Occupied}

TableTypeOK ==
    /\ acc_cards \in [Slots -> Card \cup {NULL}]
    /\ reg_num \in 0 .. ACC_CARD_MAX_NUM
    /\ vmpath \in [Card -> Path \cup {NULL}]

-----------------------------------------------------------------------------

TableInit ==
    /\ acc_cards = [i \in Slots |-> NULL]
    /\ reg_num = 0
    /\ vmpath = [c \in Card |-> NULL]

(* Slot i holds the card of path p. *)
HoldsPath(i, p) == acc_cards[i] # NULL /\ vmpath[acc_cards[i]] = p

(* The index be_la_get_acc_card returns for p; no such i where it returns -1. *)
IsCardIndex(i, p) ==
    /\ HoldsPath(i, p)
    /\ \A j \in Slots : j < i => ~HoldsPath(j, p)

(* Mutant: the loop does not look whether the slot is taken. *)
FirstSlotAlways(i) == i = 0

(* The slot the registration loop stops at. *)
IsFirstFree(i) ==
    /\ acc_cards[i] = NULL
    /\ \A j \in Slots : j < i => acc_cards[j] # NULL

(* Mutant: the duplicate check is missing. *)
RegUnchecked(p, c, i) ==
    /\ IsFirstFree(i)
    /\ c \notin Registered
    /\ acc_cards' = [acc_cards EXCEPT ![i] = c]
    /\ vmpath' = [vmpath EXCEPT ![c] = p]
    /\ reg_num' = reg_num + 1

(* be_acc_card_reg accepts p and places the new block c in slot i.  It        *)
(* refuses a path that is registered, a full table and a failed calloc; a     *)
(* refusal changes nothing, so it is a stuttering step.                       *)
Reg(p, c, i) ==
    /\ \A j \in Slots : ~HoldsPath(j, p)
    /\ IsFirstFree(i)
    /\ c \notin Registered
    /\ acc_cards' = [acc_cards EXCEPT ![i] = c]
    /\ vmpath' = [vmpath EXCEPT ![c] = p]
    /\ reg_num' = reg_num + 1

(* Mutant: strcmp without the negation frees the first card of another path.  *)
UnregInverted(p) ==
    /\ \/ \E i \in Slots :
             /\ acc_cards[i] # NULL /\ vmpath[acc_cards[i]] # p
             /\ \A j \in Slots : j < i => acc_cards[j] = NULL \/ HoldsPath(j, p)
             /\ acc_cards' = [acc_cards EXCEPT ![i] = NULL]
             /\ reg_num' = reg_num - 1
       \/ /\ \A i \in Occupied : vmpath[acc_cards[i]] = p
          /\ UNCHANGED <<acc_cards, reg_num>>
    /\ UNCHANGED vmpath

(* Mutant: the counter is not decremented. *)
UnregUncounted(p) ==
    /\ acc_cards' = [i \in Slots |-> IF IsCardIndex(i, p) THEN NULL ELSE acc_cards[i]]
    /\ UNCHANGED <<reg_num, vmpath>>

(* Mutant: the block is freed but its slot keeps the pointer. *)
UnregDangling(p) ==
    /\ reg_num' = IF \E i \in Slots : HoldsPath(i, p) THEN reg_num - 1 ELSE reg_num
    /\ UNCHANGED <<acc_cards, vmpath>>

(* The loop of be_acc_card_unreg: the first card whose path matches is freed  *)
(* and its slot cleared.  It reports success as well when no card matches.    *)
Unreg(p) ==
    /\ \/ \E i \in Slots :
             /\ IsCardIndex(i, p)
             /\ acc_cards' = [acc_cards EXCEPT ![i] = NULL]
             /\ reg_num' = reg_num - 1
       \/ /\ \A i \in Slots : ~HoldsPath(i, p)
          /\ UNCHANGED <<acc_cards, reg_num>>
    /\ UNCHANGED vmpath

TableNext ==
    \E p \in Path :
        \/ \E c \in Card, i \in Slots : Reg(p, c, i)
        \/ Unreg(p)

TableSpec == TableInit /\ [][TableNext]_tableVars

-----------------------------------------------------------------------------

(* vmpath is a unique index (be_la_cmd.h): no two slots hold cards of one     *)
(* path, whatever holes earlier removals left in the array.                   *)
UniquePath ==
    \A i, j \in Slots :
        (acc_cards[i] # NULL /\ HoldsPath(j, vmpath[acc_cards[i]])) => i = j

(* reg_num is the number of occupied slots. *)
RegNumCounts == reg_num = Cardinality(Occupied)

(* The two facts every user of the table relies on. *)
TableConsistent == UniquePath /\ RegNumCounts

-----------------------------------------------------------------------------

(* What the table promises its callers: a set of paths of bounded size.       *)
Directory == INSTANCE CardDirectory
    WITH registered <- {vmpath[c] : c \in Registered},
         Capacity <- ACC_CARD_MAX_NUM

DirectorySpec == Directory!Spec
=============================================================================
