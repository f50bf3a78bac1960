------------------------- MODULE KeyRefreshDistributed -------------------------
(* The set-up half of keyRefreshDistributed(): which party index each      *)
(* KeyRefresh handle speaks as.  A handle is created per item, in item     *)
(* order; an Existing item keeps its key's index unless it names an        *)
(* updated_party_index, a New item joins with its party_index.  The round  *)
(* driver then routes by position (receiver - 1), see RoundDriver.         *)
EXTENDS Naturals, Sequences

CONSTANT None   \* an absent updated_party_index

ExistingItem(i, t, upd) == [kind |-> "Existing", i |-> i, t |-> t, updated |-> upd]
NewItem(j)              == [kind |-> "New", party_index |-> j]

\* new_party_index of an item: updated_party_index ?? key.i, or party_index.
NewPartyIndex(item) ==
    IF item.kind = "Existing"
      THEN IF item.updated # None THEN item.updated ELSE item.i
      ELSE item.party_index

\* old_to_new: the [key.i, new_party_index] pairs of the Existing items.
OldToNew(items) ==
    {<<items[x].i, NewPartyIndex(items[x])>> :
        x \in {y \in DOMAIN items : items[y].kind = "Existing"}}

\* Handle at position x of keyRefreshes speaks as NewPartyIndex(items[x]).
RefreshIdent(items) == [x \in DOMAIN items |-> NewPartyIndex(items[x])]
=============================================================================
