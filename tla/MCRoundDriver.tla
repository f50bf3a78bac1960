---------------------------- MODULE MCRoundDriver -----------------------------
(* Model-checking instance of RoundDriver for keygen() and                 *)
(* create_signers_and_pre_sign(): handle h speaks as party h.              *)
EXTENDS RoundDriver, KeyRefreshDistributed

MCIdent == [h \in Handles |-> h]

\* One message to every other party, in increasing party order.
PeerToPeer(h) == [i \in 1..N-1 |-> IF i < Ident[h] THEN i ELSE i + 1]

\* keygen: every party sends in every round, a broadcast or one message per peer.
KeygenBatches(h, r) == {<<Bcast>>, PeerToPeer(h)}

\* Batches with a broadcast that is not the first message of its batch.
MixedBatches(h, r) == {<<Bcast>>, PeerToPeer(h) \o <<Bcast>>}

\* key refresh: two existing key holders (party 2 moves to index 2 explicitly)
\* and one joining party, listed in party order.
SortedItems == <<ExistingItem(1, 1, None), ExistingItem(2, 1, 2), NewItem(3)>>

RefreshIdentSorted == RefreshIdent(SortedItems)

\* key refresh: key holders always broadcast; a joining party may be silent.
RefreshBatches(h, r) ==
    IF \E x \in DOMAIN SortedItems :
          SortedItems[x].kind = "New" /\ NewPartyIndex(SortedItems[x]) = Ident[h]
      THEN {<<>>, <<Bcast>>}
      ELSE {<<Bcast>>}
=============================================================================
