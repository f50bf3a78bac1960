-------------------------------- MODULE Proofs --------------------------------
(***************************************************************************)
(* The message proofs of a key (keys/message-proofs.tsx), after the        *)
(* signing pages of SignFlow.  The SaveProof step stores the proof that    *)
(* Compute left in the session slice; the key's page mounts MessageProofs, *)
(* whose effect dispatches loadMessageProofs(); the list shows a sorted    *)
(* copy of the proofs slice's messages[address], newest first, each with   *)
(* an Export and a Delete button; Delete opens the confirm dialog with     *)
(* [address, proof].                                                        *)
(*                                                                         *)
(* SaveProof, the proofs slice (store/proofs), its thunks and the proof    *)
(* dialog are not in the repository: saving appends to the snap's storage, *)
(* loading reads the storage when dispatched and replaces the slice's list *)
(* when it answers, a confirmed delete removes the proof from both.        *)
(* Leaving the signing page for the key's page stops the signing steps.    *)
(* Export only downloads a file.                                           *)
(***************************************************************************)
EXTENDS SignFlow, TLC

CONSTANT Times   \* proof.timestamp values (Date.now() at save)

ASSUME Times \subseteq Nat

Proof == [id : Calls, timestamp : Times]

VARIABLES
    page,       \* "sign" (SignFlow's page) or "key" (the key's page)
    saved,      \* the proofs in the snap's storage for this address
    messages,   \* the proofs slice's messages[address]: Null or a list
    loadFrom,   \* the storage a pending loadMessageProofs() read, or Null
    dialog      \* the proof of the open delete dialog's request, or Null

pvars == <<page, saved, messages, loadFrom, dialog>>

SortTimestamp_Swapped(a, b) ==
    CASE a.timestamp < b.timestamp -> 1
      [] a.timestamp > b.timestamp -> -1
      [] OTHER                     -> 0

\* sortTimestamp (utils.ts): compare by timestamp.
SortTimestamp(a, b) ==
    CASE a.timestamp < b.timestamp -> -1
      [] a.timestamp > b.timestamp -> 1
      [] OTHER                     -> 0

\* items.sort(sortTimestamp): Array.prototype.sort is stable, so ties keep
\* their order.
SortByTimestamp(s) ==
    LET order == SortSeq([i \in DOMAIN s |-> i],
                         LAMBDA i, j : SortTimestamp(s[i], s[j]) < 0
                                       \/ (SortTimestamp(s[i], s[j]) = 0 /\ i < j))
    IN  [k \in DOMAIN s |-> s[order[k]]]

\* (messages[address] || []).slice(0)
ListItems == IF messages = Null THEN <<>> ELSE messages

\* items.sort(sortTimestamp).reverse(); an empty list renders nothing.
Shown == Reverse(SortByTimestamp(ListItems))

\* The orders the slice may hold a stored set in.
Orderings(S) == {f \in [1..Cardinality(S) -> S] : Range(f) = S}

\* The signing page's initial state; an earlier signing may have left a
\* proof (id 0), which the slice holds when the key's page was visited
\* before in this session.
PInit ==
    /\ Init
    /\ page = "sign"
    /\ saved \in {{}, {[id |-> 0, timestamp |-> Min(Times)]}}
    /\ messages \in {Null} \cup Orderings(saved)
    /\ loadFrom = Null
    /\ dialog = Null

\* SaveProof: the proof of the candidate, stamped with the time of saving.
SaveProof ==
    /\ page = "sign" /\ activeStep = 3 /\ store.signProof # Null
    /\ \A q \in saved : q.id # store.signProof
    /\ \E t \in Times :
          /\ \A q \in saved : q.timestamp <= t
          /\ saved' = saved \cup {[id |-> store.signProof, timestamp |-> t]}
    /\ UNCHANGED <<page, messages, loadFrom, dialog>>

\* The key's page mounts MessageProofs: its effect dispatches
\* loadMessageProofs(), which reads the storage.
ListMount ==
    /\ page = "sign"
    /\ page' = "key"
    /\ loadFrom' = saved
    /\ UNCHANGED <<saved, messages, dialog>>

\* loadMessageProofs is fulfilled: the slice's list is what it read.
LoadAnswered ==
    /\ loadFrom # Null
    /\ messages' \in Orderings(loadFrom)
    /\ loadFrom' = Null
    /\ UNCHANGED <<page, saved, dialog>>

\* onDeleteMessageProof: setDialogVisible with [address, proof] of the row.
OnDeleteMessageProof(k) ==
    /\ page = "key" /\ dialog = Null /\ k \in DOMAIN Shown
    /\ dialog' = Shown[k]
    /\ UNCHANGED <<page, saved, messages, loadFrom>>

\* The dialog's OK: the proof goes from the storage and from the slice.
DeleteConfirmed ==
    /\ dialog # Null
    /\ saved' = saved \ {dialog}
    /\ messages' = Remove(messages, dialog)
    /\ dialog' = Null
    /\ UNCHANGED <<page, loadFrom>>

DeleteCancelled ==
    /\ dialog # Null
    /\ dialog' = Null
    /\ UNCHANGED <<page, saved, messages, loadFrom>>

PNext ==
    \/ SaveProof \/ ListMount \/ LoadAnswered
    \/ \E k \in 1..Cardinality(saved) + 1 : OnDeleteMessageProof(k)
    \/ DeleteConfirmed \/ DeleteCancelled

\* The signing steps run while the signing page is shown.
DappNext ==
    \/ page = "sign" /\ Next /\ UNCHANGED pvars
    \/ PNext /\ UNCHANGED vars

DappSpec == PInit /\ [][DappNext]_<<vars, pvars>>

-----------------------------------------------------------------------------
(* Properties.                                                              *)

(* The list shows the newest proof first: sortTimestamp orders the copy   *)
(* oldest first and reverse() turns it, whatever order the load gave and  *)
(* after saves and deletes.                                                *)
ShownNewestFirst ==
    \A i, j \in DOMAIN Shown : i < j => Shown[i].timestamp >= Shown[j].timestamp

=============================================================================
