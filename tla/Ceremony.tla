------------------------------ MODULE Ceremony -------------------------------
(***************************************************************************)
(* What a round driver promises (spec sections 4.1, 5 and 7), without its  *)
(* loops: N handles go through synchronised rounds.  Each message of a     *)
(* round reaches every handle it is meant for, at most once, and a handle  *)
(* proceeds only when every message of its round meant for it has reached  *)
(* it and no other handle is a round behind.  When every handle's last     *)
(* batch is empty the ceremony has converged; then create() yields the     *)
(* artifacts of handles that finished the protocol, or the caller takes    *)
(* the handles.  Any failure aborts the whole ceremony.                    *)
(*                                                                         *)
(* Which messages a handle emits is the engine's business: Batches(h, r)   *)
(* are the receiver lists it may return in round r, as in RoundDriver.     *)
(* The order of a batch and the order of delivery are not part of the     *)
(* promise.                                                                *)
(***************************************************************************)
EXTENDS Naturals, Sequences

CONSTANTS N, Ident, MaxRounds, Batches(_, _), Bcast

Handles == 1..N

VARIABLES
    round,    \* protocol rounds each handle has gone through
    sent,     \* the messages of each handle's last batch
    got,      \* the messages each handle received since it last proceeded
    keys,     \* handles whose artifact was created
    status,   \* "running", "converged", "done" or "failed"
    creates   \* the caller wants artifacts (keygen, refresh) or handles (presign)

cvars == <<round, sent, got, keys, status, creates>>

\* The handles a message is meant for: its receiver, or everybody but its sender.
Addressees(m) ==
    {h \in Handles : IF m.receiver = Bcast THEN Ident[h] # m.sender
                                           ELSE Ident[h] = m.receiver}

AllSent == UNION {sent[h] : h \in Handles}

\* The messages a handle must have before it may go on to the next round.
Owed(h) == {m \in AllSent : m.round = round[h] /\ h \in Addressees(m)}

Stamp(h, b) ==
    {[round    |-> IF round[h] < MaxRounds THEN round[h] + 1 ELSE MaxRounds,
      sender   |-> Ident[h],
      receiver |-> b[i],
      slot     |-> i] : i \in DOMAIN b}

Outputs(h) ==
    IF round[h] < MaxRounds THEN {Stamp(h, b) : b \in Batches(h, round[h] + 1)}
                            ELSE {{}}

CInit ==
    /\ round = [h \in Handles |-> 0]
    /\ sent = [h \in Handles |-> {}]
    /\ got = [h \in Handles |-> {}]
    /\ keys = {}
    /\ status = "running"
    /\ creates \in BOOLEAN

\* One message reaches some of its addressees, each of them once.
Deliver(m, T) ==
    /\ status = "running"
    /\ m \in AllSent
    /\ m.round \in {round[h] : h \in T}
    /\ T \subseteq {h \in Addressees(m) : m \notin got[h] /\ round[h] = m.round}
    /\ got' = [h \in Handles |-> IF h \in T THEN got[h] \cup {m} ELSE got[h]]
    /\ UNCHANGED <<round, sent, keys, status, creates>>

\* The round barrier: h has all it is owed and nobody is behind it.
Advance(h) ==
    /\ status = "running"
    /\ Owed(h) \subseteq got[h]
    /\ \A g \in Handles : round[h] <= round[g]
    /\ \E out \in Outputs(h) : sent' = [sent EXCEPT ![h] = out]
    /\ round' = [round EXCEPT ![h] = IF @ < MaxRounds THEN @ + 1 ELSE @]
    /\ got' = [got EXCEPT ![h] = {}]
    /\ UNCHANGED <<keys, status, creates>>

\* Every handle proceeded and none had anything to send.
Converge ==
    /\ status = "running"
    /\ \A h \in Handles : sent[h] = {} /\ got[h] = {}
    /\ status' = IF creates THEN "converged" ELSE "done"
    /\ UNCHANGED <<round, sent, got, keys, creates>>

\* create() of a finished handle; the last artifact ends the ceremony.
CreateKey(h) ==
    /\ status = "converged"
    /\ round[h] = MaxRounds
    /\ keys' = keys \cup {h}
    /\ status' = IF keys' = Handles THEN "done" ELSE status
    /\ UNCHANGED <<round, sent, got, creates>>

\* All or nothing: any failure ends the ceremony with nothing returned.
Abort ==
    /\ status \in {"running", "converged"}
    /\ status' = "failed"
    /\ UNCHANGED <<round, sent, got, keys, creates>>

CNext ==
    \/ \E m \in AllSent : \E T \in SUBSET Handles \ {{}} : Deliver(m, T)
    \/ \E h \in Handles : Advance(h)
    \/ Converge
    \/ \E h \in Handles : CreateKey(h)
    \/ Abort

CSpec == CInit /\ [][CNext]_cvars

=============================================================================
