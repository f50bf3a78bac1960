----------------------------- MODULE RoundDriver ------------------------------
(***************************************************************************)
(* The in-process round driver shared by keygen(), keyRefreshDistributed() *)
(* and create_signers_and_pre_sign() (tests/test/*.ts).  N opaque protocol *)
(* handles are created, then the recursive handleRound() first routes the  *)
(* previous round's outgoing batches to handleIncoming() -- a message with *)
(* a receiver to handle receiver-1, a message without one to every handle  *)
(* whose 1-based position differs from its sender -- and then calls        *)
(* proceed() on every handle in index order, storing each returned batch.  *)
(* It recurses until every stored batch is empty.  keygen and key refresh  *)
(* then call create() on every handle; presign returns the handles.        *)
(*                                                                         *)
(* The cryptographic engine behind a handle is an external collaborator:   *)
(* it is modelled by its interface only.  proceed() of handle h in its     *)
(* r-th round returns a batch whose receiver list is one of Batches(h, r); *)
(* after MaxRounds rounds it returns an empty batch and create() succeeds; *)
(* create() before that throws NotReady.  With EngineFails, any            *)
(* handleIncoming() or proceed() call may throw (ProtocolViolation).       *)
(***************************************************************************)
EXTENDS Naturals, Sequences, FiniteSets, Functions, TLC

CONSTANTS
    N,                 \* handles created (params.parties / selectedPartyIds.length)
    Ident,             \* Ident[h]: the party index handle h speaks as (its `sender`)
    MaxRounds,         \* rounds after which proceed() returns no more messages
    Batches(_, _),     \* Batches(h, r): receiver lists handle h may emit in round r
    Bcast,             \* model value: the unset `receiver` of a broadcast message
    CreatesArtifacts,  \* the drivers run: TRUE keygen / key refresh call create(),
                       \* FALSE presign returns the handles
    EngineFails        \* handleIncoming() / proceed() may throw

Handles == 1..N
Parties == 1..N

ASSUME N \in Nat \ {0} /\ MaxRounds \in Nat \ {0}
ASSUME Ident \in [Handles -> Parties]
ASSUME CreatesArtifacts \subseteq BOOLEAN /\ EngineFails \in BOOLEAN
ASSUME \A h \in Handles, r \in 1..MaxRounds :
          Batches(h, r) \subseteq Seq(Parties \cup {Bcast})

(* A round message: `slot` is its position in the batch and stands for its *)
(* opaque content, so two messages of one batch are never equal.           *)
Message == [round : 1..MaxRounds, sender : Parties,
            receiver : Parties \cup {Bcast}, slot : Nat \ {0}]

VARIABLES
    stage,      \* where the driver is: handleRound entry, the two loops, create loop
    sIdx,       \* party_signer_idx + 1 of the delivery loop
    mIdx,       \* party_round_msg_idx + 1 of the delivery loop
    pIdx,       \* p + 1 of the proceed loop and of the create loop
    outgoing,   \* partyToOutgoingRoundMsgs: handle -> its last batch ({} at first)
    inbox,      \* messages handed to each handle since its last proceed()
    rounds,     \* proceed() calls that advanced each handle's protocol
    artifacts,  \* handles whose create() returned
    creates     \* the test called keygen()/keyRefreshDistributed(), not presign

vars == <<stage, sIdx, mIdx, pIdx, outgoing, inbox, rounds, artifacts, creates>>

Stages == {"start", "deliver", "proceed", "check", "create", "done", "failed"}

TypeOK ==
    /\ stage \in Stages
    /\ sIdx \in 1..N /\ mIdx \in Nat \ {0} /\ pIdx \in 1..N+1
    /\ DOMAIN outgoing \subseteq Handles
    /\ \A h \in DOMAIN outgoing : outgoing[h] \in Seq(Message)
    /\ inbox \in [Handles -> Seq(Message)]
    /\ rounds \in [Handles -> 0..MaxRounds]
    /\ artifacts \subseteq Handles
    /\ creates \in BOOLEAN

-----------------------------------------------------------------------------
(* The handle: what proceed() returns and how it advances.                  *)

\* The receiver lists proceed() may return next: none once the protocol is over.
NextBatches(h) ==
    IF rounds[h] < MaxRounds THEN Batches(h, rounds[h] + 1) ELSE {<<>>}

\* The batch built from a receiver list: messages stamped with the handle's party index.
Emit(h, b) ==
    [i \in DOMAIN b |-> [round    |-> IF rounds[h] < MaxRounds THEN rounds[h] + 1
                                                                ELSE MaxRounds,
                         sender   |-> Ident[h],
                         receiver |-> b[i],
                         slot     |-> i]]

Complete(h) == rounds[h] = MaxRounds

-----------------------------------------------------------------------------
(* The driver.                                                               *)

Init ==
    /\ stage = "start"
    /\ sIdx = 1 /\ mIdx = 1 /\ pIdx = 1
    /\ outgoing = <<>>
    /\ inbox = [h \in Handles |-> <<>>]
    /\ rounds = [h \in Handles |-> 0]
    /\ artifacts = {}
    /\ creates \in CreatesArtifacts

\* handleRound() entry: deliver only when some batch was stored before.
HandleRound ==
    /\ stage = "start"
    /\ IF DOMAIN outgoing # {}
         THEN stage' = "deliver" /\ sIdx' = 1 /\ mIdx' = 1 /\ UNCHANGED pIdx
         ELSE stage' = "proceed" /\ pIdx' = 1 /\ UNCHANGED <<sIdx, mIdx>>
    /\ UNCHANGED <<outgoing, inbox, rounds, artifacts>>

Pending == outgoing[sIdx][mIdx]

\* A message with a receiver goes to the handle at index receiver - 1.
DeliverUnicast ==
    /\ stage = "deliver"
    /\ mIdx <= Len(outgoing[sIdx])
    /\ Pending.receiver # Bcast
    /\ inbox' = [inbox EXCEPT ![Pending.receiver] = Append(@, Pending)]
    /\ mIdx' = mIdx + 1
    /\ UNCHANGED <<stage, sIdx, pIdx, outgoing, rounds, artifacts>>

DeliverBroadcast_ToSender ==
    /\ stage = "deliver"
    /\ mIdx <= Len(outgoing[sIdx])
    /\ Pending.receiver = Bcast
    /\ inbox' = [h \in Handles |-> Append(inbox[h], outgoing[sIdx][1])]
    /\ mIdx' = mIdx + 1
    /\ UNCHANGED <<stage, sIdx, pIdx, outgoing, rounds, artifacts>>

\* A message without receiver: the code hands element [0] of the batch, not
\* the current one, to every handle whose index + 1 differs from its sender.
DeliverBroadcast ==
    /\ stage = "deliver"
    /\ mIdx <= Len(outgoing[sIdx])
    /\ Pending.receiver = Bcast
    /\ LET m == outgoing[sIdx][1]
       IN  inbox' = [h \in Handles |->
                        IF h # m.sender THEN Append(inbox[h], m) ELSE inbox[h]]
    /\ mIdx' = mIdx + 1
    /\ UNCHANGED <<stage, sIdx, pIdx, outgoing, rounds, artifacts>>

NextSender_SkipsLast ==
    /\ stage = "deliver"
    /\ mIdx > Len(outgoing[sIdx])
    /\ IF sIdx < N - 1
         THEN sIdx' = sIdx + 1 /\ mIdx' = 1 /\ UNCHANGED <<stage, pIdx>>
         ELSE stage' = "proceed" /\ pIdx' = 1 /\ UNCHANGED <<sIdx, mIdx>>
    /\ UNCHANGED <<outgoing, inbox, rounds, artifacts>>

NextSender_PastEnd ==
    /\ stage = "deliver"
    /\ mIdx > Len(outgoing[sIdx])
    /\ IF sIdx <= N
         THEN sIdx' = sIdx + 1 /\ mIdx' = 1 /\ UNCHANGED <<stage, pIdx>>
         ELSE stage' = "proceed" /\ pIdx' = 1 /\ UNCHANGED <<sIdx, mIdx>>
    /\ UNCHANGED <<outgoing, inbox, rounds, artifacts>>

\* End of one sender's batch; after the last sender the proceed loop starts.
NextSender ==
    /\ stage = "deliver"
    /\ mIdx > Len(outgoing[sIdx])
    /\ IF sIdx < N
         THEN sIdx' = sIdx + 1 /\ mIdx' = 1 /\ UNCHANGED <<stage, pIdx>>
         ELSE stage' = "proceed" /\ pIdx' = 1 /\ UNCHANGED <<sIdx, mIdx>>
    /\ UNCHANGED <<outgoing, inbox, rounds, artifacts>>

\* proceed() on handle pIdx; its batch replaces partyToOutgoingRoundMsgs[p].
Proceed ==
    /\ stage = "proceed"
    /\ pIdx <= N
    /\ \E b \in NextBatches(pIdx) :
          outgoing' = (pIdx :> Emit(pIdx, b)) @@ outgoing
    /\ rounds' = [rounds EXCEPT ![pIdx] = IF @ < MaxRounds THEN @ + 1 ELSE @]
    /\ inbox' = [inbox EXCEPT ![pIdx] = <<>>]
    /\ pIdx' = pIdx + 1
    /\ stage' = IF pIdx = N THEN "check" ELSE "proceed"
    /\ UNCHANGED <<sIdx, mIdx, artifacts>>

AllBatchesEmpty_LastOnly == outgoing[N] = <<>>

AllBatchesEmpty_Inverted == ~ \A h \in Handles : outgoing[h] = <<>>

\* Object.values(partyToOutgoingRoundMsgs).every(msgs => msgs.length === 0)
AllBatchesEmpty == \A h \in Handles : outgoing[h] = <<>>

\* Recurse unless every batch is empty; then create() or return the handles.
CheckTermination ==
    /\ stage = "check"
    /\ IF AllBatchesEmpty
         THEN IF creates
                THEN stage' = "create" /\ pIdx' = 1
                ELSE stage' = "done" /\ UNCHANGED pIdx
         ELSE stage' = "start" /\ UNCHANGED pIdx
    /\ UNCHANGED <<sIdx, mIdx, outgoing, inbox, rounds, artifacts>>

\* keys.push(handles[p].create()): NotReady before the protocol is over.
Create ==
    /\ stage = "create"
    /\ pIdx <= N
    /\ IF Complete(pIdx)
         THEN /\ artifacts' = artifacts \cup {pIdx}
              /\ pIdx' = pIdx + 1
              /\ stage' = IF pIdx = N THEN "done" ELSE "create"
         ELSE /\ stage' = "failed"
              /\ UNCHANGED <<artifacts, pIdx>>
    /\ UNCHANGED <<sIdx, mIdx, outgoing, inbox, rounds>>

\* handleIncoming() or proceed() throws: nothing catches it, the call unwinds.
EngineThrows ==
    /\ EngineFails
    /\ \/ stage = "deliver" /\ mIdx <= Len(outgoing[sIdx])
       \/ stage = "proceed"
    /\ stage' = "failed"
    /\ UNCHANGED <<sIdx, mIdx, pIdx, outgoing, inbox, rounds, artifacts>>

\* The function has returned or thrown.
Returned ==
    /\ stage \in {"done", "failed"}
    /\ UNCHANGED vars

\* Which driver runs is fixed for the whole call.
Next ==
    /\ UNCHANGED creates
    /\ \/ HandleRound
       \/ DeliverUnicast
       \/ DeliverBroadcast
       \/ NextSender
       \/ Proceed
       \/ CheckTermination
       \/ Create
       \/ EngineThrows
       \/ Returned

\* The driver is one synchronous call: it never stops while it can step.
Fairness ==
    WF_vars(/\ UNCHANGED creates
            /\ \/ HandleRound \/ DeliverUnicast \/ DeliverBroadcast \/ NextSender
               \/ Proceed \/ CheckTermination \/ Create)

Spec == Init /\ [][Next]_vars /\ Fairness

-----------------------------------------------------------------------------
(* Properties.                                                               *)

\* Every message stored in the batches of the last round.
Sent == UNION {Range(outgoing[h]) : h \in DOMAIN outgoing}

\* The handles a message is meant for (spec section 3): the one whose party
\* index is its receiver, or every handle but its sender's.
MeantFor(m) ==
    {h \in Handles : IF m.receiver = Bcast THEN Ident[h] # m.sender
                                           ELSE Ident[h] = m.receiver}

Occurrences(s, m) == Cardinality({i \in DOMAIN s : s[i] = m})

(* Exact delivery (spec sections 3 and 8): when handleRound() reaches the  *)
(* proceed loop, each handle has been handed every message of the last     *)
(* round meant for it exactly once and nothing else -- a broadcast reached *)
(* N-1 handles, a unicast exactly its receiver.  It relates every sender's *)
(* stored batch to every receiver's inbox after the whole delivery loop.   *)
ExactDelivery ==
    (stage = "proceed" /\ pIdx = 1) =>
        \A h \in Handles :
            /\ Range(inbox[h]) \subseteq Sent
            /\ \A m \in Sent :
                  Occurrences(inbox[h], m) = IF h \in MeantFor(m) THEN 1 ELSE 0

(* Convergence is completion: once the termination check in handleRound() *)
(* lets the driver stop, every handle has run its protocol to the end, so  *)
(* create() cannot throw NotReady and presign returns finished signers.    *)
(* Breaks if the check stops on a round in which only some handles (or     *)
(* only the last one) had nothing to send.                                 *)
ConvergedMeansComplete ==
    stage \in {"create", "done"} => \A h \in Handles : Complete(h)

(* The driver implements the ceremony of spec sections 4.1 and 5 (module *)
(* Ceremony): under the mapping below, every step of handleRound(), the    *)
(* create() loop and the throws is a step of the abstract ceremony or      *)
(* leaves it unchanged.  This is the round barrier: no handle proceeds     *)
(* before each message of its round meant for it was handed to it, none    *)
(* proceeds a round ahead of another, nothing is handed to a handle it is  *)
(* not meant for, and artifacts come only after every batch was empty.     *)
CeremonyStatus ==
    CASE stage = "failed" -> "failed"
      [] stage = "done"   -> "done"
      [] stage = "create" -> "converged"
      [] OTHER            -> "running"

Abstract == INSTANCE Ceremony
    WITH round  <- rounds,
         sent   <- [h \in Handles |-> IF h \in DOMAIN outgoing
                                        THEN Range(outgoing[h]) ELSE {}],
         got    <- [h \in Handles |-> Range(inbox[h])],
         keys   <- artifacts,
         status <- CeremonyStatus

ImplementsCeremony == Abstract!CSpec

(* The ceremony completes (spec section 8): without engine errors, the     *)
(* recursion of handleRound() ends and every handle produced its artifact. *)
Completes ==
    <>(stage = "done" /\ (creates => artifacts = Handles))

=============================================================================
