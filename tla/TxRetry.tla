------------------------------- MODULE TxRetry -------------------------------
(***************************************************************************)
(* The transaction helpers of tests/test/test_functions.ts: one call of    *)
(* safeExecuteContract or safeSend on a SecretNetworkClient, with the      *)
(* safeQuery it falls back on.                                             *)
(*                                                                         *)
(* Each attempt sleeps, then broadcasts a fresh transaction (attempt a     *)
(* signs tx a).  The broadcast either returns its result, or throws.  The  *)
(* chain behind a throwing broadcast may have refused the transaction, or  *)
(* accepted it into the mempool (a network error or timeout after the      *)
(* broadcast), in which case it commits later.  When the error message     *)
(* has the form "tx not found: HASH" the helper asks for the transaction   *)
(* with safeQuery(client, {txHash}, 1, "tx"); any other message retries:   *)
(* without a bound in safeExecuteContract, while counter < 3 in safeSend.  *)
(* A query of type "tx" finds the transaction once it has committed; for  *)
(* a hash not yet in a block getTx() answers null or the node errors.  A   *)
(* "compute" query with {txHash} as parameters has no contract to ask and  *)
(* always fails.                                                           *)
(***************************************************************************)
EXTENDS Naturals, FiniteSets

CONSTANTS
    Helper,       \* "execute" (safeExecuteContract) or "send" (safeSend)
    MaxAttempts   \* bound on the broadcasts of safeExecuteContract's retry

ASSUME Helper \in {"execute", "send"} /\ MaxAttempts \in Nat \ {0, 1}

\* safeSend retries while counter < 3: three broadcasts at most.
SendAttempts == 3

\* The broadcasts the model lets one call make.
Attempts == 1..(IF Helper = "send" THEN SendAttempts ELSE MaxAttempts)

VARIABLES
    pc,         \* "broadcast", "query", "returned" or "threw"
    counter,    \* the attempt in progress (safeSend's counter)
    qcounter,   \* safeQuery's counter, after its increment
    qtype,      \* safeQuery's type argument
    pending,    \* transactions accepted by the chain, not yet committed
    committed,  \* transactions executed on chain
    result      \* what the helper returned: "none", "res", "txDetails", "null", "undefined"

vars == <<pc, counter, qcounter, qtype, pending, committed, result>>

TypeOK ==
    /\ pc \in {"broadcast", "query", "returned", "threw"}
    /\ counter \in Attempts
    /\ qcounter \in 0..3
    /\ qtype \in {"none", "tx", "compute"}
    /\ pending \subseteq Attempts /\ committed \subseteq Attempts
    /\ pending \cap committed = {}
    /\ result \in {"none", "res", "txDetails", "null", "undefined"}

\* First call: counter === undefined, so counter = 1.
Init ==
    /\ pc = "broadcast"
    /\ counter = 1
    /\ qcounter = 0
    /\ qtype = "none"
    /\ pending = {}
    /\ committed = {}
    /\ result = "none"

-----------------------------------------------------------------------------
(* The catch block on an error whose message is not "tx not found".        *)

\* safeExecuteContract: `return await safeExecuteContract(client, params,
\* options)`.  The model explores the retries up to MaxAttempts broadcasts.
RetryExecute ==
    /\ counter < MaxAttempts
    /\ counter' = counter + 1
    /\ UNCHANGED <<pc, result>>

\* safeSend: retry while counter < 3, else log and fall off the end.
RetrySend ==
    IF counter < SendAttempts
      THEN counter' = counter + 1 /\ UNCHANGED <<pc, result>>
      ELSE pc' = "returned" /\ result' = "undefined" /\ UNCHANGED counter

RetryOrGiveUp == IF Helper = "execute" THEN RetryExecute ELSE RetrySend

\* The catch block on "tx not found: HASH": sleep, then
\* safeQuery(client, { txHash }, 1, "tx"), whose counter becomes 2.
StartTxQuery ==
    /\ pc' = "query" /\ qcounter' = 2 /\ qtype' = "tx"
    /\ UNCHANGED <<counter, result>>

-----------------------------------------------------------------------------
(* One broadcast, by its outcome.                                          *)

\* The broadcast returns the DeliverTx result: the transaction executed.
BroadcastOk ==
    /\ pc = "broadcast"
    /\ committed' = committed \cup {counter}
    /\ pc' = "returned" /\ result' = "res"
    /\ UNCHANGED <<counter, qcounter, qtype, pending>>

\* The chain refuses the transaction (CheckTx error); the helper retries.
BroadcastRejected ==
    /\ pc = "broadcast"
    /\ RetryOrGiveUp
    /\ UNCHANGED <<qcounter, qtype, pending, committed>>

\* The transaction reaches the mempool but the call throws with another
\* message (connection reset, gateway timeout); the helper retries.
BroadcastLost ==
    /\ pc = "broadcast"
    /\ pending' = pending \cup {counter}
    /\ RetryOrGiveUp
    /\ UNCHANGED <<qcounter, qtype, committed>>

\* The broadcast times out waiting for the block: "tx not found: HASH".
BroadcastTimeout ==
    /\ pc = "broadcast"
    /\ pending' = pending \cup {counter}
    /\ StartTxQuery
    /\ UNCHANGED <<committed>>

-----------------------------------------------------------------------------
(* safeQuery on the transaction hash of the current attempt.               *)

Found == qtype = "tx" /\ counter \in committed

\* The query returns the transaction: the helper returns its details.
QueryOk ==
    /\ pc = "query"
    /\ Found
    /\ pc' = "returned" /\ result' = "txDetails"
    /\ UNCHANGED <<counter, qcounter, qtype, pending, committed>>

\* getTx() answers null for a hash no block holds yet: returned as txDetails.
QueryNull ==
    /\ pc = "query"
    /\ qtype = "tx" /\ counter \notin committed
    /\ pc' = "returned" /\ result' = "null"
    /\ UNCHANGED <<counter, qcounter, qtype, pending, committed>>

QueryFails_CounterPastEnd ==
    /\ pc = "query"
    /\ ~Found
    /\ IF qcounter <= 3
         THEN qcounter' = qcounter + 1 /\ qtype' = "compute" /\ UNCHANGED pc
         ELSE pc' = "threw" /\ UNCHANGED <<qcounter, qtype>>
    /\ UNCHANGED <<counter, pending, committed, result>>

\* The query throws (the node errors on an unknown hash; a "compute" query
\* without contract address always does): retried as safeQuery(client, params, counter), which
\* drops `type`, while counter < 3; then rethrown out of the helper.
QueryFails ==
    /\ pc = "query"
    /\ ~Found
    /\ IF qcounter < 3
         THEN qcounter' = qcounter + 1 /\ qtype' = "compute" /\ UNCHANGED pc
         ELSE pc' = "threw" /\ UNCHANGED <<qcounter, qtype>>
    /\ UNCHANGED <<counter, pending, committed, result>>

-----------------------------------------------------------------------------
(* The chain and the end of the call.                                      *)

\* An accepted transaction is included in a block.
Commit ==
    /\ \E t \in pending :
          /\ pending' = pending \ {t}
          /\ committed' = committed \cup {t}
    /\ UNCHANGED <<pc, counter, qcounter, qtype, result>>

\* The helper has returned or thrown.
Finished ==
    /\ pc \in {"returned", "threw"}
    /\ pending = {}
    /\ UNCHANGED vars

Next ==
    \/ BroadcastOk \/ BroadcastRejected \/ BroadcastLost \/ BroadcastTimeout
    \/ QueryOk \/ QueryNull \/ QueryFails
    \/ Commit
    \/ Finished

(* The helper is one async call chain: its own steps always run.  A         *)
(* transaction in the mempool is eventually included in a block.           *)
Fairness ==
    /\ WF_vars(BroadcastOk \/ BroadcastRejected \/ BroadcastLost \/ BroadcastTimeout)
    /\ WF_vars(QueryOk \/ QueryNull \/ QueryFails)
    /\ WF_vars(Commit)

Spec == Init /\ [][Next]_vars /\ Fairness

-----------------------------------------------------------------------------
(* Properties.                                                              *)

(* One call executes its transaction at most once: a retry must not        *)
(* broadcast again a transaction that the chain may still execute.         *)
AtMostOnce == Cardinality(pending \cup committed) <= 1

=============================================================================
