------------------------------- MODULE SignFlow -------------------------------
(***************************************************************************)
(* The dapp's signing pages: the redux session slice (store/session.ts),   *)
(* the page SignMessage (keys/sign/message/index.tsx) and its steps, the   *)
(* TransactionForm (keys/sign/transaction/transaction-form.tsx) that is    *)
(* step 0 of the transaction page, and InvitePeople (step 1 of both).      *)
(*                                                                         *)
(* Step 0 starts a handler that awaits the server: the message page's      *)
(* onMessage, or the form's onSubmit, which awaits eth_estimateGas and the *)
(* wasm prepareUnsignedTransaction before handing the transaction to the   *)
(* page's onTransaction.  Nothing disables step 0 while a handler waits,   *)
(* so the user can change the key share or submit again meanwhile.  The    *)
(* server (createGroupSession), the node (ethereum.request) and the wasm   *)
(* answer or reject in any order.  The transaction page, Compute and       *)
(* Signer are not in the repository: the transaction page's handler is     *)
(* modelled as onMessage with the transaction as its value, and Compute as *)
(* storing a proof for the candidate.                                      *)
(***************************************************************************)
EXTENDS Integers, Sequences, FiniteSets, DappUtils

CONSTANTS
    Items,       \* keyShareGroup.items: the party numbers of the local shares
    AddrInputs,  \* texts typed into the Address field, as Input records
    Amounts,     \* parseUnits(amount): an integer, or Junk when it throws
    Tips,        \* parseUnits(tip, "wei"): an integer, or Junk
    Junk,        \* model value: a text parseUnits rejects
    Null,        \* model value: null
    MaxSubmits   \* bound on the handlers started from step 0

\* A typed address: "0x" when prefixed, then digits; checksumOk is FALSE
\* when its letters mix cases that do not match the EIP-55 checksum.
Input == [prefixed : BOOLEAN, digits : Seq(HexDigit), checksumOk : BOOLEAN]

ASSUME Items \in Seq(Nat \ {0}) /\ Items # <<>>
ASSUME AddrInputs \subseteq Input /\ MaxSubmits \in Nat \ {0}

\* steps, and getStepComponent's components by activeStep.
Steps == <<"CreateMessage", "InvitePeople", "Compute", "SaveProof">>

\* handleNext: setActiveStep(prev => prev + 1)
HandleNext(step) == step + 1

-----------------------------------------------------------------------------
(* The session slice.  A group, a session and a candidate are named by the *)
(* handler that created them; 0 is one left by an earlier signing.         *)

Calls == 0..MaxSubmits

SignCandidate == [call : Calls, party : Range(Items)]

StoreStates == [group : Calls \cup {Null}, session : Calls \cup {Null},
                signCandidate : SignCandidate \cup {Null},
                signProof : Calls \cup {Null}]

InitialState == [group |-> Null, session |-> Null, signCandidate |-> Null,
                 signProof |-> Null]

SetGroup(st, g) == [st EXCEPT !.group = g]
SetSession(st, s) == [st EXCEPT !.session = s]
SetSignCandidate(st, c) == [st EXCEPT !.signCandidate = c]
SetSignProof(st, p) == [st EXCEPT !.signProof = p]
ClearSign(st) == [st EXCEPT !.signCandidate = Null, !.signProof = Null]

-----------------------------------------------------------------------------
(* TransactionForm's conversions.                                           *)

\* getAddress (@ethersproject/address): 40 hex digits, "0x" optional (it is
\* added when missing), a mixed-case text must match its checksum.  Returns
\* the digits of the checksummed "0x..." address `to`.
GetAddress(in) ==
    IF Len(in.digits) = 40 /\ in.checksumOk THEN in.digits ELSE Throw

\* The first error flag onSubmit sets, in the order it validates.
Validate(in, amount, tip) ==
    CASE GetAddress(in) = Throw -> {"address"}
      [] amount = Junk            -> {"amount"}
      [] tip = Junk               -> {"tip"}
      [] OTHER                    -> {}

\* The two address arguments of prepareUnsignedTransaction:
\* fromHexString(address.substring(2)) of the typed text, and
\* fromHexString(transaction.to.substring(2)).
AddressArgs(in) ==
    LET typed == IF in.prefixed THEN in.digits ELSE SubSeq(in.digits, 3, Len(in.digits))
    IN  <<FromHexString(typed), FromHexString(GetAddress(in))>>

-----------------------------------------------------------------------------
VARIABLES
    kind,           \* the page: "message" or "transaction"
    store,          \* the session slice
    mounted,        \* SignMessage's mount effect has run
    activeStep,     \* SignMessage's activeStep
    selectedParty,  \* SignMessage's selectedParty (Null until chosen)
    approved,       \* InvitePeople's approved
    fetched,        \* requests of TransactionForm's getBlockInfo answered
    fetchFailed,    \* one of them rejected
    errors,         \* the form's error flags that are set
    calls,          \* the handlers started from step 0, in order
    snackbar        \* an error snackbar was dispatched

vars == <<kind, store, mounted, activeStep, selectedParty, approved, fetched,
          fetchFailed, errors, calls, snackbar>>

\* Where a handler is:
\*   "invalid"  onSubmit returned after setting an error flag;
\*   "estimate" awaiting eth_estimateGas;   "prepare" awaiting the wasm;
\*   "badArgs"  an argument conversion threw, nothing catches it;
\*   "threw"    a request or the wasm rejected, nothing catches it;
\*   "session"  awaiting createGroupSession;  "grouped" its setGroup done;
\*   "created"  createGroupSession resolved, the handler not yet resumed;
\*   "done"     the candidate is stored and the step advanced;
\*   "failed"   createGroupSession threw and the snackbar shows it.
Stages == {"invalid", "estimate", "prepare", "badArgs", "threw", "session",
           "grouped", "created", "done", "failed"}

TxInput == [in : AddrInputs, amount : Amounts, tip : Tips]

Call == [stage : Stages, party : Range(Items), tx : TxInput \cup {Null},
         args : Seq(Seq(0..255)) \cup {Null}]

ShownParty_NoFallback == selectedParty

\* `selectedParty || items[0]`, read by the chip, stepProps and the handlers.
ShownParty == IF selectedParty = Null THEN Items[1] ELSE selectedParty

\* pendingBlock == null renders nothing: the form shows after getBlockInfo.
FormShown == fetched = 3

Init ==
    /\ kind \in {"message", "transaction"}
    /\ store \in {InitialState,
                  [group |-> 0, session |-> 0, signProof |-> 0,
                   signCandidate |-> [call |-> 0, party |-> Items[1]]]}
    /\ mounted = FALSE /\ activeStep = 0 /\ selectedParty = Null
    /\ approved = FALSE
    /\ fetched = 0 /\ fetchFailed = FALSE /\ errors = {}
    /\ calls = <<>> /\ snackbar = FALSE

\* useEffect(() => dispatch(clearSign()), []) after the first render.
Mount ==
    /\ ~mounted
    /\ mounted' = TRUE
    /\ store' = ClearSign(store)
    /\ UNCHANGED <<kind, activeStep, selectedParty, approved, fetched,
                   fetchFailed, errors, calls, snackbar>>

\* getBlockInfo: eth_gasPrice, eth_getTransactionCount, then the pending
\* block, each awaited and stored before the next is requested.
FetchAnswered ==
    /\ kind = "transaction" /\ fetched < 3 /\ ~fetchFailed
    /\ fetched' = fetched + 1
    /\ UNCHANGED <<kind, store, mounted, activeStep, selectedParty, approved,
                   fetchFailed, errors, calls, snackbar>>

\* getBlockInfo() is called without a catch: a rejected request ends it.
FetchFails ==
    /\ kind = "transaction" /\ fetched < 3 /\ ~fetchFailed
    /\ fetchFailed' = TRUE
    /\ UNCHANGED <<kind, store, mounted, activeStep, selectedParty, approved,
                   fetched, errors, calls, snackbar>>

\* onShareChange from the key share chooser of step 0.
ShareChange(p) ==
    /\ mounted /\ activeStep = 0
    /\ selectedParty' = p
    /\ UNCHANGED <<kind, store, mounted, activeStep, approved, fetched,
                   fetchFailed, errors, calls, snackbar>>

StepZeroReady == mounted /\ activeStep = 0 /\ Len(calls) < MaxSubmits

\* onMessage: hash the message, then await createGroupSession with
\* selectedParty || items[0] of this render.
OnMessage ==
    /\ kind = "message" /\ StepZeroReady
    /\ calls' = Append(calls, [stage |-> "session", party |-> ShownParty,
                               tx |-> Null, args |-> Null])
    /\ UNCHANGED <<kind, store, mounted, activeStep, selectedParty, approved,
                   fetched, fetchFailed, errors, snackbar>>

\* onSubmit: clear the flags, then getAddress, parseUnits(amount) and
\* parseUnits(tip, "wei"), returning at the first that throws.
OnSubmit(tx) ==
    /\ kind = "transaction" /\ StepZeroReady /\ FormShown
    /\ errors' = Validate(tx.in, tx.amount, tx.tip)
    /\ calls' = Append(calls,
                  [stage |-> IF errors' = {} THEN "estimate" ELSE "invalid",
                   party |-> ShownParty, tx |-> tx, args |-> Null])
    /\ UNCHANGED <<kind, store, mounted, activeStep, selectedParty, approved,
                   fetched, fetchFailed, snackbar>>

SetCall(i, stage, args) ==
    calls' = [calls EXCEPT ![i] = [@ EXCEPT !.stage = stage, !.args = args]]

OnlyCalls == UNCHANGED <<kind, store, mounted, activeStep, selectedParty,
                         approved, fetched, fetchFailed, errors, snackbar>>

\* eth_estimateGas answers; the arguments of prepareUnsignedTransaction are
\* evaluated: toBeHex of the value and of the fees throws on a negative one.
EstimateAnswered(i) ==
    /\ calls[i].stage = "estimate"
    /\ LET tx == calls[i].tx
       IN  IF ToBeHex(tx.amount) = Throw \/ ToBeHex(tx.tip) = Throw
             THEN SetCall(i, "badArgs", Null)
             ELSE SetCall(i, "prepare", AddressArgs(tx.in))
    /\ OnlyCalls

\* eth_estimateGas, or the wasm, rejects: onSubmit's promise rejects unseen.
RequestFails(i) ==
    /\ calls[i].stage \in {"estimate", "prepare"}
    /\ SetCall(i, "threw", calls[i].args)
    /\ OnlyCalls

\* The digest is back: props.onTransaction, whose page awaits
\* createGroupSession as onMessage does.
PrepareAnswered(i) ==
    /\ calls[i].stage = "prepare"
    /\ SetCall(i, "session", calls[i].args)
    /\ OnlyCalls

\* createGroupSession creates the group on the server and dispatches
\* setGroup, then creates the session and dispatches setSession: two
\* awaits, between which the other handler's answers may land.
GroupSet(i) ==
    /\ calls[i].stage = "session"
    /\ store' = SetGroup(store, i)
    /\ SetCall(i, "grouped", calls[i].args)
    /\ UNCHANGED <<kind, mounted, activeStep, selectedParty, approved, fetched,
                   fetchFailed, errors, snackbar>>

SessionSet(i) ==
    /\ calls[i].stage = "grouped"
    /\ store' = SetSession(store, i)
    /\ SetCall(i, "created", calls[i].args)
    /\ UNCHANGED <<kind, mounted, activeStep, selectedParty, approved, fetched,
                   fetchFailed, errors, snackbar>>

\* The await returns: the candidate is stored with the handler's party and
\* the page moves to the next step.
GroupSessionCreated(i) ==
    /\ calls[i].stage = "created"
    /\ store' = SetSignCandidate(store, [call |-> i, party |-> calls[i].party])
    /\ activeStep' = HandleNext(activeStep)
    /\ approved' = FALSE
    /\ SetCall(i, "done", calls[i].args)
    /\ UNCHANGED <<kind, mounted, selectedParty, fetched, fetchFailed, errors,
                   snackbar>>

\* createGroupSession rejects, before or after setGroup: the catch block
\* dispatches setSnackbar with severity "error".
GroupSessionFails(i) ==
    /\ calls[i].stage \in {"session", "grouped"}
    /\ snackbar' = TRUE
    /\ SetCall(i, "failed", calls[i].args)
    /\ UNCHANGED <<kind, store, mounted, activeStep, selectedParty, approved,
                   fetched, fetchFailed, errors>>

\* InvitePeople reads group.params, group.uuid, session.uuid and
\* signCandidate.value while rendering: it renders only when all are set.
InviteRenders ==
    store.group # Null /\ store.session # Null /\ store.signCandidate # Null

\* onApprove: setApproved(true).
Approve ==
    /\ activeStep = 1 /\ InviteRenders /\ ~approved
    /\ approved' = TRUE
    /\ UNCHANGED <<kind, store, mounted, activeStep, selectedParty, fetched,
                   fetchFailed, errors, calls, snackbar>>

\* The Next button under the invite links calls next.
InviteNext ==
    /\ activeStep = 1 /\ approved
    /\ activeStep' = HandleNext(activeStep)
    /\ approved' = FALSE
    /\ UNCHANGED <<kind, store, mounted, selectedParty, fetched, fetchFailed,
                   errors, calls, snackbar>>

\* Compute ends with a proof of the candidate and moves on.
ComputeDone ==
    /\ activeStep = 2 /\ store.signCandidate # Null
    /\ store' = SetSignProof(store, store.signCandidate.call)
    /\ activeStep' = HandleNext(activeStep)
    /\ UNCHANGED <<kind, mounted, selectedParty, approved, fetched, fetchFailed,
                   errors, calls, snackbar>>

Next ==
    \/ Mount \/ FetchAnswered \/ FetchFails
    \/ \E p \in Range(Items) : ShareChange(p)
    \/ OnMessage
    \/ \E tx \in TxInput : OnSubmit(tx)
    \/ \E i \in DOMAIN calls :
          \/ EstimateAnswered(i) \/ RequestFails(i) \/ PrepareAnswered(i)
          \/ GroupSet(i) \/ SessionSet(i) \/ GroupSessionCreated(i)
          \/ GroupSessionFails(i)
    \/ Approve \/ InviteNext \/ ComputeDone

Spec == Init /\ [][Next]_vars

-----------------------------------------------------------------------------
(* Properties.                                                              *)

TypeOK ==
    /\ kind \in {"message", "transaction"}
    /\ store \in StoreStates
    /\ mounted \in BOOLEAN /\ approved \in BOOLEAN /\ snackbar \in BOOLEAN
    /\ activeStep \in 0..(Len(Steps) + MaxSubmits)
    /\ selectedParty \in Range(Items) \cup {Null}
    /\ fetched \in 0..3 /\ fetchFailed \in BOOLEAN
    /\ errors \subseteq {"address", "amount", "tip"}
    /\ calls \in Seq(Call) /\ Len(calls) <= MaxSubmits

(* The wasm receives the recipient the form validated: the bytes           *)
(* fromHexString makes of transaction.to, written back by toHexString, are  *)
(* the digits of `to` -- every chunk parsed in place, none shifted.         *)
AddressBytesReadBack ==
    \A i \in DOMAIN calls :
        calls[i].args # Null =>
            ToHexString(calls[i].args[2]) = GetAddress(calls[i].tx.in)

(* What TransactionForm's validation accepts, the rest of onSubmit can use: *)
(* a submit that passed getAddress and both parseUnits never dies in an     *)
(* argument conversion, and prepareUnsignedTransaction receives two 20-byte *)
(* addresses.                                                               *)
AcceptedIsWellFormed ==
    \A i \in DOMAIN calls :
        /\ calls[i].stage # "badArgs"
        /\ calls[i].args # Null => \A j \in 1..2 : Len(calls[i].args[j]) = 20

=============================================================================
