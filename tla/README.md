# TLA+ models of signet-account

This directory holds TLA+ models of the concurrent and multi-party parts of
the repository. TLC checks them. `PROJECT.json` lists the following:

- every component, with its status;
- every TLC run and what it shows;
- a mutant for every property that is checked;
- the source lines each definition translates;
- the hazards of the code.

## The system

The repository has two halves.

- **Contract tests** live under `src/contracts/secret-share-signer-local/tests/test`.
  - The integration tests deploy the signer and account contracts.
  - They produce threshold-ECDSA keys through an MPC engine (`@mpc-sdk/mpc-bindings`, a wasm module).
    - The engine's interface is `mpc-ecdsa-wasm/mpc_ecdsa_wasm.d.ts`.
    - The engine itself is not in the repository.
  - Three drivers run the engine's round protocol locally:
    - `keygen.ts`
    - `key_refresh_distributed.ts`
    - `create_signers_and_pre_sign.ts`
  - Each driver creates one engine handle per party.
  - Each then repeats the same round in `handleRound()`:
    1. Deliver every message stored in the last round. A message with a `receiver` goes to the handle at `receiver - 1`. A broadcast goes to every handle except its sender.
    2. Call `proceed()` on each handle and store the batch it returns.
    3. Recurse unless every batch is empty.
  - `keygen` and key refresh then call `create()` on every handle.
  - Transactions are wrapped in retry helpers (`test_functions.ts`).
  - Deployments are recorded in a `ContractDict` that is written to JSON files (`client.ts`, `integration_setup.ts`).
- **The snap's client and dapp** live under `src/packages/tss-snap`.
  - `WebSocketClient` (`packages/client/src/clients/websocket.ts`) is a JSON-RPC client over a browser WebSocket.
    - It queues messages while disconnected.
    - It reconnects from `notify()`.
    - It resolves `rpc()` promises from `onmessage`.
  - The dapp (`snap/dapp/src`) is React UI over a redux session store (`store/session.ts`).
    - Signing a message or a transaction walks four steps: create, invite people, compute, save proof (`keys/sign/message/index.tsx`).
    - Step 0 creates a group and a session on the relay (`createGroupSession`, which dispatches `setGroup` and `setSession` after separate server answers) and then stores the sign candidate. Step 1 (`invite-people.tsx`) reads all three from the store.
    - For a transaction, `transaction-form.tsx` fetches the nonce, gas price and pending block once, validates the inputs, then awaits the wallet's gas estimate and the wasm `prepareUnsignedTransaction`.
    - The hex helpers `fromHexString` and `toHexString` (`utils.ts`) turn the address text into the bytes the signer gets.

## Modules

| Module | Models | State and actions |
|---|---|---|
| `RoundDriver` | `handleRound()` and the `create()` loop of the three drivers; the engine by its interface | Variables: `outgoing` (`partyToOutgoingRoundMsgs`), `inbox` (what each handle's `handleIncoming` received this round), `rounds` (the engine's round per handle), `artifacts` (keys created), and the loop counters `stage`, `sIdx`, `mIdx`, `pIdx`. Each action is one loop iteration of the code: `HandleRound`, `DeliverUnicast`, `DeliverBroadcast`, `NextSender`, `Proceed`, `CheckTermination`, `Create`, `EngineThrows`. |
| `Ceremony` | the abstract round ceremony of spec sections 4.1, 5 and 7 | Variables: `round`, `sent` (each handle's last batch, as a set), `got` (received since the handle last proceeded), `keys`, `status`, `creates`. Actions: `Deliver` (a message reaches some of its addressees, once each), `Advance` (the round barrier), `Converge`, `CreateKey`, `Abort`. There are no loops and no order. |
| `KeyRefreshDistributed` | the set-up half of `keyRefreshDistributed()` | Operators: `NewPartyIndex`, `OldToNew`, and `RefreshIdent` (the party index each handle speaks as). |
| `MCRoundDriver` | model values for the three drivers | `KeygenBatches`, `RefreshBatches` and `MixedBatches` are the receiver lists `proceed()` may return per handle and round. It also holds the refresh items, sorted by new party index. |
| `WebSocketClient` | `WebSocketClient` | Variables are the fields of the class (`messageId`, the keys of `messageRequests`, `connected`, `queue`, `websocket` as the index `current`), plus: the readyState of every socket created, the messages on the wire and the replies per socket, the settled promises, and messages that `send()` dropped. Actions: `Connect`, `NotifyNote`, `Rpc`, and per socket `Open`, `FailOpen`, `Drop`, `Closed`, `Serve`, `Message`. |
| `MCWebSocketClient` | model values | `Notes` for `notify()` without a reply. |
| `TxRetry` | `safeExecuteContract`, `safeSend` and the `safeQuery("tx")` fallback (test_functions.ts) | Variables: `counter` (the attempt in progress), `qcounter` and `qtype` (safeQuery's arguments), `pending` and `committed` (the transactions on the chain, by attempt), `pc`, `result`. Each broadcast outcome is an action: `BroadcastOk`, `BroadcastRejected`, `BroadcastLost` (accepted, then the call throws), `BroadcastTimeout` ("tx not found"). The query outcomes are `QueryOk`, `QueryNull` and `QueryFails`. The chain acts through `Commit`. |
| `DappUtils` | `fromHexString`, `toHexString`, `getChainName` and `humanFileSize` (utils.ts) and ethers' `toBeHex`, as operators | A hex text is the sequence of its digit values; a conversion that throws gives `Throw`. `humanFileSize`'s do/while loop is the RECURSIVE `Divisions`, on exact quotients. Two ASSUMEs, which TLC checks whenever it loads the module, test the helpers that no page calls: `ChainNamesFound` (every chain of the table is found by its id through `toBeHex`'s padding) and `FileSizeInRange` (the number shown is at least 1 and below the threshold of its unit, at the inputs where the rounding turns). |
| `SignFlow` | the session slice, `SignMessage`, `InvitePeople` and `TransactionForm` | Variables: `kind` (message or transaction page), `store` (the slice: `group`, `session`, `signCandidate`, `signProof`), `mounted`, `activeStep`, `selectedParty`, `approved`, `fetched` (the three `getBlockInfo` answers), `fetchFailed`, `errors` (the three error flags), `calls` (one record per submit: its stage, party, inputs and address arguments), `snackbar`. Store values name the submit that produced them. Actions: `Mount` (the `clearSign` effect), `FetchAnswered`, `FetchFails`, `ShareChange`, `OnMessage`, `OnSubmit`, `EstimateAnswered`, `RequestFails`, `PrepareAnswered`, `GroupSet` and `SessionSet` (the two dispatches inside `createGroupSession`, each after its own await), `GroupSessionCreated` (the handler resumes: `setSignCandidate`, `handleNext`), `GroupSessionFails`, `Approve`, `InviteNext`, `ComputeDone`. |
| `Proofs` | `MessageProofs` (keys/message-proofs.tsx) and `sortTimestamp`, after the signing pages | Extends `SignFlow`. Variables: `page`, `saved` (the snap's storage), `messages` (the proofs slice's list), `loadFrom` (a pending `loadMessageProofs`), `dialog`. Actions: `SaveProof`, `ListMount`, `LoadAnswered`, `OnDeleteMessageProof`, `DeleteConfirmed`, `DeleteCancelled`. `DappSpec` runs the signing steps while `page = "sign"`. |
| `MCSignFlow` | model values | two key-share items, four typed addresses (with and without "0x", a bad checksum, too short), amounts 1, -1 and junk, tips 22 and junk |
| `TestVerdicts` | how the `it` blocks of integration.test.ts and the helpers `try_spend`, `create_sessionkey`, `check_eth_userop_*` and `fund_account` reach a verdict | A test is a sequence of checks. Each check has a code pattern (`expectCode0`, `expectCodeNot0`, `queryMustThrow`, `spend`, `sessionkey`, ...), the behaviour its name claims, and whether it sits in a `try`. Variables: `t`, `s`, `held` (every call so far behaved as claimed), `erred`, `verdict`, `noNewAccount`. Actions: `RunCheck` (the chain picks each call's outcome), `Return`, `NextTest`. |
| `MCTestVerdicts` | the suites | every test that runs on a localnet, in mocha's order |

### How the round driver is abstracted

The payload of a message never matters to the driver, only its routing
fields. A message is therefore a record with these fields:

- `round`
- `sender` (the handle's party index)
- `receiver` (a party index, or the model value `Bcast`)
- `slot` (its position in the batch)

The engine is abstracted to the receiver lists `Batches(h, r)` that
`proceed()` may return in round `r`. After its last round it returns an empty
batch. `create()` throws NotReady until the handle has reached its last round.

Both `handleIncoming()` and `proceed()` may throw (`EngineThrows`). The code
catches neither, so the whole call unwinds.

### The refinement

`RoundDriver` implements `Ceremony`: `RoundDriver!Abstract` instantiates it with this mapping.

- `round` is `rounds`, and `keys` is `artifacts`.
- `sent` is the set of messages in each stored batch.
- `got` is the set of messages in each inbox.
- `status` is read off `stage`.

Every driver step is then an abstract step or leaves the abstract state unchanged. The loop counters and the termination check are stutters. A delivery step is `Deliver`, and a `proceed()` is `Advance`. A throw, or a `create()` that throws NotReady, is `Abort`. The property `ImplementsCeremony` is `Abstract!CSpec`.

A delivery loop that skips a sender, hands a message to a handle it is not meant for, or stops on a partial convergence is not a ceremony step. Delivering the same message twice is invisible in `got`; `ExactDelivery` counts that.

Key refresh differs from keygen in one way that matters. A handle speaks as
the party index of its item, not as its position. The constant `Ident` maps
each handle to its party index, and `RefreshIdent` computes it from the items.

## Runs

| Run | cfg | Result | Bounds |
|---|---|---|---|
| keygen | MCKeygen.cfg | pass: `TypeOK`, `ExactDelivery`, `Completes`, `ImplementsCeremony` | 3 parties, 3 rounds. Each round is a broadcast or one message to every peer. The test is either keygen (with `create()`) or presign (without). |
| keygen_mixed | MCKeygenMixed.cfg | violation of `ExactDelivery` | a batch of unicasts followed by a broadcast |
| key_refresh | MCKeyRefresh.cfg | pass: `ConvergedMeansComplete`, `ExactDelivery`, `ImplementsCeremony` | two existing parties (one re-indexed) and one new party, sorted. No test calls this driver: the run checks the code as written. |
| websocket | MCWebSocket.cfg | pass: `TypeOK`, `SingleLiveSocket`, `QueueOnlyWhileDisconnected`, `AnsweredUnlessDropped` | 3 sockets, 2 rpc ids, 1 note |
| websocket_send | MCWebSocketSend.cfg | violation of `SendOnlyWhenOpen` | 2 sockets, 1 rpc, 1 note |
| websocket_settle | MCWebSocketSettle.cfg | violation of `RpcSettles` | 2 sockets, 1 rpc |
| tx_execute | MCTxExecute.cfg | pass: `TypeOK` | `safeExecuteContract`, up to 3 broadcasts |
| tx_execute_duplicate | MCTxExecuteDup.cfg | violation of `AtMostOnce` | the same |
| test_verdicts | MCTestVerdicts.cfg | pass: `NoFalseAlarm` | the 27 localnet tests before the signer tests, then the 4 signer tests; every outcome of every call |
| test_verdicts_sound | MCTestVerdictsSound.cfg | violation of `Sound` | the whole suite, as for test_verdicts |
| sign_flow | MCSignFlow.cfg | pass: `TypeOK`, `AddressBytesReadBack`, `ShownNewestFirst` | both pages, 2 submits, 2 parties, a fresh or a stale store; then the key's page, with or without an earlier proof, and a slice loaded before or not; timestamps 1 and 2 |
| sign_flow_address | MCSignFlowAddress.cfg | violation of `AcceptedIsWellFormed` | the same |

The bounds are enough for the following reasons.

- **Parties.** Three parties are the least number at which a broadcast has two receivers, and a unicast batch has two entries whose order matters.
- **Rounds.** Three rounds let a silent round fall strictly between two active ones.
- **Sockets.** Three sockets let one connect() replace a socket whose handlers still run, while a third is being created.
- **Requests.** Two rpc ids let one reply arrive while another request is queued.
- **Broadcasts.** Three broadcasts let a lost transaction commit after a retry was signed, and both be pending at once (the model has no account sequence numbers; a chain would reject the second while the first is pending, but not after it committed). `safeSend` stops at three by itself.
- **Proofs.** Timestamps 1 and 2 give two proofs that differ in time and two that tie. An earlier proof, and a slice loaded before, let the list render before the load answers.
- **Signing pages.** Two submits let the answers of one arrive before, between or after those of the other. Two key-share items make the `|| items[0]` fallback and a party change distinguishable. The typed addresses cover each branch of `getAddress` and of `substring(2)`; the amounts and tips cover each branch of `parseUnits` and of `toBeHex`.
- **Tests.** The verdict of a test depends only on its own calls, so the whole suite is checked with every outcome of every call.

### What the runs show

- **The `[0]` bug** (`keygen_mixed`, keygen.ts:29, also in the other two drivers). The broadcast branch delivers the first message of the batch, not the current one.
  - With the engine's real rounds, every batch is either all broadcast or all unicast, so the bug is latent.
  - The batch pattern that exposes it breaks `ExactDelivery`.
- **`connected` is not the socket's state** (`websocket_send`). After connect() replaces an open socket, `connected` is still true. notify() then calls send() on a CONNECTING socket and throws. After a server-initiated close, it drops the message silently.
- **rpc() can hang** (`websocket_settle`).
  - onclose rejects nothing.
  - No one reconnects, so a request queued on a socket that failed to open, or whose reply was lost, never settles.
- **A timed-out transaction may execute twice** (`tx_execute_duplicate`). `safeExecuteContract` retries every error except "tx not found" with a newly signed transaction, even when the first one is already in the mempool. The model has no account sequence numbers, so the trace's state with both transactions pending is looser than a chain would allow; the chain still executes both once the first has committed before the retry is signed.
- **Tests that cannot fail** (`test_verdicts_sound`). `Sound` is checked over the whole suite. TLC stops at the shortest counterexample: with `--no-new-account` the account test returns early, then "fund the new user account" passes after a refused transfer, because `fund_account` never looks at `res.code`. The same state space holds the other flaws below; `Suite <- <<T>>` in the cfg, for one test T, makes TLC print each trace.
  - In the signer tests, the `expect(true).to.be.false` or `assert(false)` after a query that must fail sits inside a `try` whose `catch` swallows the assertion too (`Suite <- SignerTests`: "cannot sign over spendlimit" passes after the contract answered the `sign_userop` query).
  - `assert(assert_abstraction_rule_len(...))` asserts an unawaited promise.
  - `create_sessionkey` reports the first of its two transactions only.
  - `try_spend` counts a transaction that failed for another reason as "refused".
- **The transaction form accepts what it cannot send** (`sign_flow_address`).
  - `parseUnits` accepts a negative amount or tip. `toBeHex` throws on it later, inside the async handler, after the error flags were cleared, so nothing is shown.
  - `getAddress` accepts an address without "0x". The address bytes, however, come from `address.substring(2)` of the typed text, so the signer gets 19 bytes. TLC shows this once the amounts are restricted to valid ones.
- **Passing runs.**
  - The driver implements the abstract ceremony: every message of a round reaches exactly the handles it is meant for before any of them proceeds, no handle runs a round ahead, and keys come only after convergence.
  - A silent round of the joining party, or an engine exception, never lets refresh return unfinished handles (no test calls the refresh driver, and the tests call the presign driver only in commented-out lines); keygen and presign reach the end, and keygen creates every key.
  - connect() never leaves two live sockets.
  - An rpc() message that reached a socket is settled unless that socket starts closing first (`AnsweredUnlessDropped`, under the fairness below). So the `RpcSettles` hang needs a request that never reached a socket, or a socket that went down.
  - The address bytes the signer gets read back as the checksummed address.
  - The proofs list shows the newest proof first, whatever order the load gave.
  - No test fails while the contracts behaved and nothing threw.

## Fairness

- **RoundDriver.** The driver is a single synchronous call, so its steps are weakly fair. The engine's choices and its exceptions are not fair.
- **WebSocketClient.**
  - The browser eventually completes every opening and closing handshake, and the event loop eventually runs every queued event. So `Open \/ FailOpen`, `Closed`, `Serve` and `Message` are weakly fair per socket.
  - Callers and server-initiated closes are not fair. `AnsweredUnlessDropped` rests on this fairness: the relay's `Serve` and the event loop's `Message` must eventually run on a socket that stays open.
  - The websocket cfgs set `CHECK_DEADLOCK FALSE`, because an idle client with nothing to send is a real rest state.
- **TxRetry.**
  - The helper is one async call chain, so its steps are weakly fair.
  - A transaction in the mempool is eventually included in a block, so `Commit` is weakly fair.
  - No property of the current runs rests on this fairness: both TxRetry runs check invariants.
- **TestVerdicts.** This run checks safety only, so it assumes no fairness. `Done` is the rest state.
- **SignFlow and Proofs.** Safety only, no fairness: every step waits on the user or the wallet. The cfgs set `CHECK_DEADLOCK FALSE`, because the user may stop at any step.

## Not modelled, and the plan

Some things are known and deliberately not checked by a run. `PROJECT.json` lists them as hazards with notes:

- **`safeSend` gives up.** After three failed attempts it returns `undefined` instead of throwing.
- **The path-hash compare** (client.ts:185). It never matches, so every run uploads every contract again.
- **Double submit.** The transaction form's button stays enabled during the awaits. With two submits in flight, the second one's `setGroup` can land while the first one's invite step is shown, so the links name another session than the candidate's, and each handler that resumes calls `handleNext`. `SignFlow` reaches this (an invariant that the invite step's group, session and candidate come from one submit is violated after 8 steps), but no run is given to it.
- **The stale party chip.** The chip reads `selectedParty` after the await of `createGroupSession`, which used the value before it.
- **A rejected `getBlockInfo`.** The form never renders and shows no error.
- **Nonce and base fee.** Both are fetched once at mount.
- **A stale proofs list.** The key's page shows the slice's list from an earlier visit until `loadMessageProofs` answers. A proof deleted meanwhile comes back when the load answers. `Proofs` reaches this state, but how the snap orders the load and the delete is not in the repository.
- **`safeQuery` drops `type` on retry.** After one failed status query, the helper throws even if the transaction has committed.
- **Unawaited writes.** The `fs.writeFile` snapshots may land in any order, so the file can end with an older dict. The next run re-uploads everything anyway.

These parts would come next, in this order:

1. **`setupTestEnv` dependencies**: the addresses one contract's init message takes from another.
2. **Before hooks**: a failing `before()` skips its describe block.
3. **The join pages** (`keys/sign/join`), once they are in the repository.

These parts are left out for good:

- the wasm engine itself, and the partial-signature arithmetic of the signer tests (`partial()`, `add()`), which is not in the repository;
- `runTests`, `makeTestFunction` and `runTestFunction`, which nothing calls;
- byte encodings (`signature.ts`, `eth_user_op.ts`);
- the deployment bookkeeping (`contract_dict.ts`, `client.ts`): while the path-hash compare never matches, every run uploads every contract again and nothing a run writes is reused, so what is left is file I/O;
- the proofs list's Export (a download), the key-share confirm-delete dialog (it only hands its request back), `abbreviateAddress`, `copyToClipboard`, `download` and `getDroppedFiles` in utils.ts, and the worker, which are layout and I/O without protocol state. The worker exposes the wasm classes before `init()` has resolved; whether its caller waits for `{ready: true}` is decided by code that is not in the repository;
- `CreateMessage`, the transaction page, `Compute` and `createGroupSession`, which are not in the repository: `SignFlow` models their effect on the store from how the pages use them.
