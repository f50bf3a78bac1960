----------------------------- MODULE TestVerdicts -----------------------------
(***************************************************************************)
(* How the mocha tests of integration.test.ts turn what the contracts do   *)
(* into a verdict.  The contracts are not in this repository: every        *)
(* contract call has any outcome a chain can give it, and the model asks,  *)
(* for every combination, whether the test's verdict agrees with what its  *)
(* name says the contract does.                                            *)
(*                                                                         *)
(* The outcome of one call, as the test code sees it:                      *)
(*   "ok"        the transaction executed, the query answered, valid=true; *)
(*   "rejected"  the contract refused: a transaction code # 0 whose log    *)
(*               says "failed to execute message", a query that throws the *)
(*               contract's error, valid = false;                          *)
(*   "other"     the transaction failed for another reason (out of gas,    *)
(*               sequence mismatch): code # 0, nothing executed;           *)
(*   "error"     the call threw (node unreachable, safeQuery gave up).     *)
(* A test is a sequence of checks.  A check that throws outside a          *)
(* try/catch fails the test and ends it; mocha goes on with the next test. *)
(***************************************************************************)
EXTENDS Naturals, Sequences

CONSTANT Suite   \* the `it` blocks, in mocha's order

Outcomes == {"ok", "rejected", "other", "error"}

\* A query cannot fail the way a transaction does: it answers or throws.
QueryOutcomes == {"ok", "rejected", "error"}

\* kind: the code pattern of the check; want: the contract behaviour the
\* test's name claims; caught: the check sits in a try { } catch { }.
Step(kind, want, caught) == [kind |-> kind, want |-> want, caught |-> caught]

\* A check, and a check with a shouldFail flag, outside any try.
Check(kind, want) == Step(kind, want, FALSE)
ShouldFail(kind, sf) == Check(kind, IF sf THEN "rejected" ELSE "ok")

\* An `it` block; early: it starts with `if (NO_NEW_ACCOUNT) return`.
Test(early, steps) == [early |-> early, steps |-> steps]

\* The calls of a check and the outcomes each may have.
Calls(st) == IF st.kind = "sessionkey" THEN 2 ELSE 1
OutcomesOf(st) ==
    IF st.kind \in {"queryMustThrow", "queryResDefined", "userop", "ruleLen"}
      THEN QueryOutcomes ELSE Outcomes

-----------------------------------------------------------------------------
(* The helpers of test_functions.ts, by what they return ("true" or        *)
(* "false"); a helper whose call throws rethrows ("throw").                 *)

Returns(b) == IF b THEN "true" ELSE "false"

\* try_spend: "failed to execute message" in rawLog returns shouldFail;
\* otherwise the recipient's balance decides: unchanged and shouldFail, or
\* grown by the amount and not shouldFail.
TrySpend(sf, o) ==
    CASE o = "error"    -> "throw"
      [] o = "rejected" -> Returns(sf)
      [] o = "other"    -> Returns(sf)
      [] o = "ok"       -> Returns(~sf)

CreateSessionkey_ShouldFailInverted(sf, o) ==
    IF "error" \in {o[1], o[2]} THEN "throw" ELSE Returns((o[1] = "ok") = sf)

\* create_sessionkey: the allowlist rule, then the spendlimit rule, each by
\* safeExecuteContract; returns (res.code === 0) === !shouldFail where res
\* is the first response (the second is a shadowing `const res`).
CreateSessionkey(sf, o) ==
    IF "error" \in {o[1], o[2]} THEN "throw" ELSE Returns((o[1] = "ok") = ~sf)

\* check_eth_userop_spendlimit, check_eth_userop_fees:
\* query_res.valid === !shouldFail.
CheckUserop(sf, o) == IF o = "error" THEN "throw" ELSE Returns((o = "ok") = ~sf)

\* fund_account: safeSend, then res.transactionHash is logged; res.code is
\* not looked at.  safeSend gives up with undefined: the log line throws.
FundAccount(o) == IF o = "error" THEN "throw" ELSE "true"

-----------------------------------------------------------------------------
(* One check: does it complete without throwing?                           *)

Completes(st, o) ==
    LET sf == st.want = "rejected"
    IN  CASE st.kind = "expectCode0"    -> o[1] = "ok"
          [] st.kind = "expectCodeNot0" -> o[1] \in {"rejected", "other"}
          [] st.kind = "queryMustThrow" -> FALSE
          [] st.kind = "queryResDefined" -> o[1] = "ok"
          [] st.kind = "unchecked"      -> o[1] # "error"
          [] st.kind = "fund"           -> FundAccount(o[1]) = "true"
          [] st.kind = "spend"          -> TrySpend(sf, o[1]) = "true"
          [] st.kind = "sessionkey"     -> CreateSessionkey(sf, o) = "true"
          [] st.kind = "userop"         -> CheckUserop(sf, o[1]) = "true"
          [] st.kind = "ruleLen"        -> TRUE

\* The contract behaved as the test's name says.
Claim(st, o) == \A i \in DOMAIN o : o[i] = st.want

-----------------------------------------------------------------------------
(* The `it` blocks of integration.test.ts.                                  *)

\* safeExecuteContract(new_account); findContractAddress on res.arrayLog and
\* the address regex throw unless the transaction executed.
CreateNewUserAccount == Test(TRUE, <<Check("expectCode0", "ok")>>)
FundNewUserAccount == Test(FALSE, <<Check("fund", "ok")>>)
\* safeExecuteContract(first_update_owner): the response is only logged.
FirstUpdateOwner == Test(TRUE, <<Check("unchecked", "ok")>>)

SpendAsOwner == Test(FALSE, <<ShouldFail("spend", FALSE)>>)
OldOwnerCannotSpend == Test(FALSE, <<ShouldFail("spend", TRUE)>>)
NonOwnerCannotCreateSessionkey == Test(FALSE, <<ShouldFail("sessionkey", TRUE)>>)
OwnerCreatesSessionkey == Test(FALSE, <<ShouldFail("sessionkey", FALSE)>>)
\* assert(assert_abstraction_rule_len(...)): the promise is not awaited.
QueryAbstractionRules == Test(FALSE, <<Check("ruleLen", "ok")>>)
SessionkeySpends == Test(FALSE, <<ShouldFail("spend", FALSE)>>)
SessionkeyExpired == Test(FALSE, <<ShouldFail("spend", TRUE)>>)

AddSpendLimitedSessionkey == Test(TRUE, <<ShouldFail("sessionkey", FALSE)>>)
SpendOverLimit == Test(FALSE, <<ShouldFail("spend", TRUE)>>)
SpendLimit == Test(FALSE, <<ShouldFail("spend", FALSE)>>)
\* The userop fee and spend-limit queries, `assert(success)` each: the
\* owner's userops without, or with a wrong, fee; then a valid one.
OwnerUseropRefused == Test(FALSE, <<ShouldFail("userop", TRUE)>>)
OwnerUseropAccepted == Test(FALSE, <<ShouldFail("userop", FALSE)>>)
CreateEthSessionkey == Test(FALSE, <<ShouldFail("sessionkey", FALSE)>>)
\* The spend-limit key's userops over the limit or with a wrong fee; then
\* spending up to the limit, also after a second key was added.
SessionkeyUseropRefused == Test(FALSE, <<ShouldFail("userop", TRUE)>>)
SessionkeyUseropAccepted == Test(FALSE, <<ShouldFail("userop", FALSE)>>)
CreateSecondSpendlimitKey == Test(FALSE, <<ShouldFail("sessionkey", FALSE)>>)

\* set_shares must execute; sign executed by the spend-limit wallet must
\* fail; the sign_userop query, then `expect(true).to.be.false`, in a
\* try whose catch is empty.
CannotSignOverSpendlimit ==
    Test(FALSE, <<Check("expectCode0", "ok"), Check("expectCodeNot0", "rejected"),
                  Step("queryMustThrow", "rejected", TRUE)>>)
\* set_shares; res = sign_bytes query then `expect(true).to.be.false` in a
\* try with an empty catch; then expect(res).to.not.be.undefined.
QuerySignBytesAsOwner ==
    Test(FALSE, <<Check("expectCode0", "ok"), Check("queryResDefined", "ok")>>)
\* set_shares; the sign_userop query then assert(false, ...) in a try whose
\* catch only logs.
CannotQuerySignAsInvalidParty ==
    Test(FALSE, <<Check("expectCode0", "ok"), Step("queryMustThrow", "rejected", TRUE)>>)
\* set_shares; sign executed by accounts[0], then
\* expect(tx.code).to.not.equal(0), in a try whose catch only logs.
CannotExecuteSignAsInvalidParty ==
    Test(FALSE, <<Check("expectCode0", "ok"), Step("expectCodeNot0", "rejected", TRUE)>>)

-----------------------------------------------------------------------------
VARIABLES
    noNewAccount,  \* NO_NEW_ACCOUNT (--no-new-account)
    t,             \* the test in progress
    s,             \* its next check
    held,          \* every call of the test so far behaved as its name says
    erred,         \* a call of the test threw
    verdict        \* "running", "passed" or "failed"

vars == <<noNewAccount, t, s, held, erred, verdict>>

Init ==
    /\ noNewAccount \in BOOLEAN
    /\ t = 1 /\ s = 1
    /\ held = TRUE /\ erred = FALSE
    /\ verdict = "running"

\* The next check runs: its calls get outcomes from the chain; a throw
\* outside a try ends the test as failed.
RunCheck ==
    /\ verdict = "running"
    /\ ~(Suite[t].early /\ noNewAccount)
    /\ s <= Len(Suite[t].steps)
    /\ LET st == Suite[t].steps[s]
       IN  \E o \in [1..Calls(st) -> OutcomesOf(st)] :
              /\ held' = (held /\ Claim(st, o))
              /\ erred' = (erred \/ \E i \in DOMAIN o : o[i] = "error")
              /\ IF Completes(st, o) \/ st.caught
                   THEN s' = s + 1 /\ UNCHANGED verdict
                   ELSE verdict' = "failed" /\ UNCHANGED s
    /\ UNCHANGED <<noNewAccount, t>>

\* The test function returns: after its last check, or at
\* `if (NO_NEW_ACCOUNT) { ...; return; }`.
Return ==
    /\ verdict = "running"
    /\ s > Len(Suite[t].steps) \/ (Suite[t].early /\ noNewAccount)
    /\ verdict' = "passed"
    /\ UNCHANGED <<noNewAccount, t, s, held, erred>>

\* mocha moves on to the next `it`.
NextTest ==
    /\ verdict # "running"
    /\ t < Len(Suite)
    /\ t' = t + 1 /\ s' = 1
    /\ held' = TRUE /\ erred' = FALSE
    /\ verdict' = "running"
    /\ UNCHANGED noNewAccount

\* The last test has run.
Done ==
    /\ verdict # "running"
    /\ t = Len(Suite)
    /\ UNCHANGED vars

Next == RunCheck \/ Return \/ NextTest \/ Done

Spec == Init /\ [][Next]_vars

-----------------------------------------------------------------------------
(* Properties.                                                              *)

(* A test fails only for a reason: a call behaved otherwise than the test's *)
(* name says, or a call threw.  The helpers' shouldFail logic and the       *)
(* expect/assert calls must not fail a test whose contract behaved.         *)
NoFalseAlarm == verdict = "failed" => (~held \/ erred)

(* A test passes only if the contracts behaved as its name says: every     *)
(* check it makes can fail when the contract does the opposite.            *)
Sound == verdict = "passed" => held

=============================================================================
