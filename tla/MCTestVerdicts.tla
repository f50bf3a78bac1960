---------------------------- MODULE MCTestVerdicts ----------------------------
(* The suites of integration.test.ts, in mocha's order.  The tests the     *)
(* file skips (it.skip) or that do nothing on a localnet are left out.     *)
EXTENDS TestVerdicts

\* 'Instantiation and account creation' (from its second test) and
\* 'Account tests'.
AccountTests ==
    <<CreateNewUserAccount, FundNewUserAccount, FirstUpdateOwner,
      SpendAsOwner, OldOwnerCannotSpend, NonOwnerCannotCreateSessionkey,
      OwnerCreatesSessionkey, QueryAbstractionRules, SessionkeySpends,
      SessionkeyExpired, AddSpendLimitedSessionkey, SpendOverLimit, SpendLimit,
      OwnerUseropRefused, OwnerUseropRefused, OwnerUseropRefused, OwnerUseropRefused,
      OwnerUseropAccepted, CreateEthSessionkey,
      SessionkeyUseropRefused, SessionkeyUseropRefused, SessionkeyUseropRefused,
      SessionkeyUseropRefused, SessionkeyUseropAccepted, CreateSecondSpendlimitKey,
      SessionkeyUseropAccepted, SessionkeyUseropAccepted>>

\* 'secret-share-signer tests'.
SignerTests ==
    <<CannotSignOverSpendlimit, QuerySignBytesAsOwner,
      CannotQuerySignAsInvalidParty, CannotExecuteSignAsInvalidParty>>

AllTests == AccountTests \o SignerTests
=============================================================================
