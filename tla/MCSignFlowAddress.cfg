\* The transaction form with the same texts: what validation lets through.
CONSTANTS
    Junk = Junk
    Null = Null
    MaxSubmits = 2
    Items <- MCItems
    AddrInputs <- MCAddrInputs
    Amounts <- MCAmounts
    Tips <- MCTips
    Times = {1, 2}
SPECIFICATION DappSpec
\* The page may sit at any step for good: the user stops.
CHECK_DEADLOCK FALSE

INVARIANT AcceptedIsWellFormed
