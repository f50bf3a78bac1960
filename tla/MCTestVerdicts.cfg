\* Every test of integration.test.ts that runs on a localnet, in order.
CONSTANTS
    Suite <- AllTests
SPECIFICATION Spec
INVARIANT NoFalseAlarm
