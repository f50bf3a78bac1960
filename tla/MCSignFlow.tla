------------------------------ MODULE MCSignFlow ------------------------------
(* Model-checking instance of SignFlow: a key with shares for parties 1    *)
(* and 2, two submits, and the address, amount and tip texts whose        *)
(* handling differs.                                                       *)
EXTENDS Proofs

\* A 40-digit address; its first byte is below 16.
Addr == <<0, 5>> \o [i \in 1..38 |-> (7 * i) % 16]

MCAddrInputs ==
    {[prefixed |-> TRUE,  digits |-> Addr, checksumOk |-> TRUE],
     [prefixed |-> FALSE, digits |-> Addr, checksumOk |-> TRUE],
     [prefixed |-> TRUE,  digits |-> Addr, checksumOk |-> FALSE],
     [prefixed |-> TRUE,  digits |-> SubSeq(Addr, 1, 38), checksumOk |-> TRUE]}

MCItems == <<1, 2>>

\* A positive amount, a negative one (parseUnits accepts "-1"), and junk.
MCAmounts == {1, -1, Junk}

\* A positive tip (the default is 22 gwei; only its sign matters) and junk.
MCTips == {22, Junk}
=============================================================================
