------------------------------ MODULE DappUtils ------------------------------
(***************************************************************************)
(* The hex helpers of the dapp (snap/dapp/src/utils.ts) and the ethers     *)
(* conversion toBeHex, as operators.  A hex string without its "0x"   *)
(* is the sequence of its digits' values; a conversion that throws gives   *)
(* Throw, a sequence no conversion returns.                                *)
(***************************************************************************)
EXTENDS Integers, SequencesExt

HexDigit == 0..15

Throw == <<-1>>

ParseHexChunk_Swapped(c) == IF Len(c) = 2 THEN 16 * c[2] + c[1] ELSE c[1]

\* parseInt(chunk, 16) of a one- or two-digit chunk.
ParseHexChunk(c) == IF Len(c) = 2 THEN 16 * c[1] + c[2] ELSE c[1]

\* fromHexString: hex.match(/.{1,2}/g) cuts the text into two-digit chunks
\* from the left, the last a single digit when the length is odd; on an
\* empty text match() returns null and .map throws.
FromHexString(h) ==
    IF h = <<>> THEN Throw
    ELSE [i \in 1..((Len(h) + 1) \div 2) |->
             ParseHexChunk(SubSeq(h, 2 * i - 1, IF 2 * i <= Len(h) THEN 2 * i ELSE Len(h)))]

\* byte.toString(16): one digit below 16.
ByteToHex(b) == IF b < 16 THEN <<b>> ELSE <<b \div 16, b % 16>>

\* .padStart(2, "0")
PadStart2(d) == IF Len(d) < 2 THEN <<0>> \o d ELSE d

\* toHexString: Array.from(bytes).reduce((str, byte) => str + hex2(byte), "")
ToHexString(bytes) ==
    FoldLeft(LAMBDA str, b : str \o PadStart2(ByteToHex(b)), <<>>, bytes)

RECURSIVE Digits(_)
\* n.toString(16)
Digits(n) == IF n < 16 THEN <<n>> ELSE Digits(n \div 16) \o <<n % 16>>

\* ethers toBeHex(n) without a width: getUint rejects a negative value; the
\* digits get a leading 0 when their count is odd.
ToBeHex(n) ==
    IF n < 0 THEN Throw
    ELSE IF Len(Digits(n)) % 2 = 1 THEN <<0>> \o Digits(n) ELSE Digits(n)


-----------------------------------------------------------------------------
(* getChainName: the chains table, keyed by ethers' toBeHex of the id.      *)

\* A chain name, or undefined when the key is missing.
Undefined == "undefined"

\* The keys of `chains` without "0x", as digit sequences.
Chains ==
    [k \in {<<0, 1>>, <<0, 3>>, <<0, 4>>, <<0, 5>>, <<2, 10>>,
            <<10, 10, 3, 6, 10, 7>>, <<0, 5, 3, 9>>} |->
        CASE k = <<0, 1>> -> "Mainnet"   [] k = <<0, 3>> -> "Ropsten"
          [] k = <<0, 4>> -> "Rinkeby"   [] k = <<0, 5>> -> "Goerli"
          [] k = <<2, 10>> -> "Kovan"    [] k = <<0, 5, 3, 9>> -> "Localhost 8545"
          [] OTHER -> "Sepolia"]

\* getChainName(value): chains[toBeHex(BigInt(value))].
GetChainName(value) ==
    IF ToBeHex(value) \in DOMAIN Chains THEN Chains[ToBeHex(value)] ELSE Undefined

-----------------------------------------------------------------------------
(* humanFileSize(bytes, si, dp).  After u + 1 divisions `bytes` is the      *)
(* exact quotient bytes / thresh^(u+1); the do/while loop is a recursion on *)
(* the number of divisions.  Quotients by 1000 are taken as exact.         *)

\* units.length
FileSizeUnits == 8

AbsVal(x) == IF x < 0 THEN -x ELSE x

\* Math.round(Math.abs(n / d) * r) for d > 0, r > 0: round half up.
RoundScaled(n, d, r) == (2 * AbsVal(n) * r + d) \div (2 * d)

RECURSIVE Divisions(_, _, _, _)
\* do { bytes /= thresh; ++u } while (Math.round(Math.abs(bytes) * r) / r
\* >= thresh && u < units.length - 1), with k = u + 1 divisions done.
Divisions(bytes, thresh, r, k) ==
    IF RoundScaled(bytes, thresh^k, r) >= thresh * r /\ k - 1 < FileSizeUnits - 1
      THEN Divisions(bytes, thresh, r, k + 1)
      ELSE k

\* What humanFileSize shows: unit -1 is " B" with the bytes as they are;
\* otherwise units[unit] and bytes.toFixed(dp) as an integer count of
\* 10^-dp, with the sign of bytes.
HumanFileSize(bytes, si, dp) ==
    LET thresh == IF si THEN 1000 ELSE 1024
        r      == 10^dp
    IN  IF AbsVal(bytes) < thresh
          THEN [unit |-> -1, shown |-> bytes]
          ELSE LET k == Divisions(bytes, thresh, r, 1)
                   m == RoundScaled(bytes, thresh^k, r)
               IN  [unit |-> k - 1, shown |-> IF bytes < 0 THEN -m ELSE m]

-----------------------------------------------------------------------------
(* Checks of the two helpers the pages do not call, over the inputs where  *)
(* the conversions turn; TLC checks them when it loads the module.         *)

\* The chain ids the table is written for, with their names.
ChainIds == [id \in {1, 3, 4, 5, 42, 1337, 11155111} |->
                CASE id = 1 -> "Mainnet"  [] id = 3 -> "Ropsten"
                  [] id = 4 -> "Rinkeby"  [] id = 5 -> "Goerli"
                  [] id = 42 -> "Kovan"   [] id = 1337 -> "Localhost 8545"
                  [] OTHER -> "Sepolia"]

(* getChainName finds every chain of its table by the chain's id: the key   *)
(* written for it is the text ethers' toBeHex makes of the id, padded to    *)
(* whole bytes ("0x01", "0x0539"), and an id not listed gives undefined.    *)
ChainNamesFound ==
    /\ \A id \in DOMAIN ChainIds : GetChainName(id) = ChainIds[id]
    /\ GetChainName(137) = Undefined

ASSUME ChainNamesFound

\* Sizes at the turns of the units: just below, at and just above 1 KiB,
\* 1 MiB, 1 kB and 1 MB, half a unit below (1023.5 KiB), negative, zero.
FileSizeSamples ==
    {0, 999, 1000, 1023, 1024, 999949, 999950, 1000000, 1048064, 1048524,
     1048575, 1048576, -1048575, 67108863}

(* humanFileSize shows a number that reads as written: in the unit it      *)
(* names, the value rounded to dp decimals is at least 1 and below the     *)
(* threshold (never "1024.0 KiB" or "1000 kB"), except in the last unit.   *)
FileSizeInRange ==
    \A b \in FileSizeSamples, si \in BOOLEAN, dp \in {0, 1} :
        LET o      == HumanFileSize(b, si, dp)
            thresh == IF si THEN 1000 ELSE 1024
        IN  \/ o.unit = -1
            \/ /\ 10^dp <= AbsVal(o.shown)
               /\ AbsVal(o.shown) < thresh * 10^dp \/ o.unit = FileSizeUnits - 1

ASSUME FileSizeInRange

=============================================================================
