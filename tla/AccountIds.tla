----------------------------- MODULE AccountIds -----------------------------
(***************************************************************************)
(* The base58 text of an account id, as crates/cu-bench/src/main.rs writes *)
(* it for getAccount.  A character is its index in the alphabet, so that   *)
(* digit 0 is the character 1.                                             *)
(***************************************************************************)
EXTENDS Naturals, Sequences, FiniteSets, SequencesExt

CONSTANTS
    IdBytes,     \* the bytes account ids are made of
    IdLength     \* the length of an account id: 32 in the code

Byte == 0 .. 255

AccountIdsOf == [1 .. IdLength -> IdBytes]

ASSUME IdAssumption == IdBytes \subseteq Byte /\ IdLength \in Nat

\* The digits a carry is pushed as, lowest first.
Pushed[carry \in Byte] ==
    IF carry = 0 THEN <<>> ELSE <<carry % 58>> \o Pushed[carry \div 58]

\* The digits, lowest first, of 256 times a number plus a byte.
ShiftIn(digits, byte) ==
    LET Digit(s, d) == LET c == s.carry + d * 256
                       IN  [carry |-> c \div 58, low |-> Append(s.low, c % 58)]
        s == FoldLeft(Digit, [carry |-> byte, low |-> <<>>], digits)
    IN  s.low \o Pushed[s.carry]

\* How many bytes have no other than zero bytes before them and are zero.
LeadingZeros(input) == Cardinality({i \in DOMAIN input : \A j \in 1 .. i : input[j] = 0})

\* Faulty variant: only the number is written.
Bs58Number(input) == Reverse(FoldLeft(ShiftIn, <<>>, input))

\* A leading zero byte is the character of digit 0; the number follows.
Bs58Encode(input) ==
    [i \in 1 .. LeadingZeros(input) |-> 0] \o Reverse(FoldLeft(ShiftIn, <<>>, input))

-----------------------------------------------------------------------------
\* The number that digits denote in a base, highest digit first.
NumberOf(digits, base) == FoldLeft(LAMBDA n, d : n * base + d, 0, digits)

\* The text denotes the number the bytes do, behind one character for each leading
\* zero byte: whoever decodes it reads this id and no other.
Denotes(text, id) ==
    LET zeros == LeadingZeros(id)
    IN  /\ \A i \in DOMAIN text : text[i] < 58
        /\ zeros <= Len(text)
        /\ \A i \in 1 .. zeros : text[i] = 0
        /\ Len(text) > zeros => text[zeros + 1] # 0
        /\ NumberOf(text, 58) = NumberOf(id, 256)
=============================================================================
