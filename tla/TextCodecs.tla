----------------------------- MODULE TextCodecs -----------------------------
(***************************************************************************)
(* The text codecs of crates/delivery-transport/src/waku_rest.rs: the      *)
(* base64 of a message payload and the percent-encoding of a content       *)
(* topic, both written by hand.  A base64 character is its index in the    *)
(* alphabet, a character of a topic is its byte.  Each is compared with    *)
(* what it is meant to compute, stated on the bits of a text.              *)
(***************************************************************************)
EXTENDS Naturals, Sequences, SequencesExt

CONSTANTS
    AccBits,     \* the width of the decoder's accumulator: 32 in the code
    SomeBytes,   \* the bytes of the payloads tried
    SomeChars,   \* the characters of the base64 texts tried
    TopicBytes,  \* the bytes of the topics tried
    MaxLen       \* the length of the longest of them

Byte == 0 .. 255

\* A character of a payload: one of the alphabet's 64, or one of these.
Pad == 64
Blank == 65
Alien == 66

ASSUME CodecAssumption ==
    /\ AccBits \in Nat /\ AccBits >= 13
    /\ SomeBytes \cup TopicBytes \subseteq Byte
    /\ SomeChars \subseteq 0 .. Alien
    /\ MaxLen \in Nat

TwoTo[n \in 0 .. AccBits] == IF n = 0 THEN 1 ELSE 2 * TwoTo[n - 1]

-----------------------------------------------------------------------------
\* Up to three bytes as four characters.
Quad(c) ==
    LET At(i) == IF i <= Len(c) THEN c[i] ELSE 0
        n == At(1) * 65536 + At(2) * 256 + At(3)
    IN  << n \div 262144,
           (n \div 4096) % 64,
           IF Len(c) > 1 THEN (n \div 64) % 64 ELSE Pad,
           IF Len(c) > 2 THEN n % 64 ELSE Pad >>

\* bytes.chunks(3)
Chunks(bytes) ==
    [k \in 1 .. (Len(bytes) + 2) \div 3 |->
        SubSeq(bytes, 3 * k - 2, IF 3 * k < Len(bytes) THEN 3 * k ELSE Len(bytes))]

B64Encode(bytes) == FlattenSeq([k \in DOMAIN Chunks(bytes) |-> Quad(Chunks(bytes)[k])])

Skipped(c) == c \in {Pad, Blank}

\* Faulty variant: a byte is taken once there is more than enough for it.
ByteLate(s, c) ==
    LET acc == (s.acc * 64 + c) % TwoTo[AccBits]
    IN  IF s.bits + 6 > 8
        THEN [acc |-> acc, bits |-> s.bits - 2,
              out |-> Append(s.out, (acc \div TwoTo[s.bits - 2]) % 256)]
        ELSE [acc |-> acc, bits |-> s.bits + 6, out |-> s.out]

\* One character of the alphabet: six bits more, and a byte when there are
\* eight.  The shift drops what leaves the accumulator on the left.
TakeChar(s, c) ==
    LET acc == (s.acc * 64 + c) % TwoTo[AccBits]
    IN  IF s.bits + 6 >= 8
        THEN [acc |-> acc, bits |-> s.bits - 2,
              out |-> Append(s.out, (acc \div TwoTo[s.bits - 2]) % 256)]
        ELSE [acc |-> acc, bits |-> s.bits + 6, out |-> s.out]

Undecodable(text) == \E i \in DOMAIN text : text[i] = Alien

Take(s, c) == IF Skipped(c) THEN s ELSE TakeChar(s, c)

\* The bytes of a text without a character from outside the alphabet, wherever
\* its padding and blanks are; bits that do not fill a byte are dropped.
B64Decode(text) == FoldLeft(Take, [acc |-> 0, bits |-> 0, out |-> <<>>], text).out

\* Faulty variant: the escape character is taken for an ordinary one.
EscapeKept(b) == b = 37 \/ b \in (65 .. 90) \cup (97 .. 122) \cup (48 .. 57)

\* A-Z, a-z, 0-9 and - _ . ~
Unreserved(b) ==
    b \in (65 .. 90) \cup (97 .. 122) \cup (48 .. 57) \cup {45, 95, 46, 126}

HexDigit(n) == IF n < 10 THEN 48 + n ELSE 55 + n

EncodeTopic(topic) ==
    FlattenSeq([i \in DOMAIN topic |->
        IF Unreserved(topic[i])
        THEN <<topic[i]>>
        ELSE <<37, HexDigit(topic[i] \div 16), HexDigit(topic[i] % 16)>>])

-----------------------------------------------------------------------------
\* A text without some characters.
Without(drop, text) ==
    FoldLeft(LAMBDA kept, c : IF c \in drop THEN kept ELSE Append(kept, c), <<>>, text)

\* What a sequence of digits of so many bits stands for.
BitsOf(digits, width) ==
    [i \in 1 .. width * Len(digits) |->
        (digits[(i - 1) \div width + 1] \div TwoTo[width - 1 - ((i - 1) % width)]) % 2]

\* The text of any bytes decodes to them, and so does it without its padding.  Of
\* any text in the alphabet, whatever is strewn in it, the decoder returns every
\* whole byte of its bits and no other, although its accumulator overflows.
PayloadsSurvive ==
    /\ \A bytes \in SeqOf(SomeBytes, MaxLen) :
           LET text == B64Encode(bytes)
           IN  /\ Len(text) = 4 * ((Len(bytes) + 2) \div 3)
               /\ ~Undecodable(text)
               /\ B64Decode(text) = bytes
               /\ B64Decode(Without({Pad}, text)) = bytes
    /\ \A text \in SeqOf(SomeChars, MaxLen) :
           ~Undecodable(text) =>
               LET chars == Without({Pad, Blank}, text)
                   whole == (6 * Len(chars)) \div 8
               IN  BitsOf(B64Decode(text), 8) = SubSeq(BitsOf(chars, 6), 1, 8 * whole)

\* No topic's encoding is another's, and none holds a byte that would end a path
\* segment or start a query.
SegmentsApart ==
    LET topics == SeqOf(TopicBytes, MaxLen)
    IN  /\ \A t, u \in topics : EncodeTopic(t) = EncodeTopic(u) => t = u
        /\ \A t \in topics :
               \A b \in ToSet(EncodeTopic(t)) : Unreserved(b) \/ b = 37
=============================================================================
