------------------------------ MODULE MCInMem ------------------------------
(***************************************************************************)
(* Two topics: two recv calls and two envelopes on the first, one of each  *)
(* on the second.                                                          *)
(***************************************************************************)
EXTENDS InMemTransport

CONSTANTS ta, tb, s1, s2, s3, r1, r2, r3

MCTopicOf ==
    [c \in {s1, s2, s3, r1, r2, r3} |-> IF c \in {s3, r3} THEN tb ELSE ta]
=============================================================================
