---------------------------- MODULE MCLocalCache ----------------------------
(* Values of the constants of LocalCache for TLC: one coroutine and one key, *)
(* which may be in either of two buckets and is in the first.                *)
EXTENDS LocalCache

CONSTANTS a1, t1, k1

SearchAndUpdate == [c \in {a1} |-> {"search", "update"}]
OneThread == [c \in {a1} |-> t1]
TwoCandidates == [k \in {k1} |-> <<1, 2>>]
InTheFirst == << <<k1>>, <<>> >>
=============================================================================
