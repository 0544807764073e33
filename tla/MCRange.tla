------------------------------ MODULE MCRange -------------------------------
(* Values of the constants of RangeQuery for TLC.                            *)
EXTENDS RangeQuery, MCTree

\* The first range parts at its first byte, the second below it.
WideRange == {<<<<0, 0, 0>>, <<1, 1, 1>>>>}
ScanRanges == WideRange \union {<<<<0, 0, 0>>, <<0, 1, 1>>>>}

\* From an empty tree: a page with a two-byte header, the key that splits it,
\* and the range of keys that share those two bytes.
NarrowKeys == {<<0, 0, 0>>, <<0, 0, 1>>, <<0, 1, 0>>}
NarrowRange == {<<<<0, 0, 0>>, <<0, 0, 1>>>>}
=============================================================================
