---------------------------- MODULE MCRadixCache ----------------------------
(* Values of the constants of RadixCache for TLC: two threads insert two     *)
(* prefixes that part after the first byte, and look a key up.               *)
EXTENDS RadixCache

PartingPrefixes == {<<0, 0, 0>>, <<0, 1, 1>>}
KeyBeside == {<<0, 1, 0, 0>>}
=============================================================================
