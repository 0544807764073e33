------------------------------- MODULE MCTree -------------------------------
(* Values of the constants of Tree for TLC.                                  *)
EXTENDS Tree

\* Two node types: three slots, then five.
Slots35 == <<3, 5>>

\* Splits: keys of four bytes that part at the first, second or last byte.
\* With headers of at most two bytes the last pair needs two pages.
SplitPreload == <<<<0, 0, 0, 0>>>>
SplitNew == {<<0, 0, 0, 1>>, <<0, 1, 0, 0>>, <<1, 0, 0, 0>>}
SplitKeys == Range(SplitPreload) \union SplitNew
SplitSearch == {<<0, 0, 0, 1>>}

\* A page below root path byte 0 whose three slots are full, keys that need a
\* fourth and a fifth slot, and one that splits the header of the page.
SwitchPreload == <<<<0, 0>>, <<0, 1>>, <<0, 2>>>>
SwitchNew == {<<0, 3>>, <<0, 4>>, <<1, 0>>}
SwitchKeys == Range(SwitchPreload) \union SwitchNew

\* A page at depth 2, so that it is cached, and keys that go below it.
CachePreload == <<<<0, 0, 0>>, <<1, 0, 0>>, <<0, 1, 0>>>>
CacheNew == {<<0, 0, 1>>, <<0, 1, 1>>}
CacheMixed == {<<0, 0, 0>>, <<0, 0, 1>>}
CacheKeys == Range(CachePreload) \union CacheNew
====
