---------------------------- MODULE SnapshotMap ----------------------------
(***************************************************************************)
(* What the index cache promises to the tree: it is a map from key         *)
(* prefixes to snapshots of the pages at those prefixes.  A snapshot may   *)
(* be stored, replaced or dropped at any time, and the whole map may be    *)
(* thrown away, but what is stored under a prefix is a snapshot taken for  *)
(* that prefix, and no other way of changing the map exists.               *)
(***************************************************************************)
EXTENDS Naturals

CONSTANTS CachedPrefixes,   \* the prefixes the cache may hold
          Versions,   \* numbers the snapshots of one prefix
          None        \* "no snapshot"

VARIABLE map

Snapshots(p) == [prefix: {p}, ver: Versions]

Init == map = [p \in CachedPrefixes |-> None]

Set(p, s) == map[p] # s /\ map' = [map EXCEPT ![p] = s]

Put(p) == map'[p] \in Snapshots(p) /\ Set(p, map'[p])

Drop(p) == map'[p] = None /\ Set(p, None)

Reset == map' = [p \in CachedPrefixes |-> None]

Next == Reset \/ \E p \in CachedPrefixes : Put(p) \/ Drop(p)

Spec == Init /\ [][Next]_map
=============================================================================
