-------------------------- MODULE LocalCacheProofs --------------------------
(***************************************************************************)
(* Proofs about LocalCache, for any number of threads, coroutines, keys,    *)
(* buckets and requests, any hash functions and any limits: a hit that      *)
(* query returned is evicted only by as many accesses as a bucket has       *)
(* nodes, cur_size counts the nodes and exceeds the capacity by less than   *)
(* one node per thread, and only a migration keeps a mutex across a yield.  *)
(***************************************************************************)
EXTENDS LocalCache, FiniteSetTheorems, TLAPS

\* What is assumed of the constants: every key has a candidate bucket, and
\* the cache starts within its limits (it is empty when it is constructed).
Sensible ==
    /\ IsFiniteSet(Coros) /\ Coros # {}
    /\ None \notin Coros /\ None \notin Buckets /\ None \notin Buckets \X Int
    /\ Requests \in [Coros -> SUBSET {"search", "update", "insert"}]
    /\ candidates \in [Keys -> Seq(Buckets) \ {<<>>}]
    /\ Preload \in Seq(Seq(Keys))
    /\ bucket_elements_limit \in Nat \ {0} /\ MIGRATION_THRESHOLD \in Nat /\ capacity \in Nat
    /\ \A b \in Buckets : Len(Preload[b]) <= bucket_elements_limit
    /\ Cardinality(Places(Preload)) <= capacity

-----------------------------------------------------------------------------
(* The invariant                                                             *)

OnThread == {"query", "use", "choose", "lock", "emplace"}
UnderLock == {"emplace", "migrate"}

Nodes == [key : Keys, value : Nat, access : Nat, id : Int]
Labels == {"idle", "tree", "resume", "migrate"} \union OnThread
Operations == {None, "search", "update", "insert"}
Candidate == Nat \ {0}
Pointers == {None} \union (Buckets \X Int)
Coroutine ==
    [pc : Labels, op : Operations, key : Keys \union {None}, value : Nat, i : Candidate,
     index : Buckets \union {None}, min_load : Nat, ptr : Pointers, since : Nat]

TypeOK ==
    /\ buckets \in [Buckets -> Seq(Nodes)]
    /\ bucket_locks \in [Buckets -> Coros \union {None}]
    /\ cur_size \in Nat
    /\ running \in [Threads -> Coros \union {None}]
    /\ co \in [Coros -> Coroutine]
    /\ store \in [Keys -> Nat]
    /\ ops \in Nat /\ made \in Nat

\* A coroutine has its thread exactly while it is inside query or insert.
ThreadInv == \A c \in Coros : co[c].pc \in OnThread <=> Runs(c)

\* insert has a bucket once it has read a load: no list is longer than the
\* limit, and min_load starts above it.
Placed(l) ==
    /\ l.pc \in {"tree", "resume", "query", "choose", "lock", "emplace"} => l.key \in Keys
    /\ l.pc \in {"query", "choose"} => l.i <= Len(candidates[l.key])
    /\ l.pc = "choose" =>
         l.index \in Buckets \/ (l.i = 1 /\ l.min_load = bucket_elements_limit + 1)
    /\ l.pc \in {"lock", "emplace", "migrate"} => l.index \in Buckets
PlaceInv ==
    /\ \A c \in Coros : Placed(co[c])
    /\ \A b \in Buckets : Len(buckets[b]) <= bucket_elements_limit

\* A mutex belongs to the coroutine that inserts into its bucket.
LockInv ==
    \A b \in Buckets, c \in Coros :
        bucket_locks[b] = c <=> co[c].pc \in UnderLock /\ co[c].index = b

\* Every access by others moves a hit back by one place at most.
Near(list, id, since) == \E i \in DOMAIN list : i <= since + 1 /\ list[i].id = id
HitInv ==
    \A c \in Coros : co[c].pc = "use" =>
        /\ co[c].ptr \in Buckets \X Int
        /\ \/ Near(buckets[co[c].ptr[1]], co[c].ptr[2], co[c].since)
           \/ co[c].since >= bucket_elements_limit

\* Who is about to add a node saw cur_size below the capacity.
Emplacing == {c \in Coros : co[c].pc = "emplace"}
SizeInv ==
    /\ cur_size = Total
    /\ cur_size + Cardinality(Emplacing) < capacity + Cardinality(Threads)

IInv == TypeOK /\ ThreadInv /\ PlaceInv /\ LockInv /\ HitInv /\ SizeInv

-----------------------------------------------------------------------------
(* Lists                                                                     *)

\* What an access does to a list: a node that is not the last possible one
\* stays, at most one place further back.
Pushed(old, new) ==
    \A j \in DOMAIN old : j < bucket_elements_limit =>
        \E i \in DOMAIN new : i <= j + 1 /\ new[i].id = old[j].id

\* Zenon proves the leaves that need no arithmetic; the others cite SMT.
USE Zenon

LEMMA ConcatIs ==
    ASSUME NEW S, NEW s \in Seq(S), NEW t \in Seq(S)
    PROVE  \A j \in 1 .. Len(s) + Len(t) :
             (s \o t)[j] = IF j <= Len(s) THEN s[j] ELSE t[j - Len(s)]
BY SMT

LEMMA HeadIs ==
    ASSUME NEW S, NEW s \in Seq(S), NEW k \in 0 .. Len(s)
    PROVE  /\ SubSeq(s, 1, k) \in Seq(S) /\ Len(SubSeq(s, 1, k)) = k
           /\ \A j \in 1 .. k : SubSeq(s, 1, k)[j] = s[j]
<1>1. k \in Nat /\ Len(s) \in Nat  BY SMT
<1> QED  BY <1>1, SMT

\* What is left of a list without its node i.
LEMMA WithoutIs ==
    ASSUME NEW S, NEW s \in Seq(S), NEW i \in DOMAIN s
    PROVE  /\ Without(s, i) \in Seq(S) /\ Len(Without(s, i)) = Len(s) - 1
           /\ \A j \in 1 .. Len(s) - 1 : Without(s, i)[j] = IF j < i THEN s[j] ELSE s[j + 1]
<1> DEFINE head == SubSeq(s, 1, i - 1)
           tail == SubSeq(s, i + 1, Len(s))
<1>1. i \in 1 .. Len(s) /\ Len(s) \in Nat  BY SMT
<1>2. head \in Seq(S) /\ Len(head) = i - 1 /\ \A j \in 1 .. i - 1 : head[j] = s[j]
  BY <1>1, SMT
<1>3. tail \in Seq(S) /\ Len(tail) = Len(s) - i /\ \A j \in 1 .. Len(s) - i : tail[j] = s[i + j]
  BY <1>1, SMT
<1>4. Without(s, i) = head \o tail  BY DEF Without
<1> HIDE DEF head, tail
<1>5. head \o tail \in Seq(S) /\ Len(head \o tail) = Len(s) - 1  BY <1>1, <1>2, <1>3, SMT
<1>6. \A j \in 1 .. Len(head) + Len(tail) :
        (head \o tail)[j] = IF j <= Len(head) THEN head[j] ELSE tail[j - Len(head)]
  <2>1. head \in Seq(S) /\ tail \in Seq(S)  BY <1>2, <1>3
  <2> QED  BY <2>1, ConcatIs
<1>7. ASSUME NEW j \in 1 .. Len(s) - 1
      PROVE  (head \o tail)[j] = IF j < i THEN s[j] ELSE s[j + 1]
  <2>1. CASE j < i  BY <1>1, <1>2, <1>3, <1>6, <2>1, SMT
  <2>2. CASE ~(j < i)
    <3>1. PICK m : m = j - (i - 1)  OBVIOUS
    <3>2. m \in 1 .. Len(s) - i /\ i + m = j + 1  BY <1>1, <2>2, <3>1, SMT
    <3>3. Len(head) = i - 1 /\ Len(tail) = Len(s) - i  BY <1>2, <1>3
    <3>4. j \in 1 .. Len(head) + Len(tail) /\ ~(j <= Len(head)) /\ j - Len(head) = m
      BY <1>1, <2>2, <3>1, <3>3, SMT
    <3>5. (head \o tail)[j] = tail[m]  BY <1>6, <3>4, Zenon
    <3>6. tail[m] = s[j + 1]  BY <1>3, <3>2
    <3> QED  BY <2>2, <3>5, <3>6, Zenon
  <2> QED  BY <2>1, <2>2
<1> QED  BY <1>4, <1>5, <1>7

\* What a node put before a list does to it.
LEMMA PrependIs ==
    ASSUME NEW S, NEW s \in Seq(S), NEW n \in S
    PROVE  /\ <<n>> \o s \in Seq(S) /\ Len(<<n>> \o s) = Len(s) + 1
           /\ (<<n>> \o s)[1] = n
           /\ \A j \in 1 .. Len(s) : (<<n>> \o s)[j + 1] = s[j]
<1>1. <<n>> \o s \in Seq(S) /\ Len(<<n>> \o s) = Len(s) + 1 /\ (<<n>> \o s)[1] = n  BY SMT
<1>2. ASSUME NEW j \in 1 .. Len(s) PROVE (<<n>> \o s)[j + 1] = s[j]
  <2>1. (<<n>> \o s)[j + 1] = s[(j + 1) - 1]  BY SMT
  <2>2. (j + 1) - 1 = j  BY SMT
  <2> QED  BY <2>1, <2>2
<1> QED  BY <1>1, <1>2

\* splice keeps the length and moves nodes back by one place at most.
LEMMA MovedToFront ==
    ASSUME Sensible, NEW list \in Seq(Nodes), NEW i \in DOMAIN list, NEW n \in Nodes,
           n.id = list[i].id
    PROVE  /\ ToFront(list, i, n) \in Seq(Nodes)
           /\ Len(ToFront(list, i, n)) = Len(list)
           /\ ToFront(list, i, n)[1] = n
           /\ Pushed(list, ToFront(list, i, n))
<1>1. PICK rest : rest = Without(list, i)  OBVIOUS
<1>2. PICK new : new = <<n>> \o rest  OBVIOUS
<1>3. i \in 1 .. Len(list) /\ Len(list) \in Nat  BY SMT
<1>4. /\ rest \in Seq(Nodes) /\ Len(rest) = Len(list) - 1
      /\ \A j \in 1 .. Len(list) - 1 : rest[j] = IF j < i THEN list[j] ELSE list[j + 1]
  BY <1>1, WithoutIs
<1>5. /\ new \in Seq(Nodes) /\ Len(new) = Len(rest) + 1 /\ new[1] = n
      /\ \A j \in 1 .. Len(rest) : new[j + 1] = rest[j]
  BY <1>2, <1>4, PrependIs, SMT
<1>6. Pushed(list, new)
  <2> SUFFICES ASSUME NEW j \in DOMAIN list
               PROVE  \E k \in DOMAIN new : k <= j + 1 /\ new[k].id = list[j].id
    BY DEF Pushed
  <2>1. j \in 1 .. Len(list) /\ DOMAIN new = 1 .. Len(list)  BY <1>3, <1>4, <1>5, SMT
  <2>2. CASE j < i
    <3>1. new[j + 1] = rest[j] /\ rest[j] = list[j] /\ j + 1 \in 1 .. Len(list)
      BY <1>3, <1>4, <1>5, <2>1, <2>2, SMT
    <3> QED  BY <2>1, <3>1, SMT
  <2>3. CASE j = i  BY <1>3, <1>5, <2>1, <2>3, SMT
  <2>4. CASE j > i
    <3>1. PICK k \in 1 .. Len(list) - 1 : j = k + 1
      <4>1. j - 1 \in 1 .. Len(list) - 1 /\ j = (j - 1) + 1  BY <1>3, <2>1, <2>4, SMT
      <4> QED  BY <4>1
    <3>2. new[j] = rest[k]  BY <1>3, <1>4, <1>5, <3>1
    <3>3. ~(k < i)  BY <1>3, <2>4, <3>1, SMT
    <3>4. rest[k] = list[j]  BY <1>4, <3>1, <3>3
    <3>5. j <= j + 1  BY <2>1, SMT
    <3> QED  BY <2>1, <3>2, <3>4, <3>5
  <2> QED  BY <1>3, <2>1, <2>2, <2>3, <2>4, SMT
<1> QED  BY <1>1, <1>2, <1>3, <1>4, <1>5, <1>6, SMT DEF ToFront

\* A new node goes to the front; the list stays within the limit, and only
\* a node in the last possible place is evicted.
LEMMA MovedBack ==
    ASSUME Sensible, NEW old \in Seq(Nodes), NEW n \in Nodes,
           Len(old) <= bucket_elements_limit,
           NEW list, list = <<n>> \o old,
           NEW new, new = Trimmed(list)
    PROVE  /\ new \in Seq(Nodes)
           /\ Len(new) = IF OverLimit(list) THEN Len(old) ELSE Len(old) + 1
           /\ Len(new) <= bucket_elements_limit
           /\ Pushed(old, new)
<1>1. Len(old) \in Nat /\ bucket_elements_limit \in Nat \ {0}  BY SMT DEF Sensible
<1>2. /\ list \in Seq(Nodes) /\ Len(list) = Len(old) + 1
      /\ \A j \in 1 .. Len(old) : list[j + 1] = old[j]
  BY PrependIs, SMT
<1>3. OverLimit(list) <=> Len(old) = bucket_elements_limit  BY <1>1, <1>2, SMT DEF OverLimit
<1>4. /\ new \in Seq(Nodes)
      /\ Len(new) = IF OverLimit(list) THEN Len(old) ELSE Len(old) + 1
      /\ \A j \in 1 .. Len(new) : new[j] = list[j]
  <2>1. CASE OverLimit(list)
    <3>1. new = SubSeq(list, 1, Len(old))  BY <1>1, <1>2, <2>1, SMT DEF Trimmed
    <3>2. Len(old) \in 0 .. Len(list)  BY <1>1, <1>2, SMT
    <3>3. PICK k \in 0 .. Len(list) : k = Len(old)  BY <3>2
    <3>4. /\ SubSeq(list, 1, k) \in Seq(Nodes) /\ Len(SubSeq(list, 1, k)) = k
          /\ \A j \in 1 .. k : SubSeq(list, 1, k)[j] = list[j]
      BY <1>2, HeadIs
    <3> QED  BY <2>1, <3>1, <3>3, <3>4
  <2>2. CASE ~OverLimit(list)  BY <1>2, <2>2 DEF Trimmed
  <2> QED  BY <2>1, <2>2
<1>5. Pushed(old, new)
  <2> SUFFICES ASSUME NEW j \in DOMAIN old, j < bucket_elements_limit
               PROVE  \E k \in DOMAIN new : k <= j + 1 /\ new[k].id = old[j].id
    BY DEF Pushed
  <2>1. j \in 1 .. Len(old) /\ DOMAIN new = 1 .. Len(new)  BY <1>4, SMT
  <2>2. j + 1 \in 1 .. Len(new)  BY <1>1, <1>3, <1>4, <2>1, SMT
  <2>3. new[j + 1] = old[j]  BY <1>2, <1>4, <2>1, <2>2
  <2>4. j + 1 <= j + 1  BY <2>1, SMT
  <2> QED  BY <2>1, <2>2, <2>3, <2>4
<1> QED  BY <1>1, <1>3, <1>4, <1>5, SMT

-----------------------------------------------------------------------------
(* What a step of coroutine c leaves alone                                   *)

\* Coroutine d is where it was; only its history may have moved.
Stays(d) ==
    /\ co'[d].pc = co[d].pc /\ co'[d].key = co[d].key /\ co'[d].i = co[d].i
    /\ co'[d].index = co[d].index /\ co'[d].min_load = co[d].min_load
    /\ co'[d].ptr = co[d].ptr
OthersStay(c) == \A d \in Coros \ {c} : Stays(d)

\* Coroutine c keeps its thread, gives it up or takes it.
KeepsThread(c) == running' = running /\ (co[c].pc \in OnThread <=> co'[c].pc \in OnThread)
LeavesThread(c) ==
    /\ running[thread[c]] \in {c, None} /\ co'[c].pc \notin OnThread
    /\ running' = [running EXCEPT ![thread[c]] = None]
TakesThread(c) ==
    /\ running[thread[c]] = None /\ co'[c].pc \in OnThread
    /\ running' = [running EXCEPT ![thread[c]] = c]

LEMMA ThreadsKept ==
    ASSUME Sensible, TypeOK, ThreadInv, NEW c \in Coros, OthersStay(c),
           KeepsThread(c) \/ LeavesThread(c) \/ TakesThread(c)
    PROVE  running' \in [Threads -> Coros \union {None}] /\ ThreadInv'
<1>1. running \in [Threads -> Coros \union {None}] /\ None \notin Coros
  BY DEF TypeOK, Sensible
<1>2. \A d \in Coros : thread[d] \in Threads  BY DEF Threads
<1>3. running' \in [Threads -> Coros \union {None}]
  BY <1>1, <1>2 DEF KeepsThread, LeavesThread, TakesThread
<1>4. ASSUME NEW d \in Coros \ {c}
      PROVE  running'[thread[d]] = d <=> running[thread[d]] = d
  BY <1>1, <1>2 DEF KeepsThread, LeavesThread, TakesThread
<1>5. co'[c].pc \in OnThread <=> running'[thread[c]] = c
  <2>1. CASE KeepsThread(c)  BY <2>1 DEF KeepsThread, ThreadInv, Runs
  <2>2. CASE LeavesThread(c)  BY <1>1, <1>2, <2>2 DEF LeavesThread
  <2>3. CASE TakesThread(c)  BY <1>1, <1>2, <2>3 DEF TakesThread
  <2> QED  BY <2>1, <2>2, <2>3
<1>6. \A d \in Coros \ {c} : co'[d].pc \in OnThread <=> running'[thread[d]] = d
  BY <1>4 DEF ThreadInv, Runs, OthersStay, Stays
<1> QED  BY <1>3, <1>5, <1>6 DEF ThreadInv, Runs

LEMMA PlacesKept ==
    ASSUME PlaceInv, NEW c \in Coros, OthersStay(c), NEW l, co'[c] = l, Placed(l),
           \A b \in Buckets : Len(buckets'[b]) <= bucket_elements_limit
    PROVE  PlaceInv'
<1>1. Placed(co[c])'  BY DEF Placed
<1>2. ASSUME NEW d \in Coros \ {c} PROVE Placed(co[d])'
  <2>1. Placed(co[d])  BY DEF PlaceInv
  <2>2. Stays(d)  BY DEF OthersStay
  <2> QED  BY <2>1, <2>2 DEF Placed, Stays
<1>3. \A d \in Coros : Placed(co[d])'  BY <1>1, <1>2
<1> QED  BY <1>3 DEF PlaceInv, Buckets

LEMMA LocksKept ==
    ASSUME LockInv, NEW c \in Coros, OthersStay(c), UNCHANGED bucket_locks,
           co[c].pc \notin UnderLock, co'[c].pc \notin UnderLock
    PROVE  LockInv'
<1> SUFFICES ASSUME NEW b \in Buckets, NEW d \in Coros
             PROVE  bucket_locks'[b] = d <=> co'[d].pc \in UnderLock /\ co'[d].index = b
  BY DEF LockInv, Buckets
<1>1. bucket_locks[b] = d <=> co[d].pc \in UnderLock /\ co[d].index = b  BY DEF LockInv
<1>2. CASE d = c  BY <1>1, <1>2
<1>3. CASE d # c  BY <1>1, <1>3 DEF OthersStay, Stays
<1> QED  BY <1>2, <1>3

\* Hits stay near the front of a list that was pushed back by one access.
LEMMA HitsPushed ==
    ASSUME Sensible, TypeOK, HitInv, NEW c \in Coros, NEW b \in Buckets, NEW new \in Seq(Nodes),
           buckets' = [buckets EXCEPT ![b] = new], Pushed(buckets[b], new),
           Len(buckets[b]) <= bucket_elements_limit,
           \A d \in Coros \ {c} : co'[d] = Accessed(co, b)[d],
           co'[c].pc = "use" => co'[c].ptr \in Buckets \X Int
                                /\ Near(buckets'[co'[c].ptr[1]], co'[c].ptr[2], co'[c].since)
    PROVE  HitInv'
<1> SUFFICES ASSUME NEW d \in Coros, co'[d].pc = "use"
             PROVE  /\ co'[d].ptr \in Buckets \X Int
                    /\ \/ Near(buckets'[co'[d].ptr[1]], co'[d].ptr[2], co'[d].since)
                       \/ co'[d].since >= bucket_elements_limit
  BY DEF HitInv, Buckets, Near
<1>1. CASE d = c  BY <1>1
<1>2. CASE d # c
  <2>1. co[d] \in Coroutine /\ buckets \in [Buckets -> Seq(Nodes)]  BY DEF TypeOK
  <2>2. co'[d] = IF co[d].ptr # None /\ co[d].ptr[1] = b
                 THEN [co[d] EXCEPT !.since = @ + 1] ELSE co[d]
    BY <1>2 DEF Accessed
  <2>3. co[d].pc = "use" /\ co'[d].ptr = co[d].ptr  BY <2>1, <2>2 DEF Coroutine
  <2>4. /\ co[d].ptr \in Buckets \X Int
        /\ \/ Near(buckets[co[d].ptr[1]], co[d].ptr[2], co[d].since)
           \/ co[d].since >= bucket_elements_limit
    BY <2>3 DEF HitInv
  <2>5. PICK p \in Buckets, id \in Int, since \in Nat :
          co[d].ptr = <<p, id>> /\ co[d].since = since
    <3>1. co[d].since \in Nat  BY <2>1 DEF Coroutine
    <3> QED  BY <2>4, <3>1, SMT
  <2>6. bucket_elements_limit \in Nat  BY DEF Sensible
  <2>7. CASE p # b
    <3>1. co'[d] = co[d] /\ buckets'[p] = buckets[p]  BY <2>1, <2>2, <2>5, <2>7, SMT
    <3> QED  BY <2>4, <2>5, <3>1, SMT
  <2>8. CASE p = b
    <3>1. co'[d].since = since + 1
      BY <2>1, <2>2, <2>4, <2>5, <2>8, SMT DEF Coroutine, Sensible
    <3>2. buckets'[p] = new  BY <2>1, <2>8
    <3>3. CASE since >= bucket_elements_limit  BY <2>3, <2>4, <2>6, <3>1, <3>3, SMT
    <3>4. CASE Near(buckets[p], id, since)
      <4>1. PICK j \in DOMAIN buckets[p] : j <= since + 1 /\ buckets[p][j].id = id
        BY <3>4 DEF Near
      <4>2. j \in 1 .. Len(buckets[p]) /\ Len(buckets[p]) \in Nat  BY <2>1, SMT
      <4>3. CASE j < bucket_elements_limit
        <5>1. PICK i \in DOMAIN new : i <= j + 1 /\ new[i].id = buckets[p][j].id
          BY <2>8, <4>1, <4>3 DEF Pushed
        <5>2. i \in 1 .. Len(new) /\ i <= (since + 1) + 1  BY <2>5, <4>1, <4>2, <5>1, SMT
        <5>3. Near(new, id, since + 1)  BY <4>1, <5>1, <5>2 DEF Near
        <5> QED  BY <2>3, <2>4, <2>5, <3>1, <3>2, <5>3, SMT
      <4>4. CASE ~(j < bucket_elements_limit)
        <5>1. since + 1 >= bucket_elements_limit  BY <2>6, <2>8, <4>1, <4>2, <4>4, SMT
        <5> QED  BY <2>3, <2>4, <3>1, <5>1
      <4> QED  BY <4>3, <4>4
    <3> QED  BY <2>4, <2>5, <3>3, <3>4, SMT
  <2> QED  BY <2>7, <2>8
<1> QED  BY <1>1, <1>2

LEMMA HitsUntouched ==
    ASSUME HitInv, NEW c \in Coros, UNCHANGED buckets, co'[c].pc # "use",
           \A d \in Coros \ {c} : co'[d] = co[d]
    PROVE  HitInv'
BY SMT DEF HitInv, Near, Buckets

LEMMA SizesKept ==
    ASSUME SizeInv, NEW c \in Coros, OthersStay(c), UNCHANGED cur_size,
           co[c].pc # "emplace", co'[c].pc # "emplace",
           DOMAIN buckets' = DOMAIN buckets,
           \A b \in DOMAIN buckets : DOMAIN buckets'[b] = DOMAIN buckets[b]
    PROVE  SizeInv'
<1>1. Emplacing' = Emplacing  BY DEF Emplacing, OthersStay, Stays
<1>2. Total' = Total
  <2>1. Places(buckets)' = Places(buckets)  BY DEF Places
  <2> QED  BY <2>1 DEF Total
<1> QED  BY <1>1, <1>2 DEF SizeInv, Threads

-----------------------------------------------------------------------------
(* Steps that leave the buckets and their mutexes alone                      *)

LEMMA LocalStep ==
    ASSUME Sensible, IInv, NEW c \in Coros, NEW l \in Coroutine, co' = [co EXCEPT ![c] = l],
           Placed(l), l.pc \notin UnderLock, l.pc # "use", co[c].pc \notin UnderLock,
           KeepsThread(c) \/ LeavesThread(c) \/ TakesThread(c),
           UNCHANGED <<buckets, bucket_locks, cur_size, made>>,
           store' \in [Keys -> Nat], ops' \in Nat
    PROVE  IInv'
<1>1. TypeOK /\ ThreadInv /\ PlaceInv /\ LockInv /\ HitInv /\ SizeInv  BY DEF IInv
<1>2. co \in [Coros -> Coroutine]  BY <1>1 DEF TypeOK
<1>3. co' \in [Coros -> Coroutine] /\ co'[c] = l /\ \A d \in Coros \ {c} : co'[d] = co[d]
  BY <1>2
<1>4. OthersStay(c)  BY <1>3 DEF OthersStay, Stays
<1>5. running' \in [Threads -> Coros \union {None}] /\ ThreadInv'  BY <1>1, <1>4, ThreadsKept
<1>6. TypeOK'  BY <1>1, <1>3, <1>5 DEF TypeOK, Buckets, Threads
<1>7. PlaceInv'
  <2>1. \A b \in Buckets : Len(buckets'[b]) <= bucket_elements_limit  BY <1>1 DEF PlaceInv
  <2> QED  BY <1>1, <1>3, <1>4, <2>1, PlacesKept
<1>8. LockInv'  BY <1>1, <1>3, <1>4, LocksKept
<1>9. HitInv'  BY <1>1, <1>3, HitsUntouched
<1>10. SizeInv'
  <2>1. co[c].pc # "emplace" /\ co'[c].pc # "emplace"  BY <1>3 DEF UnderLock
  <2> QED  BY <1>1, <1>4, <2>1, SizesKept
<1> QED  BY <1>5, <1>6, <1>7, <1>8, <1>9, <1>10 DEF IInv

LEMMA Facts ==
    ASSUME Sensible, IInv, NEW c \in Coros
    PROVE  /\ co[c] \in Coroutine /\ Placed(co[c]) /\ co \in [Coros -> Coroutine]
           /\ store \in [Keys -> Nat] /\ ops \in Nat /\ made \in Nat
           /\ co[c].pc \in OnThread <=> running[thread[c]] = c
           /\ running[thread[c]] = None => co[c].pc \notin OnThread
<1>1. co \in [Coros -> Coroutine] /\ store \in [Keys -> Nat] /\ ops \in Nat /\ made \in Nat
  BY DEF IInv, TypeOK
<1>2. Placed(co[c])  BY DEF IInv, PlaceInv
<1>3. co[c].pc \in OnThread <=> running[thread[c]] = c  BY DEF IInv, ThreadInv, Runs
<1>4. None # c  BY DEF Sensible
<1> QED  BY <1>1, <1>2, <1>3, <1>4

\* Idle is a state of a coroutine that is off its thread.
LEMMA IdleIs ==
    ASSUME Sensible
    PROVE  /\ Idle \in Coroutine /\ Placed(Idle) /\ Idle.pc \notin UnderLock
           /\ Idle.pc # "use" /\ Idle.pc \notin OnThread
<1>1. "idle" \in Labels /\ None \in Operations /\ None \in Pointers /\ 1 \in Candidate
  BY SMT DEF Labels, Operations, Pointers, Candidate
<1>2. Idle \in Coroutine /\ Idle.pc = "idle"  BY <1>1 DEF Idle, Coroutine
<1> QED  BY <1>2 DEF Placed, UnderLock, OnThread

LEMMA work_funcKeeps ==
    ASSUME Sensible, IInv, NEW c \in Coros, NEW op \in Requests[c], NEW k \in Keys,
           work_func(c, op, k)
    PROVE  IInv'
<1> PICK pc \in {"query", "tree"} : pc = IF op = "search" THEN "query" ELSE "tree"
  OBVIOUS
<1>1. PICK l : l = [Idle EXCEPT !.op = op, !.key = k, !.value = ops + 1, !.pc = pc]
  OBVIOUS
<1>2. /\ co' = [co EXCEPT ![c] = l] /\ co[c].pc = "idle" /\ ops' = ops + 1
      /\ running[thread[c]] = None
      /\ running' = [running EXCEPT ![thread[c]] = IF op = "search" THEN c ELSE None]
      /\ UNCHANGED <<buckets, bucket_locks, cur_size, made>> /\ UNCHANGED store
  BY <1>1 DEF work_func, Set
<1>3. co[c] \in Coroutine /\ store \in [Keys -> Nat] /\ ops \in Nat /\ co \in [Coros -> Coroutine]
  BY Facts
<1>4. op \in {"search", "update", "insert"}  BY DEF Sensible
<1>5. l \in Coroutine /\ l.pc = pc /\ l.key = k /\ l.i = 1
  <2>1. pc \in Labels /\ op \in Operations /\ ops + 1 \in Nat /\ Idle \in Coroutine
    BY <1>3, <1>4, IdleIs, SMT DEF Labels, OnThread, Operations
  <2>2. Idle.i = 1  BY DEF Idle
  <2> QED  BY <1>1, <2>1, <2>2 DEF Coroutine
<1>6. Placed(l)
  <2>1. Len(candidates[k]) \in Nat \ {0}  BY SMT DEF Sensible
  <2> QED  BY <1>5, <2>1, SMT DEF Placed
<1>7. l.pc \notin UnderLock /\ l.pc # "use" /\ co[c].pc \notin UnderLock
  BY <1>2, <1>5 DEF UnderLock
<1>8. co'[c] = l  BY <1>2, <1>3
<1>9. KeepsThread(c) \/ LeavesThread(c) \/ TakesThread(c)
  BY <1>2, <1>5, <1>8 DEF LeavesThread, TakesThread, OnThread
<1>10. store' \in [Keys -> Nat] /\ ops' \in Nat  BY <1>2, <1>3, SMT
<1> QED  BY <1>2, <1>5, <1>6, <1>7, <1>9, <1>10, LocalStep

LEMMA TreeOpKeeps ==
    ASSUME Sensible, IInv, NEW c \in Coros, TreeOp(c)
    PROVE  IInv'
<1>1. co[c] \in Coroutine /\ Placed(co[c]) /\ store \in [Keys -> Nat] /\ ops \in Nat
      /\ co \in [Coros -> Coroutine]
  BY Facts
<1>2. PICK l : l = [co[c] EXCEPT !.pc = "resume",
                                 !.value = IF co[c].op = "search" THEN store[co[c].key] ELSE @]
  OBVIOUS
<1>3. /\ co' = [co EXCEPT ![c] = l] /\ co[c].pc = "tree"
      /\ store' = IF co[c].op = "search" THEN store
                  ELSE [store EXCEPT ![co[c].key] = co[c].value]
      /\ UNCHANGED <<buckets, bucket_locks, cur_size, made>> /\ UNCHANGED <<running, ops>>
  BY <1>2 DEF TreeOp, Set
<1>4. co[c].key \in Keys /\ co[c].value \in Nat  BY <1>1, <1>3 DEF Placed, Coroutine
<1>5. l \in Coroutine /\ l.pc = "resume" /\ l.key = co[c].key
  <2>1. "resume" \in Labels /\ store[co[c].key] \in Nat  BY <1>1, <1>4 DEF Labels
  <2> QED  BY <1>1, <1>2, <1>4, <2>1 DEF Coroutine
<1>6. Placed(l)  BY <1>4, <1>5 DEF Placed
<1>7. l.pc \notin UnderLock /\ l.pc # "use" /\ co[c].pc \notin UnderLock
  BY <1>3, <1>5 DEF UnderLock
<1>8. co'[c] = l  BY <1>1, <1>3
<1>9. KeepsThread(c)  BY <1>3, <1>5, <1>8 DEF KeepsThread, OnThread
<1>10. store' \in [Keys -> Nat] /\ ops' \in Nat  BY <1>1, <1>3, <1>4
<1> QED  BY <1>3, <1>5, <1>6, <1>7, <1>9, <1>10, LocalStep

LEMMA ResumeKeeps ==
    ASSUME Sensible, IInv, NEW c \in Coros, Resume(c)
    PROVE  IInv'
<1>1. co[c] \in Coroutine /\ Placed(co[c]) /\ store \in [Keys -> Nat] /\ ops \in Nat
      /\ co \in [Coros -> Coroutine]
  BY Facts
<1>2. /\ co[c].pc = "resume" /\ running[thread[c]] = None
      /\ UNCHANGED <<buckets, bucket_locks, cur_size, made>> /\ UNCHANGED <<store, ops>>
  BY DEF Resume
<1>3. store' \in [Keys -> Nat] /\ ops' \in Nat /\ co[c].pc \notin UnderLock
  BY <1>1, <1>2 DEF UnderLock
<1>4. CASE co[c].op = "insert"
  <2>1. co' = [co EXCEPT ![c] = Idle] /\ UNCHANGED running  BY <1>4 DEF Resume, Set
  <2>2. co'[c] = Idle  BY <1>1, <2>1
  <2>3. KeepsThread(c)  BY <1>2, <2>1, <2>2, IdleIs DEF KeepsThread, OnThread
  <2> QED  BY <1>2, <1>3, <2>1, <2>3, IdleIs, LocalStep
<1>5. CASE co[c].op # "insert"
  <2>1. PICK l : l = [co[c] EXCEPT !.pc = "choose", !.i = 1,
                                   !.min_load = bucket_elements_limit + 1]
    OBVIOUS
  <2>2. co' = [co EXCEPT ![c] = l] /\ running' = [running EXCEPT ![thread[c]] = c]
    BY <1>5, <2>1 DEF Resume, Set
  <2>3. /\ l \in Coroutine /\ l.pc = "choose" /\ l.i = 1 /\ l.key = co[c].key
        /\ l.min_load = bucket_elements_limit + 1
    <3>1. bucket_elements_limit + 1 \in Nat  BY SMT DEF Sensible
    <3>2. "choose" \in Labels /\ 1 \in Candidate  BY SMT DEF Labels, OnThread, Candidate
    <3> QED  BY <1>1, <2>1, <3>1, <3>2 DEF Coroutine
  <2>4. Placed(l)
    <3>1. co[c].key \in Keys  BY <1>1, <1>2 DEF Placed
    <3>2. Len(candidates[co[c].key]) \in Nat \ {0}  BY <3>1, SMT DEF Sensible
    <3> QED  BY <2>3, <3>1, <3>2, SMT DEF Placed
  <2>5. l.pc \notin UnderLock /\ l.pc # "use"  BY <2>3 DEF UnderLock
  <2>6. co'[c] = l  BY <1>1, <2>2
  <2>7. TakesThread(c)  BY <1>2, <2>2, <2>3, <2>6 DEF TakesThread, OnThread
  <2> QED  BY <1>2, <1>3, <2>2, <2>3, <2>4, <2>5, <2>7, LocalStep
<1> QED  BY <1>4, <1>5

LEMMA UseKeeps ==
    ASSUME Sensible, IInv, NEW c \in Coros, Use(c)
    PROVE  IInv'
<1>1. store \in [Keys -> Nat] /\ ops \in Nat /\ co \in [Coros -> Coroutine]  BY Facts
<1>2. /\ co[c].pc = "use" /\ running[thread[c]] = c /\ co' = [co EXCEPT ![c] = Idle]
      /\ running' = [running EXCEPT ![thread[c]] = None]
      /\ UNCHANGED <<buckets, bucket_locks, cur_size, made>> /\ UNCHANGED <<store, ops>>
  BY DEF Use, Set, Yield, Runs
<1>3. store' \in [Keys -> Nat] /\ ops' \in Nat /\ co[c].pc \notin UnderLock
  BY <1>1, <1>2 DEF UnderLock
<1>4. co'[c] = Idle  BY <1>1, <1>2
<1>5. LeavesThread(c)  BY <1>2, <1>4, IdleIs DEF LeavesThread
<1> QED  BY <1>2, <1>3, <1>5, IdleIs, LocalStep

\* The first candidate whose load is read is below min_load.
LEMMA ReadLoadKeeps ==
    ASSUME Sensible, IInv, NEW c \in Coros, ReadLoad(c)
    PROVE  IInv'
<1>1. co[c] \in Coroutine /\ Placed(co[c]) /\ store \in [Keys -> Nat] /\ ops \in Nat
      /\ co \in [Coros -> Coroutine]
  BY Facts
<1>2. PICK b : b = candidates[co[c].key][co[c].i]  OBVIOUS
<1>3. PICK load : load = Len(buckets[b])  OBVIOUS
<1>4. PICK m : m = IF load < co[c].min_load
                   THEN [co[c] EXCEPT !.min_load = load, !.index = b] ELSE co[c]
  OBVIOUS
<1>5. PICK l : l = IF co[c].i < Len(candidates[co[c].key]) THEN [m EXCEPT !.i = @ + 1]
                   ELSE [m EXCEPT !.pc = "lock"]
  OBVIOUS
<1>6. /\ co[c].pc = "choose" /\ co' = [co EXCEPT ![c] = l]
      /\ UNCHANGED <<buckets, bucket_locks, cur_size, made>> /\ UNCHANGED <<running, store, ops>>
  BY <1>2, <1>3, <1>4, <1>5 DEF ReadLoad, Set
<1>7. /\ co[c].key \in Keys /\ co[c].i \in Nat \ {0} /\ co[c].i <= Len(candidates[co[c].key])
      /\ co[c].index \in Buckets \/ (co[c].i = 1 /\ co[c].min_load = bucket_elements_limit + 1)
      /\ co[c].index \in Buckets \union {None} /\ co[c].min_load \in Nat
  BY <1>1, <1>6 DEF Placed, Coroutine, Candidate
<1>8. candidates[co[c].key] \in Seq(Buckets)  BY <1>7 DEF Sensible
<1>9. b \in Buckets  BY <1>2, <1>7, <1>8, SMT
<1>10. load \in Nat /\ load <= bucket_elements_limit /\ bucket_elements_limit \in Nat
  <2>1. buckets[b] \in Seq(Nodes)  BY <1>9 DEF IInv, TypeOK
  <2>2. Len(buckets[b]) <= bucket_elements_limit  BY <1>9 DEF IInv, PlaceInv
  <2> QED  BY <1>3, <2>1, <2>2, SMT DEF Sensible
<1>11. /\ m \in Coroutine /\ m.pc = "choose" /\ m.key = co[c].key /\ m.i = co[c].i
       /\ m.index \in Buckets
  <2>1. CASE load < co[c].min_load
    <3>1. m = [co[c] EXCEPT !.min_load = load, !.index = b]  BY <1>4, <2>1
    <3> QED  BY <1>1, <1>6, <1>9, <1>10, <3>1 DEF Coroutine
  <2>2. CASE ~(load < co[c].min_load)  BY <1>1, <1>4, <1>6, <1>7, <1>10, <2>2, SMT
  <2> QED  BY <2>1, <2>2
<1>12. /\ l \in Coroutine /\ l.key = co[c].key /\ l.index \in Buckets
       /\ \/ l.pc = "choose" /\ l.i = co[c].i + 1 /\ co[c].i < Len(candidates[co[c].key])
          \/ l.pc = "lock"
  <2>1. CASE co[c].i < Len(candidates[co[c].key])
    <3>1. co[c].i + 1 \in Candidate  BY <1>7, SMT DEF Candidate
    <3> QED  BY <1>5, <1>11, <2>1, <3>1 DEF Coroutine
  <2>2. CASE ~(co[c].i < Len(candidates[co[c].key]))
    <3>1. "lock" \in Labels  BY DEF Labels, OnThread
    <3> QED  BY <1>5, <1>11, <2>2, <3>1 DEF Coroutine
  <2> QED  BY <2>1, <2>2
<1>13. Placed(l)
  <2>1. CASE l.pc = "lock"  BY <1>7, <1>12, <2>1 DEF Placed
  <2>2. CASE l.pc = "choose"
    <3>1. Len(candidates[co[c].key]) \in Nat  BY <1>8, SMT
    <3>2. l.i <= Len(candidates[l.key])  BY <1>7, <1>12, <2>2, <3>1, SMT
    <3> QED  BY <1>7, <1>12, <2>2, <3>2 DEF Placed
  <2> QED  BY <1>12, <2>1, <2>2
<1>14. l.pc \notin UnderLock /\ l.pc # "use" /\ co[c].pc \notin UnderLock
  BY <1>6, <1>12 DEF UnderLock
<1>15. co'[c] = l  BY <1>1, <1>6
<1>16. KeepsThread(c)  BY <1>6, <1>12, <1>15 DEF KeepsThread, OnThread
<1>17. store' \in [Keys -> Nat] /\ ops' \in Nat  BY <1>1, <1>6
<1> QED  BY <1>6, <1>12, <1>13, <1>14, <1>16, <1>17, LocalStep

-----------------------------------------------------------------------------
(* Accesses to a node                                                        *)

LEMMA AccessedIs ==
    ASSUME Sensible, TypeOK, NEW c \in Coros, NEW b, NEW l \in Coroutine,
           co' = [Accessed(co, b) EXCEPT ![c] = l]
    PROVE  /\ co' \in [Coros -> Coroutine] /\ co'[c] = l /\ OthersStay(c)
           /\ \A d \in Coros \ {c} : co'[d] = Accessed(co, b)[d]
<1>1. co \in [Coros -> Coroutine]  BY DEF TypeOK
<1>2. ASSUME NEW d \in Coros
      PROVE  /\ Accessed(co, b)[d] \in Coroutine
             /\ Accessed(co, b)[d].pc = co[d].pc /\ Accessed(co, b)[d].key = co[d].key
             /\ Accessed(co, b)[d].i = co[d].i /\ Accessed(co, b)[d].index = co[d].index
             /\ Accessed(co, b)[d].min_load = co[d].min_load
             /\ Accessed(co, b)[d].ptr = co[d].ptr
  <2>1. co[d] \in Coroutine  BY <1>1
  <2>2. Accessed(co, b)[d] \in {[co[d] EXCEPT !.since = @ + 1], co[d]}  BY DEF Accessed
  <2> QED  BY <2>1, <2>2, SMT DEF Coroutine
<1>3. DOMAIN Accessed(co, b) = Coros  BY DEF Accessed
<1>4. PICK f : f = Accessed(co, b)  OBVIOUS
<1>5. f \in [Coros -> Coroutine]
  <2>1. f = [d \in Coros |-> f[d]]  BY <1>4 DEF Accessed
  <2> QED  BY <1>2, <1>4, <2>1
<1>6. co' \in [Coros -> Coroutine] /\ co'[c] = l /\ \A d \in Coros \ {c} : co'[d] = f[d]
  BY <1>4, <1>5
<1> QED  BY <1>2, <1>4, <1>6 DEF OthersStay, Stays

\* A node of bucket b is found, moved to the front and maybe pointed to.
LEMMA FrontStep ==
    ASSUME Sensible, IInv, NEW c \in Coros, NEW b \in Buckets,
           NEW i \in DOMAIN buckets[b], NEW n \in Nodes, n.id = buckets[b][i].id,
           buckets' = [buckets EXCEPT ![b] = ToFront(@, i, n)],
           NEW l \in Coroutine, co' = [Accessed(co, b) EXCEPT ![c] = l],
           Placed(l), l.pc \notin UnderLock, l.pc = "use" => l.ptr = <<b, n.id>>,
           co[c].pc \notin UnderLock,
           KeepsThread(c) \/ LeavesThread(c) \/ TakesThread(c),
           UNCHANGED <<bucket_locks, cur_size, store, ops, made>>
    PROVE  IInv'
<1>1. TypeOK /\ ThreadInv /\ PlaceInv /\ LockInv /\ HitInv /\ SizeInv  BY DEF IInv
<1>2. buckets \in [Buckets -> Seq(Nodes)] /\ buckets[b] \in Seq(Nodes)  BY <1>1 DEF TypeOK
<1>3. /\ co' \in [Coros -> Coroutine] /\ co'[c] = l /\ OthersStay(c)
      /\ \A d \in Coros \ {c} : co'[d] = Accessed(co, b)[d]
  BY <1>1, AccessedIs
<1>4. PICK new : new = ToFront(buckets[b], i, n)  OBVIOUS
<1>5. new \in Seq(Nodes) /\ Len(new) = Len(buckets[b]) /\ new[1] = n /\ Pushed(buckets[b], new)
  BY <1>2, <1>4, MovedToFront, SMT
<1>6. buckets' = [buckets EXCEPT ![b] = new]  BY <1>4
<1>7. running' \in [Threads -> Coros \union {None}] /\ ThreadInv'  BY <1>1, <1>3, ThreadsKept
<1>8. buckets' \in [Buckets -> Seq(Nodes)]  BY <1>2, <1>5, <1>6
<1>9. TypeOK'  BY <1>1, <1>3, <1>7, <1>8 DEF TypeOK, Buckets, Threads
<1>10. \A p \in Buckets : Len(buckets'[p]) = Len(buckets[p])  BY <1>2, <1>5, <1>6
<1>11. PlaceInv'
  <2>1. \A p \in Buckets : Len(buckets'[p]) <= bucket_elements_limit  BY <1>1, <1>10 DEF PlaceInv
  <2> QED  BY <1>1, <1>3, <2>1, PlacesKept
<1>12. LockInv'  BY <1>1, <1>3, LocksKept
<1>13. HitInv'
  <2>1. Len(buckets[b]) <= bucket_elements_limit  BY <1>1 DEF PlaceInv
  <2>2. ASSUME l.pc = "use"
        PROVE  l.ptr \in Buckets \X Int /\ Near(buckets'[l.ptr[1]], l.ptr[2], l.since)
    <3>1. l.ptr = <<b, n.id>> /\ n.id \in Int /\ l.since \in Nat  BY <2>2 DEF Nodes, Coroutine
    <3>2. buckets'[b] = new  BY <1>2, <1>6
    <3>3. Len(new) \in Nat \ {0} /\ DOMAIN new = 1 .. Len(new)  BY <1>2, <1>5, SMT
    <3>4. 1 \in DOMAIN new /\ 1 <= l.since + 1  BY <3>1, <3>3, SMT
    <3>5. Near(new, n.id, l.since)  BY <1>5, <3>4 DEF Near
    <3> QED  BY <3>1, <3>2, <3>5, SMT
  <2> QED  BY <1>1, <1>3, <1>5, <1>6, <2>1, <2>2, HitsPushed
<1>14. SizeInv'
  <2>1. co[c].pc # "emplace" /\ co'[c].pc # "emplace"  BY <1>3 DEF UnderLock
  <2>2. DOMAIN buckets = Buckets /\ DOMAIN buckets' = Buckets  BY <1>2, <1>8
  <2>3. \A p \in Buckets : DOMAIN buckets'[p] = DOMAIN buckets[p]
    <3> TAKE p \in Buckets
    <3>1. buckets[p] \in Seq(Nodes) /\ buckets'[p] \in Seq(Nodes)  BY <1>2, <1>8
    <3> QED  BY <1>10, <3>1, SMT
  <2> QED  BY <1>1, <1>3, <2>1, <2>2, <2>3, SizesKept
<1> QED  BY <1>7, <1>9, <1>11, <1>12, <1>13, <1>14 DEF IInv

LEMMA AccessTimeIs ==
    ASSUME Sensible, NEW n \in Nodes, NEW v \in Nat
    PROVE  /\ update_access_time(n) \in Nodes /\ update_access_time(n).id = n.id
           /\ [update_access_time(n) EXCEPT !.value = v] \in Nodes
           /\ [update_access_time(n) EXCEPT !.value = v].id = n.id
<1>1. PICK a \in Nat : a = IF n.access > MIGRATION_THRESHOLD THEN n.access ELSE n.access + 1
  <2>1. n.access \in Nat  BY DEF Nodes
  <2> QED  BY <2>1, SMT
<1>2. update_access_time(n) = [n EXCEPT !.access = a]  BY <1>1 DEF update_access_time
<1> QED  BY <1>2 DEF Nodes

LEMMA queryKeeps ==
    ASSUME Sensible, IInv, NEW c \in Coros, query(c)
    PROVE  IInv'
<1>1. co[c] \in Coroutine /\ Placed(co[c]) /\ store \in [Keys -> Nat] /\ ops \in Nat
      /\ co \in [Coros -> Coroutine]
  BY Facts
<1>2. PICK b : b = candidates[co[c].key][co[c].i]  OBVIOUS
<1>3. PICK at : at = {i \in DOMAIN buckets[b] : buckets[b][i].key = co[c].key}  OBVIOUS
<1>4. /\ co[c].pc = "query" /\ running[thread[c]] = c
      /\ UNCHANGED <<bucket_locks, cur_size, store, ops, made>>
  BY DEF query, Runs
<1>5. /\ co[c].key \in Keys /\ co[c].i \in Nat \ {0} /\ co[c].i <= Len(candidates[co[c].key])
  BY <1>1, <1>4 DEF Placed, Coroutine, Candidate
<1>6. candidates[co[c].key] \in Seq(Buckets)  BY <1>5 DEF Sensible
<1>7. b \in Buckets  BY <1>2, <1>5, <1>6, SMT
<1>8. co[c].pc \notin UnderLock  BY <1>4 DEF UnderLock
<1>9. ASSUME NEW i \in at,
             buckets' = [buckets EXCEPT ![b] = ToFront(@, i, update_access_time(buckets[b][i]))],
             co' = [Accessed(co, b) EXCEPT ![c] =
                      [co[c] EXCEPT !.pc = "use",
                                    !.ptr = <<b, update_access_time(buckets[b][i]).id>>]],
             UNCHANGED running
      PROVE  IInv'
  <2>1. PICK n : n = update_access_time(buckets[b][i])  OBVIOUS
  <2>2. i \in DOMAIN buckets[b]  BY <1>3
  <2>3. buckets[b][i] \in Nodes
    <3>1. buckets[b] \in Seq(Nodes)  BY <1>7 DEF IInv, TypeOK
    <3> QED  BY <2>2, <3>1, SMT
  <2>4. n \in Nodes /\ n.id = buckets[b][i].id  BY <2>1, <2>3, AccessTimeIs
  <2>5. PICK l : l = [co[c] EXCEPT !.pc = "use", !.ptr = <<b, n.id>>]  OBVIOUS
  <2>6. l \in Coroutine /\ l.pc = "use" /\ l.ptr = <<b, n.id>>
    <3>1. "use" \in Labels  BY DEF Labels, OnThread
    <3>2. n.id \in Int  BY <2>4 DEF Nodes
    <3>3. <<b, n.id>> \in Pointers  BY <1>7, <3>2 DEF Pointers
    <3> QED  BY <1>1, <2>5, <3>1, <3>3 DEF Coroutine
  <2>7. Placed(l) /\ l.pc \notin UnderLock  BY <2>6 DEF Placed, UnderLock
  <2>8. co' = [Accessed(co, b) EXCEPT ![c] = l]  BY <1>9, <2>1, <2>5
  <2>9. co'[c] = l
    <3>1. TypeOK  BY DEF IInv
    <3> QED  BY <2>6, <2>8, <3>1, AccessedIs
  <2>10. KeepsThread(c)  BY <1>4, <1>9, <2>6, <2>9 DEF KeepsThread, OnThread
  <2>11. buckets' = [buckets EXCEPT ![b] = ToFront(@, i, n)]  BY <1>9, <2>1
  <2> QED
    BY <1>4, <1>7, <1>8, <2>2, <2>4, <2>6, <2>7, <2>8, <2>10, <2>11, FrontStep
<1>10. ASSUME co[c].i < Len(candidates[co[c].key]), UNCHANGED buckets, UNCHANGED running,
              co' = [co EXCEPT ![c] = [co[c] EXCEPT !.i = @ + 1]]
       PROVE  IInv'
  <2>1. PICK l : l = [co[c] EXCEPT !.i = @ + 1]  OBVIOUS
  <2>2. l \in Coroutine /\ l.pc = "query" /\ l.key = co[c].key /\ l.i = co[c].i + 1
    <3>1. co[c].i + 1 \in Candidate  BY <1>5, SMT DEF Candidate
    <3> QED  BY <1>1, <1>4, <2>1, <3>1 DEF Coroutine
  <2>3. Placed(l)
    <3>1. Len(candidates[co[c].key]) \in Nat  BY <1>6, SMT
    <3>2. l.i <= Len(candidates[l.key])  BY <1>5, <1>10, <2>2, <3>1, SMT
    <3> QED  BY <1>5, <2>2, <3>2 DEF Placed
  <2>4. co' = [co EXCEPT ![c] = l] /\ co'[c] = l  BY <1>1, <1>10, <2>1
  <2>5. l.pc \notin UnderLock /\ l.pc # "use"  BY <2>2 DEF UnderLock
  <2>6. KeepsThread(c)  BY <1>4, <1>10, <2>2, <2>4 DEF KeepsThread
  <2>7. store' \in [Keys -> Nat] /\ ops' \in Nat  BY <1>1, <1>4
  <2> QED  BY <1>4, <1>8, <1>10, <2>2, <2>3, <2>4, <2>5, <2>6, <2>7, LocalStep
<1>11. ASSUME co' = [co EXCEPT ![c] = [co[c] EXCEPT !.pc = "tree"]],
              running' = [running EXCEPT ![thread[c]] = None], UNCHANGED buckets
       PROVE  IInv'
  <2>1. PICK l : l = [co[c] EXCEPT !.pc = "tree"]  OBVIOUS
  <2>2. l \in Coroutine /\ l.pc = "tree" /\ l.key = co[c].key
    <3>1. "tree" \in Labels  BY DEF Labels
    <3> QED  BY <1>1, <2>1, <3>1 DEF Coroutine
  <2>3. Placed(l) /\ l.pc \notin UnderLock /\ l.pc # "use" /\ l.pc \notin OnThread
    BY <1>5, <2>2 DEF Placed, UnderLock, OnThread
  <2>4. co' = [co EXCEPT ![c] = l] /\ co'[c] = l  BY <1>1, <1>11, <2>1
  <2>5. LeavesThread(c)  BY <1>4, <1>11, <2>3, <2>4 DEF LeavesThread
  <2>6. store' \in [Keys -> Nat] /\ ops' \in Nat  BY <1>1, <1>4
  <2> QED  BY <1>4, <1>8, <1>11, <2>2, <2>3, <2>4, <2>5, <2>6, LocalStep
<1> QED  BY <1>2, <1>3, <1>9, <1>10, <1>11 DEF query, Position, Set, Yield

-----------------------------------------------------------------------------
(* Insertions                                                                *)

\* Coroutines that have their threads are not more than there are threads.
LEMMA OnePerThread ==
    ASSUME Sensible, NEW E \in SUBSET Coros, NEW r, \A c \in E : r[thread[c]] = c
    PROVE  /\ IsFiniteSet(E) /\ Cardinality(E) \in Nat /\ Cardinality(Threads) \in Nat
           /\ Cardinality(E) <= Cardinality(Threads)
<1>1. IsFiniteSet(Coros)  BY DEF Sensible
<1>2. PICK f : f = [c \in Coros |-> thread[c]]  OBVIOUS
<1>3. f \in Surjection(Coros, Threads)  BY <1>2 DEF Threads, Surjection
<1>4. IsFiniteSet(Threads)  BY <1>1, <1>3, FS_Surjection
<1>5. IsFiniteSet(E)  BY <1>1, FS_Subset
<1>6. Cardinality(E) \in Nat /\ Cardinality(Threads) \in Nat
  BY <1>4, <1>5, FS_CardinalityType
<1>7. ASSUME Cardinality(Threads) < Cardinality(E) PROVE FALSE
  <2>1. PICK g : g = [c \in E |-> thread[c]]  OBVIOUS
  <2>2. g \in [E -> Threads]  BY <2>1 DEF Threads
  <2>3. \E x, y \in E : x # y /\ g[x] = g[y]  BY <1>4, <1>5, <1>7, <2>2, FS_PigeonHole, SMT
  <2> QED  BY <2>1, <2>3
<1> QED  BY <1>5, <1>6, <1>7, SMT

LEMMA PlacesAre ==
    ASSUME NEW lists, NEW x
    PROVE  x \in Places(lists) <=>
             \E b \in DOMAIN lists : \E i \in DOMAIN lists[b] : x = <<b, i>>
BY SMT DEF Places

LEMMA PlacesFinite ==
    ASSUME Sensible, NEW lists \in [Buckets -> Seq(Nodes)],
           \A b \in Buckets : Len(lists[b]) <= bucket_elements_limit
    PROVE  IsFiniteSet(Places(lists)) /\ Cardinality(Places(lists)) \in Nat
<1>1. Buckets = 1 .. Len(Preload) /\ Len(Preload) \in Nat /\ bucket_elements_limit \in Nat
  BY SMT DEF Sensible, Buckets
<1>2. IsFiniteSet(Buckets) /\ IsFiniteSet(1 .. bucket_elements_limit)  BY <1>1, FS_Interval, SMT
<1>3. IsFiniteSet(Buckets \X (1 .. bucket_elements_limit))  BY <1>2, FS_Product
<1>4. Places(lists) \subseteq Buckets \X (1 .. bucket_elements_limit)
  <2> SUFFICES ASSUME NEW x \in Places(lists)
               PROVE  x \in Buckets \X (1 .. bucket_elements_limit)
    OBVIOUS
  <2>0. PICK b \in Buckets : \E i \in DOMAIN lists[b] : x = <<b, i>>  BY PlacesAre, SMT
  <2>1. PICK i \in DOMAIN lists[b] : x = <<b, i>>  BY <2>0
  <2>2. lists[b] \in Seq(Nodes) /\ Len(lists[b]) \in Nat  BY SMT
  <2>3. i \in 1 .. bucket_elements_limit  BY <1>1, <2>1, <2>2, SMT
  <2> QED  BY <2>1, <2>3
<1>5. IsFiniteSet(Places(lists))  BY <1>3, <1>4, FS_Subset
<1> QED  BY <1>5, FS_CardinalityType

\* A list that grows by a node adds one place.
LEMMA PlacesGrow ==
    ASSUME Sensible, NEW lists \in [Buckets -> Seq(Nodes)],
           \A p \in Buckets : Len(lists[p]) <= bucket_elements_limit,
           NEW b \in Buckets, NEW new \in Seq(Nodes), Len(new) = Len(lists[b]) + 1
    PROVE  Cardinality(Places([lists EXCEPT ![b] = new])) = Cardinality(Places(lists)) + 1
<1>1. PICK after : after = [lists EXCEPT ![b] = new]  OBVIOUS
<1>2. PICK x : x = <<b, Len(new)>>  OBVIOUS
<1>3. /\ DOMAIN after = Buckets /\ DOMAIN lists = Buckets /\ after[b] = new
      /\ \A p \in Buckets \ {b} : after[p] = lists[p]
  BY <1>1
<1>4. /\ Len(lists[b]) \in Nat /\ DOMAIN lists[b] = 1 .. Len(lists[b])
      /\ DOMAIN new = 1 .. Len(lists[b]) + 1
  BY SMT
<1>5. x \notin Places(lists)
  <2> SUFFICES ASSUME x \in Places(lists) PROVE FALSE  OBVIOUS
  <2>0. PICK p \in Buckets : \E i \in DOMAIN lists[p] : x = <<p, i>>  BY <1>3, PlacesAre, SMT
  <2>1. PICK i \in DOMAIN lists[p] : x = <<p, i>>  BY <2>0
  <2>2. p = b /\ i = Len(new)  BY <1>2, <2>1, SMT
  <2> QED  BY <1>4, <2>1, <2>2, SMT
<1>6. Places(after) = Places(lists) \union {x}
  <2>1. ASSUME NEW y \in Places(after) PROVE y \in Places(lists) \union {x}
    <3>0. PICK p \in Buckets : \E i \in DOMAIN after[p] : y = <<p, i>>  BY <1>3, PlacesAre, SMT
    <3>1. PICK i \in DOMAIN after[p] : y = <<p, i>>  BY <3>0
    <3>2. CASE p # b  BY <1>3, <3>1, <3>2, PlacesAre
    <3>3. CASE p = b /\ i = Len(new)  BY <1>2, <3>1, <3>3
    <3>4. CASE p = b /\ i # Len(new)
      <4>1. i \in DOMAIN lists[p]  BY <1>3, <1>4, <3>1, <3>4, SMT
      <4> QED  BY <1>3, <3>1, <4>1, PlacesAre
    <3> QED  BY <3>2, <3>3, <3>4
  <2>2. ASSUME NEW y \in Places(lists) PROVE y \in Places(after)
    <3>0. PICK p \in Buckets : \E i \in DOMAIN lists[p] : y = <<p, i>>  BY <1>3, PlacesAre, SMT
    <3>1. PICK i \in DOMAIN lists[p] : y = <<p, i>>  BY <3>0
    <3>2. i \in DOMAIN after[p]  BY <1>3, <1>4, <3>1, SMT
    <3> QED  BY <1>3, <3>1, <3>2, PlacesAre
  <2>3. x \in Places(after)
    <3>1. Len(new) \in DOMAIN after[b]  BY <1>3, <1>4, SMT
    <3> QED  BY <1>2, <1>3, <3>1, PlacesAre
  <2> QED  BY <2>1, <2>2, <2>3
<1>7. IsFiniteSet(Places(lists)) /\ Cardinality(Places(lists)) \in Nat  BY PlacesFinite
<1> QED  BY <1>1, <1>5, <1>6, <1>7, FS_AddElement

\* The mutex of bucket b is given up.
LEMMA LockReleased ==
    ASSUME Sensible, TypeOK, LockInv, NEW c \in Coros, NEW b \in Buckets,
           co[c].pc \in UnderLock, co[c].index = b, co'[c].pc \notin UnderLock,
           OthersStay(c), bucket_locks' = [bucket_locks EXCEPT ![b] = None]
    PROVE  bucket_locks' \in [Buckets -> Coros \union {None}] /\ LockInv'
<1>1. bucket_locks \in [Buckets -> Coros \union {None}] /\ None \notin Coros
  BY DEF TypeOK, Sensible
<1>2. bucket_locks' \in [Buckets -> Coros \union {None}]  BY <1>1
<1>3. bucket_locks[b] = c  BY SMT DEF LockInv
<1>4. ASSUME NEW p \in Buckets, NEW d \in Coros
      PROVE  bucket_locks'[p] = d <=> co'[d].pc \in UnderLock /\ co'[d].index = p
  <2>1. bucket_locks[p] = d <=> co[d].pc \in UnderLock /\ co[d].index = p  BY DEF LockInv
  <2>2. CASE d = c
    <3>1. bucket_locks'[p] # c
      <4>1. CASE p = b  BY <1>1, <4>1
      <4>2. CASE p # b  BY <1>1, <2>1, <2>2, <4>2
      <4> QED  BY <4>1, <4>2
    <3> QED  BY <2>2, <3>1
  <2>3. CASE d # c
    <3>1. bucket_locks'[p] = d <=> bucket_locks[p] = d  BY <1>1, <1>3, <2>3
    <3> QED  BY <2>1, <2>3, <3>1 DEF OthersStay, Stays
  <2> QED  BY <2>2, <2>3
<1> QED  BY <1>2, <1>4 DEF LockInv, Buckets

LEMMA LockChosenKeeps ==
    ASSUME Sensible, IInv, NEW c \in Coros, LockChosen(c)
    PROVE  IInv'
<1>1. co[c] \in Coroutine /\ Placed(co[c]) /\ store \in [Keys -> Nat] /\ ops \in Nat
      /\ co \in [Coros -> Coroutine]
  BY Facts
<1>2. PICK b : b = co[c].index  OBVIOUS
<1>3. PICK at : at = {i \in DOMAIN buckets[b] : buckets[b][i].key = co[c].key}  OBVIOUS
<1>4. /\ co[c].pc = "lock" /\ running[thread[c]] = c /\ bucket_locks[b] = None
      /\ UNCHANGED <<cur_size, store, ops, made>>
  BY <1>2 DEF LockChosen, Runs
<1>5. b \in Buckets /\ co[c].value \in Nat /\ co[c].key \in Keys
  BY <1>1, <1>2, <1>4 DEF Placed, Coroutine
<1>6. co[c].pc \notin UnderLock  BY <1>4 DEF UnderLock
<1>7. store' \in [Keys -> Nat] /\ ops' \in Nat  BY <1>1, <1>4
<1>8. ASSUME NEW i \in at,
             buckets' = [buckets EXCEPT ![b] =
               ToFront(@, i, [update_access_time(buckets[b][i]) EXCEPT !.value = co[c].value])],
             co' = [Accessed(co, b) EXCEPT ![c] = Idle],
             running' = [running EXCEPT ![thread[c]] = None], UNCHANGED bucket_locks
      PROVE  IInv'
  <2>1. PICK n : n = [update_access_time(buckets[b][i]) EXCEPT !.value = co[c].value]  OBVIOUS
  <2>2. i \in DOMAIN buckets[b]  BY <1>3
  <2>3. buckets[b][i] \in Nodes
    <3>1. buckets[b] \in Seq(Nodes)  BY <1>5 DEF IInv, TypeOK
    <3> QED  BY <2>2, <3>1, SMT
  <2>4. n \in Nodes /\ n.id = buckets[b][i].id  BY <1>5, <2>1, <2>3, AccessTimeIs
  <2>5. co'[c] = Idle
    <3>1. TypeOK  BY DEF IInv
    <3> QED  BY <1>8, <3>1, IdleIs, AccessedIs
  <2>6. LeavesThread(c)  BY <1>4, <1>8, <2>5, IdleIs DEF LeavesThread
  <2>7. buckets' = [buckets EXCEPT ![b] = ToFront(@, i, n)]  BY <1>8, <2>1
  <2>8. PICK l \in Coroutine : /\ l = Idle /\ Placed(l)
                               /\ l.pc \notin UnderLock /\ l.pc # "use"
    BY IdleIs
  <2>9. co' = [Accessed(co, b) EXCEPT ![c] = l]  BY <1>8, <2>8
  <2>10. UNCHANGED <<bucket_locks, cur_size, store, ops, made>>  BY <1>4, <1>8
  <2> QED  BY <1>5, <1>6, <2>2, <2>4, <2>6, <2>7, <2>8, <2>9, <2>10, FrontStep
<1>9. ASSUME co' = [co EXCEPT ![c] = Idle], running' = [running EXCEPT ![thread[c]] = None],
             UNCHANGED <<buckets, bucket_locks>>
      PROVE  IInv'
  <2>1. co'[c] = Idle  BY <1>1, <1>9
  <2>2. LeavesThread(c)  BY <1>4, <1>9, <2>1, IdleIs DEF LeavesThread
  <2> QED  BY <1>4, <1>6, <1>7, <1>9, <2>2, IdleIs, LocalStep
<1>10. ASSUME cur_size < capacity, co' = [co EXCEPT ![c] = [co[c] EXCEPT !.pc = "emplace"]],
              bucket_locks' = [bucket_locks EXCEPT ![b] = c], UNCHANGED <<buckets, running>>
       PROVE  IInv'
  <2>1. TypeOK /\ ThreadInv /\ PlaceInv /\ LockInv /\ HitInv /\ SizeInv  BY DEF IInv
  <2>2. PICK l : l = [co[c] EXCEPT !.pc = "emplace"]  OBVIOUS
  <2>3. l \in Coroutine /\ l.pc = "emplace" /\ l.index = b /\ l.key = co[c].key
    <3>1. "emplace" \in Labels  BY DEF Labels, OnThread
    <3> QED  BY <1>1, <1>2, <2>2, <3>1 DEF Coroutine
  <2>4. co' \in [Coros -> Coroutine] /\ co'[c] = l /\ \A d \in Coros \ {c} : co'[d] = co[d]
    BY <1>1, <1>10, <2>2, <2>3
  <2>5. OthersStay(c)  BY <2>4 DEF OthersStay, Stays
  <2>6. KeepsThread(c)  BY <1>4, <1>10, <2>3, <2>4 DEF KeepsThread, OnThread
  <2>7. running' \in [Threads -> Coros \union {None}] /\ ThreadInv'
    BY <2>1, <2>5, <2>6, ThreadsKept
  <2>8. bucket_locks \in [Buckets -> Coros \union {None}] /\ None \notin Coros
    BY <2>1 DEF TypeOK, Sensible
  <2>9. TypeOK'  BY <1>4, <1>10, <2>1, <2>4, <2>7, <2>8 DEF TypeOK, Buckets, Threads
  <2>10. PlaceInv'
    <3>1. Placed(l)  BY <1>5, <2>3 DEF Placed
    <3>2. \A p \in Buckets : Len(buckets'[p]) <= bucket_elements_limit
      BY <1>10, <2>1 DEF PlaceInv
    <3> QED  BY <2>1, <2>4, <2>5, <3>1, <3>2, PlacesKept
  <2>11. LockInv'
    <3>1. ASSUME NEW p \in Buckets, NEW d \in Coros
          PROVE  bucket_locks'[p] = d <=> co'[d].pc \in UnderLock /\ co'[d].index = p
      <4>1. bucket_locks[p] = d <=> co[d].pc \in UnderLock /\ co[d].index = p
        BY <2>1 DEF LockInv
      <4>2. CASE d = c
        <5>1. bucket_locks'[p] = c <=> p = b  BY <1>5, <1>6, <1>10, <2>8, <4>1, <4>2
        <5> QED  BY <2>3, <2>4, <4>2, <5>1 DEF UnderLock
      <4>3. CASE d # c
        <5>1. bucket_locks'[p] = d <=> bucket_locks[p] = d  BY <1>4, <1>5, <1>10, <2>8, <4>3
        <5> QED  BY <2>4, <4>1, <4>3, <5>1
      <4> QED  BY <4>2, <4>3
    <3> QED  BY <3>1 DEF LockInv, Buckets
  <2>12. HitInv'  BY <1>10, <2>1, <2>3, <2>4, HitsUntouched
  <2>13. SizeInv'
    <3>1. Total' = Total /\ cur_size' = cur_size  BY <1>4, <1>10 DEF Total, Places
    <3>2. \A d \in Emplacing' : running'[thread[d]] = d
      BY <2>7 DEF ThreadInv, Runs, Emplacing, OnThread
    <3>3. Emplacing' \in SUBSET Coros  BY DEF Emplacing
    <3>4. /\ Cardinality(Emplacing') \in Nat /\ Cardinality(Threads) \in Nat
          /\ Cardinality(Emplacing') <= Cardinality(Threads)
      BY <3>2, <3>3, OnePerThread
    <3>5. cur_size \in Nat /\ capacity \in Nat  BY <2>1 DEF TypeOK, Sensible
    <3>6. cur_size + Cardinality(Emplacing') < capacity + Cardinality(Threads)
      BY <1>10, <3>4, <3>5, SMT
    <3> QED  BY <2>1, <3>1, <3>6 DEF SizeInv, Threads
  <2> QED  BY <2>7, <2>9, <2>10, <2>11, <2>12, <2>13 DEF IInv
<1> QED  BY <1>2, <1>3, <1>8, <1>9, <1>10 DEF LockChosen, Position, Set, Yield, Done

LEMMA MigratedKeeps ==
    ASSUME Sensible, IInv, NEW c \in Coros, Migrated(c)
    PROVE  IInv'
<1>1. co[c] \in Coroutine /\ Placed(co[c]) /\ co \in [Coros -> Coroutine]  BY Facts
<1>2. TypeOK /\ ThreadInv /\ PlaceInv /\ LockInv /\ HitInv /\ SizeInv  BY DEF IInv
<1>3. PICK b : b = co[c].index  OBVIOUS
<1>4. /\ co[c].pc = "migrate" /\ co' = [co EXCEPT ![c] = Idle]
      /\ bucket_locks' = [bucket_locks EXCEPT ![b] = None]
      /\ UNCHANGED <<buckets, cur_size, running, store, ops, made>>
  BY <1>3 DEF Migrated, Set
<1>5. b \in Buckets /\ co[c].pc \in UnderLock  BY <1>1, <1>3, <1>4 DEF Placed, UnderLock
<1>6. co' \in [Coros -> Coroutine] /\ co'[c] = Idle /\ \A d \in Coros \ {c} : co'[d] = co[d]
  BY <1>1, <1>4, IdleIs
<1>7. OthersStay(c)  BY <1>6 DEF OthersStay, Stays
<1>8. KeepsThread(c)  BY <1>4, <1>6, IdleIs DEF KeepsThread, OnThread
<1>9. running' \in [Threads -> Coros \union {None}] /\ ThreadInv'  BY <1>2, <1>7, <1>8, ThreadsKept
<1>10. bucket_locks' \in [Buckets -> Coros \union {None}] /\ LockInv'
  BY <1>2, <1>3, <1>4, <1>5, <1>6, <1>7, IdleIs, LockReleased
<1>11. TypeOK'  BY <1>2, <1>4, <1>6, <1>9, <1>10 DEF TypeOK, Buckets, Threads
<1>12. PlaceInv'
  <2>1. \A p \in Buckets : Len(buckets'[p]) <= bucket_elements_limit  BY <1>2, <1>4 DEF PlaceInv
  <2> QED  BY <1>2, <1>6, <1>7, <2>1, IdleIs, PlacesKept
<1>13. HitInv'  BY <1>2, <1>4, <1>6, IdleIs, HitsUntouched
<1>14. SizeInv'
  <2>1. co[c].pc # "emplace" /\ co'[c].pc # "emplace"  BY <1>4, <1>6, IdleIs DEF UnderLock
  <2> QED  BY <1>2, <1>4, <1>7, <2>1, SizesKept
<1> QED  BY <1>9, <1>10, <1>11, <1>12, <1>13, <1>14 DEF IInv

\* The new node is counted, unless another one left for it.
LEMMA EmplaceKeeps ==
    ASSUME Sensible, IInv, NEW c \in Coros, Emplace(c)
    PROVE  IInv'
<1>1. co[c] \in Coroutine /\ Placed(co[c]) /\ co \in [Coros -> Coroutine] /\ made \in Nat
      /\ (co[c].pc \in OnThread <=> running[thread[c]] = c)
  BY Facts
<1>2. TypeOK /\ ThreadInv /\ PlaceInv /\ LockInv /\ HitInv /\ SizeInv  BY DEF IInv
<1>3. PICK b : b = co[c].index  OBVIOUS
<1>4. PICK n : n = Node(co[c].key, co[c].value, made + 1)  OBVIOUS
<1>5. PICK list : list = <<n>> \o buckets[b]  OBVIOUS
<1>6. PICK new : new = Trimmed(list)  OBVIOUS
<1>7. /\ co[c].pc = "emplace" /\ made' = made + 1 /\ buckets' = [buckets EXCEPT ![b] = new]
      /\ cur_size' = IF OverLimit(list) THEN cur_size ELSE cur_size + 1
      /\ UNCHANGED <<store, ops>>
  BY <1>3, <1>4, <1>5, <1>6 DEF Emplace
<1>8. b \in Buckets /\ co[c].key \in Keys /\ co[c].value \in Nat /\ co[c].pc \in UnderLock
  BY <1>1, <1>3, <1>7 DEF Placed, Coroutine, UnderLock
<1>9. running[thread[c]] = c  BY <1>1, <1>7 DEF OnThread
<1>10. n \in Nodes  BY <1>1, <1>4, <1>8, SMT DEF Node, Nodes
<1>11. buckets \in [Buckets -> Seq(Nodes)] /\ buckets[b] \in Seq(Nodes)  BY <1>2, <1>8 DEF TypeOK
<1>12. Len(buckets[b]) <= bucket_elements_limit  BY <1>2, <1>8 DEF PlaceInv
<1>13. /\ new \in Seq(Nodes) /\ Len(new) <= bucket_elements_limit /\ Pushed(buckets[b], new)
       /\ Len(new) = IF OverLimit(list) THEN Len(buckets[b]) ELSE Len(buckets[b]) + 1
  BY <1>5, <1>6, <1>10, <1>11, <1>12, MovedBack
<1>14. \E l \in Coroutine :
         /\ co' = [Accessed(co, b) EXCEPT ![c] = l]
         /\ running' = [running EXCEPT ![thread[c]] = None]
         /\ \/ l.pc = "migrate" /\ l.index = b /\ UNCHANGED bucket_locks
            \/ l = Idle /\ bucket_locks' = [bucket_locks EXCEPT ![b] = None]
  <2>1. CASE /\ co' = [Accessed(co, b) EXCEPT ![c].pc = "migrate"]
             /\ Yield(c) /\ UNCHANGED bucket_locks
    <3>1. PICK m : m = Accessed(co, b)[c]  OBVIOUS
    <3>2. m \in Coroutine /\ m.index = b
      <4>1. m \in {[co[c] EXCEPT !.since = @ + 1], co[c]}  BY <3>1 DEF Accessed
      <4> QED  BY <1>1, <1>3, <4>1, SMT DEF Coroutine
    <3>3. PICK l : l = [m EXCEPT !.pc = "migrate"]  OBVIOUS
    <3>4. l \in Coroutine /\ l.pc = "migrate" /\ l.index = b
      <4>1. "migrate" \in Labels  BY DEF Labels
      <4> QED  BY <3>2, <3>3, <4>1 DEF Coroutine
    <3>5. co' = [Accessed(co, b) EXCEPT ![c] = l]  BY <2>1, <3>1, <3>3
    <3> QED  BY <2>1, <3>4, <3>5 DEF Yield
  <2>2. CASE /\ Done(c, Accessed(co, b))
             /\ bucket_locks' = [bucket_locks EXCEPT ![b] = None]
    <3>1. Idle \in Coroutine  BY IdleIs
    <3> QED  BY <2>2, <3>1 DEF Done, Yield
  <2> QED  BY <1>3, <1>4, <1>5, <2>1, <2>2 DEF Emplace
<1>15. PICK l \in Coroutine :
         /\ co' = [Accessed(co, b) EXCEPT ![c] = l]
         /\ running' = [running EXCEPT ![thread[c]] = None]
         /\ \/ l.pc = "migrate" /\ l.index = b /\ UNCHANGED bucket_locks
            \/ l = Idle /\ bucket_locks' = [bucket_locks EXCEPT ![b] = None]
  BY <1>14
<1>16. /\ co' \in [Coros -> Coroutine] /\ co'[c] = l /\ OthersStay(c)
       /\ \A d \in Coros \ {c} : co'[d] = Accessed(co, b)[d]
  BY <1>2, <1>15, AccessedIs
<1>17. l.pc \in {"migrate", "idle"} /\ Placed(l)
  <2>1. CASE l.pc = "migrate" /\ l.index = b  BY <1>8, <2>1 DEF Placed
  <2>2. CASE l = Idle  BY <2>2, IdleIs DEF Idle
  <2> QED  BY <1>15, <2>1, <2>2
<1>18. LeavesThread(c)  BY <1>9, <1>15, <1>16, <1>17 DEF LeavesThread, OnThread
<1>19. running' \in [Threads -> Coros \union {None}] /\ ThreadInv'
  BY <1>2, <1>16, <1>18, ThreadsKept
<1>20. bucket_locks' \in [Buckets -> Coros \union {None}] /\ LockInv'
  <2>1. CASE l.pc = "migrate" /\ l.index = b /\ UNCHANGED bucket_locks
    <3>1. \A d \in Coros : co'[d].index = co[d].index
                           /\ (co'[d].pc \in UnderLock <=> co[d].pc \in UnderLock)
      BY <1>3, <1>8, <1>16, <2>1 DEF OthersStay, Stays, UnderLock
    <3> QED  BY <1>2, <2>1, <3>1, SMT DEF TypeOK, LockInv, Buckets
  <2>2. CASE l = Idle /\ bucket_locks' = [bucket_locks EXCEPT ![b] = None]
    BY <1>2, <1>3, <1>8, <1>16, <2>2, IdleIs, LockReleased
  <2> QED  BY <1>15, <2>1, <2>2
<1>21. cur_size' \in Nat  BY <1>2, <1>7, SMT DEF TypeOK
<1>22. buckets' \in [Buckets -> Seq(Nodes)]  BY <1>7, <1>11, <1>13
<1>23. TypeOK'
  <2>1. made' \in Nat /\ store' = store /\ ops' = ops  BY <1>1, <1>7, SMT
  <2>2. store \in [Keys -> Nat] /\ ops \in Nat  BY <1>2 DEF TypeOK
  <2> QED  BY <1>16, <1>19, <1>20, <1>21, <1>22, <2>1, <2>2 DEF TypeOK, Buckets, Threads
<1>24. PlaceInv'
  <2>1. \A p \in Buckets : Len(buckets'[p]) <= bucket_elements_limit
    BY <1>2, <1>7, <1>11, <1>13 DEF PlaceInv
  <2> QED  BY <1>2, <1>16, <1>17, <2>1, PlacesKept
<1>25. HitInv'
  <2>1. co'[c].pc # "use"  BY <1>16, <1>17
  <2> QED  BY <1>2, <1>7, <1>8, <1>12, <1>13, <1>16, <2>1, HitsPushed
<1>26. SizeInv'
  <2>1. /\ IsFiniteSet(Emplacing) /\ Cardinality(Emplacing) \in Nat
        /\ Cardinality(Threads) \in Nat
    <3>1. \A d \in Emplacing : running[thread[d]] = d
      BY <1>2 DEF Emplacing, ThreadInv, Runs, OnThread
    <3>2. Emplacing \in SUBSET Coros  BY DEF Emplacing
    <3> QED  BY <3>1, <3>2, OnePerThread
  <2>2. Emplacing' = Emplacing \ {c} /\ c \in Emplacing
    BY <1>7, <1>16, <1>17 DEF Emplacing, OthersStay, Stays
  <2>3. Cardinality(Emplacing') = Cardinality(Emplacing) - 1  BY <2>1, <2>2, FS_RemoveElement
  <2>4. cur_size \in Nat /\ capacity \in Nat  BY <1>2 DEF TypeOK, Sensible
  <2>5. \A p \in Buckets : Len(buckets[p]) <= bucket_elements_limit  BY <1>2 DEF PlaceInv
  <2>6. cur_size' = Cardinality(Places(buckets'))
    <3>1. cur_size = Cardinality(Places(buckets))  BY <1>2 DEF SizeInv, Total
    <3>2. CASE OverLimit(list)
      <4>1. DOMAIN buckets' = DOMAIN buckets  BY <1>7
      <4>2. \A p \in DOMAIN buckets : DOMAIN buckets'[p] = DOMAIN buckets[p]
        BY <1>7, <1>11, <1>13, <3>2, SMT
      <4>3. Places(buckets') = Places(buckets)  BY <4>1, <4>2 DEF Places
      <4> QED  BY <1>7, <3>1, <3>2, <4>3
    <3>3. CASE ~OverLimit(list)
      <4>1. Cardinality(Places([buckets EXCEPT ![b] = new]))
              = Cardinality(Places(buckets)) + 1
        BY <1>8, <1>11, <1>13, <2>5, <3>3, PlacesGrow
      <4> QED  BY <1>7, <3>1, <3>3, <4>1
    <3> QED  BY <3>2, <3>3
  <2>7. cur_size' + Cardinality(Emplacing') < capacity + Cardinality(Threads)
    BY <1>2, <1>7, <2>1, <2>3, <2>4, SMT DEF SizeInv
  <2> QED  BY <2>6, <2>7 DEF SizeInv, Total, Threads, Places
<1> QED  BY <1>19, <1>20, <1>23, <1>24, <1>25, <1>26 DEF IInv

-----------------------------------------------------------------------------
(* The theorems                                                              *)

LEMMA InitHolds ==
    ASSUME Sensible, Init
    PROVE  IInv
<1>1. /\ Preload \in Seq(Seq(Keys)) /\ bucket_elements_limit \in Nat
      /\ \A b \in Buckets : Len(Preload[b]) <= bucket_elements_limit
      /\ MIGRATION_THRESHOLD \in Nat /\ capacity \in Nat /\ None \notin Coros /\ Coros # {}
      /\ Cardinality(Places(Preload)) <= capacity
  BY DEF Sensible
<1>2. co = [c \in Coros |-> Idle] /\ \A c \in Coros : co[c] = Idle  BY DEF Init
<1>3. ASSUME NEW b \in Buckets
      PROVE  /\ buckets[b] \in Seq(Nodes) /\ Len(buckets[b]) = Len(Preload[b])
             /\ DOMAIN buckets[b] = DOMAIN Preload[b]
  <2>1. Preload[b] \in Seq(Keys)  BY <1>1, SMT DEF Buckets
  <2>2. buckets[b] = [i \in DOMAIN Preload[b] |->
                        [Node(Preload[b][i], 0, -i) EXCEPT !.access = MIGRATION_THRESHOLD + 1]]
    BY DEF Init
  <2>3. ASSUME NEW i \in 1 .. Len(Preload[b])
        PROVE  [Node(Preload[b][i], 0, -i) EXCEPT !.access = MIGRATION_THRESHOLD + 1] \in Nodes
    <3>1. Preload[b][i] \in Keys /\ -i \in Int /\ MIGRATION_THRESHOLD + 1 \in Nat  BY <1>1, <2>1, SMT
    <3> QED  BY <3>1 DEF Node, Nodes
  <2>4. DOMAIN Preload[b] = 1 .. Len(Preload[b]) /\ Len(Preload[b]) \in Nat  BY <2>1, SMT
  <2> QED  BY <2>2, <2>3, <2>4, SMT
<1>4. buckets \in [Buckets -> Seq(Nodes)]
  <2>1. DOMAIN buckets = Buckets /\ buckets = [b \in Buckets |-> buckets[b]]  BY DEF Init
  <2> QED  BY <1>3, <2>1
<1>5. Places(Preload) = Places(buckets)
  <2>1. DOMAIN buckets = DOMAIN Preload  BY <1>4 DEF Buckets
  <2>2. \A b \in DOMAIN Preload : DOMAIN buckets[b] = DOMAIN Preload[b]  BY <1>3 DEF Buckets
  <2> QED  BY <2>1, <2>2 DEF Places
<1>6. \A b \in Buckets : Len(buckets[b]) <= bucket_elements_limit  BY <1>1, <1>3
<1>7. Cardinality(Places(buckets)) \in Nat  BY <1>4, <1>6, PlacesFinite
<1>8. TypeOK
  <2>1. co \in [Coros -> Coroutine]  BY <1>2, IdleIs
  <2>2. cur_size \in Nat  BY <1>5, <1>7 DEF Init
  <2>3. bucket_locks \in [Buckets -> Coros \union {None}]  BY DEF Init
  <2>4. running \in [Threads -> Coros \union {None}]  BY DEF Init
  <2> QED  BY <1>4, <2>1, <2>2, <2>3, <2>4 DEF TypeOK, Init
<1>9. ThreadInv
  <2>1. \A c \in Coros : running[thread[c]] = None  BY DEF Init, Threads
  <2> QED  BY <1>1, <1>2, <2>1, IdleIs DEF ThreadInv, Runs
<1>10. PlaceInv  BY <1>2, <1>6, IdleIs DEF PlaceInv
<1>11. LockInv
  <2>1. \A b \in Buckets : bucket_locks[b] = None  BY DEF Init
  <2> QED  BY <1>1, <1>2, <2>1, IdleIs DEF LockInv
<1>12. HitInv  BY <1>2, IdleIs DEF HitInv
<1>13. SizeInv
  <2>1. Emplacing = {}  BY <1>2, IdleIs DEF Emplacing, UnderLock
  <2>2. Cardinality(Emplacing) = 0  BY <2>1, FS_EmptySet
  <2>3. PICK c \in Coros : TRUE  BY <1>1
  <2>4. PICK r : r = [t \in Threads |-> c]  OBVIOUS
  <2>5. Cardinality({c}) = 1  BY FS_Singleton
  <2>6. Cardinality(Threads) \in Nat /\ Cardinality({c}) <= Cardinality(Threads)
    <3>1. \A d \in {c} : r[thread[d]] = d  BY <2>4 DEF Threads
    <3> QED  BY <3>1, OnePerThread, SMT
  <2>7. cur_size = Total /\ cur_size <= capacity /\ cur_size \in Nat
    BY <1>1, <1>5, <1>7 DEF Init, Total
  <2> QED  BY <1>1, <2>2, <2>5, <2>6, <2>7, SMT DEF SizeInv
<1> QED  BY <1>8, <1>9, <1>10, <1>11, <1>12, <1>13 DEF IInv

LEMMA NextKeeps ==
    ASSUME Sensible, IInv, [Next]_vars
    PROVE  IInv'
<1>1. CASE UNCHANGED vars
  <2>1. UNCHANGED <<buckets, bucket_locks, cur_size, running, co, store, ops, made>>
    BY <1>1 DEF vars
  <2>2. TypeOK'  BY <2>1 DEF IInv, TypeOK, Buckets, Threads
  <2>3. ThreadInv'  BY <2>1 DEF IInv, ThreadInv, Runs
  <2>4. PlaceInv'  BY <2>1 DEF IInv, PlaceInv, Placed, Buckets
  <2>5. LockInv'  BY <2>1 DEF IInv, LockInv, Buckets
  <2>6. HitInv'  BY <2>1 DEF IInv, HitInv, Near, Buckets
  <2>7. SizeInv'  BY <2>1 DEF IInv, SizeInv, Total, Places, Emplacing, Threads
  <2> QED  BY <2>2, <2>3, <2>4, <2>5, <2>6, <2>7 DEF IInv
<1>2. ASSUME NEW c \in Coros, NEW op \in Requests[c], NEW k \in Keys, work_func(c, op, k)
      PROVE  IInv'
  BY <1>2, work_funcKeeps
<1>3. ASSUME NEW c \in Coros, Step(c) PROVE IInv'
  BY <1>3, TreeOpKeeps, ResumeKeeps, queryKeeps, UseKeeps, ReadLoadKeeps, LockChosenKeeps,
     EmplaceKeeps, MigratedKeeps DEF Step
<1>4. ASSUME NEW c \in Coros, Hung(c) PROVE UNCHANGED vars  BY <1>4 DEF Hung
<1>5. ASSUME Finished PROVE UNCHANGED vars  BY <1>5 DEF Finished
<1> QED  BY <1>1, <1>2, <1>3, <1>4, <1>5 DEF Next

LEMMA Invariance ==
    ASSUME Sensible
    PROVE  Spec => []IInv
<1>1. Init => IInv  BY InitHolds
<1>2. IInv /\ [Next]_vars => IInv'  BY NextKeeps
<1> QED  BY <1>1, <1>2, PTL DEF Spec

\* The pointer that query returns after it gave up the mutex stays valid
\* until the bucket was accessed bucket_elements_limit times by others: a hit
\* moves its node to the front, and only the last node is evicted.
THEOREM HitsSurvive ==
    ASSUME Sensible
    PROVE  Spec => []HitsOutliveFewAccesses
<1>1. IInv => HitsOutliveFewAccesses
  <2> SUFFICES ASSUME IInv, NEW c \in Coros, co[c].pc = "use"
               PROVE  Live(co[c].ptr) \/ co[c].since >= bucket_elements_limit
    BY DEF HitsOutliveFewAccesses
  <2>1. \/ Near(buckets[co[c].ptr[1]], co[c].ptr[2], co[c].since)
        \/ co[c].since >= bucket_elements_limit
    BY DEF IInv, HitInv
  <2> QED  BY <2>1 DEF Near, Live
<1> QED  BY <1>1, Invariance, PTL

\* cur_size counts the nodes of all buckets, and since a thread inserts one
\* node at a time, the check that is not atomic with the insertion lets in
\* less than one node per thread beyond the capacity.
THEOREM CapacityHolds ==
    ASSUME Sensible
    PROVE  Spec => []CapacityIsNearlyKept
<1>1. IInv => CapacityIsNearlyKept
  <2> SUFFICES ASSUME IInv PROVE CapacityIsNearlyKept  OBVIOUS
  <2>1. \A d \in Emplacing : running[thread[d]] = d
    BY DEF IInv, Emplacing, ThreadInv, Runs, OnThread
  <2>2. Emplacing \in SUBSET Coros  BY DEF Emplacing
  <2>3. Cardinality(Emplacing) \in Nat /\ Cardinality(Threads) \in Nat
    BY <2>1, <2>2, OnePerThread
  <2>4. cur_size \in Nat /\ capacity \in Nat  BY DEF IInv, TypeOK, Sensible
  <2> QED  BY <2>3, <2>4, SMT DEF IInv, SizeInv, CapacityIsNearlyKept
<1> QED  BY <1>1, Invariance, PTL

\* A bucket's mutex is held by a coroutine that has its thread, or inside the
\* migration: insert gives it up on every other path.
THEOREM LocksAreBrief ==
    ASSUME Sensible
    PROVE  Spec => []LocksAreHeldBriefly
<1>1. IInv => LocksAreHeldBriefly
  <2> SUFFICES ASSUME IInv, NEW b \in Buckets, bucket_locks[b] # None
               PROVE  Runs(bucket_locks[b]) \/ co[bucket_locks[b]].pc = "migrate"
    BY DEF LocksAreHeldBriefly
  <2>1. PICK c \in Coros : bucket_locks[b] = c  BY DEF IInv, TypeOK
  <2>2. co[c].pc \in UnderLock  BY <2>1 DEF IInv, LockInv
  <2>3. co[c].pc \in OnThread => Runs(c)  BY DEF IInv, ThreadInv
  <2> QED  BY <2>1, <2>2, <2>3 DEF UnderLock, OnThread
<1> QED  BY <1>1, Invariance, PTL
=============================================================================
