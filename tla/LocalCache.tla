----------------------------- MODULE LocalCache -----------------------------
(***************************************************************************)
(* The value cache of a compute node (src/include/LocalCache.h) and the     *)
(* requests that go through it (work_func of src/test/ycsb_test.cpp).       *)
(*                                                                          *)
(* A key may lie in any of its candidate buckets; insert takes the least    *)
(* loaded one, query the first one that has the key.  A bucket is a short   *)
(* list, most recently used first, behind a mutex.  Threads run coroutines: *)
(* a coroutine gives up the thread at a remote access (a tree operation, a  *)
(* migration), while a wait for a mutex blocks the whole thread.            *)
(***************************************************************************)
EXTENDS Integers, Sequences, FiniteSets, Functions

CONSTANTS Coros,        \* the coroutines of all threads
          thread,       \* [Coros -> threads]
          Keys,
          Requests,     \* [Coros -> set of "search", "update" and "insert"]
          candidates,   \* [Keys -> sequence of buckets], the hash functions
          Preload,      \* keys in the buckets at the start, all accessed often
          capacity,
          bucket_elements_limit,
          MIGRATION_THRESHOLD,
          OpMax,        \* bound on the requests
          None

VARIABLES buckets,      \* [bucket -> sequence of nodes]
          bucket_locks, \* [bucket -> the coroutine that holds it, or None]
          cur_size,
          running,      \* [thread -> the coroutine that has it, or None]
          co,           \* the coroutines
          store,        \* [Keys -> value]: what the tree holds
          ops, made,    \* requests started and list nodes created
          stale         \* history: a search returned what the tree no longer holds

vars == <<buckets, bucket_locks, cur_size, running, co, store, ops, made, stale>>

Threads == {thread[c] : c \in Coros}
Buckets == DOMAIN Preload

\* A list node.  access is the length of its access_time_deque, up to the
\* number that decides; how many of the accesses are in the time window is
\* chosen when the node is evicted.
Node(key, value, id) == [key |-> key, value |-> value, access |-> 0, id |-> id]
update_access_time(n) ==
    [n EXCEPT !.access = IF @ > MIGRATION_THRESHOLD THEN @ ELSE @ + 1]
Recent(n) == 0 .. n.access

Position(list, Test(_)) == {i \in DOMAIN list : Test(list[i])}
\* The list without node i.
Without(list, i) == SubSeq(list, 1, i - 1) \o SubSeq(list, i + 1, Len(list))

\* Mutant: the node stays where it is.
InPlace(list, i, n) == [list EXCEPT ![i] = n]
\* splice: node i, accessed, becomes the first.
ToFront(list, i, n) == <<n>> \o Without(list, i)

\* The nodes of all lists, each as its bucket and its position there.
Places(lists) == UNION {{b} \X DOMAIN lists[b] : b \in DOMAIN lists}
Total == Cardinality(Places(buckets))

\* A coroutine: its request, where it is in the loop over the candidates, the
\* bucket chosen so far with its load, and the node a query returned.
\* since is a history variable: the accesses by others to the bucket of that
\* node since the query returned it.
Idle == [pc |-> "idle", op |-> None, key |-> None, value |-> 0, i |-> 1,
         index |-> None, min_load |-> 0, ptr |-> None, since |-> 0]

Init ==
    /\ buckets = [b \in Buckets |->
                    [i \in DOMAIN Preload[b] |->
                        [Node(Preload[b][i], 0, -i) EXCEPT !.access = MIGRATION_THRESHOLD + 1]]]
    /\ bucket_locks = [b \in Buckets |-> None]
    /\ cur_size = Cardinality(Places(Preload))
    /\ running = [t \in Threads |-> None]
    /\ co = [c \in Coros |-> Idle]
    /\ store = [k \in Keys |-> 0]
    /\ ops = 0 /\ made = 0 /\ stale = FALSE

Set(c, l) == co' = [co EXCEPT ![c] = l]
Runs(c) == running[thread[c]] = c
Yield(c) == running' = [running EXCEPT ![thread[c]] = None]

\* The history of every coroutine that holds a pointer into bucket b.
Accessed(cs, b) ==
    [d \in Coros |-> IF cs[d].ptr # None /\ cs[d].ptr[1] = b
                     THEN [cs[d] EXCEPT !.since = @ + 1] ELSE cs[d]]

(***************************************************************************)
(* Requests.  Every request has a value of its own.                         *)
(***************************************************************************)

work_func(c, op, k) ==
    /\ running[thread[c]] = None /\ co[c].pc = "idle" /\ ops < OpMax
    /\ ops' = ops + 1
    /\ running' = [running EXCEPT ![thread[c]] = IF op = "search" THEN c ELSE None]
    /\ Set(c, [Idle EXCEPT !.op = op, !.key = k, !.value = ops + 1,
                           !.pc = IF op = "search" THEN "query" ELSE "tree"])
    /\ UNCHANGED <<buckets, bucket_locks, cur_size, store, made, stale>>

\* tree->search or tree->insert takes effect; the coroutine is suspended.
TreeOp(c) ==
    LET l == co[c] IN
    /\ l.pc = "tree"
    /\ store' = IF l.op = "search" THEN store ELSE [store EXCEPT ![l.key] = l.value]
    /\ Set(c, [l EXCEPT !.pc = "resume", !.value = IF l.op = "search" THEN store[l.key] ELSE @])
    /\ UNCHANGED <<buckets, bucket_locks, cur_size, running, ops, made, stale>>

\* Back on the thread: what was searched or updated goes into the cache, an
\* insert does not.
Resume(c) ==
    LET l == co[c] IN
    /\ l.pc = "resume" /\ running[thread[c]] = None
    /\ \/ /\ l.op = "insert"
          /\ Set(c, Idle) /\ UNCHANGED running
       \/ /\ l.op # "insert"
          /\ Set(c, [l EXCEPT !.pc = "choose", !.i = 1, !.min_load = bucket_elements_limit + 1])
          /\ running' = [running EXCEPT ![thread[c]] = c]
    /\ UNCHANGED <<buckets, bucket_locks, cur_size, store, ops, made, stale>>

(***************************************************************************)
(* query: one candidate bucket after the other, each under its mutex.       *)
(***************************************************************************)

query(c) ==
    LET l == co[c]
        b == candidates[l.key][l.i]
        at == Position(buckets[b], LAMBDA n : n.key = l.key)
    IN
    /\ l.pc = "query" /\ Runs(c) /\ bucket_locks[b] = None
    /\ \/ \E i \in at :
            LET n == update_access_time(buckets[b][i]) IN
            /\ buckets' = [buckets EXCEPT ![b] = ToFront(@, i, n)]
            /\ co' = [Accessed(co, b) EXCEPT ![c] = [l EXCEPT !.pc = "use", !.ptr = <<b, n.id>>]]
            /\ UNCHANGED running
       \/ /\ at = {}
          /\ \/ /\ l.i < Len(candidates[l.key])
                /\ Set(c, [l EXCEPT !.i = @ + 1]) /\ UNCHANGED running
             \/ /\ l.i = Len(candidates[l.key])
                /\ Set(c, [l EXCEPT !.pc = "tree"]) /\ Yield(c)
          /\ UNCHANGED buckets
    /\ UNCHANGED <<bucket_locks, cur_size, store, ops, made, stale>>

Live(ptr) == \E i \in DOMAIN buckets[ptr[1]] : buckets[ptr[1]][i].id = ptr[2]
At(ptr) == CHOOSE n \in Range(buckets[ptr[1]]) : n.id = ptr[2]

\* v = *ret: the node is read after its mutex was given up; if it is gone the
\* value is whatever the freed memory holds.
Use(c) ==
    LET l == co[c] IN
    /\ l.pc = "use" /\ Runs(c)
    /\ stale' = (stale \/ ~Live(l.ptr) \/ At(l.ptr).value # store[l.key])
    /\ Set(c, Idle) /\ Yield(c)
    /\ UNCHANGED <<buckets, bucket_locks, cur_size, store, ops, made>>

(***************************************************************************)
(* insert: the loads of the candidates are read one after the other, each   *)
(* under its mutex; then the chosen bucket is locked for the rest.          *)
(***************************************************************************)

ReadLoad(c) ==
    LET l == co[c]
        b == candidates[l.key][l.i]
        load == Len(buckets[b])
        m == IF load < l.min_load THEN [l EXCEPT !.min_load = load, !.index = b] ELSE l
    IN
    /\ l.pc = "choose" /\ Runs(c) /\ bucket_locks[b] = None
    /\ Set(c, IF l.i < Len(candidates[l.key]) THEN [m EXCEPT !.i = @ + 1]
              ELSE [m EXCEPT !.pc = "lock"])
    /\ UNCHANGED <<buckets, bucket_locks, cur_size, running, store, ops, made, stale>>

\* The request is over.
Done(c, cs) == co' = [cs EXCEPT ![c] = Idle] /\ Yield(c)

\* Mutant: the early return of a full cache keeps the mutex.
LockChosenKept(c) ==
    LET l == co[c]
        b == l.index
    IN
    /\ l.pc = "lock" /\ Runs(c) /\ bucket_locks[b] = None
    /\ bucket_locks' = [bucket_locks EXCEPT ![b] = c]
    /\ \/ cur_size >= capacity /\ Done(c, co)
       \/ /\ cur_size < capacity
          /\ Set(c, [l EXCEPT !.pc = "emplace"]) /\ UNCHANGED running
    /\ UNCHANGED <<buckets, cur_size, store, ops, made, stale>>

\* Mutant: one node more than the capacity is let in.
LockChosenLate(c) ==
    LET l == co[c]
        b == l.index
    IN
    /\ l.pc = "lock" /\ Runs(c) /\ bucket_locks[b] = None
    /\ \/ cur_size > capacity /\ Done(c, co) /\ UNCHANGED bucket_locks
       \/ /\ cur_size <= capacity
          /\ Set(c, [l EXCEPT !.pc = "emplace"]) /\ UNCHANGED running
          /\ bucket_locks' = [bucket_locks EXCEPT ![b] = c]
    /\ UNCHANGED <<buckets, cur_size, store, ops, made, stale>>

\* A key that is in the bucket is updated; a new one is refused when the
\* cache is full.
LockChosen(c) ==
    LET l == co[c]
        b == l.index
        at == Position(buckets[b], LAMBDA n : n.key = l.key)
    IN
    /\ l.pc = "lock" /\ Runs(c) /\ bucket_locks[b] = None
    /\ \/ \E i \in at :
            LET n == [update_access_time(buckets[b][i]) EXCEPT !.value = l.value] IN
            /\ buckets' = [buckets EXCEPT ![b] = ToFront(@, i, n)]
            /\ Done(c, Accessed(co, b))
            /\ UNCHANGED bucket_locks
       \/ /\ at = {} /\ cur_size >= capacity
          /\ Done(c, co) /\ UNCHANGED <<buckets, bucket_locks>>
       \/ /\ at = {} /\ cur_size < capacity
          /\ Set(c, [l EXCEPT !.pc = "emplace"])
          /\ bucket_locks' = [bucket_locks EXCEPT ![b] = c]
          /\ UNCHANGED <<buckets, running>>
    /\ UNCHANGED <<cur_size, store, ops, made, stale>>

_should_migrate(recent) == recent > MIGRATION_THRESHOLD

OverLimit(list) == Len(list) > bucket_elements_limit
Trimmed(list) == IF OverLimit(list) THEN SubSeq(list, 1, Len(list) - 1) ELSE list

\* The new node goes to the front; a bucket over its limit loses its last
\* node, and if that one was used often it is migrated, the mutex held.  The
\* increment and decrement of cur_size by such a replacement are one step.
Emplace(c) ==
    LET l == co[c]
        b == l.index
        list == <<Node(l.key, l.value, made + 1)>> \o buckets[b]
        evict == OverLimit(list)
        last == list[Len(list)]
    IN
    /\ l.pc = "emplace"
    /\ made' = made + 1
    /\ buckets' = [buckets EXCEPT ![b] = Trimmed(list)]
    /\ cur_size' = IF evict THEN cur_size ELSE cur_size + 1
    /\ \/ /\ evict
          /\ \E recent \in Recent(last) : _should_migrate(recent)
          /\ co' = [Accessed(co, b) EXCEPT ![c].pc = "migrate"]
          /\ Yield(c) /\ UNCHANGED bucket_locks
       \/ /\ evict => \E recent \in Recent(last) : ~_should_migrate(recent)
          /\ Done(c, Accessed(co, b))
          /\ bucket_locks' = [bucket_locks EXCEPT ![b] = None]
    /\ UNCHANGED <<store, ops, stale>>

\* migrate_local_cache_to_radix_cache has returned; its remote reads gave up
\* the thread in between.
Migrated(c) ==
    /\ co[c].pc = "migrate" /\ running[thread[c]] = None
    /\ bucket_locks' = [bucket_locks EXCEPT ![co[c].index] = None]
    /\ Set(c, Idle)
    /\ UNCHANGED <<buckets, cur_size, running, store, ops, made, stale>>

\* The bucket whose mutex the coroutine needs next.
Wanted(c) ==
    CASE co[c].pc \in {"query", "choose"} -> candidates[co[c].key][co[c].i]
      [] co[c].pc = "lock" -> co[c].index
      [] OTHER -> None

\* A thread locks a mutex that one of its own coroutines holds: it hangs.
Hung(c) ==
    /\ Runs(c) /\ Wanted(c) \in Buckets
    /\ bucket_locks[Wanted(c)] # None
    /\ thread[bucket_locks[Wanted(c)]] = thread[c]
    /\ UNCHANGED vars

Step(c) ==
    \/ TreeOp(c) \/ Resume(c) \/ query(c) \/ Use(c)
    \/ ReadLoad(c) \/ LockChosen(c) \/ Emplace(c) \/ Migrated(c)

Finished == ops = OpMax /\ (\A c \in Coros : co[c].pc = "idle") /\ UNCHANGED vars

Next ==
    \/ \E c \in Coros :
          \/ \E op \in Requests[c], k \in Keys : work_func(c, op, k)
          \/ Step(c) \/ Hung(c)
    \/ Finished

Spec == Init /\ [][Next]_vars

(***************************************************************************)
(* Properties.                                                              *)
(***************************************************************************)

\* A node that query returned is still in its list when it is used, unless
\* its bucket was accessed at least bucket_elements_limit times by others in
\* between: the hit made it the first of the list.
HitsOutliveFewAccesses ==
    \A c \in Coros : co[c].pc = "use" =>
        Live(co[c].ptr) \/ co[c].since >= bucket_elements_limit

\* The check of cur_size and the insertion are not atomic across buckets, so
\* the capacity can be exceeded, by less than one node per thread.
CapacityIsNearlyKept ==
    cur_size = Total /\ Total < capacity + Cardinality(Threads)

\* A mutex is held by a coroutine that has its thread or by one that is
\* inside the migration: only there can a thread come to wait for itself.
LocksAreHeldBriefly ==
    \A b \in Buckets : bucket_locks[b] # None =>
        LET c == bucket_locks[b] IN Runs(c) \/ co[c].pc = "migrate"

\* "Update the cache": with one coroutine, a search that follows an update of
\* its key returns the value of the update.
SearchSeesUpdate == ~stale
====
