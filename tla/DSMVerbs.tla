------------------------------ MODULE DSMVerbs ------------------------------
(***************************************************************************)
(* One thread of a compute node and its one-sided RDMA verbs: the calls of  *)
(* class DSM (src/DSM.cpp), the work requests they post                     *)
(* (src/rdma/Operation.cpp), and the coroutine master of the tree that      *)
(* resumes a worker when its completion arrives (src/Tree.cpp).             *)
(*                                                                          *)
(* The thread has one reliable queue pair per memory node.  A queue pair    *)
(* executes its requests in the order posted; different queue pairs proceed *)
(* independently and all complete into the thread's one completion queue.   *)
(* A memory node has a word of main memory ("dsm") and one of on-chip       *)
(* memory ("chip"); a word has two bits, so that a mask can choose one.     *)
(***************************************************************************)
EXTENDS Integers, Sequences, FiniteSets, SequencesExt

CONSTANTS Coros,     \* the worker coroutines, numbered 0 .. n - 1
          Ctx,       \* TRUE: calls are made by coroutines; FALSE: without any
          Nodes,     \* the memory nodes, numbered
          Home,      \* those used by calls with one region
          Places,    \* pairs of nodes: the regions of a call with two of them
          kReadOroMax, \* regions in one list of reads
          Operands,  \* records [equal, val, mask] of the compare-and-swaps
          CallMax,   \* bound on the calls
          WaitMax    \* bound on the busy waits

VARIABLES mem,       \* [Nodes \X {"dsm", "chip"} -> Word]
          sq,        \* per node, the posted requests not yet executed
          cq,        \* the completions, as the coroutine ids they carry
          busy_waiting_queue,
          running,   \* the coroutine that has the thread, or Master
          master,    \* what coro_master does next: "poll" or "busy"
          wk,        \* the workers
          calls, waits

vars == <<mem, sq, cq, busy_waiting_queue, running, master, wk, calls, waits>>

Word == 0 .. 3
All == 3
Master == -1

\* Bitwise AND of two words.
And(a, b) == (a % 2) * (b % 2) + 2 * ((a \div 2) * (b \div 2))

(***************************************************************************)
(* Work requests.                                                           *)
(***************************************************************************)

fill_keys_dest(node, chip) == <<node, IF chip THEN "chip" ELSE "dsm">>

rdmaRead(at) == [op |-> "read", at |-> at, equal |-> 0, val |-> 0, mask |-> 0]
rdmaWrite(at, v) == [rdmaRead(at) EXCEPT !.op = "write", !.val = v]
rdmaFetchAndAdd(at, add) ==
    [rdmaRead(at) EXCEPT !.op = "faa", !.val = add, !.mask = All]
\* No carry crosses bit 0, the field boundary.
rdmaFetchAndAddBoundary(at, add) ==
    [rdmaRead(at) EXCEPT !.op = "faa", !.val = add, !.mask = 1]
rdmaCompareAndSwap(at, x) ==
    [op |-> "cas", at |-> at, equal |-> x.equal, val |-> x.val, mask |-> All]
rdmaCompareAndSwapMask(at, x) == [rdmaCompareAndSwap(at, x) EXCEPT !.mask = x.mask]

\* The linked requests of one ibv_post_send.
rdmaReadBatch(ats) == [i \in DOMAIN ats |-> rdmaRead(ats[i])]
rdmaWriteBatch(ats, v) == [i \in DOMAIN ats |-> rdmaWrite(ats[i], v)]
rdmaCasRead(a, b, x) == <<rdmaCompareAndSwap(a, x), rdmaRead(b)>>
\* The two destinations are exchanged.
rdmaReadCas(a, b, x) == <<rdmaRead(b), rdmaCompareAndSwap(a, x)>>
rdmaCasWrite(a, b, x, v) == <<rdmaCompareAndSwap(a, x), rdmaWrite(b, v)>>
rdmaWriteFaa(a, b, v, add) == <<rdmaWrite(a, v), rdmaFetchAndAdd(b, add)>>
rdmaWriteCas(a, b, v, x) == <<rdmaWrite(a, v), rdmaCompareAndSwap(b, x)>>
rdmaWriteCasMask(a, b, v, x) == <<rdmaWrite(a, v), rdmaCompareAndSwapMask(b, x)>>
rdmaTwoCasMask(a, b, x) ==
    <<rdmaCompareAndSwapMask(a, [x EXCEPT !.mask = All]), rdmaCompareAndSwapMask(b, x)>>

(***************************************************************************)
(* The calls of class DSM: the lists of requests they post, one after the   *)
(* other, and the compare-and-swaps whose outcome they return: the request, *)
(* the value expected and the bits that are compared.                       *)
(***************************************************************************)

Call(groups, verdicts) == [groups |-> groups, verdicts |-> verdicts]
Verdict(slot, equal, mask) == [slot |-> slot, equal |-> equal, mask |-> mask]

read_sync(n) == Call(<< <<rdmaRead(fill_keys_dest(n, FALSE))>> >>, <<>>)
write_sync(n, v) == Call(<< <<rdmaWrite(fill_keys_dest(n, FALSE), v)>> >>, <<>>)
cas_sync(n, x) ==
    Call(<< <<rdmaCompareAndSwap(fill_keys_dest(n, FALSE), x)>> >>,
         <<Verdict(1, x.equal, All)>>)
\* Mutant: the whole word is compared with the value expected of some bits.
cas_mask_syncWhole(n, x) ==
    Call(<< <<rdmaCompareAndSwapMask(fill_keys_dest(n, FALSE), x)>> >>,
         <<Verdict(1, x.equal, All)>>)
cas_mask_sync(n, x) ==
    Call(<< <<rdmaCompareAndSwapMask(fill_keys_dest(n, FALSE), x)>> >>,
         <<Verdict(1, x.equal, x.mask)>>)
faa_boundary_sync(n, add) ==
    Call(<< <<rdmaFetchAndAddBoundary(fill_keys_dest(n, FALSE), add)>> >>, <<>>)

read_dm_sync(n) == Call(<< <<rdmaRead(fill_keys_dest(n, TRUE))>> >>, <<>>)
write_dm_sync(n, v) == Call(<< <<rdmaWrite(fill_keys_dest(n, TRUE), v)>> >>, <<>>)
cas_dm_sync(n, x) ==
    Call(<< <<rdmaCompareAndSwap(fill_keys_dest(n, TRUE), x)>> >>,
         <<Verdict(1, x.equal, All)>>)
cas_dm_mask_sync(n, x) ==
    Call(<< <<rdmaCompareAndSwapMask(fill_keys_dest(n, TRUE), x)>> >>,
         <<Verdict(1, x.equal, x.mask)>>)
faa_dm_boundary_sync(n, add) ==
    Call(<< <<rdmaFetchAndAddBoundary(fill_keys_dest(n, TRUE), add)>> >>, <<>>)

\* One list per node that has a region, in the order of the nodes.
PerNode(ns) ==
    LET used == SetToSortSeq(ToSet(ns), <) IN
    [j \in DOMAIN used |->
        LET mine == SelectSeq(ns, LAMBDA n : n = used[j]) IN
        [i \in DOMAIN mine |-> fill_keys_dest(mine[i], FALSE)]]

\* Regions are taken up to the one that fills a node's list, those lists are
\* posted, and the next ones are taken.
read_batches_sync(ns) ==
    LET Full(i) == {j \in i .. Len(ns) :
                      Cardinality({k \in i .. j : ns[k] = ns[j]}) >= kReadOroMax}
        End(i) == IF Full(i) = {} THEN Len(ns) ELSE Min(Full(i))
        From[i \in 1 .. Len(ns) + 1] ==
            IF i > Len(ns) THEN <<>>
            ELSE PerNode(SubSeq(ns, i, End(i))) \o From[End(i) + 1]
    IN Call([j \in DOMAIN From[1] |-> rdmaReadBatch(From[1][j])], <<>>)
write_batches_sync(ns, v) ==
    Call([j \in DOMAIN PerNode(ns) |-> rdmaWriteBatch(PerNode(ns)[j], v)], <<>>)

\* The second region is on the node of the first (the one whose queue pair is
\* used); in the two calls after these they may be on different nodes.
write_faa_sync(n, v, add) ==
    Call(<<rdmaWriteFaa(fill_keys_dest(n, FALSE), fill_keys_dest(n, TRUE), v, add)>>, <<>>)
write_cas_sync(n, v, x) ==
    Call(<<rdmaWriteCas(fill_keys_dest(n, FALSE), fill_keys_dest(n, TRUE), v, x)>>, <<>>)
write_cas_mask_sync(n, v, x) ==
    Call(<<rdmaWriteCasMask(fill_keys_dest(n, FALSE), fill_keys_dest(n, TRUE), v, x)>>, <<>>)
cas_read_sync(n, x) ==
    Call(<<rdmaCasRead(fill_keys_dest(n, TRUE), fill_keys_dest(n, FALSE), x)>>,
         <<Verdict(1, x.equal, All)>>)
read_cas_sync(n, x) ==
    Call(<<rdmaReadCas(fill_keys_dest(n, FALSE), fill_keys_dest(n, TRUE), x)>>,
         <<Verdict(2, x.equal, All)>>)

cas_write_sync(n, m, x, v) ==
    LET pair == rdmaCasWrite(fill_keys_dest(n, TRUE), fill_keys_dest(m, FALSE), x, v) IN
    Call(IF n = m THEN <<pair>> ELSE << <<pair[1]>>, <<pair[2]>> >>,
         <<Verdict(1, x.equal, All)>>)
\* Both outcomes are taken from whole words, whatever the masks.
two_cas_mask_sync(n, m, x) ==
    LET pair == rdmaTwoCasMask(fill_keys_dest(n, FALSE), fill_keys_dest(m, TRUE), x) IN
    Call(IF n = m THEN <<pair>> ELSE << <<pair[1]>>, <<pair[2]>> >>,
         <<Verdict(1, x.equal, All), Verdict(2, x.equal, All)>>)

Calls ==
    UNION {
        {read_sync(n) : n \in Home}, {read_dm_sync(n) : n \in Home},
        {write_sync(n, x.val) : n \in Home, x \in Operands},
        {write_dm_sync(n, x.val) : n \in Home, x \in Operands},
        {cas_sync(n, x) : n \in Home, x \in Operands},
        {cas_mask_sync(n, x) : n \in Home, x \in Operands},
        {cas_dm_sync(n, x) : n \in Home, x \in Operands},
        {cas_dm_mask_sync(n, x) : n \in Home, x \in Operands},
        {faa_boundary_sync(n, x.val) : n \in Home, x \in Operands},
        {faa_dm_boundary_sync(n, x.val) : n \in Home, x \in Operands},
        {write_faa_sync(n, x.val, x.val) : n \in Home, x \in Operands},
        {write_cas_sync(n, x.val, x) : n \in Home, x \in Operands},
        {write_cas_mask_sync(n, x.val, x) : n \in Home, x \in Operands},
        {cas_read_sync(n, x) : n \in Home, x \in Operands},
        {read_cas_sync(n, x) : n \in Home, x \in Operands},
        {read_batches_sync(p \o p) : p \in Places},
        {write_batches_sync(p, x.val) : p \in Places, x \in Operands},
        {cas_write_sync(p[1], p[2], x, x.val) : p \in Places, x \in Operands},
        {two_cas_mask_sync(p[1], p[2], x) : p \in Places, x \in Operands}}

(***************************************************************************)
(* Posting.  Only the last request of a list is signalled; it carries the   *)
(* coroutine's id.                                                          *)
(***************************************************************************)

\* Mutant: the first request of a list is signalled instead of the last.
LinkedFirst(c, sent, wrs) ==
    [i \in DOMAIN wrs |->
        [wr |-> wrs[i], slot |-> sent + i, coro |-> c, signal |-> i = 1]]

Linked(c, sent, wrs) ==
    [i \in DOMAIN wrs |->
        [wr |-> wrs[i], slot |-> sent + i, coro |-> c, signal |-> i = Len(wrs)]]

Sent(call, g) == FoldSeq(LAMBDA wrs, n : n + Len(wrs), 0, SubSeq(call.groups, 1, g))

\* sq after the lists g .. h of the call are posted; a list goes to the queue
\* pair of its first request's node.
Posted(c, call, g, h) ==
    [n \in Nodes |->
        sq[n] \o FlattenSeq([j \in 1 .. h - g + 1 |->
            LET wrs == call.groups[g + j - 1] IN
            IF wrs[1].at[1] = n THEN Linked(c, Sent(call, g + j - 2), wrs) ELSE <<>>])]

Slots(call) == 1 .. Sent(call, Len(call.groups))

NoCall == Call(<<>>, <<>>)
\* A worker: its call, the lists posted so far, the completions it has yet to
\* poll itself, what its requests brought back (-1: nothing yet) and what it
\* was told.  hit is a history variable: which of its compare-and-swaps took
\* place.
Fresh == [call |-> NoCall, at |-> 0, polls |-> 0, buf |-> <<>>, hit |-> <<>>, told |-> <<>>,
          pc |-> IF Ctx THEN "new" ELSE "out", done |-> 0]

Init ==
    /\ mem = [a \in Nodes \X {"dsm", "chip"} |-> IF a[2] = "chip" THEN 2 ELSE 0]
    /\ sq = [n \in Nodes |-> <<>>] /\ cq = <<>> /\ busy_waiting_queue = <<>>
    /\ running = IF Ctx THEN Master ELSE 0
    /\ master = "poll"
    /\ wk = [c \in Coros |-> Fresh]
    /\ calls = 0 /\ waits = 0

(***************************************************************************)
(* A worker calls DSM.  With a coroutine context every list is followed by  *)
(* a yield to the master; without, all lists are posted and the thread      *)
(* polls as many completions.                                               *)
(***************************************************************************)

Begin(c) ==
    /\ running = c /\ wk[c].pc = "out" /\ calls < CallMax
    /\ \E call \in Calls :
         LET last == IF Ctx THEN 1 ELSE Len(call.groups)
             blank == [i \in Slots(call) |-> -1]
         IN
         /\ sq' = Posted(c, call, 1, last)
         /\ wk' = [wk EXCEPT ![c] =
                     [@ EXCEPT !.call = call, !.at = last, !.pc = "in", !.buf = blank,
                               !.polls = IF Ctx THEN 0 ELSE last,
                               !.hit = [i \in Slots(call) |-> FALSE], !.told = <<>>]]
    /\ running' = IF Ctx THEN Master ELSE c
    /\ calls' = calls + 1
    /\ UNCHANGED <<mem, cq, busy_waiting_queue, master, waits>>

PostNext(c) ==
    LET w == wk[c] IN
    /\ Ctx /\ running = c /\ w.pc = "in" /\ w.at < Len(w.call.groups)
    /\ sq' = Posted(c, w.call, w.at + 1, w.at + 1)
    /\ wk' = [wk EXCEPT ![c].at = @ + 1]
    /\ running' = Master
    /\ UNCHANGED <<mem, cq, busy_waiting_queue, master, calls, waits>>

\* The outcomes, from the buffers; the worker keeps the thread.
Told(w) ==
    [i \in DOMAIN w.call.verdicts |->
        LET v == w.call.verdicts[i] IN
        And(v.equal, v.mask) = And(w.buf[v.slot] % 4, v.mask)]

Return(c) ==
    LET w == wk[c] IN
    /\ running = c /\ w.pc = "in" /\ w.at = Len(w.call.groups)
    /\ w.polls = 0
    /\ wk' = [wk EXCEPT ![c] = [@ EXCEPT !.pc = "out", !.done = @ + 1, !.told = Told(w)]]
    /\ UNCHANGED <<mem, sq, cq, busy_waiting_queue, running, master, calls, waits>>

\* pollWithCQ: one completion at a time, whatever its id.
pollWithCQ(c) ==
    /\ ~Ctx /\ running = c /\ wk[c].polls > 0 /\ cq # <<>>
    /\ cq' = Tail(cq)
    /\ wk' = [wk EXCEPT ![c].polls = @ - 1]
    /\ UNCHANGED <<mem, sq, busy_waiting_queue, running, master, calls, waits>>

\* The queue pair of node n executes its oldest request.
Execute(n) ==
    LET r == Head(sq[n])
        w == r.wr
        old == mem[w.at]
        hit == w.op = "cas" /\ And(old, w.mask) = And(w.equal, w.mask)
        new == CASE w.op = "write" -> w.val
                 [] w.op = "cas" /\ hit -> old - And(old, w.mask) + And(w.val, w.mask)
                 [] w.op = "faa" /\ w.mask = All -> (old + w.val) % 4
                 [] w.op = "faa" /\ w.mask # All ->
                        ((old + w.val) % 2) + 2 * (((old \div 2) + (w.val \div 2)) % 2)
                 [] OTHER -> old
    IN
    /\ sq[n] # <<>>
    /\ sq' = [sq EXCEPT ![n] = Tail(@)]
    /\ mem' = [mem EXCEPT ![w.at] = new]
    /\ wk' = [wk EXCEPT ![r.coro].buf[r.slot] = old, ![r.coro].hit[r.slot] = hit]
    /\ cq' = IF r.signal THEN Append(cq, r.coro) ELSE cq
    /\ UNCHANGED <<busy_waiting_queue, running, master, calls, waits>>

(***************************************************************************)
(* Busy waiting and coro_master.  A worker that has to wait for another one *)
(* (a local lock) queues itself with a predicate, here: worker d has left   *)
(* the call it is in.  d = c: a predicate that is already true.             *)
(***************************************************************************)

BusyWait(c, d) ==
    /\ Ctx /\ running = c /\ wk[c].pc = "out" /\ waits < WaitMax
    /\ d = c \/ wk[d].pc = "in"
    /\ busy_waiting_queue' =
         Append(busy_waiting_queue,
                [coro |-> c, of |-> d, upto |-> wk[d].done + IF d = c THEN 0 ELSE 1])
    /\ running' = Master
    /\ waits' = waits + 1
    /\ UNCHANGED <<mem, sq, cq, master, wk, calls>>

\* coro_worker returns: nothing more to do within the bounds.
Leave(c) ==
    /\ Ctx /\ running = c /\ wk[c].pc = "out"
    /\ running' = Master
    /\ wk' = [wk EXCEPT ![c].pc = "left"]
    /\ UNCHANGED <<mem, sq, cq, busy_waiting_queue, master, calls, waits>>

New == {c \in Coros : wk[c].pc = "new"}

\* The first loop of coro_master starts the workers in order.
StartWorker ==
    /\ running = Master /\ New # {}
    /\ running' = Min(New)
    /\ wk' = [wk EXCEPT ![Min(New)].pc = "out"]
    /\ UNCHANGED <<mem, sq, cq, busy_waiting_queue, master, calls, waits>>

poll_rdma_cq_once ==
    /\ running = Master /\ New = {} /\ master = "poll"
    /\ master' = "busy"
    /\ \/ cq # <<>> /\ running' = Head(cq) /\ cq' = Tail(cq)
       \/ cq = <<>> /\ UNCHANGED <<running, cq>>
    /\ UNCHANGED <<mem, sq, busy_waiting_queue, wk, calls, waits>>

\* Mutant: an entry whose predicate is false is not queued again.
PopBusyDropped ==
    /\ running = Master /\ New = {} /\ master = "busy"
    /\ master' = "poll"
    /\ \/ busy_waiting_queue = <<>> /\ UNCHANGED <<running, busy_waiting_queue>>
       \/ LET next == Head(busy_waiting_queue) IN
          /\ busy_waiting_queue # <<>>
          /\ busy_waiting_queue' = Tail(busy_waiting_queue)
          /\ running' = IF wk[next.of].done >= next.upto THEN next.coro ELSE Master
    /\ UNCHANGED <<mem, sq, cq, wk, calls, waits>>

PopBusy ==
    /\ running = Master /\ New = {} /\ master = "busy"
    /\ master' = "poll"
    /\ \/ busy_waiting_queue = <<>> /\ UNCHANGED <<running, busy_waiting_queue>>
       \/ LET next == Head(busy_waiting_queue)
              true == wk[next.of].done >= next.upto
          IN
          /\ busy_waiting_queue # <<>>
          /\ running' = IF true THEN next.coro ELSE Master
          /\ busy_waiting_queue' =
               IF true THEN Tail(busy_waiting_queue)
               ELSE Append(Tail(busy_waiting_queue), next)
    /\ UNCHANGED <<mem, sq, cq, wk, calls, waits>>

ThreadStep ==
    \/ StartWorker \/ poll_rdma_cq_once \/ PopBusy
    \/ \E c \in Coros :
          \/ Begin(c) \/ PostNext(c) \/ Return(c) \/ pollWithCQ(c)
          \/ \E d \in Coros : BusyWait(c, d)
          \/ Leave(c)

\* Without coroutines the thread stops when the bound on the calls is reached.
Finished == ~Ctx /\ calls = CallMax /\ wk[0].pc = "out" /\ UNCHANGED vars

Next == ThreadStep \/ (\E n \in Nodes : Execute(n)) \/ Finished

Spec == Init /\ [][Next]_vars

\* The thread keeps running its code, and every queue pair its requests: weak
\* fairness, with the disabled states of a thread spelled out.
Stuck == ~Ctx /\ (IF wk[0].polls > 0 THEN cq = <<>> ELSE wk[0].pc = "out" /\ calls = CallMax)
Fairness ==
    /\ []<>Stuck \/ []<><<ThreadStep>>_vars
    /\ \A n \in Nodes : []<>(sq[n] = <<>>) \/ []<><<Execute(n)>>_vars
LiveSpec == Spec /\ Fairness

(***************************************************************************)
(* Properties.                                                              *)
(***************************************************************************)

Requests(c) ==
    UNION {{<<n, i>> : i \in {j \in DOMAIN sq[n] : sq[n][j].coro = c}} : n \in Nodes}
Wakeups(c) ==
    Cardinality({x \in Requests(c) : sq[x[1]][x[2]].signal})
    + Cardinality({i \in DOMAIN cq : cq[i] = c})
    + Cardinality({i \in DOMAIN busy_waiting_queue : busy_waiting_queue[i].coro = c})

\* A suspended worker will be resumed exactly once: it has one signalled
\* request, one completion or one place in busy_waiting_queue, never two and
\* never none.  The worker that runs has none of these, and nothing of its
\* own is still being executed, so the buffers it reads are final.  Without a
\* context the completions outstanding are those the call still polls.
OneWakeupEach ==
    \A c \in Coros :
        CASE Ctx /\ running = c -> Wakeups(c) = 0 /\ Requests(c) = {}
          [] Ctx /\ running # c -> Wakeups(c) = IF wk[c].pc \in {"in", "out"} THEN 1 ELSE 0
          [] ~Ctx -> /\ Wakeups(c) = wk[c].polls
                     /\ wk[c].polls = 0 => Requests(c) = {}

\* What a call tells about its compare-and-swaps is true: success is told
\* only of one that took place, and failure only of one that did not, save
\* in two_cas_mask_sync, which compares whole words after a masked swap and
\* may call a swap that took place a failure.
VerdictsAreTrue ==
    \A c \in Coros : \A i \in DOMAIN wk[c].told :
        LET v == wk[c].call.verdicts[i]
            two == Len(wk[c].told) = 2
        IN /\ wk[c].told[i] => wk[c].hit[v.slot]
           /\ wk[c].hit[v.slot] /\ ~two => wk[c].told[i]

\* Every call of DSM returns, and a worker that waits is resumed.
CallsReturn ==
    \A c \in Coros :
        /\ []<>(wk[c].pc # "in")
        /\ []<>(wk[c].pc = "out" => running = c)
====
