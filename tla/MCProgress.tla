----------------------------- MODULE MCProgress -----------------------------
(* What has to go on for ever, each in a scene of its own: operations behind *)
(* a local lock, calls of DSM and the coroutines that make them, allocation  *)
(* by messages, and the start of a cluster.  The allocators extended here    *)
(* are those of the scene "alloc"; in the other scenes nobody uses them, and *)
(* what they do not need of the rest is not there.                           *)
EXTENDS Rpc, TLC

CONSTANTS c1, c2, c3, k1, NoKey, NoClient

VARIABLES
    scene,
    \* of LocalLock
    ticket, current, handover, window, window_start, mutex, unique, ret_value, wc_buffer,
    mem, pc, kind, key, val, acquired, my, seen, seen_current,
    started, winner_key, audience, picked,
    \* of DSMVerbs
    words, sq, cq, busy_waiting_queue, running, master, wk, calls, waits,
    \* of Rpc, in the scene "ring"
    rbitmap, rtail, rlocal, rtarget, rwaiting, rrequests, rreplies, rlive,
    rallocs, rexhausted, rdcon, rtcon,
    \* of DSMKeeper
    sv, peer, serverNum, meta, count, parts

\* A search and two inserts of one key.
Lock == INSTANCE LocalLock WITH
    Clients <- {c1, c2, c3}, Keys <- {k1}, TicketMod <- 4,
    Workloads <- {[read |-> 1, write |-> 2]}

\* Two coroutines and two memory nodes, and a thread without coroutines, which
\* also writes the bit outside the mask.
Verbs == INSTANCE DSMVerbs WITH
    Coros <- {0, 1}, Ctx <- TRUE, Nodes <- {0, 1}, Home <- {0},
    Places <- {<<0, 0>>, <<1, 0>>}, Operands <- {[equal |-> 0, val |-> 1, mask |-> 1]},
    kReadOroMax <- 2, CallMax <- 2, WaitMax <- 1, mem <- words
Plain == INSTANCE DSMVerbs WITH
    Coros <- {0}, Ctx <- FALSE, Nodes <- {0, 1}, Home <- {0},
    Places <- {<<0, 0>>, <<1, 0>>},
    Operands <- {[equal |-> 0, val |-> v, mask |-> 1] : v \in {1, 2}},
    kReadOroMax <- 2, CallMax <- 2, WaitMax <- 1, mem <- words

\* Two threads of different compute nodes that start at the same directory.
SameOrigin == [t \in 1 .. 2 |-> 1]

\* Three threads that ask one directory for chunk after chunk: the requests
\* outstanding are as many as the receives that are always posted.
Ring == INSTANCE Rpc WITH
    Threads <- 1 .. 3, Origin <- [t \in 1 .. 3 |-> 1], AllocMax <- 6,
    NR_DIRECTORY <- 1, bitmap_len <- 9, kChunkSize <- 4, LeafSize <- 3, PageSize <- 4,
    DIR_MESSAGE_NR <- 4, APP_MESSAGE_NR <- 4, SIGNAL_BATCH <- 1,
    bitmap <- rbitmap, bitmap_tail <- rtail, local_allocators <- rlocal, target <- rtarget,
    waiting <- rwaiting, requests <- rrequests, replies <- rreplies, live <- rlive,
    allocs <- rallocs, exhausted <- rexhausted, dcon <- rdcon, tcon <- rtcon

Keeper == INSTANCE DSMKeeper WITH
    maxServer <- 3, MAX_APP_THREAD <- 2, NR_DIRECTORY <- 1, barriers <- 2

lock_vars == <<ticket, current, handover, window, window_start, mutex, unique, ret_value,
               wc_buffer, mem, pc, kind, key, val, acquired, my, seen, seen_current,
               started, winner_key, audience, picked>>
verb_vars == <<words, sq, cq, busy_waiting_queue, running, master, wk, calls, waits>>
ring_vars == <<rbitmap, rtail, rlocal, rtarget, rwaiting, rrequests, rreplies, rlive,
               rallocs, rexhausted, rdcon, rtcon>>
keeper_vars == <<sv, peer, serverNum, meta, count, parts>>
progress_vars == <<scene, lock_vars, verb_vars, rpcvars, ring_vars, keeper_vars>>

\* A structure that is not in the scene.
NoLock ==
    /\ ticket = 0 /\ current = 0 /\ handover = 0 /\ window = 0 /\ window_start = 0 /\ mutex = 0
    /\ unique = 0 /\ ret_value = 0 /\ wc_buffer = 0 /\ mem = 0 /\ pc = 0 /\ kind = 0 /\ key = 0
    /\ val = 0 /\ acquired = 0 /\ my = 0 /\ seen = 0 /\ seen_current = 0
    /\ started = 0 /\ winner_key = 0 /\ audience = 0 /\ picked = 0
NoVerbs ==
    /\ words = 0 /\ sq = 0 /\ cq = 0 /\ busy_waiting_queue = 0 /\ running = 0 /\ master = 0
    /\ wk = 0 /\ calls = 0 /\ waits = 0
NoRing ==
    /\ rbitmap = 0 /\ rtail = 0 /\ rlocal = 0 /\ rtarget = 0 /\ rwaiting = 0
    /\ rrequests = 0 /\ rreplies = 0 /\ rlive = 0 /\ rallocs = 0 /\ rexhausted = 0
    /\ rdcon = 0 /\ rtcon = 0
NoKeeper ==
    sv = 0 /\ peer = 0 /\ serverNum = 0 /\ meta = 0 /\ count = 0 /\ parts = 0

ProgressInit ==
    /\ RpcInit
    /\ \/ scene = "lock" /\ Lock!Init /\ NoVerbs /\ NoRing /\ NoKeeper
       \/ scene = "verbs" /\ NoLock /\ Verbs!Init /\ NoRing /\ NoKeeper
       \/ scene = "plain" /\ NoLock /\ Plain!Init /\ NoRing /\ NoKeeper
       \/ scene = "alloc" /\ NoLock /\ NoVerbs /\ NoRing /\ NoKeeper
       \/ scene = "ring" /\ NoLock /\ NoVerbs /\ Ring!RpcInit /\ NoKeeper
       \/ scene = "keeper" /\ NoLock /\ NoVerbs /\ NoRing /\ Keeper!Init

\* In the scene "ring" every call of alloc needs a chunk, and nothing is freed.
RingNext ==
    \/ \E t \in 1 .. 3 : Ring!DsmAlloc(t, 3) \/ Ring!ThreadWaits(t)
    \/ \E d \in Ring!Dirs : Ring!Serve(d) \/ Ring!TransmitReply(d)
    \/ Ring!RpcFinished

ProgressNext ==
    /\ UNCHANGED scene
    /\ \/ /\ scene = "lock" /\ Lock!Next
          /\ UNCHANGED <<verb_vars, rpcvars, ring_vars, keeper_vars>>
       \/ /\ (scene = "verbs" /\ Verbs!Next) \/ (scene = "plain" /\ Plain!Next)
          /\ UNCHANGED <<lock_vars, rpcvars, ring_vars, keeper_vars>>
       \/ /\ scene = "alloc" /\ RpcNext
          /\ UNCHANGED <<lock_vars, verb_vars, ring_vars, keeper_vars>>
       \/ /\ scene = "ring" /\ RingNext
          /\ UNCHANGED <<lock_vars, verb_vars, rpcvars, keeper_vars>>
       \/ /\ scene = "keeper" /\ Keeper!Next
          /\ UNCHANGED <<lock_vars, verb_vars, rpcvars, ring_vars>>

\* The fairness of the modules, each in its scene.
ProgressFairness ==
    /\ \A c \in {c1, c2, c3} : WF_lock_vars(scene = "lock" /\ Lock!Step(c))
    /\ \/ []<>(scene = "plain" => Plain!Stuck)
       \/ []<><<scene = "plain" /\ Plain!ThreadStep>>_verb_vars
    /\ \/ []<>(scene # "verbs")
       \/ []<><<scene = "verbs" /\ Verbs!ThreadStep>>_verb_vars
    /\ \A n \in {0, 1} :
         WF_verb_vars(\/ scene = "verbs" /\ Verbs!Execute(n)
                      \/ scene = "plain" /\ Plain!Execute(n))
    /\ \A t \in 1 .. 2 : WF_rpcvars(scene = "alloc" /\ ThreadWaits(t))
    /\ \A d \in Dirs : /\ WF_rpcvars(scene = "alloc" /\ Serve(d))
                             /\ WF_rpcvars(scene = "alloc" /\ TransmitReply(d))
    /\ \A s \in 0 .. 2 : WF_keeper_vars(scene = "keeper" /\ Keeper!Step(s))

ProgressSpec == ProgressInit /\ [][ProgressNext]_progress_vars /\ ProgressFairness

-----------------------------------------------------------------------------
(* The properties of the other modules, where they are stated                *)

\* Of LocalLock: every operation that starts returns.
EveryOperationReturns ==
    \A c \in {c1, c2, c3} : []<>(scene = "lock" => pc[c] \in {"idle", "done"})

\* Of DSMVerbs: a worker that waits is resumed exactly once, and not before
\* its requests are executed.
OneWakeupEach ==
    /\ scene = "verbs" => Verbs!OneWakeupEach
    /\ scene = "plain" => Plain!OneWakeupEach

\* Of DSMVerbs: what a call tells about its compare-and-swaps is true.
VerdictsAreTrue ==
    /\ scene = "verbs" => Verbs!VerdictsAreTrue
    /\ scene = "plain" => Plain!VerdictsAreTrue

\* Of DSMVerbs: every call returns, and every waiting worker is resumed.
CallsReturn ==
    /\ \A c \in {0, 1} :
         /\ []<>(scene = "verbs" => wk[c].pc # "in")
         /\ []<>(scene = "verbs" /\ wk[c].pc = "out" => running = c)
    /\ []<>(scene = "plain" => wk[0].pc # "in")

\* Of Rpc: the rings lose and corrupt no message.
MessagesAreKept == RingsHoldTheMessages /\ (scene = "ring" => Ring!RingsHoldTheMessages)

\* Of DSMKeeper: nobody leaves a barrier early, and nobody leaves the first
\* one before all queue pairs are connected.
BarriersHold == scene = "keeper" => Keeper!BarriersHold

\* Of DSMKeeper: whatever the order of the starts, all servers get through.
StartupCompletes ==
    <>[](scene = "keeper" => /\ \A s \in 0 .. 2 : sv[s].pc = "done"
                             /\ sv[0].ret = 2 ^ 3 - 1)
=============================================================================
