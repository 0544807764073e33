----------------------------- MODULE DSMKeeper -----------------------------
(***************************************************************************)
(* How the servers of a cluster find each other.  Every server runs the    *)
(* constructor of DSM: it announces itself in memcached, exchanges the     *)
(* numbers of its queue pairs with every other server, connects the pairs  *)
(* and meets the others in barriers.  Later it takes part in sums.         *)
(*                                                                         *)
(* memcached is external and starts as script/restartMemc.sh leaves it:    *)
(* serverNum is 0 and every other key is absent.  A call that fails is     *)
(* retried in a loop (memSet, memGet, memFetchAndAdd), so one action is    *)
(* the call that succeeds.  The id of a server is that of its address      *)
(* (STATIC_ID_FROM_IP), whatever the order in which the servers start.     *)
(***************************************************************************)
EXTENDS Integers, Sequences

CONSTANTS
    maxServer,
    MAX_APP_THREAD,
    NR_DIRECTORY,
    barriers         \* the number of barriers a run goes through, DSM-init first

VARIABLES
    sv,              \* the servers
    peer,            \* the queue pair each queue pair is connected to
    serverNum, meta, count, parts   \* the keys of memcached

vars == <<sv, peer, serverNum, meta, count, parts>>

Servers == 0 .. maxServer - 1
Apps == 0 .. MAX_APP_THREAD - 1
Directories == 0 .. NR_DIRECTORY - 1
Absent == -1

\* The queue pairs thCon[app]->data[dir][to] and dirCon[dir]->data2app[app][to].
Qp == [of : {"app", "dir"}, server : Servers, app : Apps, dir : Directories, to : Servers]
AppQp(s, i, k, r) == [of |-> "app", server |-> s, app |-> i, dir |-> k, to |-> r]
DirQp(s, i, k, r) == [of |-> "dir", server |-> s, app |-> i, dir |-> k, to |-> r]
NoQp == [of |-> "none"]

Init ==
    /\ sv = [s \in Servers |-> [pc |-> "start", curServer |-> 0, serverNum |-> 0, k |-> 0,
                                arrived |-> 0, passed |-> 0, ret |-> 0]]
    /\ peer = [q \in Qp |-> NoQp]
    /\ serverNum = 0
    /\ meta = [x \in Servers \X Servers |-> <<>>]
    /\ count = [b \in 1 .. barriers |-> Absent]
    /\ parts = [s \in Servers |-> Absent]

At(s, pc) == sv[s].pc = pc

-----------------------------------------------------------------------------
(* The exchange *)

\* Keeper::serverEnter.
serverEnter(s) ==
    /\ At(s, "start")
    /\ serverNum' = serverNum + 1
    /\ sv' = [sv EXCEPT ![s].pc = "while"]
    /\ UNCHANGED <<peer, meta, count, parts>>

\* setDataToRemote: the part of localMeta that depends on the remote server.
setDataToRemote(s, r) ==
    [dirRcQpn2app |-> [x \in Directories \X Apps |-> DirQp(s, x[2], x[1], r)],
     appRcQpn2dir |-> [x \in Apps \X Directories |-> AppQp(s, x[1], x[2], r)]]

\* setDataFromRemote connects the pairs of server s that lead to server r.
setDataFromRemote(s, r, m) ==
    [q \in Qp |->
        IF q.server # s \/ q.to # r THEN peer[q]
        ELSE IF q.of = "dir" THEN m.appRcQpn2dir[<<q.app, q.dir>>]
        ELSE m.dirRcQpn2app[<<q.dir, q.app>>]]

setKey(s, r) == <<s, r>>
\* Mutant: a server reads what it has written itself.
getKeyOwn(s, r) == <<s, r>>
getKey(s, r) == <<r, s>>

\* The loop over the servers from k on: the next one to connect to, past the
\* server itself, or the end of the loop.
Advance(s, x) ==
    LET k == IF x.k = s THEN x.k + 1 ELSE x.k IN
    IF k < x.serverNum THEN [x EXCEPT !.k = k, !.pc = "set"]
    ELSE [x EXCEPT !.curServer = x.serverNum,
                   !.pc = IF x.serverNum < maxServer THEN "while" ELSE "myself"]

\* serverConnect reads how many servers have started.
serverConnect(s) ==
    /\ At(s, "while")
    /\ sv' = [sv EXCEPT ![s] = Advance(s, [@ EXCEPT !.serverNum = serverNum, !.k = sv[s].curServer])]
    /\ UNCHANGED <<peer, serverNum, meta, count, parts>>

\* connectNode publishes the numbers of the pairs for server k ...
ConnectSet(s) ==
    LET r == sv[s].k IN
    /\ At(s, "set")
    /\ meta' = [meta EXCEPT ![setKey(s, r)] = <<setDataToRemote(s, r)>>]
    /\ sv' = [sv EXCEPT ![s].pc = "get"]
    /\ UNCHANGED <<peer, serverNum, count, parts>>

\* ... and waits for those of server k.
ConnectGet(s) ==
    LET r == sv[s].k
        m == meta[getKey(s, r)]
    IN
    /\ At(s, "get") /\ m # <<>>
    /\ peer' = setDataFromRemote(s, r, m[1])
    /\ sv' = [sv EXCEPT ![s] = Advance(s, [@ EXCEPT !.k = r + 1])]
    /\ UNCHANGED <<serverNum, meta, count, parts>>

\* connectMySelf; initRouteRule writes a key that nobody reads.
connectMySelf(s) ==
    /\ At(s, "myself")
    /\ peer' = setDataFromRemote(s, s, setDataToRemote(s, s))
    /\ sv' = [sv EXCEPT ![s].pc = "run"]
    /\ UNCHANGED <<serverNum, meta, count, parts>>

-----------------------------------------------------------------------------
(* Barriers and sums *)

\* Mutant: every server sets the counter.
BarrierSetByAll(s) ==
    LET b == sv[s].arrived + 1 IN
    /\ At(s, "run") /\ b <= barriers
    /\ count' = [count EXCEPT ![b] = 0]
    /\ sv' = [sv EXCEPT ![s].pc = "add"]
    /\ UNCHANGED <<peer, serverNum, meta, parts>>

\* DSMKeeper::barrier: server 0 sets the counter to 0 ...
BarrierSet(s) ==
    LET b == sv[s].arrived + 1 IN
    /\ At(s, "run") /\ b <= barriers
    /\ count' = [count EXCEPT ![b] = IF s = 0 THEN 0 ELSE @]
    /\ sv' = [sv EXCEPT ![s].pc = "add"]
    /\ UNCHANGED <<peer, serverNum, meta, parts>>

\* ... everyone counts themselves, once the counter is there ...
BarrierAdd(s) ==
    LET b == sv[s].arrived + 1 IN
    /\ At(s, "add") /\ count[b] # Absent
    /\ count' = [count EXCEPT ![b] = @ + 1]
    /\ sv' = [sv EXCEPT ![s].pc = "barrier", ![s].arrived = b]
    /\ UNCHANGED <<peer, serverNum, meta, parts>>

\* ... and polls until everyone is counted.
BarrierGet(s) ==
    /\ At(s, "barrier")
    /\ count[sv[s].arrived] = maxServer
    /\ sv' = [sv EXCEPT ![s].pc = "run", ![s].passed = @ + 1]
    /\ UNCHANGED <<peer, serverNum, meta, count, parts>>

\* DSMKeeper::sum: the value of server s is 2^s, so that a sum tells its parts.
SumPut(s) ==
    /\ At(s, "run") /\ sv[s].passed = barriers
    /\ parts' = [parts EXCEPT ![s] = 2 ^ s]
    /\ sv' = [sv EXCEPT ![s].pc = IF s = 0 THEN "sum" ELSE "done", ![s].k = 0]
    /\ UNCHANGED <<peer, serverNum, meta, count>>

\* Only server 0 adds the parts up, in the order of the servers.
SumAdd(s) ==
    LET i == sv[s].k IN
    /\ At(s, "sum") /\ parts[i] # Absent
    /\ sv' = [sv EXCEPT ![s].ret = @ + parts[i], ![s].k = i + 1,
                        ![s].pc = IF i + 1 = maxServer THEN "done" ELSE "sum"]
    /\ UNCHANGED <<peer, serverNum, meta, count, parts>>

Step(s) ==
    \/ serverEnter(s) \/ serverConnect(s) \/ ConnectSet(s) \/ ConnectGet(s) \/ connectMySelf(s)
    \/ BarrierSet(s) \/ BarrierAdd(s) \/ BarrierGet(s) \/ SumPut(s) \/ SumAdd(s)

Finished == (\A s \in Servers : At(s, "done")) /\ UNCHANGED vars

Next == (\E s \in Servers : Step(s)) \/ Finished

\* Every server runs, and memcached answers.
Fairness == \A s \in Servers : WF_vars(Step(s))

Spec == Init /\ [][Next]_vars
LiveSpec == Spec /\ Fairness

-----------------------------------------------------------------------------
(* Properties *)

\* Server s is connected to server r and back: what an application thread
\* of s posts to a directory of r arrives at the pair that answers it.
Connected(s, r) ==
    \A i \in Apps, k \in Directories :
        /\ peer[AppQp(s, i, k, r)] = DirQp(r, i, k, s)
        /\ peer[DirQp(r, i, k, s)] = AppQp(s, i, k, r)

\* A server that has left a barrier finds every server in it or past it, and,
\* from the first barrier on, all servers connected with each other: no
\* thread of a started server can use a pair that is not ready at both ends.
BarriersHold ==
    \A s \in Servers : sv[s].passed > 0 =>
        \A r \in Servers : /\ sv[r].arrived >= sv[s].passed
                           /\ \A u \in Servers : Connected(r, u)

\* Whatever the order in which the servers start, their exchange never ends
\* in a circle of waiting servers: all of them get through the barriers, and
\* server 0 adds up the parts of all.
StartupCompletes == <>[](/\ \A s \in Servers : At(s, "done")
                         /\ sv[0].ret = 2 ^ maxServer - 1)
=============================================================================
