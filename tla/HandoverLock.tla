---------------------------- MODULE HandoverLock ----------------------------
(***************************************************************************)
(* The lock-handover and cas-handover baselines of                          *)
(* src/include/LocalLockTable.h and their callers in src/Tree.cpp, built    *)
(* with TREE_TEST_HOCL_HANDOVER and without embedded locks.                 *)
(*                                                                          *)
(* A ticket lock of the compute node stands in front of the remote lock of  *)
(* an address.  The holder keeps the remote lock for the next in the queue  *)
(* ("handover"), who uses it if it is for the same address.  One entry of   *)
(* the table serves all addresses of the model (a hash conflict).  In the   *)
(* "cas" form there is no remote lock: the next in the queue takes over the *)
(* result of the operation before it.                                       *)
(***************************************************************************)
EXTENDS Integers, Sequences, FiniteSets

CONSTANTS Clients,
          home,        \* [Clients -> compute nodes]
          targets,     \* [Clients -> set of addresses (or keys) it works on]
          Width,       \* tickets are counted modulo this, 2^8 in the code
          MAX_HOCL_HANDOVER,
          OpMax,       \* bound on the operations
          None

VARIABLES form,        \* "lock" or "cas"
          node,        \* per compute node, the fields of the LocalLockNode
          remote,      \* [address -> the client that set its remote lock, or None]
          cl, ops

vars == <<form, node, remote, cl, ops>>

Nodes == {home[c] : c \in Clients}
Addrs == UNION {targets[c] : c \in Clients}

Idle == [pc |-> "idle", addr |-> None, ticket |-> 0, handover |-> FALSE,
         res |-> None, todo |-> <<>>]

Init ==
    /\ form \in {"lock", "cas"}
    /\ node = [n \in Nodes |-> [ticket |-> 0, current |-> 0, handover |-> FALSE,
                                unique |-> None, handover_cnt |-> 0, res |-> None]]
    /\ remote = [a \in Addrs |-> None]
    /\ cl = [c \in Clients |-> Idle]
    /\ ops = 0

\* A ticket is drawn.
acquire_local_lock(c, a) ==
    LET n == home[c] IN
    /\ cl[c].pc = "idle" /\ ops < OpMax
    /\ cl' = [cl EXCEPT ![c] = [Idle EXCEPT !.pc = "queued", !.addr = a,
                                            !.ticket = node[n].ticket]]
    /\ node' = [node EXCEPT ![n].ticket = (@ + 1) % Width]
    /\ ops' = ops + 1
    /\ UNCHANGED <<form, remote>>

\* Mutant: whatever the queue hands over is used for any address.
TakesOverAny(n, a) == n.handover
TakesOver(n, a) == n.handover /\ n.unique = a

\* It is the client's turn: without a handover its address becomes the one
\* the entry stands for.
Turn(c) ==
    LET n == home[c]
        l == cl[c]
        m == IF node[n].handover THEN node[n] ELSE [node[n] EXCEPT !.unique = l.addr]
        taken == TakesOver(m, l.addr)
    IN
    /\ l.pc = "queued" /\ l.ticket = node[n].current
    /\ node' = [node EXCEPT ![n] = m]
    /\ cl' = [cl EXCEPT ![c].handover = taken,
                        ![c].pc = IF taken \/ form = "cas" THEN "write" ELSE "lock"]
    /\ UNCHANGED <<form, remote, ops>>

\* acquire_lock: tried until the remote lock is free.
acquire_lock(c) ==
    /\ cl[c].pc = "lock" /\ remote[cl[c].addr] = None
    /\ remote' = [remote EXCEPT ![cl[c].addr] = c]
    /\ cl' = [cl EXCEPT ![c].pc = "write"]
    /\ UNCHANGED <<form, node, ops>>

\* The leaf is written, or the leaf's entry swapped (which may fail); a
\* client that took over in the "cas" form does neither.
Write(c) ==
    /\ cl[c].pc = "write"
    /\ \E ok \in BOOLEAN :
         /\ form = "lock" \/ cl[c].handover => ok
         /\ cl' = [cl EXCEPT ![c].pc = "release",
                             ![c].res = IF cl[c].handover THEN None ELSE <<cl[c].addr, ok>>]
    /\ UNCHANGED <<form, node, remote, ops>>

\* Who is waiting decides whether the lock is handed over, at most
\* MAX_HOCL_HANDOVER times in a row.
HandOn(n) ==
    LET on == /\ n.ticket # (n.current + 1) % Width
              /\ ~(n.handover_cnt > MAX_HOCL_HANDOVER)
    IN [n EXCEPT !.handover = on, !.handover_cnt = IF on THEN @ + 1 ELSE 0]

\* Mutant: a client of another address forgets the one the entry stands for.
ToUnlockOwn(n, a) ==
    CASE n.unique # a -> <<a>>
      [] n.unique = a /\ ~n.handover -> <<a>>
      [] OTHER -> <<>>
ToUnlock(n, a) ==
    (IF n.unique # a THEN <<a>> ELSE <<>>) \o (IF ~n.handover THEN <<n.unique>> ELSE <<>>)

\* release_local_lock of the "lock" form, up to the remote unlocks.
ReleaseLock(c) ==
    LET n == home[c]
        m == HandOn(node[n])
    IN
    /\ form = "lock" /\ cl[c].pc = "release"
    /\ node' = [node EXCEPT ![n] = m]
    /\ cl' = [cl EXCEPT ![c].pc = "unlock", ![c].todo = ToUnlock(m, cl[c].addr)]
    /\ UNCHANGED <<form, remote, ops>>

unlock(c) ==
    /\ cl[c].pc = "unlock" /\ cl[c].todo # <<>>
    /\ remote' = [remote EXCEPT ![Head(cl[c].todo)] = None]
    /\ cl' = [cl EXCEPT ![c].todo = Tail(@)]
    /\ UNCHANGED <<form, node, ops>>

\* The next ticket is served.
Serve(c) ==
    /\ cl[c].pc = "unlock" /\ cl[c].todo = <<>>
    /\ node' = [node EXCEPT ![home[c]].current = (@ + 1) % Width]
    /\ cl' = [cl EXCEPT ![c] = Idle]
    /\ UNCHANGED <<form, remote, ops>>

\* release_local_lock of the "cas" form: the winner leaves its result, the
\* ones it was handed over to take it.
ReleaseCas(c) ==
    LET n == node[home[c]]
        l == cl[c]
        mine == n.unique = l.addr
        m == IF mine /\ ~n.handover THEN [n EXCEPT !.res = l.res] ELSE n
    IN
    /\ form = "cas" /\ l.pc = "release"
    /\ node' = [node EXCEPT ![home[c]] = HandOn(m)]
    /\ cl' = [cl EXCEPT ![c].pc = "unlock",
                        ![c].res = IF mine /\ n.handover THEN n.res ELSE @]
    /\ UNCHANGED <<form, remote, ops>>

Step(c) ==
    \/ \E a \in targets[c] : acquire_local_lock(c, a)
    \/ Turn(c) \/ acquire_lock(c) \/ Write(c)
    \/ ReleaseLock(c) \/ unlock(c) \/ Serve(c) \/ ReleaseCas(c)

Finished == ops = OpMax /\ (\A c \in Clients : cl[c].pc = "idle") /\ UNCHANGED vars

Next == (\E c \in Clients : Step(c)) \/ Finished

Spec == Init /\ [][Next]_vars

(***************************************************************************)
(* Properties.                                                              *)
(***************************************************************************)

\* Whoever writes an address does so under its remote lock, set by a client
\* of the same compute node, and alone; and in the "cas" form a result that
\* is taken over is of the same key.
HandoverKeepsTheLock ==
    \A c \in Clients :
        /\ form = "lock" /\ cl[c].pc = "write" =>
             /\ remote[cl[c].addr] # None
             /\ home[remote[cl[c].addr]] = home[c]
             /\ \A d \in Clients \ {c} : cl[d].pc = "write" => cl[d].addr # cl[c].addr
        /\ form = "cas" /\ cl[c].pc = "unlock" => cl[c].res # None /\ cl[c].res[1] = cl[c].addr

\* No remote lock is left behind: one that is set belongs to a client that
\* still has to release it, or is handed over to one that is in the queue.
LocksAreReleased ==
    \A a \in Addrs : remote[a] # None =>
        \E c \in Clients : home[c] = home[remote[a]] /\ cl[c].pc # "idle"
====
