------------------------- MODULE HandoverLockProofs -------------------------
(***************************************************************************)
(* The lock-handover and cas-handover baselines are correct for any        *)
(* clients, compute nodes and addresses and any limit on the handovers in  *)
(* a row, as long as a compute node has fewer clients than tickets.        *)
(***************************************************************************)
EXTENDS HandoverLock, FiniteSetTheorems, TLAPS

\* What the constants stand for: None is none of the other values, and the
\* tickets suffice for all clients to wait at once.
Sensible ==
    /\ None \notin Clients /\ None \notin Addrs /\ None \notin Addrs \X BOOLEAN
    /\ Width \in Nat \ {0, 1}
    /\ IsFiniteSet(Clients) /\ Cardinality(Clients) < Width

Ticket == 0 .. Width - 1
Inc(n) == (n + 1) % Width
Diff(t, u) == IF t >= u THEN t - u ELSE t - u + Width
Results == (Addrs \X BOOLEAN) \union {None}
Busy == {"lock", "write", "release", "unlock"}

LockNode == [ticket : Ticket, current : Ticket, handover : BOOLEAN,
             unique : Addrs \union {None}, handover_cnt : Nat, res : Results]
Caller == [pc : {"idle", "queued"} \union Busy, addr : Addrs \union {None}, ticket : Ticket,
           handover : BOOLEAN, res : Results, todo : Seq(Addrs)]

TypeOK ==
    /\ form \in {"lock", "cas"}
    /\ node \in [Nodes -> LockNode]
    /\ remote \in [Addrs -> Clients \union {None}]
    /\ cl \in [Clients -> Caller]

-----------------------------------------------------------------------------
(* The tickets                                                               *)

Queue(n) == {c \in Clients : home[c] = n /\ cl[c].pc # "idle"}

Drawn == [c \in Clients |-> cl[c].ticket]

\* The tickets m of the clients in Q are distinct and lie between the counters
\* u (served) and t (next to draw), which are as far apart as Q is large.
Ordered(Q, m, t, u) ==
    /\ \A c \in Q : Diff(m[c], u) < Diff(t, u)
    /\ \A c, d \in Q : m[c] = m[d] => c = d
    /\ Diff(t, u) = Cardinality(Q)

\* Every queue is ordered, and whoever is past it is the one being served.
TicketInv ==
    /\ \A n \in Nodes : Ordered(Queue(n), Drawn, node[n].ticket, node[n].current)
    /\ \A c \in Clients : cl[c].pc \in Busy => cl[c].ticket = node[home[c]].current

-----------------------------------------------------------------------------
(* The remote locks                                                          *)

\* The remote lock of address a is held for compute node n.
HeldFor(n, a) == remote[a] # None /\ home[remote[a]] = n

\* Client c has the remote lock of a, and still has to release it.
Owes(c, a) ==
    \/ cl[c].pc \in {"write", "release"} /\ cl[c].addr = a
    \/ cl[c].pc = "unlock" /\ \E i \in 1 .. Len(cl[c].todo) : cl[c].todo[i] = a

\* The remote lock of a is kept for the next in the queue of n.
HandedOn(n, a) == node[n].handover /\ node[n].unique = a

\* The remote locks held for a compute node are those its clients owe and the
\* one that is handed on; what a client releases is not handed on as well.
LockInv ==
    form = "lock" =>
        /\ \A n \in Nodes, a \in Addrs :
             HeldFor(n, a) <=> HandedOn(n, a) \/ \E c \in Clients : home[c] = n /\ Owes(c, a)
        /\ \A c \in Clients : cl[c].pc = "unlock" =>
             /\ \A i \in 1 .. Len(cl[c].todo) : ~HandedOn(home[c], cl[c].todo[i])
             /\ \A i, j \in 1 .. Len(cl[c].todo) : cl[c].todo[i] = cl[c].todo[j] => i = j

\* A client that is served finds the entry to stand for its address, or has
\* been handed over what another address stands for.
TurnOK(c) ==
    LET n == node[home[c]] IN
    /\ cl[c].pc # "idle" => cl[c].addr \in Addrs
    /\ cl[c].pc \in Busy => n.unique \in Addrs
    /\ cl[c].pc \in {"lock", "write", "release"} =>
         /\ ~n.handover => n.unique = cl[c].addr
         /\ cl[c].handover <=> n.handover /\ n.unique = cl[c].addr

\* In the "cas" form a client takes no remote lock, and the result it has in the
\* end is one of its own key.
ResultOK(c) ==
    form = "cas" =>
        /\ cl[c].pc # "lock"
        /\ (cl[c].pc = "release" /\ ~cl[c].handover) \/ cl[c].pc = "unlock" =>
             cl[c].res # None /\ cl[c].res[1] = cl[c].addr

\* What is handed on has a client to be handed on to, and in the "cas" form it is
\* a result of the key the entry stands for.
HandoverOK(n) ==
    node[n].handover =>
        /\ node[n].ticket # node[n].current
        /\ node[n].unique \in Addrs
        /\ \A c \in Clients : home[c] = n /\ cl[c].pc = "unlock" =>
             node[n].ticket # Inc(node[n].current)
        /\ form = "cas" => node[n].res # None /\ node[n].res[1] = node[n].unique

TurnInv ==
    /\ \A c \in Clients : TurnOK(c) /\ ResultOK(c)
    /\ \A n \in Nodes : HandoverOK(n)
    /\ form = "cas" => \A a \in Addrs : remote[a] = None

IInv == TypeOK /\ TicketInv /\ LockInv /\ TurnInv

-----------------------------------------------------------------------------
(* Tickets are drawn and served in order                                     *)

\* Zenon proves the leaves that need no arithmetic; the others cite SMT.
USE Zenon

\* Distances between the counters when a ticket is drawn or served.
LEMMA Distances ==
    ASSUME Sensible, NEW t \in Ticket, NEW u \in Ticket, NEW x \in Ticket
    PROVE  /\ Inc(t) \in Ticket /\ Diff(t, u) \in Ticket
           /\ Inc(t) = Inc(u) => t = u
           /\ Diff(t, u) = 0 <=> t = u
           /\ Diff(t, u) = Diff(x, u) => t = x
           /\ Diff(t, u) < Width - 1 => Diff(Inc(t), u) = Diff(t, u) + 1
           /\ Diff(t, u) # 0 => Diff(t, Inc(u)) = Diff(t, u) - 1
<1>1. Width \in Nat \ {0, 1}
    BY DEF Sensible
<1>2. \A y \in Ticket : Inc(y) = IF y = Width - 1 THEN 0 ELSE y + 1
  <2>1. \A y \in Ticket : y # Width - 1 => y + 1 \in 0 .. Width - 1
      BY <1>1, SMT DEF Ticket
  <2>2. \A y \in 0 .. Width - 1 : y % Width = y
      BY <1>1, SMT
  <2>3. Width % Width = 0
      BY <1>1, SMT
  <2> QED
      BY <1>1, <2>1, <2>2, <2>3, SMT DEF Inc, Ticket
<1> HIDE DEF Inc
<1> QED
    BY <1>1, <1>2, SMT DEF Ticket, Diff

\* A client that draws a ticket joins the queue at its end.
LEMMA Draw ==
    ASSUME Sensible, NEW Q, NEW c, NEW m, NEW w, NEW t \in Ticket, NEW u \in Ticket,
           Ordered(Q, m, t, u), Q \subseteq Clients \ {c}, c \in Clients,
           \A d \in Q : m[d] \in Ticket /\ w[d] = m[d],
           w[c] = t
    PROVE  /\ Ordered(Q \union {c}, w, Inc(t), u)
           /\ Inc(t) # u
<1>1. /\ IsFiniteSet(Q \union {c}) /\ IsFiniteSet(Q)
      /\ Cardinality(Q \union {c}) <= Cardinality(Clients)
    <2>1. Q \union {c} \subseteq Clients /\ Q \subseteq Clients
        OBVIOUS
    <2> QED
        BY <2>1, FS_Subset DEF Sensible
<1>2. /\ Cardinality(Q \union {c}) = Cardinality(Q) + 1
      /\ Cardinality(Q) \in Nat /\ Cardinality(Clients) \in Nat
    BY <1>1, FS_AddElement, FS_CardinalityType DEF Sensible
<1>3. Diff(t, u) = Cardinality(Q) /\ Diff(t, u) < Width - 1
    BY <1>1, <1>2, SMT DEF Ordered, Sensible
<1>4. Diff(Inc(t), u) = Diff(t, u) + 1
    BY <1>3, Distances
<1>5. \A d \in Q : m[d] # t /\ Diff(m[d], u) < Diff(t, u)
    BY <1>2, <1>3, SMT DEF Ordered
<1>6. \A d \in Q \union {c} : Diff(w[d], u) < Diff(Inc(t), u)
  <2>1. ASSUME NEW d \in Q PROVE Diff(w[d], u) < Diff(Inc(t), u)
    <3>1. Diff(m[d], u) \in Ticket /\ Diff(t, u) \in Ticket
        BY Distances
    <3> QED
        BY <1>4, <1>5, <3>1, SMT DEF Ticket
  <2>2. Diff(w[c], u) < Diff(Inc(t), u)
      BY <1>2, <1>3, <1>4, SMT
  <2> QED
      BY <2>1, <2>2
<1>7. \A d, e \in Q \union {c} : w[d] = w[e] => d = e
    BY <1>5 DEF Ordered
<1>8. Inc(t) # u
    BY <1>2, <1>3, <1>4, Distances, SMT
<1> QED
    BY <1>2, <1>3, <1>4, <1>6, <1>7, <1>8 DEF Ordered

\* A client that passes its turn on leaves the queue at its front.
LEMMA PassOn ==
    ASSUME Sensible, NEW Q, NEW c \in Q, NEW m, NEW w, NEW t \in Ticket, NEW u \in Ticket,
           Ordered(Q, m, t, u), Q \subseteq Clients,
           \A d \in Q : m[d] \in Ticket,
           \A d \in Q \ {c} : w[d] = m[d],
           m[c] = u
    PROVE  Ordered(Q \ {c}, w, t, Inc(u))
<1>1. IsFiniteSet(Q)
    BY FS_Subset DEF Sensible
<1>2. /\ Cardinality(Q \ {c}) = Cardinality(Q) - 1
      /\ Cardinality(Q) \in Nat /\ Cardinality(Q) # 0
    BY <1>1, FS_RemoveElement, FS_CardinalityType, FS_EmptySet
<1>3. Diff(t, Inc(u)) = Diff(t, u) - 1 /\ Diff(t, u) = Cardinality(Q)
    BY <1>2, Distances, SMT DEF Ordered
<1>4. ASSUME NEW d \in Q \ {c} PROVE Diff(w[d], Inc(u)) < Diff(t, Inc(u))
  <2>1. m[d] # u /\ Diff(m[d], u) < Diff(t, u)
      BY DEF Ordered
  <2>2. Diff(m[d], Inc(u)) = Diff(m[d], u) - 1 /\ Diff(m[d], u) \in Ticket
      BY <2>1, Distances, SMT
  <2> QED
      BY <1>2, <1>3, <2>1, <2>2, SMT DEF Ticket
<1>5. \A d, e \in Q \ {c} : w[d] = w[e] => d = e
    BY DEF Ordered
<1> QED
    BY <1>2, <1>3, <1>4, <1>5 DEF Ordered

-----------------------------------------------------------------------------
(* The steps, one by one                                                     *)

\* What a step of client c leaves alone.
Elsewhere(c) ==
    /\ \A d \in Clients \ {c} : cl'[d] = cl[d]
    /\ \A n \in Nodes \ {home[c]} : node'[n] = node[n]

\* A step that draws and serves no ticket, of a client that is or has just come
\* to be served, keeps the queues as they are.
LEMMA TicketFrame ==
    ASSUME TypeOK, TypeOK', TicketInv, NEW c \in Clients, Elsewhere(c),
           cl[c].pc # "idle", cl'[c].pc # "idle", cl'[c].ticket = cl[c].ticket,
           cl[c].ticket = node[home[c]].current,
           node'[home[c]].ticket = node[home[c]].ticket,
           node'[home[c]].current = node[home[c]].current
    PROVE  TicketInv'
<1>1. \A n \in Nodes : Queue(n)' = Queue(n)
    BY DEF Queue, Elsewhere
<1>2. Drawn' = Drawn
    BY DEF Drawn, Elsewhere
<1>3. \A n \in Nodes : node'[n].ticket = node[n].ticket /\ node'[n].current = node[n].current
    BY DEF Elsewhere
<1>4. \A d \in Clients : home[d] \in Nodes
    BY DEF Nodes
<1>5. \A n \in Nodes : Ordered(Queue(n), Drawn, node[n].ticket, node[n].current)'
    BY <1>1, <1>2, <1>3 DEF TicketInv, Ordered
<1>6. \A d \in Clients : cl'[d].pc \in Busy => cl'[d].ticket = node'[home[d]].current
    BY <1>3, <1>4, SMT DEF TicketInv, Elsewhere
<1> QED
    BY <1>5, <1>6 DEF TicketInv

\* When it is the turn of client c, the remote locks of its compute node are
\* the one handed on and those c owes; a step of c changes no others.
LEMMA Served ==
    ASSUME Sensible, IInv, NEW c \in Clients,
           cl[c].pc # "idle", cl[c].ticket = node[home[c]].current
    PROVE  /\ \A d \in Clients \ {c} : home[d] = home[c] => cl[d].pc \notin Busy
           /\ form = "lock" => \A a \in Addrs :
                HeldFor(home[c], a) <=> HandedOn(home[c], a) \/ Owes(c, a)
           /\ node[home[c]].ticket # node[home[c]].current
<1>1. \A d \in Clients \ {c} : home[d] = home[c] => cl[d].pc \notin Busy
  <2> SUFFICES ASSUME NEW d \in Clients, home[d] = home[c], cl[d].pc \in Busy
               PROVE  d = c
      OBVIOUS
  <2>1. c \in Queue(home[c]) /\ d \in Queue(home[c]) /\ home[c] \in Nodes
      BY DEF Queue, Busy, Nodes
  <2>2. Drawn[c] = Drawn[d]
      BY DEF IInv, TicketInv, Drawn
  <2> QED
      BY <2>1, <2>2 DEF IInv, TicketInv, Ordered
<1>2. \A d \in Clients, a \in Addrs : cl[d].pc \notin Busy => ~Owes(d, a)
    BY DEF Owes, Busy
<1>3. home[c] \in Nodes
    BY DEF Nodes
<1>4. node[home[c]].ticket # node[home[c]].current
  <2> DEFINE t == node[home[c]].ticket
             u == node[home[c]].current
  <2>1. Diff(u, u) < Diff(t, u)
      BY <1>3 DEF IInv, TicketInv, Ordered, Queue, Drawn
  <2>2. Diff(u, u) \in Ticket
      BY <1>3, Distances DEF IInv, TypeOK, LockNode
  <2> QED
      BY <2>1, <2>2, SMT DEF Ticket
<1> QED
    BY <1>1, <1>2, <1>3, <1>4, SMT DEF IInv, LockInv

LEMMA LockFrame ==
    ASSUME IInv, NEW c \in Clients, Elsewhere(c), form' = form, form = "lock",
           \A d \in Clients \ {c} : home[d] = home[c] => cl[d].pc \notin Busy,
           \A m \in Nodes \ {home[c]}, a \in Addrs : HeldFor(m, a)' <=> HeldFor(m, a),
           \A a \in Addrs : HeldFor(home[c], a)' <=> HandedOn(home[c], a)' \/ Owes(c, a)',
           cl'[c].pc = "unlock" =>
             /\ \A i \in 1 .. Len(cl'[c].todo) : ~HandedOn(home[c], cl[c].todo[i])'
             /\ \A i, j \in 1 .. Len(cl'[c].todo) : cl'[c].todo[i] = cl'[c].todo[j] => i = j
    PROVE  LockInv'
<1>1. ASSUME NEW m \in Nodes, NEW a \in Addrs
      PROVE  (HeldFor(m, a) <=> HandedOn(m, a) \/ \E d \in Clients : home[d] = m /\ Owes(d, a))'
  <2>1. \A d \in Clients \ {c} : Owes(d, a)' <=> Owes(d, a)
      BY DEF Owes, Elsewhere
  <2>2. \A d \in Clients \ {c} : home[d] = home[c] => ~Owes(d, a)
      BY DEF Owes, Busy
  <2>3. CASE m = home[c]
      BY <2>1, <2>2, <2>3
  <2>4. CASE m # home[c]
    <3>1. HandedOn(m, a)' <=> HandedOn(m, a)
        BY <2>4 DEF HandedOn, Elsewhere
    <3> QED
        BY <2>1, <2>4, <3>1 DEF IInv, LockInv
  <2> QED
      BY <2>3, <2>4
<1>2. ASSUME NEW d \in Clients \ {c}, cl'[d].pc = "unlock"
      PROVE  /\ \A i \in 1 .. Len(cl'[d].todo) : ~HandedOn(home[d], cl[d].todo[i])'
             /\ \A i, j \in 1 .. Len(cl'[d].todo) : cl'[d].todo[i] = cl'[d].todo[j] => i = j
  <2>1. cl'[d] = cl[d] /\ cl[d].pc \in Busy /\ home[d] \in Nodes
      BY <1>2 DEF Elsewhere, Busy, Nodes
  <2>2. node'[home[d]] = node[home[d]]
      BY <2>1 DEF Elsewhere
  <2> QED
      BY <1>2, <2>1, <2>2, SMT DEF IInv, LockInv, HandedOn
<1> QED
    BY <1>1, <1>2 DEF LockInv

LEMMA TurnFrame ==
    ASSUME IInv, NEW c \in Clients, Elsewhere(c), form' = form,
           \A d \in Clients \ {c} : home[d] = home[c] => cl[d].pc \notin Busy,
           TurnOK(c)', ResultOK(c)',
           node'[home[c]].handover =>
             /\ node'[home[c]].ticket # node'[home[c]].current
             /\ node'[home[c]].unique \in Addrs
             /\ cl'[c].pc = "unlock" => node'[home[c]].ticket # Inc(node'[home[c]].current)
             /\ form = "cas" => /\ node'[home[c]].res # None
                               /\ node'[home[c]].res[1] = node'[home[c]].unique,
           form = "cas" => \A a \in Addrs : remote'[a] = None
    PROVE  TurnInv'
<1>1. ASSUME NEW d \in Clients \ {c} PROVE TurnOK(d)' /\ ResultOK(d)'
  <2>1. cl'[d] = cl[d] /\ TurnOK(d) /\ ResultOK(d) /\ home[d] \in Nodes
      BY DEF Elsewhere, IInv, TurnInv, Nodes
  <2>2. ResultOK(d)'
      BY <2>1 DEF ResultOK
  <2>3. CASE home[d] # home[c]
    <3>1. node'[home[d]] = node[home[d]]
        BY <2>1, <2>3 DEF Elsewhere
    <3> QED
        BY <2>1, <2>2, <3>1 DEF TurnOK
  <2>4. CASE home[d] = home[c]
      BY <2>1, <2>2, <2>4 DEF TurnOK, Busy
  <2> QED
      BY <2>3, <2>4
<1>2. ASSUME NEW n \in Nodes PROVE HandoverOK(n)'
  <2>1. CASE n = home[c]
      BY <2>1 DEF HandoverOK, Elsewhere, Busy
  <2>2. CASE n # home[c]
    <3>1. node'[n] = node[n] /\ \A d \in Clients : home[d] = n => cl'[d] = cl[d]
        BY <2>2 DEF Elsewhere
    <3> QED
        BY <3>1, SMT DEF HandoverOK, IInv, TurnInv
  <2> QED
      BY <2>1, <2>2
<1> QED
    BY <1>1, <1>2 DEF TurnInv

LEMMA TurnStep ==
    ASSUME Sensible, IInv, NEW c \in Clients, Turn(c)
    PROVE  IInv'
<1> DEFINE n == home[c]
<1>0. TypeOK /\ n \in Nodes /\ cl[c] \in Caller /\ node[n] \in LockNode /\ cl[c].addr \in Addrs
    BY DEF IInv, TypeOK, Nodes, Turn, TurnInv, TurnOK
<1>1. /\ cl[c].pc = "queued" /\ cl[c].ticket = node[n].current
      /\ UNCHANGED <<form, remote>>
    BY DEF Turn
<1>2. Elsewhere(c)
    BY <1>0 DEF Turn, Elsewhere, TypeOK
<1>3. /\ node'[n] \in LockNode
      /\ node'[n].ticket = node[n].ticket /\ node'[n].current = node[n].current
      /\ node'[n].handover = node[n].handover /\ node'[n].res = node[n].res
      /\ node'[n].unique = IF node[n].handover THEN node[n].unique ELSE cl[c].addr
    BY <1>0 DEF Turn, LockNode, TypeOK
<1>4. /\ cl'[c] \in Caller
      /\ cl'[c].addr = cl[c].addr /\ cl'[c].ticket = cl[c].ticket
      /\ cl'[c].handover <=> node[n].handover /\ node[n].unique = cl[c].addr
      /\ cl'[c].pc \in {"lock", "write"}
      /\ form = "cas" => cl'[c].pc = "write"
      /\ form = "lock" => (cl'[c].pc = "write" <=> cl'[c].handover)
    BY <1>0 DEF Turn, TakesOver, Caller, LockNode, TypeOK, Busy
<1>5. TypeOK'
    BY <1>0, <1>1, <1>2, <1>3, <1>4 DEF TypeOK, Turn, Elsewhere
<1>6. TicketInv'
    BY <1>0, <1>1, <1>2, <1>3, <1>4, <1>5, TicketFrame DEF IInv, LockNode
<1>s. /\ \A d \in Clients \ {c} : home[d] = home[c] => cl[d].pc \notin Busy
      /\ form = "lock" => \A a \in Addrs : HeldFor(n, a) <=> HandedOn(n, a) \/ Owes(c, a)
    BY <1>1, Served
<1>7. LockInv'
  <2> SUFFICES ASSUME form = "lock" PROVE LockInv'
      BY <1>1 DEF LockInv
  <2>1. \A m \in Nodes, a \in Addrs : HeldFor(m, a)' <=> HeldFor(m, a)
      BY <1>1 DEF HeldFor
  <2>2. \A a \in Addrs : HandedOn(n, a)' <=> HandedOn(n, a)
      BY <1>3 DEF HandedOn
  <2>3. \A a \in Addrs : ~Owes(c, a)
      BY <1>1 DEF Owes
  <2>4. ASSUME NEW a \in Addrs, Owes(c, a)' PROVE HandedOn(n, a)
    <3>1. cl'[c].pc = "write" /\ cl'[c].addr = a
        BY <1>4, <2>4 DEF Owes
    <3> QED
        BY <1>4, <2>4, <3>1 DEF HandedOn
  <2>5. \A a \in Addrs : HeldFor(n, a)' <=> HandedOn(n, a)' \/ Owes(c, a)'
      BY <1>s, <2>1, <2>2, <2>3, <2>4, <1>0
  <2> QED
      BY <1>1, <1>2, <1>4, <1>s, <2>1, <2>5, LockFrame
<1>8. TurnInv'
  <2>2. TurnOK(c) /\ HandoverOK(n)
      BY <1>0 DEF IInv, TurnInv
  <2>3. node'[n].unique \in Addrs
      BY <1>0, <1>3, <2>2 DEF HandoverOK
  <2>4. TurnOK(c)'
      BY <1>0, <1>3, <1>4, <2>3 DEF TurnOK, Busy
  <2>1. TurnOK(c)' /\ ResultOK(c)'
      BY <1>1, <1>4, <2>4 DEF ResultOK
  <2> QED
      BY <1>0, <1>1, <1>2, <1>3, <1>4, <1>s, <2>1, <2>2, TurnFrame
      DEF IInv, TurnInv, HandoverOK, LockNode
<1> QED
    BY <1>5, <1>6, <1>7, <1>8 DEF IInv

LEMMA AcquireStep ==
    ASSUME Sensible, IInv, NEW c \in Clients, acquire_lock(c)
    PROVE  IInv'
<1> DEFINE n == home[c]
           b == cl[c].addr
<1>0. /\ TypeOK /\ n \in Nodes /\ cl[c] \in Caller /\ b \in Addrs
      /\ TurnOK(c) /\ ResultOK(c) /\ HandoverOK(n)
    BY DEF IInv, TypeOK, Nodes, acquire_lock, TurnInv, TurnOK
<1>1. /\ cl[c].pc = "lock" /\ remote[b] = None /\ form = "lock" /\ c # None
      /\ cl[c].ticket = node[n].current /\ UNCHANGED <<form, node>>
    BY <1>0 DEF acquire_lock, ResultOK, TypeOK, IInv, TicketInv, Busy, Sensible
<1>2. Elsewhere(c)
    BY DEF acquire_lock, Elsewhere, IInv, TypeOK
<1>3. remote'[b] = c /\ \A a \in Addrs \ {b} : remote'[a] = remote[a]
    BY <1>0 DEF acquire_lock, TypeOK
<1>4. /\ cl'[c] \in Caller /\ cl'[c].pc = "write"
      /\ cl'[c].addr = b /\ cl'[c].ticket = cl[c].ticket /\ cl'[c].handover = cl[c].handover
    BY <1>0 DEF acquire_lock, Caller, TypeOK, Busy
<1>5. TypeOK'
    BY <1>0, <1>4 DEF TypeOK, acquire_lock
<1>6. TicketInv'
    BY <1>0, <1>1, <1>2, <1>4, <1>5, TicketFrame DEF IInv
<1>s. /\ \A d \in Clients \ {c} : home[d] = home[c] => cl[d].pc \notin Busy
      /\ \A a \in Addrs : HeldFor(n, a) <=> HandedOn(n, a) \/ Owes(c, a)
    BY <1>1, Served
<1>7. LockInv'
  <2>1. \A m \in Nodes \ {n}, a \in Addrs : HeldFor(m, a)' <=> HeldFor(m, a)
      BY <1>1, <1>3 DEF HeldFor
  <2>2. \A a \in Addrs : HandedOn(n, a)' <=> HandedOn(n, a)
      BY <1>1 DEF HandedOn
  <2>3. \A a \in Addrs : ~Owes(c, a) /\ (Owes(c, a)' <=> a = b)
      BY <1>1, <1>4 DEF Owes
  <2>4. \A a \in Addrs : HeldFor(n, a)' <=> HeldFor(n, a) \/ a = b
      BY <1>1, <1>3 DEF HeldFor
  <2>5. \A a \in Addrs : HeldFor(n, a)' <=> HandedOn(n, a)' \/ Owes(c, a)'
      BY <1>s, <2>2, <2>3, <2>4
  <2> QED
      BY <1>1, <1>2, <1>4, <1>s, <2>1, <2>5, LockFrame
<1>8. TurnInv'
  <2>1. TurnOK(c)' /\ ResultOK(c)'
      BY <1>0, <1>1, <1>4 DEF TurnOK, ResultOK, Busy
  <2> QED
      BY <1>0, <1>1, <1>2, <1>4, <1>s, <2>1, TurnFrame DEF HandoverOK
<1> QED
    BY <1>5, <1>6, <1>7, <1>8 DEF IInv

LEMMA WriteStep ==
    ASSUME Sensible, IInv, NEW c \in Clients, Write(c)
    PROVE  IInv'
<1> DEFINE n == home[c]
           b == cl[c].addr
<1>0. /\ TypeOK /\ n \in Nodes /\ cl[c] \in Caller /\ b \in Addrs
      /\ TurnOK(c) /\ ResultOK(c) /\ HandoverOK(n)
    BY DEF IInv, TypeOK, Nodes, Write, TurnInv, TurnOK
<1>1. /\ cl[c].pc = "write" /\ cl[c].ticket = node[n].current
      /\ UNCHANGED <<form, node, remote>>
    BY DEF Write, IInv, TicketInv, Busy
<1>2. Elsewhere(c)
    BY DEF Write, Elsewhere, IInv, TypeOK
<1>3. PICK ok \in BOOLEAN :
        cl' = [cl EXCEPT ![c] = [cl[c] EXCEPT !.pc = "release",
                 !.res = IF cl[c].handover THEN None ELSE <<b, ok>>]]
    BY <1>0 DEF Write, TypeOK
<1>4. <<b, ok>> \in Results /\ <<b, ok>> # None /\ None \in Results
    BY <1>0, SMT DEF Results, Sensible
<1>5. /\ cl'[c] \in Caller /\ cl'[c].pc = "release"
      /\ cl'[c].addr = b /\ cl'[c].ticket = cl[c].ticket /\ cl'[c].handover = cl[c].handover
      /\ ~cl[c].handover => cl'[c].res = <<b, ok>>
    BY <1>0, <1>3, <1>4 DEF Caller, Busy, TypeOK
<1>6. TypeOK'
    BY <1>0, <1>1, <1>3, <1>5 DEF TypeOK
<1>7. TicketInv'
    BY <1>0, <1>1, <1>2, <1>5, <1>6, TicketFrame DEF IInv
<1>s. /\ \A d \in Clients \ {c} : home[d] = home[c] => cl[d].pc \notin Busy
      /\ form = "lock" => \A a \in Addrs : HeldFor(n, a) <=> HandedOn(n, a) \/ Owes(c, a)
    BY <1>1, Served
<1>8. LockInv'
  <2> SUFFICES ASSUME form = "lock" PROVE LockInv'
      BY <1>1 DEF LockInv
  <2>1. \A m \in Nodes, a \in Addrs : HeldFor(m, a)' <=> HeldFor(m, a)
      BY <1>1 DEF HeldFor
  <2>2. \A a \in Addrs : /\ HandedOn(n, a)' <=> HandedOn(n, a)
                         /\ Owes(c, a)' <=> Owes(c, a)
      BY <1>1, <1>5 DEF HandedOn, Owes
  <2>3. \A a \in Addrs : HeldFor(n, a)' <=> HandedOn(n, a)' \/ Owes(c, a)'
      BY <1>0, <1>s, <2>1, <2>2
  <2> QED
      BY <1>1, <1>2, <1>5, <1>s, <2>1, <2>3, LockFrame
<1>9. TurnInv'
  <2>1. TurnOK(c)'
      BY <1>0, <1>1, <1>5 DEF TurnOK, Busy
  <2>2. ResultOK(c)'
      BY <1>1, <1>4, <1>5, SMT DEF ResultOK
  <2> QED
      BY <1>0, <1>1, <1>2, <1>5, <1>s, <2>1, <2>2, TurnFrame DEF HandoverOK, IInv, TurnInv
<1> QED
    BY <1>6, <1>7, <1>8, <1>9 DEF IInv

\* What ReleaseLock leaves to unlock: its own address if that is not the one the
\* entry stands for, and the latter unless it is handed on; nothing twice.
LEMMA ToUnlockIs ==
    ASSUME NEW m \in LockNode, m.unique \in Addrs, NEW b \in Addrs
    PROVE  /\ ToUnlock(m, b) \in Seq(Addrs)
           /\ \A a \in Addrs :
                (\E i \in 1 .. Len(ToUnlock(m, b)) : ToUnlock(m, b)[i] = a) <=>
                (a = b /\ m.unique # b) \/ (a = m.unique /\ ~m.handover)
           /\ \A i, j \in 1 .. Len(ToUnlock(m, b)) :
                ToUnlock(m, b)[i] = ToUnlock(m, b)[j] => i = j
<1> DEFINE u == m.unique
<1>0. <<b>> \o <<>> = <<b>> /\ <<>> \o <<>> = <<>> /\ <<>> \o <<u>> = <<u>>
    BY SMT
<1>1. ToUnlock(m, b) = IF u # b THEN IF m.handover THEN <<b>> ELSE <<b>> \o <<u>>
                       ELSE IF m.handover THEN <<>> ELSE <<u>>
    BY <1>0, Zenon DEF ToUnlock
<1>2. CASE u # b /\ m.handover
    BY <1>1, <1>2, SMT
<1>3. CASE u # b /\ ~m.handover
  <2>1. ToUnlock(m, b) = <<b>> \o <<u>>
      BY <1>1, <1>3
  <2>2. /\ ToUnlock(m, b) \in Seq(Addrs) /\ Len(ToUnlock(m, b)) = 2
        /\ ToUnlock(m, b)[1] = b /\ ToUnlock(m, b)[2] = u
      BY <2>1, SMT
  <2>3. \A i \in 1 .. 2 : i = 1 \/ i = 2
      BY SMT
  <2> QED
      BY <1>3, <2>2, <2>3, SMT
<1>4. CASE u = b /\ m.handover
    BY <1>1, <1>4, SMT
<1>5. CASE u = b /\ ~m.handover
    BY <1>1, <1>5, SMT
<1> QED
    BY <1>2, <1>3, <1>4, <1>5

\* HandOn changes only whether there is a handover, and how many in a row.
LEMMA HandOnIs ==
    ASSUME NEW x \in LockNode
    PROVE  /\ HandOn(x) \in LockNode /\ HandOn(x).unique = x.unique /\ HandOn(x).res = x.res
           /\ HandOn(x).ticket = x.ticket /\ HandOn(x).current = x.current
           /\ HandOn(x).handover => x.ticket # Inc(x.current)
<1> DEFINE on == x.ticket # (x.current + 1) % Width /\ ~(x.handover_cnt > MAX_HOCL_HANDOVER)
           cnt == IF on THEN x.handover_cnt + 1 ELSE 0
<1>1. HandOn(x) = [x EXCEPT !.handover = on, !.handover_cnt = cnt]
    BY DEF HandOn
<1>2. on \in BOOLEAN /\ cnt \in Nat
    BY SMT DEF LockNode
<1>3. on => x.ticket # Inc(x.current)
    BY DEF Inc
<1> HIDE DEF on, cnt
<1> QED
    BY <1>1, <1>2, <1>3 DEF LockNode

LEMMA ReleaseLockStep ==
    ASSUME Sensible, IInv, NEW c \in Clients, ReleaseLock(c)
    PROVE  IInv'
<1> DEFINE n == home[c]
           b == cl[c].addr
           m == HandOn(node[n])
<1>0. /\ TypeOK /\ n \in Nodes /\ cl[c] \in Caller /\ b \in Addrs /\ node[n] \in LockNode
      /\ TurnOK(c) /\ node[n].unique \in Addrs
    BY DEF IInv, TypeOK, Nodes, ReleaseLock, TurnInv, TurnOK, Busy
<1>1. /\ cl[c].pc = "release" /\ form = "lock" /\ cl[c].ticket = node[n].current
      /\ UNCHANGED <<form, remote>>
    BY DEF ReleaseLock, IInv, TicketInv, Busy
<1>2. Elsewhere(c)
    BY DEF ReleaseLock, Elsewhere, IInv, TypeOK
<1>3. /\ m \in LockNode /\ m.unique = node[n].unique
      /\ m.ticket = node[n].ticket /\ m.current = node[n].current
      /\ m.handover => node[n].ticket # Inc(node[n].current)
    BY <1>0, HandOnIs
<1>4. node'[n] = m
    BY <1>0 DEF ReleaseLock, TypeOK
<1> HIDE DEF m
<1>t. /\ ToUnlock(m, b) \in Seq(Addrs)
      /\ \A a \in Addrs : (\E i \in 1 .. Len(ToUnlock(m, b)) : ToUnlock(m, b)[i] = a) <=>
           (a = b /\ m.unique # b) \/ (a = m.unique /\ ~m.handover)
      /\ \A i, j \in 1 .. Len(ToUnlock(m, b)) : ToUnlock(m, b)[i] = ToUnlock(m, b)[j] => i = j
    BY <1>0, <1>3, ToUnlockIs
<1>u. cl' = [cl EXCEPT ![c] = [cl[c] EXCEPT !.pc = "unlock", !.todo = ToUnlock(m, b)]]
    BY <1>0 DEF ReleaseLock, TypeOK, m
<1>5. /\ cl'[c] \in Caller /\ cl'[c].pc = "unlock"
      /\ cl'[c].addr = b /\ cl'[c].ticket = cl[c].ticket
      /\ cl'[c].todo = ToUnlock(m, b)
    BY <1>0, <1>t, <1>u DEF Caller, Busy, TypeOK
<1>6. TypeOK'
    BY <1>0, <1>1, <1>2, <1>3, <1>4, <1>5 DEF TypeOK, ReleaseLock, Elsewhere
<1>7. TicketInv'
    BY <1>0, <1>1, <1>2, <1>3, <1>4, <1>5, <1>6, TicketFrame DEF IInv
<1>s. /\ \A d \in Clients \ {c} : home[d] = home[c] => cl[d].pc \notin Busy
      /\ \A a \in Addrs : HeldFor(n, a) <=> HandedOn(n, a) \/ Owes(c, a)
      /\ node[n].ticket # node[n].current
    BY <1>1, Served
<1>8. LockInv'
  <2>1. \A d \in Nodes, a \in Addrs : HeldFor(d, a)' <=> HeldFor(d, a)
      BY <1>1 DEF HeldFor
  <2>2. \A a \in Addrs : HandedOn(n, a) \/ Owes(c, a) <=> a = m.unique \/ a = b
      BY <1>0, <1>1, <1>3 DEF HandedOn, Owes, TurnOK
  <2>3. \A a \in Addrs : HandedOn(n, a)' <=> m.handover /\ m.unique = a
      BY <1>4 DEF HandedOn
  <2>4. \A a \in Addrs : Owes(c, a)' <=>
          (a = b /\ m.unique # b) \/ (a = m.unique /\ ~m.handover)
      BY <1>5, <1>t, SMT DEF Owes
  <2>5. \A a \in Addrs : HeldFor(n, a)' <=> HandedOn(n, a)' \/ Owes(c, a)'
      BY <1>0, <1>s, <2>1, <2>2, <2>3, <2>4
  <2>6. /\ \A i \in 1 .. Len(cl'[c].todo) : ~HandedOn(n, cl[c].todo[i])'
        /\ \A i, j \in 1 .. Len(cl'[c].todo) : cl'[c].todo[i] = cl'[c].todo[j] => i = j
    <3>1. \A i \in 1 .. Len(cl'[c].todo) : cl'[c].todo[i] \in Addrs
        BY <1>5, SMT DEF Caller
    <3>2. \A a \in Addrs : ~(HandedOn(n, a)' /\ Owes(c, a)')
        BY <2>3, <2>4
    <3>3. \A i \in 1 .. Len(cl'[c].todo) : Owes(c, cl[c].todo[i])'
        BY <1>5 DEF Owes
    <3> QED
        BY <1>5, <1>t, <3>1, <3>2, <3>3
  <2> QED
      BY <1>1, <1>2, <1>s, <2>1, <2>5, <2>6, LockFrame
<1>9. TurnInv'
  <2>1. TurnOK(c)' /\ ResultOK(c)'
      BY <1>0, <1>1, <1>3, <1>4, <1>5 DEF TurnOK, ResultOK, Busy
  <2> QED
      BY <1>0, <1>1, <1>2, <1>3, <1>4, <1>s, <2>1, TurnFrame
<1> QED
    BY <1>6, <1>7, <1>8, <1>9 DEF IInv

LEMMA UnlockStep ==
    ASSUME Sensible, IInv, NEW c \in Clients, unlock(c)
    PROVE  IInv'
<1> DEFINE n == home[c]
           todo == cl[c].todo
           h == Head(todo)
<1>0. /\ TypeOK /\ n \in Nodes /\ cl[c] \in Caller
      /\ TurnOK(c) /\ ResultOK(c) /\ HandoverOK(n)
    BY DEF IInv, TypeOK, Nodes, TurnInv
<1>1. /\ cl[c].pc = "unlock" /\ todo # <<>> /\ cl[c].ticket = node[n].current
      /\ UNCHANGED <<form, node>>
    BY DEF unlock, IInv, TicketInv, Busy
<1>2. Elsewhere(c)
    BY DEF unlock, Elsewhere, IInv, TypeOK
<1>3. /\ todo \in Seq(Addrs) /\ h \in Addrs /\ h = todo[1] /\ 1 \in 1 .. Len(todo)
      /\ Tail(todo) \in Seq(Addrs) /\ Len(Tail(todo)) = Len(todo) - 1
      /\ \A i \in 1 .. Len(todo) - 1 : Tail(todo)[i] = todo[i + 1]
      /\ Len(todo) \in Nat
    BY <1>0, <1>1, SMT DEF Caller
<1>4. remote'[h] = None /\ \A a \in Addrs \ {h} : remote'[a] = remote[a]
    BY <1>0, <1>3 DEF unlock, TypeOK
<1>5. /\ cl'[c] \in Caller /\ cl'[c].pc = "unlock" /\ cl'[c].todo = Tail(todo)
      /\ cl'[c].addr = cl[c].addr /\ cl'[c].ticket = cl[c].ticket
      /\ cl'[c].handover = cl[c].handover /\ cl'[c].res = cl[c].res
  <2>1. cl' = [cl EXCEPT ![c] = [cl[c] EXCEPT !.todo = Tail(todo)]]
      BY <1>0 DEF unlock, TypeOK
  <2> QED
      BY <1>0, <1>1, <1>3, <2>1 DEF Caller, TypeOK
<1> HIDE DEF todo, h
<1>6. TypeOK'
    BY <1>0, <1>1, <1>5, <1>3 DEF TypeOK, unlock
<1>7. TicketInv'
    BY <1>0, <1>1, <1>2, <1>5, <1>6, TicketFrame DEF IInv
<1>s. /\ \A d \in Clients \ {c} : home[d] = home[c] => cl[d].pc \notin Busy
      /\ form = "lock" => \A a \in Addrs : HeldFor(n, a) <=> HandedOn(n, a) \/ Owes(c, a)
      /\ node[n].ticket # node[n].current
    BY <1>1, Served
<1>8. LockInv'
  <2> SUFFICES ASSUME form = "lock" PROVE LockInv'
      BY <1>1 DEF LockInv
  <2>1. /\ \A i \in 1 .. Len(todo) : ~HandedOn(n, todo[i])
        /\ \A i, j \in 1 .. Len(todo) : todo[i] = todo[j] => i = j
      BY <1>1 DEF IInv, LockInv, todo
  <2>2. \A a \in Addrs : Owes(c, a) <=> \E i \in 1 .. Len(todo) : todo[i] = a
      BY <1>1 DEF Owes, todo
  <2>3. \A a \in Addrs : Owes(c, a)' <=> \E i \in 1 .. Len(todo) - 1 : todo[i + 1] = a
      BY <1>3, <1>5, SMT DEF Owes
  <2>4. \A a \in Addrs : Owes(c, a)' <=> Owes(c, a) /\ a # h
    <3>1. ASSUME NEW a \in Addrs, NEW i \in 1 .. Len(todo), todo[i] = a, a # h
          PROVE  i - 1 \in 1 .. Len(todo) - 1 /\ todo[(i - 1) + 1] = a
        BY <1>3, <3>1, SMT
    <3>2. \A i \in 1 .. Len(todo) - 1 : i + 1 \in 1 .. Len(todo) /\ todo[i + 1] # h
        BY <1>3, <2>1, SMT
    <3> QED
        BY <2>2, <2>3, <3>1, <3>2
  <2>5. \A a \in Addrs : HandedOn(n, a)' <=> HandedOn(n, a)
      BY <1>1 DEF HandedOn
  <2>6. HeldFor(n, h) /\ ~HandedOn(n, h)
      BY <1>3, <1>s, <2>1, <2>2
  <2>7. \A m \in Nodes \ {n}, a \in Addrs : HeldFor(m, a)' <=> HeldFor(m, a)
      BY <1>4, <2>6 DEF HeldFor
  <2>8. \A a \in Addrs : HeldFor(n, a)' <=> HeldFor(n, a) /\ a # h
      BY <1>4 DEF HeldFor
  <2>9. \A a \in Addrs : HeldFor(n, a)' <=> HandedOn(n, a)' \/ Owes(c, a)'
      BY <1>s, <2>4, <2>5, <2>6, <2>8
  <2>10. /\ \A i \in 1 .. Len(cl'[c].todo) : ~HandedOn(n, cl[c].todo[i])'
         /\ \A i, j \in 1 .. Len(cl'[c].todo) : cl'[c].todo[i] = cl'[c].todo[j] => i = j
    <3>1. \A i \in 1 .. Len(cl'[c].todo) :
            /\ i \in 1 .. Len(todo) - 1 /\ i + 1 \in 1 .. Len(todo)
            /\ cl'[c].todo[i] = todo[i + 1] /\ todo[i + 1] \in Addrs
        BY <1>3, <1>5, SMT
    <3>2. \A i \in 1 .. Len(cl'[c].todo) : ~HandedOn(n, cl[c].todo[i])'
        BY <2>1, <2>5, <3>1
    <3>3. \A i, j \in 1 .. Len(cl'[c].todo) : cl'[c].todo[i] = cl'[c].todo[j] => i = j
      <4>1. ASSUME NEW i \in 1 .. Len(cl'[c].todo), NEW j \in 1 .. Len(cl'[c].todo),
                   cl'[c].todo[i] = cl'[c].todo[j]
            PROVE  i + 1 = j + 1
          BY <2>1, <3>1, <4>1
      <4> QED
          BY <4>1, SMT
    <3> QED
        BY <3>2, <3>3
  <2> QED
      BY <1>1, <1>2, <1>s, <2>7, <2>9, <2>10, LockFrame
<1>9. TurnInv'
  <2>1. TurnOK(c)' /\ ResultOK(c)'
      BY <1>0, <1>1, <1>5 DEF TurnOK, ResultOK, Busy
  <2>2. form = "cas" => \A a \in Addrs : remote'[a] = None
      BY <1>4, SMT DEF IInv, TurnInv
  <2> QED
      BY <1>0, <1>1, <1>2, <1>5, <1>s, <2>1, <2>2, TurnFrame DEF HandoverOK
<1> QED
    BY <1>6, <1>7, <1>8, <1>9 DEF IInv

LEMMA ReleaseCasStep ==
    ASSUME Sensible, IInv, NEW c \in Clients, ReleaseCas(c)
    PROVE  IInv'
<1> DEFINE n == home[c]
           x == node[n]
           b == cl[c].addr
           mine == x.unique = b
           m == IF mine /\ ~x.handover THEN [x EXCEPT !.res = cl[c].res] ELSE x
           r == IF mine /\ x.handover THEN x.res ELSE cl[c].res
<1>0. /\ TypeOK /\ n \in Nodes /\ cl[c] \in Caller /\ b \in Addrs /\ x \in LockNode
      /\ TurnOK(c) /\ ResultOK(c) /\ HandoverOK(n) /\ x.unique \in Addrs
    BY DEF IInv, TypeOK, Nodes, ReleaseCas, TurnInv, TurnOK, Busy
<1>1. /\ cl[c].pc = "release" /\ form = "cas" /\ cl[c].ticket = x.current
      /\ UNCHANGED <<form, remote>>
    BY DEF ReleaseCas, IInv, TicketInv, Busy
<1>2. Elsewhere(c)
    BY DEF ReleaseCas, Elsewhere, IInv, TypeOK
<1>3. /\ m \in LockNode /\ m.unique = x.unique /\ m.ticket = x.ticket /\ m.current = x.current
      /\ m.res = IF mine /\ ~x.handover THEN cl[c].res ELSE x.res
    BY <1>0 DEF LockNode, Caller
<1>4. node'[n] = HandOn(m) /\ cl' = [cl EXCEPT ![c] = [cl[c] EXCEPT !.pc = "unlock", !.res = r]]
    BY <1>0 DEF ReleaseCas, TypeOK
<1>5. m.res # None /\ m.res[1] = x.unique /\ r # None /\ r[1] = b
  <2>1. CASE x.handover
      BY <1>0, <1>1, <1>3, <2>1 DEF TurnOK, ResultOK, HandoverOK
  <2>2. CASE ~x.handover
      BY <1>0, <1>1, <1>3, <2>2 DEF TurnOK, ResultOK
  <2> QED
      BY <2>1, <2>2
<1>6. r \in Results
    BY <1>0 DEF LockNode, Caller
<1> HIDE DEF m, r
<1>7. /\ cl'[c] \in Caller /\ cl'[c].pc = "unlock" /\ cl'[c].res = r
      /\ cl'[c].addr = b /\ cl'[c].ticket = cl[c].ticket
    BY <1>0, <1>4, <1>6 DEF Caller, Busy, TypeOK
<1>8. /\ node'[n] \in LockNode /\ node'[n].unique = x.unique /\ node'[n].res = m.res
      /\ node'[n].ticket = x.ticket /\ node'[n].current = x.current
      /\ node'[n].handover => x.ticket # Inc(x.current)
    BY <1>3, <1>4, HandOnIs, SMT
<1>9. TypeOK'
    BY <1>0, <1>1, <1>2, <1>7, <1>8 DEF TypeOK, ReleaseCas, Elsewhere
<1>10. TicketInv'
    BY <1>0, <1>1, <1>2, <1>7, <1>8, <1>9, TicketFrame DEF IInv
<1>11. LockInv'
    BY <1>1 DEF LockInv
<1>12. TurnInv'
  <2>1. /\ \A d \in Clients \ {c} : home[d] = home[c] => cl[d].pc \notin Busy
        /\ x.ticket # x.current
      BY <1>1, Served
  <2>2. TurnOK(c)' /\ ResultOK(c)'
      BY <1>0, <1>1, <1>5, <1>7, <1>8 DEF TurnOK, ResultOK, Busy
  <2>3. \A a \in Addrs : remote'[a] = None
      BY <1>1 DEF IInv, TurnInv
  <2> QED
      BY <1>0, <1>1, <1>2, <1>5, <1>8, <2>1, <2>2, <2>3, TurnFrame
<1> QED
    BY <1>9, <1>10, <1>11, <1>12 DEF IInv

LEMMA ServeStep ==
    ASSUME Sensible, IInv, NEW c \in Clients, Serve(c)
    PROVE  IInv'
<1> DEFINE n == home[c]
           x == node[n]
<1>0. /\ TypeOK /\ n \in Nodes /\ cl[c] \in Caller /\ x \in LockNode /\ HandoverOK(n)
      /\ x.ticket \in Ticket /\ x.current \in Ticket
    BY DEF IInv, TypeOK, Nodes, TurnInv, LockNode
<1>1. /\ cl[c].pc = "unlock" /\ cl[c].todo = <<>> /\ cl[c].ticket = x.current
      /\ UNCHANGED <<form, remote>>
    BY DEF Serve, IInv, TicketInv, Busy
<1>2. Elsewhere(c)
    BY DEF Serve, Elsewhere, IInv, TypeOK
<1>3. Inc(x.current) \in Ticket
    BY <1>0, Distances
<1>4. /\ node'[n] \in LockNode /\ node'[n].current = Inc(x.current)
      /\ node'[n].ticket = x.ticket /\ node'[n].handover = x.handover
      /\ node'[n].unique = x.unique /\ node'[n].res = x.res
  <2>1. node' = [node EXCEPT ![n] = [x EXCEPT !.current = Inc(x.current)]]
      BY <1>0 DEF Serve, TypeOK, Inc
  <2> QED
      BY <1>0, <1>3, <2>1 DEF LockNode, TypeOK
<1>5. cl'[c] \in Caller /\ cl'[c].pc = "idle"
  <2>1. 0 \in Ticket
      BY SMT DEF Ticket, Sensible
  <2> QED
      BY <1>0, <2>1 DEF Serve, TypeOK, Idle, Caller, Results
<1>6. TypeOK'
    BY <1>0, <1>1, <1>2, <1>4, <1>5 DEF TypeOK, Serve, Elsewhere
<1>s. /\ \A d \in Clients \ {c} : home[d] = home[c] => cl[d].pc \notin Busy
      /\ form = "lock" => \A a \in Addrs : HeldFor(n, a) <=> HandedOn(n, a) \/ Owes(c, a)
    BY <1>1, Served
<1>7. TicketInv'
  <2>1. Queue(n)' = Queue(n) \ {c} /\ c \in Queue(n) /\ Queue(n) \subseteq Clients
      BY <1>1, <1>2, <1>5 DEF Queue, Elsewhere
  <2>2. \A m \in Nodes \ {n} : Queue(m)' = Queue(m) /\ c \notin Queue(m)
      BY <1>2, SMT DEF Queue, Elsewhere
  <2>3. \A d \in Clients \ {c} : Drawn'[d] = Drawn[d]
      BY <1>2 DEF Drawn, Elsewhere
  <2>4. Ordered(Queue(n) \ {c}, Drawn', x.ticket, Inc(x.current))
    <3>1. Ordered(Queue(n), Drawn, x.ticket, x.current)
        BY <1>0 DEF IInv, TicketInv
    <3>2. \A d \in Queue(n) : Drawn[d] \in Ticket
        BY <2>1 DEF Drawn, IInv, TypeOK, Caller
    <3>3. Drawn[c] = x.current
        BY <1>1 DEF Drawn
    <3> QED
        BY <1>0, <2>1, <2>3, <3>1, <3>2, <3>3, PassOn
  <2>5. ASSUME NEW m \in Nodes
        PROVE  Ordered(Queue(m), Drawn, node[m].ticket, node[m].current)'
    <3>1. CASE m = n
        BY <1>4, <2>1, <2>4, <3>1
    <3>2. CASE m # n
      <4>1. node'[m] = node[m] /\ Ordered(Queue(m), Drawn, node[m].ticket, node[m].current)
          BY <1>2, <3>2 DEF Elsewhere, IInv, TicketInv
      <4>2. \A d \in Queue(m) : Drawn'[d] = Drawn[d]
          BY <2>2, <2>3, <3>2 DEF Queue
      <4> QED
          BY <2>2, <3>2, <4>1, <4>2 DEF Ordered
    <3> QED
        BY <3>1, <3>2
  <2>6. ASSUME NEW d \in Clients, cl'[d].pc \in Busy
        PROVE  cl'[d].ticket = node'[home[d]].current
    <3>1. d # c /\ cl'[d] = cl[d] /\ home[d] # n /\ home[d] \in Nodes
        BY <1>2, <1>5, <1>s, <2>6 DEF Elsewhere, Busy, Nodes
    <3> QED
        BY <1>2, <2>6, <3>1 DEF Elsewhere, IInv, TicketInv
  <2> QED
      BY <2>5, <2>6 DEF TicketInv
<1>8. LockInv'
  <2> SUFFICES ASSUME form = "lock" PROVE LockInv'
      BY <1>1 DEF LockInv
  <2>1. \A m \in Nodes, a \in Addrs : HeldFor(m, a)' <=> HeldFor(m, a)
      BY <1>1 DEF HeldFor
  <2>2. \A a \in Addrs : /\ HandedOn(n, a)' <=> HandedOn(n, a)
                         /\ ~Owes(c, a)' /\ ~Owes(c, a)
      BY <1>1, <1>4, <1>5, SMT DEF HandedOn, Owes
  <2>3. \A a \in Addrs : HeldFor(n, a)' <=> HandedOn(n, a)' \/ Owes(c, a)'
      BY <1>0, <1>s, <2>1, <2>2
  <2> QED
      BY <1>1, <1>2, <1>5, <1>s, <2>1, <2>3, LockFrame
<1>9. TurnInv'
  <2>1. TurnOK(c)' /\ ResultOK(c)'
      BY <1>5 DEF TurnOK, ResultOK, Busy
  <2>2. x.handover => x.ticket # Inc(x.current)
      BY <1>0, <1>1 DEF HandoverOK
  <2> QED
      BY <1>0, <1>1, <1>2, <1>4, <1>5, <1>s, <2>1, <2>2, TurnFrame DEF HandoverOK, IInv, TurnInv
<1> QED
    BY <1>6, <1>7, <1>8, <1>9 DEF IInv

LEMMA DrawStep ==
    ASSUME Sensible, IInv, NEW c \in Clients, NEW a \in targets[c], acquire_local_lock(c, a)
    PROVE  IInv'
<1> DEFINE n == home[c]
           x == node[n]
<1>0. /\ TypeOK /\ n \in Nodes /\ x \in LockNode /\ HandoverOK(n) /\ a \in Addrs
      /\ x.ticket \in Ticket /\ x.current \in Ticket
    BY DEF IInv, TypeOK, Nodes, TurnInv, LockNode, Addrs
<1>1. cl[c].pc = "idle" /\ UNCHANGED <<form, remote>>
    BY DEF acquire_local_lock
<1>2. Elsewhere(c)
    BY DEF acquire_local_lock, Elsewhere, IInv, TypeOK
<1>3. Inc(x.ticket) \in Ticket
    BY <1>0, Distances
<1>4. /\ node'[n] \in LockNode /\ node'[n].ticket = Inc(x.ticket)
      /\ node'[n].current = x.current /\ node'[n].handover = x.handover
      /\ node'[n].unique = x.unique /\ node'[n].res = x.res
  <2>1. node' = [node EXCEPT ![n] = [x EXCEPT !.ticket = Inc(x.ticket)]]
      BY <1>0 DEF acquire_local_lock, TypeOK, Inc
  <2> QED
      BY <1>0, <1>3, <2>1 DEF LockNode, TypeOK
<1>5. /\ cl'[c] \in Caller /\ cl'[c].pc = "queued" /\ cl'[c].addr = a
      /\ cl'[c].ticket = x.ticket
  <2>1. 0 \in Ticket
      BY SMT DEF Ticket, Sensible
  <2>2. cl'[c] = [pc |-> "queued", addr |-> a, ticket |-> x.ticket, handover |-> FALSE,
                  res |-> None, todo |-> <<>>]
      BY <1>0 DEF acquire_local_lock, TypeOK, Idle
  <2> QED
      BY <1>0, <2>1, <2>2, SMT DEF Caller, Results
<1>6. TypeOK'
    BY <1>0, <1>1, <1>2, <1>4, <1>5 DEF TypeOK, acquire_local_lock, Elsewhere
<1>7. TicketInv' /\ Inc(x.ticket) # x.current
  <2>1. /\ Queue(n)' = Queue(n) \union {c} /\ Queue(n) \subseteq Clients \ {c}
      BY <1>1, <1>2, <1>5, SMT DEF Queue, Elsewhere
  <2>2. \A m \in Nodes \ {n} : Queue(m)' = Queue(m) /\ c \notin Queue(m)
      BY <1>2 DEF Queue, Elsewhere
  <2>3. Drawn'[c] = x.ticket /\ \A d \in Clients \ {c} : Drawn'[d] = Drawn[d]
      BY <1>2, <1>5 DEF Drawn, Elsewhere
  <2>4. Ordered(Queue(n) \union {c}, Drawn', Inc(x.ticket), x.current) /\ Inc(x.ticket) # x.current
    <3>1. Ordered(Queue(n), Drawn, x.ticket, x.current)
        BY <1>0 DEF IInv, TicketInv
    <3>2. \A d \in Queue(n) : Drawn[d] \in Ticket /\ Drawn'[d] = Drawn[d]
        BY <2>1, <2>3 DEF Drawn, IInv, TypeOK, Caller
    <3> DEFINE Q == Queue(n)
               m == Drawn
               w == Drawn'
               t == x.ticket
               u == x.current
    <3>3. /\ Ordered(Q, m, t, u) /\ Q \subseteq Clients \ {c} /\ t \in Ticket /\ u \in Ticket
          /\ \A d \in Q : m[d] \in Ticket /\ w[d] = m[d]
          /\ w[c] = t
        BY <1>0, <2>1, <2>3, <3>1, <3>2
    <3> HIDE DEF Q, m, w, t, u
    <3>4. Ordered(Q \union {c}, w, Inc(t), u) /\ Inc(t) # u
        BY <3>3, Draw, SMT
    <3> QED
        BY <3>4 DEF Q, w, t, u
  <2>5. ASSUME NEW m \in Nodes
        PROVE  Ordered(Queue(m), Drawn, node[m].ticket, node[m].current)'
    <3>1. CASE m = n
        BY <1>4, <2>1, <2>4, <3>1
    <3>2. CASE m # n
      <4>1. node'[m] = node[m] /\ Ordered(Queue(m), Drawn, node[m].ticket, node[m].current)
          BY <1>2, <3>2 DEF Elsewhere, IInv, TicketInv
      <4>2. \A d \in Queue(m) : Drawn'[d] = Drawn[d]
          BY <2>2, <2>3, <3>2 DEF Queue
      <4> QED
          BY <2>2, <3>2, <4>1, <4>2 DEF Ordered
    <3> QED
        BY <3>1, <3>2
  <2>6. ASSUME NEW d \in Clients, cl'[d].pc \in Busy
        PROVE  cl'[d].ticket = node'[home[d]].current
    <3>1. d # c /\ cl'[d] = cl[d] /\ home[d] \in Nodes
        BY <1>2, <1>5, <2>6 DEF Elsewhere, Busy, Nodes
    <3>2. node'[home[d]].current = node[home[d]].current
        BY <1>2, <1>4, <3>1 DEF Elsewhere
    <3> QED
        BY <2>6, <3>1, <3>2 DEF IInv, TicketInv
  <2> QED
      BY <2>4, <2>5, <2>6 DEF TicketInv
<1>8. \A m \in Nodes :
        /\ node'[m].handover = node[m].handover
        /\ node'[m].unique = node[m].unique
        /\ node'[m].res = node[m].res
    BY <1>2, <1>4 DEF Elsewhere
<1>9. LockInv'
  <2>1. \A m \in Nodes, e \in Addrs :
          /\ HeldFor(m, e)' <=> HeldFor(m, e)
          /\ HandedOn(m, e)' <=> HandedOn(m, e)
      BY <1>1, <1>8 DEF HeldFor, HandedOn
  <2>2. \A d \in Clients, e \in Addrs : Owes(d, e)' <=> Owes(d, e)
      BY <1>1, <1>2, <1>5, SMT DEF Owes, Elsewhere
  <2>3. \A d \in Clients : cl'[d].pc = "unlock" => cl'[d] = cl[d] /\ home[d] \in Nodes
      BY <1>2, <1>5 DEF Elsewhere, Nodes
  <2>4. \A d \in Clients : cl[d].pc = "unlock" =>
          \A i \in 1 .. Len(cl[d].todo) : cl[d].todo[i] \in Addrs
      BY <1>0, SMT DEF TypeOK, Caller
  <2>5. ASSUME form = "lock", NEW m \in Nodes, NEW e \in Addrs
        PROVE  (HeldFor(m, e) <=> HandedOn(m, e) \/ \E d \in Clients : home[d] = m /\ Owes(d, e))'
    <3>1. HeldFor(m, e) <=> HandedOn(m, e) \/ \E d \in Clients : home[d] = m /\ Owes(d, e)
        BY <2>5 DEF IInv, LockInv
    <3> QED
        BY <2>1, <2>2, <3>1
  <2>6. ASSUME form = "lock", NEW d \in Clients, cl'[d].pc = "unlock"
        PROVE  /\ \A i \in 1 .. Len(cl'[d].todo) : ~HandedOn(home[d], cl[d].todo[i])'
               /\ \A i, j \in 1 .. Len(cl'[d].todo) : cl'[d].todo[i] = cl'[d].todo[j] => i = j
    <3>1. /\ cl'[d] = cl[d] /\ cl[d].pc = "unlock" /\ home[d] \in Nodes
          /\ \A i \in 1 .. Len(cl[d].todo) : cl[d].todo[i] \in Addrs
        BY <2>3, <2>4, <2>6
    <3>2. \A i \in 1 .. Len(cl[d].todo) : ~HandedOn(home[d], cl[d].todo[i])
        BY <2>6, <3>1 DEF IInv, LockInv
    <3>3. \A i \in 1 .. Len(cl'[d].todo) : ~HandedOn(home[d], cl[d].todo[i])'
        BY <1>8, <3>1, <3>2 DEF HandedOn
    <3> QED
        BY <2>6, <3>1, <3>3 DEF IInv, LockInv
  <2> QED
      BY <1>1, <2>5, <2>6 DEF LockInv
<1>10. TurnInv'
  <2>1. ASSUME NEW d \in Clients PROVE TurnOK(d)' /\ ResultOK(d)'
    <3>1. TurnOK(d) /\ ResultOK(d) /\ home[d] \in Nodes
        BY DEF IInv, TurnInv, Nodes
    <3>2. CASE d = c
        BY <1>0, <1>5, <3>2 DEF TurnOK, ResultOK, Busy
    <3>3. CASE d # c
        BY <1>1, <1>2, <1>8, <3>1, <3>3, SMT DEF TurnOK, ResultOK, Elsewhere
    <3> QED
        BY <3>2, <3>3
  <2>2. ASSUME NEW m \in Nodes PROVE HandoverOK(m)'
    <3>1. HandoverOK(m) /\ \A d \in Clients : cl'[d].pc = "unlock" => cl[d].pc = "unlock"
        BY <1>2, <1>5 DEF IInv, TurnInv, Elsewhere
    <3>2. CASE m = n
      <4>1. x.ticket # x.current => Inc(x.ticket) # Inc(x.current)
          BY <1>0, Distances
      <4> QED
          BY <1>1, <1>4, <1>7, <3>1, <3>2, <4>1 DEF HandoverOK
    <3>3. CASE m # n
        BY <1>1, <1>2, <3>1, <3>3 DEF HandoverOK, Elsewhere
    <3> QED
        BY <3>2, <3>3
  <2> QED
      BY <1>1, <2>1, <2>2 DEF IInv, TurnInv
<1> QED
    BY <1>6, <1>7, <1>9, <1>10 DEF IInv

-----------------------------------------------------------------------------
(* The invariant holds throughout                                            *)

LEMMA InitIInv == Sensible /\ Init => IInv
<1> SUFFICES ASSUME Sensible, Init PROVE IInv
    OBVIOUS
<1>1. 0 \in Ticket /\ Diff(0, 0) = 0
    BY SMT DEF Ticket, Diff, Sensible
<1>2. \A c \in Clients : cl[c] = Idle /\ Idle.pc = "idle"
    BY DEF Init, Idle
<1>3. \A n \in Nodes : node[n].handover = FALSE /\ node[n].ticket = 0 /\ node[n].current = 0
    BY DEF Init
<1>4. TypeOK
  <2>1. Idle \in Caller
      BY <1>1, SMT DEF Idle, Caller, Results
  <2>2. [ticket |-> 0, current |-> 0, handover |-> FALSE, unique |-> None,
         handover_cnt |-> 0, res |-> None] \in LockNode
      BY <1>1 DEF LockNode, Results
  <2> QED
      BY <2>1, <2>2 DEF Init, TypeOK
<1>5. TicketInv
  <2>1. \A n \in Nodes : Queue(n) = {}
      BY <1>2 DEF Queue
  <2>2. Cardinality({}) = 0
      BY FS_EmptySet
  <2>3. \A n \in Nodes : Ordered(Queue(n), Drawn, node[n].ticket, node[n].current)
      BY <1>1, <1>3, <2>1, <2>2 DEF Ordered
  <2> QED
      BY <1>2, <2>3 DEF TicketInv, Busy
<1>6. LockInv
  <2>1. \A n \in Nodes, a \in Addrs : ~HeldFor(n, a) /\ ~HandedOn(n, a)
      BY <1>3 DEF HeldFor, HandedOn, Init
  <2>2. \A c \in Clients, a \in Addrs : ~Owes(c, a)
      BY <1>2 DEF Owes
  <2> QED
      BY <1>2, <2>1, <2>2 DEF LockInv
<1>7. TurnInv
    BY <1>2, <1>3 DEF TurnInv, TurnOK, ResultOK, HandoverOK, Busy, Init
<1> QED
    BY <1>4, <1>5, <1>6, <1>7 DEF IInv

LEMMA NextIInv == Sensible /\ IInv /\ [Next]_vars => IInv'
<1> SUFFICES ASSUME Sensible, IInv, [Next]_vars PROVE IInv'
    OBVIOUS
<1>1. ASSUME NEW c \in Clients, Step(c) PROVE IInv'
    BY <1>1, DrawStep, TurnStep, AcquireStep, WriteStep, ReleaseLockStep, UnlockStep,
       ServeStep, ReleaseCasStep DEF Step
<1>2. CASE UNCHANGED vars
  <2> USE <1>2 DEF vars
  <2>1. TypeOK'
      BY DEF IInv, TypeOK
  <2>2. TicketInv'
      BY DEF IInv, TicketInv, Queue, Drawn
  <2>3. LockInv'
      BY SMT DEF IInv, LockInv, HeldFor, HandedOn, Owes
  <2>4. TurnInv'
      BY DEF IInv, TurnInv, TurnOK, ResultOK, HandoverOK
  <2> QED
      BY <2>1, <2>2, <2>3, <2>4 DEF IInv
<1> QED
    BY <1>1, <1>2 DEF Next, Finished

\* Whoever writes a leaf through the handover locks does so alone and under the
\* remote lock its compute node holds, and with cas handover takes over only
\* results of its own key, for any clients, compute nodes, addresses and limit
\* on handovers, if the uint8_t tickets suffice for the clients.
THEOREM WritersHoldTheLock ==
    ASSUME Sensible
    PROVE  Spec => []HandoverKeepsTheLock
<1>1. IInv => HandoverKeepsTheLock
  <2> SUFFICES ASSUME IInv, NEW c \in Clients
               PROVE  /\ form = "lock" /\ cl[c].pc = "write" =>
                           /\ remote[cl[c].addr] # None
                           /\ home[remote[cl[c].addr]] = home[c]
                           /\ \A d \in Clients \ {c} :
                                cl[d].pc = "write" => cl[d].addr # cl[c].addr
                      /\ form = "cas" /\ cl[c].pc = "unlock" =>
                           cl[c].res # None /\ cl[c].res[1] = cl[c].addr
      BY DEF HandoverKeepsTheLock
  <2>1. \A d \in Clients : form = "lock" /\ cl[d].pc = "write" => HeldFor(home[d], cl[d].addr)
    <3>1. \A d \in Clients : cl[d].pc = "write" =>
            cl[d].addr \in Addrs /\ home[d] \in Nodes /\ Owes(d, cl[d].addr)
        BY DEF IInv, TurnInv, TurnOK, Nodes, Owes
    <3> QED
        BY <3>1 DEF IInv, LockInv
  <2>2. ASSUME form = "lock", cl[c].pc = "write", NEW d \in Clients, cl[d].pc = "write",
               cl[d].addr = cl[c].addr
        PROVE  d = c
    <3>1. home[d] = home[c]
        BY <2>1, <2>2 DEF HeldFor
    <3>2. cl[c].ticket = node[home[c]].current
        BY <2>2 DEF IInv, TicketInv, Busy
    <3> QED
        BY <2>2, <3>1, <3>2, Served DEF Busy
  <2>3. form = "cas" /\ cl[c].pc = "unlock" => cl[c].res # None /\ cl[c].res[1] = cl[c].addr
      BY DEF IInv, TurnInv, ResultOK
  <2> QED
      BY <2>1, <2>2, <2>3 DEF HeldFor
<1> QED
    BY <1>1, InitIInv, NextIInv, PTL DEF Spec

\* A remote lock outlives its writer only while a client of the same compute
\* node is in the queue to take it over or to release it.
THEOREM NoLockIsLeftBehind ==
    ASSUME Sensible
    PROVE  Spec => []LocksAreReleased
<1>1. IInv => LocksAreReleased
  <2> SUFFICES ASSUME IInv, NEW a \in Addrs, remote[a] # None
               PROVE  \E c \in Clients : home[c] = home[remote[a]] /\ cl[c].pc # "idle"
      BY DEF LocksAreReleased
  <2> DEFINE n == home[remote[a]]
  <2>1. n \in Nodes /\ HeldFor(n, a) /\ form = "lock"
      BY DEF IInv, TypeOK, TurnInv, HeldFor, Nodes
  <2>2. CASE \E c \in Clients : home[c] = n /\ Owes(c, a)
      BY <2>2 DEF Owes
  <2>3. CASE HandedOn(n, a)
    <3>1. node[n].ticket # node[n].current /\ node[n] \in LockNode
      <4>1. HandoverOK(n) /\ node[n].handover
          BY <2>1, <2>3 DEF HandedOn, IInv, TurnInv
      <4> QED
          BY <2>1, <4>1 DEF HandoverOK, IInv, TypeOK
    <3>2. Diff(node[n].ticket, node[n].current) # 0
      <4>1. node[n].ticket \in Ticket /\ node[n].current \in Ticket
          BY <3>1 DEF LockNode
      <4> QED
          BY <3>1, <4>1, Distances
    <3>4. Cardinality(Queue(n)) # 0
        BY <2>1, <3>2 DEF IInv, TicketInv, Ordered
    <3>3. Queue(n) # {}
        BY <3>4, FS_EmptySet
    <3> QED
        BY <3>3 DEF Queue
  <2> QED
      BY <2>1, <2>2, <2>3 DEF IInv, LockInv
<1> QED
    BY <1>1, InitIInv, NextIInv, PTL DEF Spec
====
