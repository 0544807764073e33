--------------------------- MODULE LocalLockProofs ---------------------------
(***************************************************************************)
(* Proofs about LocalLock, for any clients, keys and workloads: its types  *)
(* and, when there are fewer clients than tickets, that each ticket queue  *)
(* is a lock and that what a loser accepts was done for its own key.       *)
(***************************************************************************)
EXTENDS LocalLock, FiniteSetTheorems, TLAPS

\* Zenon proves the leaves that need no arithmetic; the others cite SMT.
USE Zenon

LEMMA ArithmeticType ==
    /\ \A n \in Ticket : Inc(n) \in Ticket /\ Dec(n) \in Ticket
    /\ \A a, b \in Ticket : Diff(a, b) \in Ticket
BY TicketModAssumption, SMT DEF Ticket, Inc, Dec, Diff

LEMMA TypeInit == Init => TypeOK
<1> SUFFICES ASSUME Init PROVE TypeOK
    OBVIOUS
<1>1. PICK k \in Keys :
        /\ ret_value = <<k, NoClient>>
        /\ wc_buffer = <<k, NoClient>>
        /\ key = [c \in Clients |-> k]
        /\ val = [c \in Clients |-> <<k, NoClient>>]
        /\ winner_key = [q \in Kind |-> k]
    BY DEF Init
<1>2. /\ ret_value \in Value /\ wc_buffer \in Value
      /\ key \in [Clients -> Keys] /\ val \in [Clients -> Value]
      /\ winner_key \in [Kind -> Keys]
    BY <1>1 DEF Value
<1>3. mem \in [Keys -> Value]
    BY DEF Init, Value
<1>4. handover \in [Kind -> BOOLEAN] /\ window_start \in BOOLEAN
    BY DEF Init
<1>5. /\ ticket \in [Kind -> Ticket] /\ current \in [Kind -> Ticket]
      /\ window \in [Kind -> Ticket] /\ my \in [Clients -> Ticket \union {-1}]
      /\ seen \in [Clients -> Ticket] /\ seen_current \in [Clients -> Ticket]
      /\ started \in [Kind -> Nat]
    BY TicketModAssumption, SMT DEF Init, Ticket
<1>6. /\ mutex \in [Kind -> Clients \union {NoClient}]
      /\ unique \in [Kind -> Keys \union {NoKey}]
      /\ pc \in [Clients -> Labels] /\ kind \in [Clients -> Kind]
      /\ acquired \in [Clients -> {"winner", "loser", "direct"}]
      /\ audience \in [Kind -> SUBSET Clients]
      /\ picked \in SUBSET Clients
    BY DEF Init, Labels, Kind
<1> QED
    BY <1>2, <1>3, <1>4, <1>5, <1>6 DEF TypeOK

LEMMA TypeStep == TypeOK /\ [Next]_vars => TypeOK'
<1> SUFFICES ASSUME TypeOK, [Next]_vars PROVE TypeOK'
    OBVIOUS
<1> USE DEF TypeOK, Goto, Other, node, locals, history
<1>1. ASSUME NEW c \in Clients, NEW q \in Kind, NEW k \in Keys, Begin(c, q, k)
      PROVE TypeOK'
  <2>1. <<k, c>> \in Value /\ <<k, NoClient>> \in Value
      BY DEF Value
  <2>2. unique' \in [Kind -> Keys \union {NoKey}]
      BY <1>1, SMT DEF Begin
  <2>3. pc' \in [Clients -> Labels]
    <3>1. \E l \in Labels : pc' = [pc EXCEPT ![c] = l]
        BY <1>1, Zenon DEF Begin, Labels
    <3> QED
        BY <3>1
  <2>4. acquired' \in [Clients -> {"winner", "loser", "direct"}]
      BY <1>1 DEF Begin
  <2>5. val' \in [Clients -> Value]
      BY <1>1, <2>1 DEF Begin
  <2>6. /\ started' \in [Kind -> Nat] /\ kind' \in [Clients -> Kind]
        /\ key' \in [Clients -> Keys] /\ my' \in [Clients -> Ticket \union {-1}]
        /\ picked' \in SUBSET Clients
      BY <1>1, SMT DEF Begin
  <2> QED
      BY <1>1, <2>2, <2>3, <2>4, <2>5, <2>6 DEF Begin
<1>2. ASSUME NEW c \in Clients, Overwrite(c) PROVE TypeOK'
    BY <1>2 DEF Overwrite, Labels
<1>3. ASSUME NEW c \in Clients, TakeTicket(c) PROVE TypeOK'
    BY <1>3, ArithmeticType DEF TakeTicket, Labels
<1>4. ASSUME NEW c \in Clients, Wait(c) PROVE TypeOK'
    BY <1>4 DEF Wait, Labels
<1>5. ASSUME NEW c \in Clients, CheckKey(c) PROVE TypeOK'
    BY <1>5 DEF CheckKey, Labels
<1>6. ASSUME NEW c \in Clients, CheckWindow(c) PROVE TypeOK'
    BY <1>6 DEF CheckWindow, Labels
<1>7. ASSUME NEW c \in Clients, GetCombiningKey(c) PROVE TypeOK'
    BY <1>7 DEF GetCombiningKey, Labels
<1>8. ASSUME NEW c \in Clients, GetCombiningValue(c) PROVE TypeOK'
    BY <1>8 DEF GetCombiningValue, Labels
<1>9. ASSUME NEW c \in Clients, Remote(c) PROVE TypeOK'
  <2>1. pc' \in [Clients -> Labels]
      BY <1>9 DEF Remote, Labels
  <2> QED
      BY <1>9, <2>1 DEF Remote
<1>10. ASSUME NEW c \in Clients, Release(c) PROVE TypeOK'
  <2>1. val' \in [Clients -> Value] /\ ret_value' \in Value
    <3>1. CASE handover[kind[c]]
        BY <1>10, <3>1, SMT DEF Release
    <3>2. CASE ~handover[kind[c]]
        BY <1>10, <3>2, SMT DEF Release
    <3> QED
        BY <3>1, <3>2
  <2>2. audience' \in [Kind -> SUBSET Clients] /\ winner_key' \in [Kind -> Keys]
    <3>1. Queue(kind[c]) \in SUBSET Clients
        BY DEF Queue
    <3>2. CASE handover[kind[c]]
        BY <1>10, <3>2 DEF Release
    <3>3. CASE ~handover[kind[c]]
      <4>1. PICK Q \in SUBSET Clients : Q = Queue(kind[c])
          BY <3>1
      <4>2. /\ audience' = [audience EXCEPT ![kind[c]] = Q]
            /\ winner_key' = [winner_key EXCEPT ![kind[c]] = key[c]]
          BY <1>10, <3>3, <4>1, Zenon DEF Release
      <4> QED
          BY <4>2
    <3> QED
        BY <3>2, <3>3
  <2>3. seen' \in [Clients -> Ticket] /\ pc' \in [Clients -> Labels]
      BY <1>10 DEF Release, Labels
  <2> QED
      BY <1>10, <2>1, <2>2, <2>3 DEF Release
<1>11. ASSUME NEW c \in Clients, StartWindow(c) PROVE TypeOK'
    BY <1>11 DEF StartWindow, Labels
<1>12. ASSUME NEW c \in Clients, SizeOwn(c) PROVE TypeOK'
    BY <1>12, ArithmeticType DEF SizeOwn, Labels
<1>13. ASSUME NEW c \in Clients, SizeOther(c) PROVE TypeOK'
    BY <1>13 DEF SizeOther, Labels, Kind
<1>14. ASSUME NEW c \in Clients, SizeOther2(c) PROVE TypeOK'
    BY <1>14, ArithmeticType DEF SizeOther2, Labels, Kind
<1>15. ASSUME NEW c \in Clients, SetHandover(c) PROVE TypeOK'
    BY <1>15 DEF SetHandover, Labels
<1>16. ASSUME NEW c \in Clients, LockQueue(c) PROVE TypeOK'
    BY <1>16 DEF LockQueue, Labels
<1>17. ASSUME NEW c \in Clients, LeaveWindow(c) PROVE TypeOK'
  <2>1. CASE pc[c] = "shrink"
    <3>1. PICK n \in Ticket : window' = [window EXCEPT ![kind[c]] = n]
        BY <1>17, <2>1, ArithmeticType DEF LeaveWindow
    <3>2. pc' \in [Clients -> Labels]
      <4>1. pc' = [pc EXCEPT ![c] = "empty"]
          BY <1>17, <2>1 DEF LeaveWindow
      <4> QED
          BY <4>1 DEF Labels
    <3> QED
        BY <1>17, <2>1, <3>1, <3>2 DEF LeaveWindow
  <2>2. CASE pc[c] # "shrink"
    <3>1. window' = window
        BY <1>17, <2>2 DEF LeaveWindow
    <3>2. window_start' = window_start \/ window_start' = FALSE
        BY <1>17 DEF LeaveWindow
    <3>3. pc' \in [Clients -> Labels]
      <4>1. PICK l : pc' = [pc EXCEPT ![c] = l]
                     /\ l \in {"shrink", "empty_other", "close", "pass"}
          BY <1>17, <2>2 DEF LeaveWindow
      <4> QED
          BY <4>1 DEF Labels
    <3> QED
        BY <1>17, <3>1, <3>2, <3>3 DEF LeaveWindow
  <2> QED
      BY <2>1, <2>2
<1>18. ASSUME NEW c \in Clients, Pass(c) PROVE TypeOK'
    BY <1>18, ArithmeticType, TicketModAssumption, SMT DEF Pass, Labels, Ticket
<1>19. CASE UNCHANGED vars
    BY <1>19 DEF vars
<1> QED
    BY <1>1, <1>2, <1>3, <1>4, <1>5, <1>6, <1>7, <1>8, <1>9, <1>10, <1>11,
       <1>12, <1>13, <1>14, <1>15, <1>16, <1>17, <1>18, <1>19
       DEF Next, Step, Finished

\* Every field keeps its type, whatever the clients, the keys and the width
\* of the tickets: no index or counter of LocalLockNode leaves uint8_t.
THEOREM TypeCorrect == Spec => []TypeOK
BY TypeInit, TypeStep, PTL DEF Spec

-----------------------------------------------------------------------------
(* The tickets                                                              *)

Outside == {"idle", "done", "buffer", "ticket"}
AtTree == {"combine", "fetch", "remote"}

\* Where a client holds a ticket, and that the ticket of a client past its
\* wait is the one being served.
PhaseInv ==
    \A c \in Clients :
        /\ pc[c] \in Outside => my[c] = -1
        /\ pc[c] \in AtTree => (my[c] = -1 <=> acquired[c] = "direct")
        /\ pc[c] \notin Outside \union AtTree => my[c] # -1
        /\ my[c] # -1 /\ pc[c] # "wait" => my[c] = current[kind[c]]

\* The tickets of a queue are distinct, lie between current and ticket, and
\* there are as many of them as the two counters are apart.
OrderInv ==
    \A q \in Kind :
        /\ \A c \in Queue(q) : Diff(my[c], current[q]) < Diff(ticket[q], current[q])
        /\ \A c, d \in Queue(q) : my[c] = my[d] => c = d
        /\ Diff(ticket[q], current[q]) = Cardinality(Queue(q))

TicketInv == PhaseInv /\ OrderInv

\* Distances between counters when a ticket is taken or passed on.
LEMMA Distances ==
    ASSUME NEW t \in Ticket, NEW u \in Ticket, NEW x \in Ticket
    PROVE  /\ Diff(t, u) = 0 <=> t = u
           /\ Diff(t, u) = Diff(x, u) => t = x
           /\ Diff(t, u) < TicketMod - 1 => Diff(Inc(t), u) = Diff(t, u) + 1
           /\ Diff(t, u) # 0 => Diff(t, Inc(u)) = Diff(t, u) - 1
BY TicketModAssumption, SMT DEF Ticket, Diff, Inc

\* A step that leaves the tickets alone leaves the queues as they are.
LEMMA OrderFrame ==
    ASSUME OrderInv, UNCHANGED <<kind, my, ticket, current>>
    PROVE  OrderInv'
BY DEF OrderInv, Queue

LEMMA HeadIsServed ==
    ASSUME TypeOK, TicketInv, NEW c \in Clients, NEW d \in Clients,
           my[c] # -1, pc[c] # "wait", my[d] # -1, pc[d] # "wait", kind[c] = kind[d]
    PROVE  c = d
<1>1. c \in Queue(kind[c]) /\ d \in Queue(kind[c]) /\ kind[c] \in Kind
    BY DEF Queue, TypeOK
<1>2. my[c] = my[d]
    BY DEF TicketInv, PhaseInv
<1> QED
    BY <1>1, <1>2 DEF TicketInv, OrderInv

LEMMA OrderTake ==
    ASSUME IsFiniteSet(Clients), Cardinality(Clients) < TicketMod,
           TypeOK, TicketInv, NEW c \in Clients, TakeTicket(c)
    PROVE  OrderInv'
<1>q. PICK q \in Kind : q = kind[c]
    BY DEF TypeOK
<1>0. q \in Kind /\ my[c] = -1 /\ ticket[q] \in Ticket /\ current[q] \in Ticket
    BY DEF TakeTicket, TicketInv, PhaseInv, Outside, TypeOK
<1>1. /\ kind' = kind /\ current' = current
      /\ my' = [my EXCEPT ![c] = ticket[q]]
      /\ ticket' = [ticket EXCEPT ![q] = Inc(ticket[q])]
    BY <1>q DEF TakeTicket
<1>2. ticket[q] # -1
    BY <1>0, TicketModAssumption, SMT DEF Ticket
<1>3. Queue(q)' = Queue(q) \union {c} /\ c \notin Queue(q)
    BY <1>q, <1>0, <1>1, <1>2, SMT DEF Queue, TypeOK
<1>4. \A p \in Kind \ {q} : Queue(p)' = Queue(p)
    BY <1>q, <1>0, <1>1 DEF Queue, TypeOK
<1>5. IsFiniteSet(Queue(q)) /\ IsFiniteSet(Queue(q)')
      /\ Cardinality(Queue(q)') <= Cardinality(Clients)
    <2>1. Queue(q) \subseteq Clients /\ Queue(q)' \subseteq Clients
        BY <1>3 DEF Queue
    <2> QED
        BY <2>1, FS_Subset
<1>6. Cardinality(Queue(q)') = Cardinality(Queue(q)) + 1
    BY <1>3, <1>5, FS_AddElement
<1>7. /\ Cardinality(Queue(q)) \in Nat /\ Cardinality(Clients) \in Nat
      /\ Diff(ticket[q], current[q]) = Cardinality(Queue(q))
    BY <1>0, <1>5, FS_CardinalityType DEF TicketInv, OrderInv
<1>8. Diff(ticket[q], current[q]) < TicketMod - 1
    BY <1>5, <1>6, <1>7, TicketModAssumption, SMT
<1>9. Diff(Inc(ticket[q]), current[q]) = Diff(ticket[q], current[q]) + 1
    BY <1>0, <1>8, Distances
<1>10. \A d \in Queue(q) : my[d] \in Ticket /\ Diff(my[d], current[q]) < Diff(ticket[q], current[q])
  <2>1. \A d \in Queue(q) : my[d] \in Ticket
      BY DEF Queue, TypeOK
  <2> QED
      BY <2>1 DEF TicketInv, OrderInv
<1>11. \A d \in Queue(q) : my[d] # ticket[q]
    BY <1>0, <1>10, <1>7, SMT
<1>12. ASSUME NEW p \in Kind \ {q}
       PROVE  /\ \A d \in Queue(p)' : Diff(my'[d], current'[p]) < Diff(ticket'[p], current'[p])
              /\ \A d, e \in Queue(p)' : my'[d] = my'[e] => d = e
              /\ Diff(ticket'[p], current'[p]) = Cardinality(Queue(p)')
    <2>1. ticket'[p] = ticket[p] /\ c \notin Queue(p)
        BY <1>q, <1>0, <1>1 DEF TypeOK, Queue
    <2>2. \A d \in Queue(p) : my'[d] = my[d]
        BY <1>1, <2>1 DEF TypeOK, Queue
    <2> QED
        BY <1>1, <1>4, <2>1, <2>2, SMT DEF TicketInv, OrderInv
<1>13. /\ \A d \in Queue(q)' : Diff(my'[d], current'[q]) < Diff(ticket'[q], current'[q])
       /\ \A d, e \in Queue(q)' : my'[d] = my'[e] => d = e
       /\ Diff(ticket'[q], current'[q]) = Cardinality(Queue(q)')
    <2>1. my'[c] = ticket[q] /\ ticket'[q] = Inc(ticket[q])
        BY <1>0, <1>1 DEF TypeOK
    <2>2. \A d \in Queue(q) : my'[d] = my[d]
        BY <1>1, <1>3 DEF TypeOK, Queue
    <2>3. \A d \in Queue(q)' : Diff(my'[d], current'[q]) < Diff(ticket'[q], current'[q])
      <3>1. \A d \in Queue(q) : Diff(my[d], current[q]) \in Ticket
          BY <1>0, <1>10, ArithmeticType
      <3>2. \A d \in Queue(q) : Diff(my'[d], current'[q]) < Diff(ticket'[q], current'[q])
          BY <1>1, <1>7, <1>9, <1>10, <2>1, <2>2, <3>1, SMT DEF Ticket
      <3>3. Diff(my'[c], current'[q]) < Diff(ticket'[q], current'[q])
          BY <1>1, <1>7, <1>9, <2>1, SMT
      <3> QED
          BY <1>3, <3>2, <3>3
    <2>4. \A d, e \in Queue(q)' : my'[d] = my'[e] => d = e
        BY <1>0, <1>3, <1>11, <2>1, <2>2 DEF TicketInv, OrderInv
    <2>5. Diff(ticket'[q], current'[q]) = Cardinality(Queue(q)')
        BY <1>1, <1>6, <1>7, <1>9, <2>1
    <2> QED
        BY <2>3, <2>4, <2>5
<1> QED
    BY <1>12, <1>13 DEF OrderInv

LEMMA OrderPass ==
    ASSUME IsFiniteSet(Clients), TypeOK, TicketInv, NEW c \in Clients, Pass(c)
    PROVE  OrderInv'
<1>q. PICK q \in Kind : q = kind[c]
    BY DEF TypeOK
<1>0. /\ my[c] # -1 /\ my[c] = current[q]
      /\ ticket[q] \in Ticket /\ current[q] \in Ticket
    BY <1>q DEF Pass, TicketInv, PhaseInv, Outside, AtTree, TypeOK
<1>1. /\ kind' = kind /\ ticket' = ticket
      /\ my' = [my EXCEPT ![c] = -1]
      /\ current' = [current EXCEPT ![q] = Inc(current[q])]
    BY <1>q DEF Pass
<1>2. Queue(q)' = Queue(q) \ {c} /\ c \in Queue(q)
    BY <1>q, <1>0, <1>1 DEF Queue, TypeOK
<1>3. \A p \in Kind \ {q} : Queue(p)' = Queue(p) /\ c \notin Queue(p)
    BY <1>q, <1>0, <1>1 DEF Queue, TypeOK
<1>4. IsFiniteSet(Queue(q))
    <2>1. Queue(q) \subseteq Clients
        BY DEF Queue
    <2> QED
        BY <2>1, FS_Subset
<1>5. /\ Cardinality(Queue(q)') = Cardinality(Queue(q)) - 1
      /\ Cardinality(Queue(q)) \in Nat
      /\ Cardinality(Queue(q)) # 0
  <2>1. Cardinality(Queue(q)) \in Nat /\ Queue(q) # {}
      BY <1>2, <1>4, FS_CardinalityType
  <2>2. Cardinality(Queue(q)) # 0
      BY <1>4, <2>1, FS_EmptySet
  <2>3. Cardinality(Queue(q)') = Cardinality(Queue(q)) - 1
      BY <1>2, <1>4, FS_RemoveElement
  <2> QED
      BY <2>1, <2>2, <2>3
<1>6. Diff(ticket[q], current[q]) = Cardinality(Queue(q))
    BY DEF TicketInv, OrderInv
<1>7. Diff(ticket[q], Inc(current[q])) = Diff(ticket[q], current[q]) - 1
    BY <1>0, <1>5, <1>6, Distances, SMT
<1>8. ASSUME NEW p \in Kind \ {q}
      PROVE  /\ \A d \in Queue(p)' : Diff(my'[d], current'[p]) < Diff(ticket'[p], current'[p])
             /\ \A d, e \in Queue(p)' : my'[d] = my'[e] => d = e
             /\ Diff(ticket'[p], current'[p]) = Cardinality(Queue(p)')
    <2>1. current'[p] = current[p]
        BY <1>1 DEF TypeOK
    <2>2. \A d \in Queue(p) : my'[d] = my[d]
        BY <1>1, <1>3 DEF TypeOK, Queue
    <2> QED
        BY <1>1, <1>3, <2>1, <2>2, SMT DEF TicketInv, OrderInv
<1>9. /\ \A d \in Queue(q)' : Diff(my'[d], current'[q]) < Diff(ticket'[q], current'[q])
      /\ \A d, e \in Queue(q)' : my'[d] = my'[e] => d = e
      /\ Diff(ticket'[q], current'[q]) = Cardinality(Queue(q)')
    <2>1. current'[q] = Inc(current[q])
        BY <1>1 DEF TypeOK
    <2>2. \A d \in Queue(q)' : my'[d] = my[d] /\ my[d] \in Ticket /\ d \in Queue(q)
        BY <1>1, <1>2 DEF TypeOK, Queue
    <2>3. \A d \in Queue(q)' : my[d] # current[q]
        BY <1>0, <1>2, <2>2 DEF TicketInv, OrderInv
    <2>4. ASSUME NEW d \in Queue(q)'
          PROVE  Diff(my'[d], current'[q]) < Diff(ticket'[q], current'[q])
      <3>1. Diff(my[d], current[q]) # 0
          BY <1>0, <2>2, <2>3, Distances, SMT
      <3>2. Diff(my[d], Inc(current[q])) = Diff(my[d], current[q]) - 1
          BY <1>0, <2>2, <3>1, Distances, SMT
      <3>3. Diff(my[d], current[q]) < Diff(ticket[q], current[q])
          BY <2>2, Zenon DEF TicketInv, OrderInv
      <3>4. Diff(my[d], current[q]) \in Int /\ Diff(ticket[q], current[q]) \in Int
        <4>1. my[d] \in Ticket
            BY <2>2
        <4>2. Diff(my[d], current[q]) \in Ticket /\ Diff(ticket[q], current[q]) \in Ticket
            BY <1>0, <4>1, ArithmeticType
        <4> QED
            BY <4>2, TicketModAssumption, SMT DEF Ticket
      <3> QED
          BY <1>1, <1>7, <2>1, <2>2, <3>2, <3>3, <3>4, SMT
    <2>5. \A d, e \in Queue(q)' : my'[d] = my'[e] => d = e
        BY <2>2 DEF TicketInv, OrderInv
    <2>6. Diff(ticket'[q], current'[q]) = Cardinality(Queue(q)')
        BY <1>1, <1>5, <1>6, <1>7, <2>1
    <2> QED
        BY <2>4, <2>5, <2>6
<1> QED
    BY <1>8, <1>9 DEF OrderInv

LEMMA TicketInit == Init => TicketInv
<1> SUFFICES ASSUME Init PROVE TicketInv
    OBVIOUS
<1>1. PhaseInv
    BY DEF Init, PhaseInv, Outside, AtTree
<1>2. \A q \in Kind : Queue(q) = {}
    BY DEF Init, Queue
<1>3. \A q \in Kind : Diff(ticket[q], current[q]) = 0 /\ Cardinality(Queue(q)) = 0
  <2>1. \A q \in Kind : Diff(ticket[q], current[q]) = 0
      BY TicketModAssumption, SMT DEF Init, Diff
  <2>2. Cardinality({}) = 0
      BY FS_EmptySet
  <2> QED
      BY <1>2, <2>1, <2>2
<1>4. OrderInv
    BY <1>2, <1>3, Zenon DEF OrderInv
<1> QED
    BY <1>1, <1>4 DEF TicketInv

LEMMA TicketStep ==
    ASSUME IsFiniteSet(Clients), Cardinality(Clients) < TicketMod,
           TypeOK, TicketInv, [Next]_vars
    PROVE  TicketInv'
<1> USE DEF TypeOK, Goto, PhaseInv, Outside, AtTree, node, locals, history
<1>0. PhaseInv /\ OrderInv
    BY DEF TicketInv
<1>1. ASSUME NEW c \in Clients, NEW q \in Kind, NEW k \in Keys, Begin(c, q, k)
      PROVE TicketInv'
  <2>1. my[c] = -1 /\ my' = my
      BY <1>1, <1>0, SMT DEF Begin
  <2>2. /\ UNCHANGED <<ticket, current>>
        /\ \A d \in Clients \ {c} : kind'[d] = kind[d]
      BY <1>1 DEF Begin
  <2>3. \A p \in Kind : Queue(p)' = Queue(p)
      BY <2>1, <2>2 DEF Queue
  <2>4. OrderInv'
      BY <1>0, <2>1, <2>2, <2>3, SMT DEF OrderInv
  <2>5. \A d \in Clients \ {c} : pc'[d] = pc[d] /\ acquired'[d] = acquired[d]
      BY <1>1, SMT DEF Begin
  <2>6. /\ pc'[c] \in {"buffer", "ticket", "combine", "remote"}
        /\ pc'[c] \in {"combine", "remote"} => acquired'[c] = "direct"
      BY <1>1, SMT DEF Begin
  <2>7. PhaseInv'
      BY <1>0, <2>1, <2>2, <2>5, <2>6, SMT
  <2> QED
      BY <2>4, <2>7 DEF TicketInv
<1>2. ASSUME NEW c \in Clients, TakeTicket(c) PROVE TicketInv'
  <2>1. OrderInv'
      BY <1>2, OrderTake
  <2>2. ticket[kind[c]] # -1
      BY TicketModAssumption, SMT DEF Ticket
  <2>3. PhaseInv'
      BY <1>0, <1>2, <2>2 DEF TakeTicket
  <2> QED
      BY <2>1, <2>3 DEF TicketInv
<1>3. ASSUME NEW c \in Clients, Pass(c) PROVE TicketInv'
  <2>1. OrderInv'
      BY <1>3, OrderPass
  <2>2. /\ my' = [my EXCEPT ![c] = -1]
        /\ UNCHANGED <<kind, acquired>>
        /\ current' = [current EXCEPT ![kind[c]] = Inc(current[kind[c]])]
        /\ my[c] # -1 /\ pc[c] # "wait"
      BY <1>0, <1>3 DEF Pass
  <2>3. /\ pc'[c] \in {"done", "combine", "remote"}
        /\ pc'[c] \in {"combine", "remote"} => acquired[c] = "direct"
        /\ \A d \in Clients \ {c} : pc'[d] = pc[d]
      BY <1>3 DEF Pass
  <2>4. \A d \in Clients \ {c} :
          my[d] # -1 /\ pc[d] # "wait" => kind[d] # kind[c]
      BY <2>2, HeadIsServed
  <2>5. \A d \in Clients \ {c} : my'[d] = my[d]
      BY <2>2
  <2>6. \A d \in Clients \ {c} :
          my'[d] # -1 /\ pc'[d] # "wait" => my'[d] = current'[kind'[d]]
      BY <1>0, <2>2, <2>3, <2>4, <2>5, SMT
  <2>7. my'[c] = -1
      BY <2>2
  <2>8. PhaseInv'
      BY <1>0, <2>2, <2>3, <2>5, <2>6, <2>7, SMT
  <2> QED
      BY <2>1, <2>8 DEF TicketInv
<1>4. ASSUME NEW c \in Clients, Wait(c) PROVE TicketInv'
  <2>1. OrderInv'
      BY <1>0, <1>4, OrderFrame DEF Wait
  <2>2. PhaseInv'
      BY <1>0, <1>4 DEF Wait
  <2> QED
      BY <2>1, <2>2 DEF TicketInv
<1>5. ASSUME NEW c \in Clients,
             \/ Overwrite(c) \/ CheckKey(c) \/ CheckWindow(c)
             \/ GetCombiningKey(c) \/ GetCombiningValue(c) \/ Remote(c)
             \/ Release(c) \/ StartWindow(c) \/ SizeOwn(c) \/ SizeOther(c)
             \/ SizeOther2(c) \/ SetHandover(c) \/ LockQueue(c) \/ LeaveWindow(c)
      PROVE  TicketInv'
  <2>1. UNCHANGED <<kind, my, ticket, current>>
      BY <1>5 DEF Overwrite, CheckKey, CheckWindow, GetCombiningKey,
         GetCombiningValue, Remote, Release, StartWindow, SizeOwn, SizeOther,
         SizeOther2, SetHandover, LockQueue, LeaveWindow
  <2>2. OrderInv'
      BY <1>0, <2>1, OrderFrame
  <2>3. CASE Overwrite(c)
      BY <1>0, <2>1, <2>2, <2>3 DEF Overwrite, TicketInv
  <2>4. CASE CheckKey(c)
      BY <1>0, <2>1, <2>2, <2>4, SMT DEF CheckKey, TicketInv
  <2>5. CASE CheckWindow(c)
      BY <1>0, <2>1, <2>2, <2>5, SMT DEF CheckWindow, TicketInv
  <2>6. CASE GetCombiningKey(c)
      BY <1>0, <2>1, <2>2, <2>6 DEF GetCombiningKey, TicketInv
  <2>7. CASE GetCombiningValue(c)
      BY <1>0, <2>1, <2>2, <2>7, SMT DEF GetCombiningValue, TicketInv
  <2>8. CASE Remote(c)
      BY <1>0, <2>1, <2>2, <2>8, SMT DEF Remote, TicketInv
  <2>9. CASE Release(c)
      BY <1>0, <2>1, <2>2, <2>9, SMT DEF Release, TicketInv
  <2>10. CASE StartWindow(c)
      BY <1>0, <2>1, <2>2, <2>10, SMT DEF StartWindow, TicketInv
  <2>11. CASE SizeOwn(c)
      BY <1>0, <2>1, <2>2, <2>11 DEF SizeOwn, TicketInv
  <2>12. CASE SizeOther(c)
      BY <1>0, <2>1, <2>2, <2>12 DEF SizeOther, TicketInv
  <2>13. CASE SizeOther2(c)
      BY <1>0, <2>1, <2>2, <2>13, SMT DEF SizeOther2, TicketInv
  <2>14. CASE SetHandover(c)
      BY <1>0, <2>1, <2>2, <2>14 DEF SetHandover, TicketInv
  <2>15. CASE LockQueue(c)
      BY <1>0, <2>1, <2>2, <2>15 DEF LockQueue, TicketInv
  <2>16. CASE LeaveWindow(c)
      BY <1>0, <2>1, <2>2, <2>16, SMT DEF LeaveWindow, TicketInv
  <2> QED
      BY SMTT(30), <1>5, <2>3, <2>4, <2>5, <2>6, <2>7, <2>8, <2>9, <2>10, <2>11, <2>12,
         <2>13, <2>14, <2>15, <2>16
<1>6. CASE UNCHANGED vars
  <2>1. OrderInv'
      BY <1>0, <1>6, OrderFrame DEF vars
  <2> QED
      BY <1>0, <1>6, <2>1 DEF vars, TicketInv
<1> QED
    BY <1>1, <1>2, <1>3, <1>4, <1>5, <1>6 DEF Next, Step, Finished

LEMMA TicketImpliesMutex == TypeOK /\ TicketInv => MutualExclusion
BY HeadIsServed DEF MutualExclusion, Heads, Queue

\* With fewer clients than tickets (255 for the uint8_t of the code) each
\* ticket queue of a LocalLockNode is a lock, for any number of keys and any
\* interleaving of searches and inserts.
THEOREM TicketLockIsExclusive ==
    ASSUME IsFiniteSet(Clients), Cardinality(Clients) < TicketMod
    PROVE  Spec => []MutualExclusion
<1>1. Init => TypeOK /\ TicketInv
    BY TypeInit, TicketInit
<1>2. TypeOK /\ TicketInv /\ [Next]_vars => (TypeOK /\ TicketInv)'
    BY TypeStep, TicketStep
<1> QED
    BY <1>1, <1>2, TicketImpliesMutex, PTL DEF Spec

-----------------------------------------------------------------------------
(* The handover                                                             *)

Releasing == {"start", "size_own", "size_other", "size_other2", "handover"}
Holding == {"own", "combine", "fetch", "remote", "release"} \union Releasing

\* While handover is set the queue belongs to the key of its last winner, and
\* from CheckKey to SetHandover it belongs to the key of its head.
KeyInv ==
    /\ \A q \in Kind : handover[q] => unique[q] = winner_key[q]
    /\ \A c \in Clients : pc[c] \in Holding /\ my[c] # -1 => unique[kind[c]] = key[c]
    /\ \A c \in Clients : pc[c] \in Releasing => winner_key[kind[c]] = key[c]
    /\ \A c \in Clients :
         pc[c] = "release" /\ acquired[c] = "loser" => handover[kind[c]]
    /\ \A c \in Clients : pc[c] \in AtTree => acquired[c] # "loser"

\* A client at the head keeps every other client of its queue out of the
\* section KeyInv speaks of.
LEMMA Alone ==
    ASSUME TypeOK, TicketInv, NEW c \in Clients, NEW d \in Clients \ {c},
           my[c] # -1, pc[c] # "wait", kind[d] = kind[c]
    PROVE  /\ ~(pc[d] \in Holding /\ my[d] # -1)
           /\ pc[d] \notin Releasing
           /\ pc[d] # "release"
<1>1. pc[d] \in Holding /\ my[d] # -1 => c = d
    BY HeadIsServed DEF Holding, Releasing
<1>2. pc[d] \in Releasing \union {"release"} => my[d] # -1
    BY DEF TicketInv, PhaseInv, Outside, AtTree, Releasing
<1> QED
    BY <1>1, <1>2 DEF Holding

LEMMA KeyStep ==
    ASSUME TypeOK, TicketInv, KeyInv, [Next]_vars
    PROVE  KeyInv'
<1> USE DEF Goto, node, locals, history
<1>t. /\ handover \in [Kind -> BOOLEAN] /\ unique \in [Kind -> Keys \union {NoKey}]
      /\ winner_key \in [Kind -> Keys]
      /\ pc \in [Clients -> Labels] /\ kind \in [Clients -> Kind]
      /\ key \in [Clients -> Keys] /\ my \in [Clients -> Ticket \union {-1}]
      /\ acquired \in [Clients -> {"winner", "loser", "direct"}]
    BY DEF TypeOK
<1>0. PhaseInv
    BY DEF TicketInv
<1>1. ASSUME NEW c \in Clients, NEW q \in Kind, NEW k \in Keys, Begin(c, q, k)
      PROVE KeyInv'
  <2>1. /\ UNCHANGED <<handover, winner_key>>
        /\ \A p \in Kind : unique[p] # NoKey => unique'[p] = unique[p]
        /\ \A d \in Clients \ {c} : /\ pc'[d] = pc[d] /\ kind'[d] = kind[d]
                                    /\ key'[d] = key[d] /\ my'[d] = my[d]
                                    /\ acquired'[d] = acquired[d]
        /\ pc'[c] \in {"buffer", "ticket", "combine", "remote"}
        /\ my'[c] = -1
        /\ acquired'[c] # "loser"
      BY <1>t, <1>1, SMT DEF Begin
  <2>2. \A p \in Kind : handover[p] => unique[p] # NoKey
      BY <1>t, NoKeyAssumption, SMT DEF KeyInv
  <2>3. \A d \in Clients : pc[d] \in Holding /\ my[d] # -1 => unique[kind[d]] # NoKey
      BY <1>t, NoKeyAssumption, SMT DEF KeyInv
  <2> QED
      BY <1>t, <2>1, <2>2, <2>3, SMT DEF KeyInv, Holding, Releasing, AtTree
<1>2. ASSUME NEW c \in Clients, Pass(c) PROVE KeyInv'
  <2>1. /\ UNCHANGED <<handover, winner_key, unique, kind, key, acquired>>
        /\ \A d \in Clients \ {c} : pc'[d] = pc[d] /\ my'[d] = my[d]
        /\ pc'[c] \in {"done", "combine", "remote"}
        /\ pc'[c] # "done" => acquired[c] = "direct"
        /\ my'[c] = -1
      BY <1>t, <1>2 DEF Pass
  <2> QED
      BY <1>t, <2>1, SMT DEF KeyInv, Holding, Releasing, AtTree
<1>3. ASSUME NEW c \in Clients, CheckWindow(c) PROVE KeyInv'
  <2>1. my[c] # -1 /\ pc[c] # "wait"
      BY <1>t, <1>0, <1>3 DEF CheckWindow, PhaseInv, Outside, AtTree
  <2>2. /\ UNCHANGED <<winner_key, unique, kind, key, my>>
        /\ \A d \in Clients \ {c} : pc'[d] = pc[d] /\ acquired'[d] = acquired[d]
        /\ pc[c] = "own"
        /\ pc'[c] \in {"release", "combine", "remote"}
        /\ \A p \in Kind \ {kind[c]} : handover'[p] = handover[p]
        /\ handover'[kind[c]] => handover[kind[c]]
        /\ acquired'[c] = "loser" => handover'[kind[c]] /\ pc'[c] = "release"
      BY <1>t, <1>3 DEF CheckWindow
  <2>3. \A d \in Clients \ {c} : kind[d] = kind[c] => pc[d] # "release"
      BY <1>t, <2>1, Alone
  <2>4. unique[kind[c]] = key[c]
      BY <1>t, <2>1, <2>2 DEF KeyInv, Holding
  <2> QED
      BY <1>t, <2>2, <2>3, <2>4, SMT DEF KeyInv, Holding, Releasing, AtTree
<1>4. ASSUME NEW c \in Clients, Release(c) PROVE KeyInv'
  <2>1. my[c] # -1 /\ pc[c] # "wait" /\ pc[c] = "release"
      BY <1>t, <1>0, <1>4 DEF Release, PhaseInv, Outside, AtTree
  <2>2. unique[kind[c]] = key[c]
      BY <1>t, <2>1 DEF KeyInv, Holding
  <2>3. /\ UNCHANGED <<handover, unique, kind, key, my, acquired>>
        /\ \A d \in Clients \ {c} : pc'[d] = pc[d]
        /\ pc'[c] = "start"
        /\ \A p \in Kind \ {kind[c]} : winner_key'[p] = winner_key[p]
      BY <1>t, <1>4 DEF Release
  <2>4. winner_key'[kind[c]] = key[c]
    <3>1. CASE handover[kind[c]]
        BY <1>t, <1>4, <2>2, <3>1, SMT DEF Release, KeyInv
    <3>2. CASE ~handover[kind[c]]
        BY <1>t, <1>4, <3>2 DEF Release
    <3> QED
        BY <1>t, <3>1, <3>2
  <2>5. \A d \in Clients \ {c} : kind[d] = kind[c] => pc[d] \notin Releasing
      BY <1>t, <2>1, Alone
  <2> QED
      BY <1>t, <2>1, <2>2, <2>3, <2>4, <2>5, SMT DEF KeyInv, Holding, Releasing, AtTree
<1>5. ASSUME NEW c \in Clients, SetHandover(c) PROVE KeyInv'
  <2>1. my[c] # -1 /\ pc[c] # "wait" /\ pc[c] = "handover"
      BY <1>t, <1>0, <1>5 DEF SetHandover, PhaseInv, Outside, AtTree
  <2>2. unique[kind[c]] = key[c] /\ winner_key[kind[c]] = key[c]
      BY <1>t, <2>1 DEF KeyInv, Holding, Releasing, AtTree
  <2>3. /\ UNCHANGED <<winner_key, kind, key, my, acquired>>
        /\ \A d \in Clients \ {c} : pc'[d] = pc[d]
        /\ pc'[c] = "lock"
        /\ \A p \in Kind \ {kind[c]} : handover'[p] = handover[p] /\ unique'[p] = unique[p]
        /\ handover'[kind[c]] => unique'[kind[c]] = unique[kind[c]]
      BY <1>t, <1>5 DEF SetHandover
  <2>4. \A d \in Clients \ {c} : kind[d] = kind[c] =>
          /\ ~(pc[d] \in Holding /\ my[d] # -1)
          /\ pc[d] # "release"
      BY <1>t, <2>1, Alone
  <2>5. \A p \in Kind : handover'[p] => unique'[p] = winner_key'[p]
      BY <1>t, <2>2, <2>3 DEF KeyInv
  <2>6. \A d \in Clients \ {c} : kind[d] # kind[c] =>
          handover'[kind[d]] = handover[kind[d]] /\ unique'[kind[d]] = unique[kind[d]]
      BY <1>t, <2>3
  <2>7. \A d \in Clients :
          pc'[d] \in Holding /\ my'[d] # -1 => unique'[kind'[d]] = key'[d]
      BY <1>t, <2>3, <2>4, <2>6, SMT DEF KeyInv, Holding, Releasing
  <2>8. \A d \in Clients :
          pc'[d] = "release" /\ acquired'[d] = "loser" => handover'[kind'[d]]
      BY <1>t, <2>3, <2>4, <2>6, SMT DEF KeyInv
  <2>9. /\ \A d \in Clients : pc'[d] \in Releasing => winner_key'[kind'[d]] = key'[d]
        /\ \A d \in Clients : pc'[d] \in AtTree => acquired'[d] # "loser"
      BY <1>t, <2>3 DEF KeyInv, Releasing, AtTree
  <2> QED
      BY <1>t, <2>5, <2>7, <2>8, <2>9 DEF KeyInv
<1>6. ASSUME NEW c \in Clients, CheckKey(c) PROVE KeyInv'
  <2>1. /\ UNCHANGED <<handover, unique, winner_key, kind, key, my>>
        /\ \A d \in Clients \ {c} : pc'[d] = pc[d] /\ acquired'[d] = acquired[d]
        /\ \/ pc'[c] = "window"
           \/ pc'[c] = "own" /\ unique[kind[c]] = key[c]
      BY <1>t, <1>6 DEF CheckKey
  <2> QED
      BY <1>t, <2>1, SMT DEF KeyInv, Holding, Releasing, AtTree
<1>7. ASSUME NEW c \in Clients, TakeTicket(c) PROVE KeyInv'
  <2>1. /\ UNCHANGED <<handover, unique, winner_key, kind, key, acquired>>
        /\ \A d \in Clients \ {c} : pc'[d] = pc[d] /\ my'[d] = my[d]
        /\ pc'[c] = "wait"
      BY <1>t, <1>7 DEF TakeTicket
  <2> QED
      BY <1>t, <2>1, SMT DEF KeyInv, Holding, Releasing, AtTree
<1>8. ASSUME NEW c \in Clients, Remote(c) PROVE KeyInv'
  <2>1. /\ UNCHANGED <<handover, unique, winner_key, kind, key, my, acquired>>
        /\ \A d \in Clients \ {c} : pc'[d] = pc[d]
        /\ pc[c] = "remote"
        /\ pc'[c] = IF acquired[c] = "direct" THEN "done" ELSE "release"
      BY <1>t, <1>8 DEF Remote
  <2>2. acquired[c] # "loser"
      BY <1>t, <2>1 DEF KeyInv, AtTree
  <2> QED
      BY <1>t, <2>1, <2>2, SMT DEF KeyInv, Holding, Releasing, AtTree
<1>9. ASSUME NEW c \in Clients,
             \/ Overwrite(c) \/ Wait(c) \/ GetCombiningKey(c)
             \/ GetCombiningValue(c) \/ StartWindow(c) \/ SizeOwn(c)
             \/ SizeOther(c) \/ SizeOther2(c) \/ LockQueue(c) \/ LeaveWindow(c)
      PROVE  KeyInv'
  <2>1. UNCHANGED <<handover, unique, winner_key, kind, key, my, acquired>>
      BY <1>t, <1>9 DEF Overwrite, Wait, GetCombiningKey, GetCombiningValue,
         StartWindow, SizeOwn, SizeOther, SizeOther2, LockQueue, LeaveWindow
  <2>2. \A d \in Clients \ {c} : pc'[d] = pc[d]
      BY <1>t, <1>9 DEF Overwrite, Wait, GetCombiningKey, GetCombiningValue,
         StartWindow, SizeOwn, SizeOther, SizeOther2, LockQueue, LeaveWindow
  <2>3. /\ pc'[c] \in Holding => pc[c] \in Holding
        /\ pc'[c] \in Releasing => pc[c] \in Releasing
        /\ pc'[c] \in AtTree => pc[c] \in AtTree
        /\ pc'[c] # "release"
    <3>1. CASE Overwrite(c) \/ Wait(c) \/ LockQueue(c)
        BY <1>t, <3>1 DEF Overwrite, Wait, LockQueue, Holding, Releasing, AtTree
    <3>2. CASE GetCombiningKey(c) \/ GetCombiningValue(c)
        BY <1>t, <3>2 DEF GetCombiningKey, GetCombiningValue, Holding, Releasing, AtTree
    <3>3. CASE StartWindow(c) \/ SizeOwn(c)
        BY <1>t, <3>3 DEF StartWindow, SizeOwn, Holding, Releasing, AtTree
    <3>4. CASE SizeOther(c) \/ SizeOther2(c)
        BY <1>t, <3>4 DEF SizeOther, SizeOther2, Holding, Releasing, AtTree
    <3>5. CASE LeaveWindow(c)
      <4>1. pc'[c] \in {"shrink", "empty", "empty_other", "close", "pass"}
          BY <1>t, <3>5 DEF LeaveWindow
      <4> QED
          BY <1>t, <4>1 DEF Holding, Releasing, AtTree
    <3> QED
        BY <1>t, <1>9, <3>1, <3>2, <3>3, <3>4, <3>5
  <2> QED
      BY SMTT(30), <1>t, <2>1, <2>2, <2>3 DEF KeyInv
<1>10. CASE UNCHANGED vars
    BY <1>t, <1>10 DEF vars, KeyInv
<1> QED
    BY <1>1, <1>2, <1>3, <1>4, <1>5, <1>6, <1>7, <1>8, <1>9, <1>10
       DEF Next, Step, Finished

\* Delegation and combining stay within one key: with fewer clients than
\* tickets, a loser is only ever handed what a winner did for the loser's key,
\* although keys share the lock node and change hands between epochs.
THEOREM HandoverStaysInKey ==
    ASSUME IsFiniteSet(Clients), Cardinality(Clients) < TicketMod
    PROVE  Spec => []HandoverSameKey
<1> DEFINE IInv == TypeOK /\ TicketInv /\ KeyInv
<1>1. Init => IInv
  <2>1. Init => KeyInv
      BY SMT DEF Init, KeyInv, Holding, Releasing, AtTree
  <2> QED
      BY <2>1, TypeInit, TicketInit
<1>2. IInv /\ [Next]_vars => IInv'
    BY TypeStep, TicketStep, KeyStep
<1>3. IInv => HandoverSameKey
  <2> SUFFICES ASSUME IInv, NEW c \in Clients, acquired[c] = "loser", pc[c] = "release"
               PROVE  winner_key[kind[c]] = key[c]
      BY DEF HandoverSameKey
  <2>1. kind[c] \in Kind /\ handover[kind[c]]
      BY DEF TypeOK, KeyInv
  <2>2. unique[kind[c]] = winner_key[kind[c]]
      BY <2>1 DEF KeyInv
  <2>3. my[c] # -1
      BY DEF TicketInv, PhaseInv, Outside, AtTree
  <2>4. unique[kind[c]] = key[c]
      BY <2>3 DEF KeyInv, Holding
  <2> QED
      BY <2>2, <2>4
<1> QED
    BY <1>1, <1>2, <1>3, PTL DEF Spec
=============================================================================
