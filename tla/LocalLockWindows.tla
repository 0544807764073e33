--------------------------- MODULE LocalLockWindows ---------------------------
(***************************************************************************)
(* The time windows of LocalLock, for any clients and keys, as long as the *)
(* operations are all searches or all inserts and the clients are fewer    *)
(* than the tickets: a window counts clients that are queued, is closed by *)
(* the last of them, and lets winners hand over only to clients that were  *)
(* queued when they released.                                              *)
(***************************************************************************)
EXTENDS LocalLockProofs

\* The number of clients in queue q, and of those served before client c.
Length(q) == Diff(ticket[q], current[q])
Place(c) == Diff(my[c], current[kind[c]])

\* How many clients the release of c found in its queue.
Found(c) == Diff(seen[c], current[kind[c]])

Sizing == {"size_own", "size_other", "size_other2"}
Left == {"empty", "empty_other", "close", "pass"}

\* The clients that window q still counts are queued behind its head.
LeftOK(q) ==
    /\ window[q] < Length(q)
    /\ window[q] # 0 => \A d \in Queue(q) : Place(d) <= window[q] => d \in audience[q]

\* The clients that the release of c found in queue q are the audience.
FoundOK(c, q) ==
    /\ Found(c) # 0 /\ Found(c) <= Length(q)
    /\ ~handover[q] => \A d \in Queue(q) : Place(d) < Found(c) => d \in audience[q]

\* What is true of the head c of queue q, by how far it has got.
HeadOK(c, q) ==
    /\ pc[c] = "shrink" => window[q] # 0
    /\ pc[c] \in Left => LeftOK(q)
    /\ pc[c] \in Sizing => ~handover[q]
    /\ pc[c] \in Sizing \union {"start"} => FoundOK(c, q)
    /\ pc[c] = "release" /\ acquired[c] = "loser" => c \in audience[q]
    /\ pc[c] \in AtTree => acquired[c] # "loser"

\* Client c is about to size or to close the window it keeps open.
Opens(c) ==
    \/ pc[c] \in {"size_own", "empty", "empty_other", "close"}
    \/ kind[c] = "write" /\ pc[c] \in {"size_other", "size_other2"}

QueueOK(q) ==
    /\ window[q] <= Length(q)
    /\ \A c \in Queue(q) : Place(c) < window[q] => c \in audience[q]
    /\ \A c \in Heads(q) : HeadOK(c, q)
    /\ window_start /\ window[q] = 0 => \E c \in Heads(q) : Opens(c)

\* A queue nobody has come to has no window, and no client of the other queue
\* gives it one.
UnusedOK ==
    /\ \A c \in Clients : pc[c] # "idle" => started[kind[c]] # 0
    /\ \A q \in Kind : started[q] = 0 => window[q] = 0
    /\ \A c \in Clients : pc[c] = "size_other2" /\ started[Other(kind[c])] = 0 =>
         seen_current[c] = current[Other(kind[c])]

WindowInv == UnusedOK /\ \A q \in Kind : started[Other(q)] = 0 => QueueOK(q)

-----------------------------------------------------------------------------
(* Counters and queues                                                       *)

\* Zenon proves the leaves that need no arithmetic; the others cite SMT.
USE Zenon

LEMMA Numbers ==
    ASSUME TypeOK
    PROVE  /\ \A q \in Kind : Length(q) \in Nat /\ window[q] \in Nat
           /\ \A c \in Clients : Found(c) \in Nat
           /\ \A q \in Kind : \A c \in Queue(q) : Place(c) \in Nat
<1>1. Ticket \subseteq Nat
    BY TicketModAssumption, SMT DEF Ticket
<1>2. \A q \in Kind : Length(q) \in Ticket /\ window[q] \in Ticket
    BY ArithmeticType DEF TypeOK, Length
<1>3. \A c \in Clients : Found(c) \in Ticket
    BY ArithmeticType DEF TypeOK, Found
<1>4. \A q \in Kind : \A c \in Queue(q) : Place(c) \in Ticket
    BY ArithmeticType DEF TypeOK, Place, Queue
<1> QED
    BY <1>1, <1>2, <1>3, <1>4

\* Everyone in a queue has a place in it, the head the first.
LEMMA Places ==
    ASSUME TypeOK, TicketInv, NEW q \in Kind
    PROVE  /\ \A c \in Queue(q) : c \in Clients /\ kind[c] = q /\ Place(c) < Length(q)
           /\ \A c \in Heads(q) : Place(c) = 0
           /\ \A c, d \in Heads(q) : c = d
<1>1. \A c \in Queue(q) : c \in Clients /\ kind[c] = q /\ my[c] \in Ticket
    BY DEF Queue, TypeOK
<1>2. \A c \in Queue(q) : Place(c) < Length(q)
    BY <1>1 DEF TicketInv, OrderInv, Place, Length
<1>3. \A c \in Heads(q) : my[c] = current[q] /\ current[q] \in Ticket
    BY <1>1 DEF Heads, Queue, TicketInv, PhaseInv, TypeOK
<1>4. \A c \in Heads(q) : Place(c) = 0
    BY <1>1, <1>3, Distances, SMT DEF Heads, Place
<1>5. \A c, d \in Heads(q) : c = d
    BY HeadIsServed DEF Heads, Queue
<1> QED
    BY <1>1, <1>2, <1>4, <1>5

LEMMA QueuesStay ==
    ASSUME UNCHANGED <<kind, my, ticket, current>>
    PROVE  /\ \A q : Queue(q)' = Queue(q) /\ Length(q)' = Length(q)
           /\ \A d : Place(d)' = Place(d)
BY DEF Queue, Length, Place, Diff

\* A client outside the queues does not change what is true of them.
LEMMA OutsideStep ==
    ASSUME TypeOK, NEW c \in Clients, my[c] = -1, my' = my,
           UNCHANGED <<ticket, current, window, window_start, audience, handover, seen>>,
           \A d \in Clients \ {c} :
             pc'[d] = pc[d] /\ kind'[d] = kind[d] /\ acquired'[d] = acquired[d],
           NEW q \in Kind, QueueOK(q)
    PROVE  QueueOK(q)'
<1>1. Queue(q)' = Queue(q) /\ c \notin Queue(q) /\ Queue(q) \subseteq Clients
    BY DEF Queue
<1>2. \A d \in Queue(q) : pc'[d] = pc[d] /\ kind'[d] = kind[d] /\ acquired'[d] = acquired[d]
    BY <1>1
<1>3. Heads(q)' = Heads(q) /\ Heads(q) \subseteq Queue(q)
    BY <1>1, <1>2 DEF Heads
<1>4. Length(q)' = Length(q)
    BY DEF Length, Diff
<1>5. \A d \in Queue(q) : Place(d)' = Place(d) /\ Found(d)' = Found(d)
    BY <1>2 DEF Place, Found, Diff
<1>6. \A d \in Heads(q) : HeadOK(d, q) => HeadOK(d, q)'
  <2>1. LeftOK(q) => LeftOK(q)'
      BY <1>1, <1>4, <1>5 DEF LeftOK
  <2>2. \A d \in Heads(q) : FoundOK(d, q) => FoundOK(d, q)'
      BY <1>1, <1>3, <1>4, <1>5 DEF FoundOK
  <2> QED
      BY <1>2, <1>3, <2>1, <2>2 DEF HeadOK
<1>7. \A d \in Heads(q) : Opens(d) => Opens(d)'
    BY <1>2, <1>3 DEF Opens
<1> QED
    BY <1>1, <1>3, <1>4, <1>5, <1>6, <1>7 DEF QueueOK

\* The head is the only one to change what is true of its queue.
LEMMA HeadStep ==
    ASSUME TypeOK, TicketInv, NEW q \in Kind, NEW c \in Heads(q),
           UNCHANGED <<kind, my, ticket, current>>,
           \A d \in Clients \ {c} : pc'[d] = pc[d], pc'[c] # "wait",
           window'[q] <= Length(q),
           \A d \in Queue(q) : Place(d) < window'[q] => d \in audience'[q],
           HeadOK(c, q)', window_start' /\ window'[q] = 0 => Opens(c)'
    PROVE  QueueOK(q)'
<1>1. Queue(q)' = Queue(q) /\ Length(q)' = Length(q) /\ \A d : Place(d)' = Place(d)
    BY QueuesStay
<1>2. Heads(q) = {c} /\ c \in Queue(q)
    BY Places, SMT DEF Heads
<1>3. Heads(q)' = {c}
  <2>1. \A d \in Queue(q) : d # c => pc'[d] = "wait"
      BY <1>2 DEF Heads, Queue
  <2> QED
      BY <1>1, <1>2, <2>1 DEF Heads
<1> QED
    BY <1>1, <1>3 DEF QueueOK

-----------------------------------------------------------------------------
(* A queue nobody has come to                                                *)

LEMMA UnusedQueue ==
    ASSUME TypeOK, TicketInv, UnusedOK, NEW q \in Kind, started[q] = 0
    PROVE  Queue(q) = {} /\ Length(q) = 0
<1>1. \A c \in Clients : my[c] # -1 => pc[c] # "idle"
    BY DEF TicketInv, PhaseInv, Outside
<1>2. Queue(q) = {}
    BY <1>1 DEF Queue, UnusedOK
<1>3. Cardinality({}) = 0
    BY FS_EmptySet
<1> QED
    BY <1>2, <1>3 DEF TicketInv, OrderInv, Length

\* When operations are of one kind, a client that is active is of this kind.
LEMMA OnlyOne ==
    ASSUME TypeOK, UnusedOK, NEW c \in Clients, pc[c] # "idle",
           NEW p \in Kind, started[Other(p)] = 0
    PROVE  p = kind[c]
BY SMT DEF UnusedOK, TypeOK, Other, Kind

LEMMA UnusedStep ==
    ASSUME TypeOK, TicketInv, UnusedOK, [Next]_vars
    PROVE  UnusedOK'
<1> USE DEF Goto, node, locals, history
<1>t. /\ window \in [Kind -> Ticket] /\ current \in [Kind -> Ticket]
      /\ pc \in [Clients -> Labels] /\ kind \in [Clients -> Kind]
      /\ seen_current \in [Clients -> Ticket] /\ started \in [Kind -> Nat]
    BY DEF TypeOK
<1>o. \A q \in Kind : Other(q) \in Kind /\ Other(q) # q
    BY DEF Other, Kind
<1>1. ASSUME NEW c \in Clients, NEW q \in Kind, NEW k \in Keys, Begin(c, q, k)
      PROVE UnusedOK'
  <2>1. /\ UNCHANGED <<window, current, seen_current>> /\ kind' = [kind EXCEPT ![c] = q]
        /\ started' = [started EXCEPT ![q] = @ + 1]
        /\ \A d \in Clients \ {c} : pc'[d] = pc[d]
        /\ pc'[c] \in {"buffer", "ticket", "combine", "remote"}
      BY <1>t, <1>1 DEF Begin
  <2>2. started'[q] # 0 /\ \A p \in Kind : started'[p] = 0 => started[p] = 0
      BY <1>t, <2>1, SMT
  <2>3. kind'[c] = q /\ \A d \in Clients \ {c} : kind'[d] = kind[d]
      BY <1>t, <2>1
  <2>4. \A d \in Clients : pc'[d] # "idle" => started'[kind'[d]] # 0
      BY <1>t, <2>1, <2>2, <2>3 DEF UnusedOK
  <2>5. \A d \in Clients : pc'[d] = "size_other2" /\ started'[Other(kind'[d])] = 0 =>
          seen_current'[d] = current'[Other(kind'[d])]
      BY <1>t, <1>o, <2>1, <2>2, <2>3, SMT DEF UnusedOK
  <2>6. \A p \in Kind : started'[p] = 0 => window'[p] = 0
      BY <2>1, <2>2 DEF UnusedOK
  <2> QED
      BY <2>4, <2>5, <2>6 DEF UnusedOK
<1>2. ASSUME NEW c \in Clients, pc[c] # "idle", UNCHANGED <<kind, started>>,
             \A d \in Clients \ {c} : pc'[d] = pc[d],
             \A p \in Kind : p # kind[c] => current'[p] = current[p],
             \A p \in Kind : p # kind[c] /\ window[p] = 0 /\ started[p] = 0 => window'[p] = 0,
             \A d \in Clients \ {c} : seen_current'[d] = seen_current[d],
             pc'[c] = "size_other2" => seen_current'[c] = current'[Other(kind[c])]
      PROVE  UnusedOK'
  <2>1. started[kind[c]] # 0
      BY <1>2 DEF UnusedOK
  <2>2. \A d \in Clients : pc'[d] # "idle" => started'[kind'[d]] # 0
      BY <1>2, <2>1 DEF UnusedOK
  <2>3. \A p \in Kind : started'[p] = 0 => window'[p] = 0
      BY <1>2, <2>1 DEF UnusedOK
  <2>4. ASSUME NEW d \in Clients, pc'[d] = "size_other2", started'[Other(kind'[d])] = 0
        PROVE  seen_current'[d] = current'[Other(kind'[d])]
    <3>1. CASE d = c
        BY <1>2, <2>4, <3>1
    <3>2. CASE d # c
      <4>1. pc[d] = "size_other2" /\ started[Other(kind[d])] = 0
          BY <1>2, <2>4, <3>2
      <4>2. Other(kind[d]) # kind[c] /\ Other(kind[d]) \in Kind
          BY <1>t, <1>o, <2>1, <4>1
      <4>3. seen_current[d] = current[Other(kind[d])]
          BY <4>1 DEF UnusedOK
      <4> QED
          BY <1>2, <3>2, <4>2, <4>3
    <3> QED
        BY <3>1, <3>2
  <2> QED
      BY <2>2, <2>3, <2>4 DEF UnusedOK
<1>3. ASSUME NEW c \in Clients, SizeOther2(c) PROVE UnusedOK'
  <2>1. PICK o \in Kind : o = Other(kind[c]) /\ o # kind[c]
      BY <1>t, <1>o, SMT
  <2>2. /\ pc[c] = "size_other2" /\ UNCHANGED <<kind, started, current, seen_current>>
        /\ window' = [window EXCEPT ![o] = Diff(ticket[o], seen_current[c])]
        /\ pc'[c] # "size_other2" /\ \A d \in Clients \ {c} : pc'[d] = pc[d]
      BY <1>t, <1>3, <2>1 DEF SizeOther2
  <2>3. started[o] = 0 => Diff(ticket[o], seen_current[c]) = 0
    <3>1. started[o] = 0 => seen_current[c] = current[o]
        BY <2>1, <2>2 DEF UnusedOK
    <3> QED
        BY <3>1, UnusedQueue DEF Length
  <2>4. \A p \in Kind : p # kind[c] /\ window[p] = 0 /\ started[p] = 0 => window'[p] = 0
      BY <1>t, <2>2, <2>3
  <2> QED
      BY <1>2, <2>2, <2>4
<1>4. ASSUME NEW c \in Clients,
             \/ Overwrite(c) \/ TakeTicket(c) \/ Wait(c) \/ CheckKey(c) \/ CheckWindow(c)
             \/ GetCombiningKey(c) \/ GetCombiningValue(c) \/ Remote(c)
             \/ Release(c) \/ StartWindow(c) \/ SetHandover(c) \/ LockQueue(c)
      PROVE  UnusedOK'
  <2>1. /\ UNCHANGED <<kind, started, current, seen_current, window>>
        /\ pc[c] # "idle"
      BY <1>4 DEF Overwrite, TakeTicket, Wait, CheckKey, CheckWindow, GetCombiningKey,
         GetCombiningValue, Remote, Release, StartWindow, SetHandover, LockQueue
  <2>2. pc'[c] # "size_other2" /\ \A d \in Clients \ {c} : pc'[d] = pc[d]
      BY <1>t, <1>4 DEF Overwrite, TakeTicket, Wait, CheckKey, CheckWindow, GetCombiningKey,
         GetCombiningValue, Remote, Release, StartWindow, SetHandover, LockQueue
  <2> QED
      BY <1>2, <2>1, <2>2
<1>5. ASSUME NEW c \in Clients, SizeOwn(c) \/ LeaveWindow(c) \/ Pass(c)
      PROVE  UnusedOK'
  <2>1. /\ UNCHANGED <<kind, started>> /\ pc[c] # "idle"
        /\ pc'[c] # "size_other2" /\ \A d \in Clients \ {c} : pc'[d] = pc[d]
      BY <1>t, <1>5 DEF SizeOwn, LeaveWindow, Pass
  <2>2. /\ \A p \in Kind : p # kind[c] => current'[p] = current[p] /\ window'[p] = window[p]
        /\ \A d \in Clients \ {c} : seen_current'[d] = seen_current[d]
      BY <1>t, <1>5 DEF SizeOwn, LeaveWindow, Pass
  <2> QED
      BY <1>2, <2>1, <2>2
<1>6. ASSUME NEW c \in Clients, SizeOther(c) PROVE UnusedOK'
  <2>1. /\ UNCHANGED <<kind, started, current, window>> /\ pc[c] # "idle"
        /\ seen_current' = [seen_current EXCEPT ![c] = current[Other(kind[c])]]
        /\ \A d \in Clients \ {c} : pc'[d] = pc[d]
      BY <1>t, <1>6 DEF SizeOther
  <2> QED
      BY <1>t, <1>2, <2>1
<1>7. CASE UNCHANGED vars
    BY <1>7 DEF vars, UnusedOK
<1> QED
    BY <1>1, <1>3, <1>4, <1>5, <1>6, <1>7 DEF Next, Step, Finished

-----------------------------------------------------------------------------
(* The steps of a client in its queue                                        *)

\* A head that neither sizes nor leaves the window.
LEMMA QuietStep ==
    ASSUME TypeOK, TicketInv, NEW q \in Kind, QueueOK(q), NEW c \in Heads(q), ~Opens(c),
           UNCHANGED <<kind, my, ticket, current, window, window_start, audience>>,
           \A d \in Clients \ {c} : pc'[d] = pc[d],
           pc'[c] \notin {"wait", "shrink", "start"} \union Left \union Sizing,
           pc'[c] \in AtTree \union {"release"} => acquired'[c] # "loser"
    PROVE  QueueOK(q)'
<1>1. HeadOK(c, q)'
    BY DEF HeadOK, AtTree
<1>2. ~(window_start /\ window[q] = 0)
    BY Places, SMT DEF QueueOK
<1> QED
    BY <1>1, <1>2, HeadStep DEF QueueOK

LEMMA CheckWindowStep ==
    ASSUME TypeOK, TicketInv, NEW q \in Kind, QueueOK(q), NEW c \in Heads(q), CheckWindow(c)
    PROVE  QueueOK(q)'
<1> DEFINE h == handover[q] /\ window[q] # 0
<1>0. c \in Clients /\ kind[c] = q /\ c \in Queue(q) /\ Place(c) = 0
    BY Places DEF Heads
<1>1. /\ UNCHANGED <<kind, my, ticket, current, window, window_start, audience>>
      /\ pc[c] = "own" /\ acquired' = [acquired EXCEPT ![c] = IF h THEN "loser" ELSE "winner"]
      /\ pc' = [pc EXCEPT ![c] = CASE h -> "release"
                                   [] ~h /\ q = "write" -> "combine"
                                   [] OTHER -> "remote"]
    BY <1>0 DEF CheckWindow, Goto, history
<1>2. /\ \A d \in Clients \ {c} : pc'[d] = pc[d]
      /\ pc'[c] \in {"release", "combine", "remote"}
      /\ acquired'[c] = IF h THEN "loser" ELSE "winner"
      /\ pc'[c] = "release" <=> h
  <2>1. pc \in [Clients -> Labels] /\ acquired \in [Clients -> {"winner", "loser", "direct"}]
      BY DEF TypeOK
  <2>2. CASE h
      BY <1>0, <1>1, <2>1, <2>2
  <2>3. CASE ~h
      BY <1>0, <1>1, <2>1, <2>3 DEF Kind
  <2> QED
      BY <2>2, <2>3
<1>3. h => c \in audience[q]
    BY <1>0, Numbers, SMT DEF QueueOK
<1>4. HeadOK(c, q)'
    BY <1>1, <1>2, <1>3, SMT DEF HeadOK, AtTree, Left, Sizing
<1>5. ~(window_start /\ window[q] = 0)
    BY <1>1, Places DEF QueueOK, Opens
<1> QED
    BY <1>1, <1>2, <1>4, <1>5, HeadStep DEF QueueOK

LEMMA ReleaseStep ==
    ASSUME TypeOK, TicketInv, NEW q \in Kind, QueueOK(q), NEW c \in Heads(q), Release(c)
    PROVE  QueueOK(q)'
<1>0. c \in Clients /\ kind[c] = q /\ c \in Queue(q) /\ Length(q) # 0
  <2>1. c \in Queue(q) /\ Place(c) = 0 /\ Place(c) < Length(q)
      BY Places DEF Heads
  <2> QED
      BY <2>1, Places, SMT
<1>1. /\ UNCHANGED <<kind, my, ticket, current, window, window_start, handover>>
      /\ pc[c] = "release" /\ pc' = [pc EXCEPT ![c] = "start"]
      /\ seen' = [seen EXCEPT ![c] = ticket[q]]
      /\ \/ handover[q] /\ audience' = audience
         \/ ~handover[q] /\ audience' = [audience EXCEPT ![q] = Queue(q)]
    BY <1>0 DEF Release, Goto
<1>2. pc'[c] = "start" /\ \A d \in Clients \ {c} : pc'[d] = pc[d]
    BY <1>0, <1>1 DEF TypeOK
<1>3. /\ Found(c)' = Length(q) /\ Queue(q)' = Queue(q) /\ Length(q)' = Length(q)
      /\ \A d : Place(d)' = Place(d)
  <2>1. seen'[c] = ticket[q]
      BY <1>0, <1>1 DEF TypeOK
  <2> QED
      BY <1>0, <1>1, <2>1, QueuesStay DEF Found, Length, Diff
<1>4. /\ ~handover[q] => audience'[q] = Queue(q)
      /\ handover[q] => audience'[q] = audience[q]
    BY <1>1 DEF TypeOK
<1>5. HeadOK(c, q)'
  <2>1. FoundOK(c, q)'
    <3>1. Length(q) \in Nat
        BY Numbers
    <3> QED
        BY <1>0, <1>1, <1>3, <1>4, <3>1, SMT DEF FoundOK
  <2> QED
      BY <1>2, <2>1 DEF HeadOK, AtTree, Left, Sizing
<1>6. \A d \in Queue(q) : Place(d) < window'[q] => d \in audience'[q]
    BY <1>1, <1>4 DEF QueueOK, TypeOK
<1>7. ~(window_start /\ window[q] = 0)
    BY <1>1, Places DEF QueueOK, Opens
<1> QED
    BY <1>1, <1>2, <1>5, <1>6, <1>7, HeadStep DEF QueueOK

LEMMA StartWindowStep ==
    ASSUME TypeOK, TicketInv, NEW q \in Kind, QueueOK(q), NEW c \in Heads(q), StartWindow(c)
    PROVE  QueueOK(q)'
<1>0. c \in Clients /\ kind[c] = q /\ c \in Queue(q)
    BY Places DEF Heads
<1>1. /\ UNCHANGED <<kind, my, ticket, current, window, audience, handover, seen>>
      /\ pc[c] = "start" /\ \A d \in Clients \ {c} : pc'[d] = pc[d]
      /\ \/ /\ ~handover[q] /\ window_start'
            /\ pc'[c] = IF q = "read" THEN "size_own" ELSE "size_other"
         \/ pc'[c] = "handover" /\ window_start' = window_start
  <2>1. pc \in [Clients -> Labels]
      BY DEF TypeOK
  <2> QED
      BY <1>0, <2>1 DEF StartWindow, Goto, history
<1>2. /\ Found(c)' = Found(c) /\ Queue(q)' = Queue(q) /\ Length(q)' = Length(q)
      /\ \A d : Place(d)' = Place(d)
    BY <1>1, QueuesStay DEF Found, Diff
<1>3. HeadOK(c, q)
    BY DEF QueueOK
<1>4. HeadOK(c, q)'
  <2>1. FoundOK(c, q)'
    <3>1. FoundOK(c, q)
        BY <1>1, <1>3 DEF HeadOK
    <3> QED
        BY <1>1, <1>2, <3>1 DEF FoundOK
  <2> QED
      BY <1>1, <2>1 DEF HeadOK, AtTree, Left, Sizing
<1>5. window_start' /\ window'[q] = 0 => Opens(c)'
  <2>1. ~(window_start /\ window[q] = 0)
      BY <1>1, Places DEF QueueOK, Opens
  <2> QED
      BY <1>0, <1>1, <2>1 DEF Opens, Kind
<1>6. pc'[c] # "wait"
    BY <1>1
<1> QED
    BY <1>1, <1>4, <1>5, <1>6, HeadStep DEF QueueOK

LEMMA SizeStep ==
    ASSUME TypeOK, TicketInv, NEW q \in Kind, QueueOK(q), NEW c \in Heads(q),
           SizeOwn(c) \/ SizeOther(c) \/ SizeOther2(c)
    PROVE  QueueOK(q)'
<1>0. c \in Clients /\ kind[c] = q /\ c \in Queue(q)
    BY Places DEF Heads
<1>t. window \in [Kind -> Ticket] /\ pc \in [Clients -> Labels]
    BY DEF TypeOK
<1>1. /\ UNCHANGED <<kind, my, ticket, current, audience, handover, seen, window_start>>
      /\ pc[c] \in Sizing /\ \A d \in Clients \ {c} : pc'[d] = pc[d]
    BY <1>0, <1>t DEF SizeOwn, SizeOther, SizeOther2, Goto, history, Sizing
<1>2. \/ /\ pc[c] = "size_own" /\ window'[q] = Found(c)
         /\ pc'[c] = IF q = "read" THEN "size_other" ELSE "handover"
      \/ pc[c] = "size_other" /\ window' = window /\ pc'[c] = "size_other2"
      \/ /\ pc[c] = "size_other2" /\ window'[q] = window[q]
         /\ pc'[c] = IF q = "read" THEN "handover" ELSE "size_own"
    BY <1>0, <1>t DEF SizeOwn, SizeOther, SizeOther2, Goto, Other, Found, Kind
<1>3. /\ Found(c)' = Found(c) /\ Queue(q)' = Queue(q) /\ Length(q)' = Length(q)
      /\ \A d : Place(d)' = Place(d)
    BY <1>1, QueuesStay DEF Found, Diff
<1>4. /\ ~handover[q] /\ Found(c) # 0 /\ Found(c) <= Length(q)
      /\ \A d \in Queue(q) : Place(d) < Found(c) => d \in audience[q]
    BY <1>1 DEF QueueOK, HeadOK, FoundOK
<1>5. HeadOK(c, q)'
  <2>1. FoundOK(c, q)'
      BY <1>1, <1>3, <1>4 DEF FoundOK
  <2>2. pc'[c] \in Sizing \union {"handover"}
      BY <1>2 DEF Sizing
  <2> QED
      BY <1>1, <1>4, <2>1, <2>2 DEF HeadOK, AtTree, Left, Sizing
<1>6. /\ window'[q] <= Length(q)
      /\ \A d \in Queue(q) : Place(d) < window'[q] => d \in audience'[q]
    BY <1>1, <1>2, <1>4 DEF QueueOK
<1>7. window_start' /\ window'[q] = 0 => Opens(c)'
  <2>1. window_start /\ window[q] = 0 => Opens(c)
      BY Places DEF QueueOK
  <2> QED
      BY <1>0, <1>1, <1>2, <1>4, <2>1 DEF Opens, Kind
<1>8. pc'[c] # "wait"
    BY <1>2
<1> QED
    BY <1>1, <1>5, <1>6, <1>7, <1>8, HeadStep

LEMMA LeaveWindowStep ==
    ASSUME TypeOK, TicketInv, UnusedOK, NEW q \in Kind, QueueOK(q), started[Other(q)] = 0,
           NEW c \in Heads(q), LeaveWindow(c)
    PROVE  QueueOK(q)'
<1>0. /\ c \in Clients /\ kind[c] = q /\ c \in Queue(q) /\ HeadOK(c, q)
      /\ Length(q) \in Nat /\ Length(q) # 0 /\ window[q] \in Nat
  <2>1. c \in Queue(q) /\ Place(c) = 0 /\ Place(c) < Length(q)
      BY Places DEF Heads
  <2> QED
      BY <2>1, Places, Numbers, SMT DEF QueueOK
<1>t. window \in [Kind -> Ticket] /\ pc \in [Clients -> Labels]
    BY DEF TypeOK
<1>1. /\ UNCHANGED <<kind, my, ticket, current, audience>>
      /\ \A d \in Clients \ {c} : pc'[d] = pc[d]
    BY <1>0, <1>t DEF LeaveWindow, Goto, history
<1>2. /\ Queue(q)' = Queue(q) /\ Length(q)' = Length(q) /\ \A d : Place(d)' = Place(d)
    BY <1>1, QueuesStay
<1>3. \A p \in Kind : p # q => window[p] = 0
    BY SMT DEF UnusedOK, Other, Kind
<1>4. \/ /\ pc[c] = "window" /\ UNCHANGED <<window, window_start>>
         /\ pc'[c] = IF window[q] # 0 THEN "shrink" ELSE "pass"
      \/ /\ pc[c] = "shrink" /\ window'[q] = Dec(window[q]) /\ window_start' = window_start
         /\ pc'[c] = "empty"
      \/ /\ pc[c] = "empty" /\ UNCHANGED <<window, window_start>>
         /\ pc'[c] = IF window["read"] = 0 THEN "empty_other" ELSE "pass"
      \/ /\ pc[c] = "empty_other" /\ UNCHANGED <<window, window_start>>
         /\ pc'[c] = IF window["write"] = 0 THEN "close" ELSE "pass"
      \/ pc[c] = "close" /\ window' = window /\ window_start' = FALSE /\ pc'[c] = "pass"
    BY <1>0, <1>t DEF LeaveWindow, Goto
<1>5. window_start /\ window[q] = 0 => Opens(c)
    BY Places DEF QueueOK
<1>6. CASE pc[c] = "window"
  <2>1. window_start => window[q] # 0
      BY <1>5, <1>6 DEF Opens
  <2>2. HeadOK(c, q)'
    <3>1. \/ pc'[c] = "shrink" /\ window'[q] # 0
          \/ pc'[c] = "pass" /\ window'[q] = 0
        BY <1>4, <1>6
    <3>2. window'[q] = 0 => LeftOK(q)'
        BY <1>0, <1>2, SMT DEF LeftOK
    <3> QED
        BY <3>1, <3>2 DEF HeadOK, AtTree, Left, Sizing
  <2>3. window_start' /\ window'[q] = 0 => Opens(c)'
      BY <1>4, <1>6, <2>1
  <2>4. /\ pc'[c] # "wait" /\ window'[q] <= Length(q)
        /\ \A d \in Queue(q) : Place(d) < window'[q] => d \in audience'[q]
      BY <1>1, <1>4, <1>6 DEF QueueOK
  <2> QED
      BY <1>1, <2>2, <2>3, <2>4, HeadStep
<1>7. CASE pc[c] = "shrink"
  <2>1. window[q] # 0 /\ window'[q] = window[q] - 1 /\ pc'[c] = "empty"
      BY <1>0, <1>4, <1>7 DEF HeadOK, Dec
  <2>2. \A d \in Queue(q) : Place(d) <= window'[q] => d \in audience'[q]
    <3>1. \A d \in Queue(q) : Place(d) \in Nat
        BY Numbers
    <3> QED
        BY <1>0, <1>1, <2>1, <3>1, SMT DEF QueueOK
  <2>3. window'[q] < Length(q) /\ window'[q] \in Nat
      BY <1>0, <2>1, SMT DEF QueueOK
  <2>4. HeadOK(c, q)'
    <3>1. LeftOK(q)'
        BY <1>2, <2>2, <2>3 DEF LeftOK
    <3> QED
        BY <2>1, <3>1 DEF HeadOK, AtTree, Left, Sizing
  <2>5. Opens(c)' /\ pc'[c] # "wait"
      BY <2>1 DEF Opens
  <2>6. /\ window'[q] <= Length(q)
        /\ \A d \in Queue(q) : Place(d) < window'[q] => d \in audience'[q]
    <3>1. \A d \in Queue(q) : Place(d) \in Nat
        BY Numbers
    <3> QED
        BY <1>0, <2>2, <2>3, <3>1, SMT
  <2> QED
      BY <1>1, <2>4, <2>5, <2>6, HeadStep
<1>8. CASE pc[c] \in {"empty", "empty_other", "close"}
  <2>1. window' = window /\ pc'[c] \in Left \ {"empty"}
      BY <1>4, <1>8 DEF Left
  <2>2. HeadOK(c, q)'
    <3>1. LeftOK(q)
        BY <1>0, <1>8 DEF HeadOK, Left
    <3>2. LeftOK(q)'
        BY <1>1, <1>2, <2>1, <3>1 DEF LeftOK
    <3> QED
        BY <2>1, <3>2 DEF HeadOK, AtTree, Left, Sizing
  <2>3. window_start' /\ window'[q] = 0 => Opens(c)'
      BY <1>3, <1>4, <1>8 DEF Opens, Kind
  <2>4. /\ pc'[c] # "wait" /\ window'[q] <= Length(q)
        /\ \A d \in Queue(q) : Place(d) < window'[q] => d \in audience'[q]
      BY <1>1, <2>1 DEF QueueOK, Left
  <2> QED
      BY <1>1, <2>2, <2>3, <2>4, HeadStep
<1> QED
    BY <1>4, <1>6, <1>7, <1>8

LEMMA TakeTicketStep ==
    ASSUME IsFiniteSet(Clients), Cardinality(Clients) < TicketMod, TypeOK, TicketInv,
           NEW q \in Kind, QueueOK(q), NEW c \in Clients, kind[c] = q, TakeTicket(c)
    PROVE  QueueOK(q)'
<1>t. /\ pc \in [Clients -> Labels] /\ my \in [Clients -> Ticket \union {-1}]
      /\ ticket \in [Kind -> Ticket]
    BY DEF TypeOK
<1>1. /\ my[c] = -1
      /\ kind' = kind /\ current' = current /\ seen' = seen /\ acquired' = acquired
      /\ my'[c] = ticket[q] /\ ticket[q] # -1 /\ \A d \in Clients \ {c} : my'[d] = my[d]
      /\ pc'[c] = "wait" /\ \A d \in Clients \ {c} : pc'[d] = pc[d]
  <2>1. /\ pc[c] = "ticket" /\ pc' = [pc EXCEPT ![c] = "wait"]
        /\ my' = [my EXCEPT ![c] = ticket[q]]
        /\ kind' = kind /\ current' = current /\ seen' = seen /\ acquired' = acquired
      BY DEF TakeTicket, Goto, history
  <2>2. my[c] = -1
      BY <2>1 DEF TicketInv, PhaseInv, Outside
  <2>3. ticket[q] # -1
      BY <1>t, TicketModAssumption, SMT DEF Ticket
  <2> QED
      BY <1>t, <2>1, <2>2, <2>3
<1>u. UNCHANGED <<window, window_start, audience, handover>>
    BY DEF TakeTicket, history
<1>2. Queue(q)' = Queue(q) \union {c} /\ c \notin Queue(q) /\ Queue(q) \subseteq Clients
    BY <1>1 DEF Queue
<1>3. Heads(q)' = Heads(q) /\ Heads(q) \subseteq Queue(q)
    BY <1>1, <1>2 DEF Heads
<1>4. Length(q)' = Length(q) + 1
  <2>1. IsFiniteSet(Queue(q))
      BY <1>2, FS_Subset
  <2>2. Cardinality(Queue(q)') = Cardinality(Queue(q)) + 1
      BY <1>2, <2>1, FS_AddElement
  <2>3. Length(q) = Cardinality(Queue(q))
      BY DEF TicketInv, OrderInv, Length
  <2>4. Length(q)' = Cardinality(Queue(q)')
      BY OrderTake DEF OrderInv, Length
  <2> QED
      BY <2>2, <2>3, <2>4
<1>5. /\ \A d \in Queue(q) : /\ Place(d)' = Place(d) /\ Found(d)' = Found(d)
                             /\ pc'[d] = pc[d] /\ kind'[d] = kind[d]
      /\ Place(c)' = Length(q)
    BY <1>1, <1>2 DEF Place, Found, Length, Diff
<1>6. /\ Length(q) \in Nat /\ window[q] \in Nat /\ \A d \in Clients : Found(d) \in Nat
    BY Numbers
<1>7. ASSUME NEW d \in Heads(q), HeadOK(d, q) PROVE HeadOK(d, q)'
  <2>1. pc'[d] = pc[d] /\ acquired'[d] = acquired[d] /\ Found(d)' = Found(d) /\ Found(d) \in Nat
      BY <1>1, <1>2, <1>3, <1>5, <1>6
  <2>2. LeftOK(q) => LeftOK(q)'
      BY <1>u, <1>2, <1>4, <1>5, <1>6, SMT DEF LeftOK
  <2>3. FoundOK(d, q) => FoundOK(d, q)'
      BY <1>u, <1>2, <1>4, <1>5, <1>6, <2>1, SMT DEF FoundOK
  <2> QED
      BY <1>u, <1>7, <2>1, <2>2, <2>3 DEF HeadOK
<1>8. \A d \in Heads(q) : Opens(d) => Opens(d)'
    BY <1>3, <1>5 DEF Opens
<1>9. window'[q] <= Length(q)' /\ \A d \in Queue(q)' : Place(d)' < window'[q] => d \in audience'[q]
    BY <1>u, <1>2, <1>4, <1>5, <1>6, SMT DEF QueueOK
<1> QED
    BY <1>u, <1>3, <1>7, <1>8, <1>9 DEF QueueOK

LEMMA WaitStep ==
    ASSUME TypeOK, TicketInv, NEW q \in Kind, QueueOK(q), NEW c \in Clients, kind[c] = q, Wait(c)
    PROVE  QueueOK(q)'
<1>1. /\ UNCHANGED <<kind, my, ticket, current, window, window_start, audience>>
      /\ pc[c] = "wait" /\ my[c] = current[q] /\ my[c] # -1
      /\ pc'[c] = "check" /\ \A d \in Clients \ {c} : pc'[d] = pc[d]
    BY DEF Wait, Goto, node, history, TypeOK, TicketInv, PhaseInv, Outside, AtTree
<1>2. /\ Queue(q)' = Queue(q) /\ Length(q)' = Length(q) /\ \A d : Place(d)' = Place(d)
    BY <1>1, QueuesStay
<1>3. Heads(q) = {}
  <2>1. c \in Queue(q) /\ c \notin Heads(q)
      BY <1>1 DEF Queue, Heads
  <2>2. \A d \in Heads(q) : d \in Queue(q) /\ my[d] = my[c]
      BY <1>1 DEF Heads, Queue, TicketInv, PhaseInv
  <2> QED
      BY <2>1, <2>2, SMT DEF TicketInv, OrderInv
<1>4. Heads(q)' \subseteq {c}
    BY <1>1, <1>2, <1>3 DEF Heads, Queue
<1>5. HeadOK(c, q)'
    BY <1>1 DEF HeadOK, AtTree, Left, Sizing
<1> QED
    BY <1>1, <1>2, <1>3, <1>4, <1>5 DEF QueueOK

LEMMA PassStep ==
    ASSUME IsFiniteSet(Clients), TypeOK, TicketInv, NEW q \in Kind, QueueOK(q),
           NEW c \in Heads(q), Pass(c)
    PROVE  QueueOK(q)'
<1>0. c \in Clients /\ kind[c] = q /\ c \in Queue(q) /\ HeadOK(c, q)
    BY Places DEF Heads, QueueOK
<1>t. /\ pc \in [Clients -> Labels] /\ my \in [Clients -> Ticket \union {-1}]
      /\ ticket \in [Kind -> Ticket] /\ current \in [Kind -> Ticket]
    BY DEF TypeOK
<1>1. /\ UNCHANGED <<kind, ticket, window, window_start, audience>>
      /\ current'[q] = Inc(current[q])
      /\ my'[c] = -1 /\ \A d \in Clients \ {c} : my'[d] = my[d]
      /\ pc[c] = "pass" /\ \A d \in Clients \ {c} : pc'[d] = pc[d]
    BY <1>0, <1>t DEF Pass, Goto, history
<1>2. Queue(q)' = Queue(q) \ {c} /\ Queue(q) \subseteq Clients
    BY <1>1 DEF Queue
<1>3. Heads(q)' = {}
  <2>1. \A d \in Queue(q) : d # c => pc'[d] = "wait"
      BY <1>1, <1>2, Places, SMT DEF Heads
  <2> QED
      BY <1>2, <2>1 DEF Heads
<1>4. Length(q)' = Length(q) - 1
  <2>1. Length(q) # 0
      BY <1>0, Places, SMT DEF Length
  <2> QED
      BY <1>t, <1>1, <2>1, Distances, SMT DEF Length
<1>5. ASSUME NEW d \in Queue(q)'
      PROVE  d \in Queue(q) /\ Place(d)' = Place(d) - 1 /\ Place(d) # 0
  <2>1. d \in Queue(q) /\ d # c /\ kind[d] = q /\ my'[d] = my[d] /\ my[d] \in Ticket
      BY <1>1, <1>2, <1>t DEF Queue
  <2>2. my[c] = current[q]
      BY <1>0, <1>1 DEF TicketInv, PhaseInv, Queue
  <2>3. my[d] # my[c]
      BY <1>0, <2>1 DEF TicketInv, OrderInv
  <2>4. Diff(my[d], current[q]) # 0
      BY <1>t, <2>1, <2>2, <2>3, Distances, SMT
  <2>5. Diff(my[d], Inc(current[q])) = Diff(my[d], current[q]) - 1
      BY <1>t, <2>1, <2>4, Distances, SMT
  <2> QED
      BY <1>1, <2>1, <2>4, <2>5 DEF Place
<1>6. /\ window[q] < Length(q)
      /\ window[q] # 0 => \A d \in Queue(q) : Place(d) <= window[q] => d \in audience[q]
    BY <1>0, <1>1 DEF HeadOK, LeftOK, Left
<1>7. /\ Length(q) \in Nat /\ window[q] \in Nat
      /\ \A d \in Queue(q)' : d \in Queue(q) /\ Place(d) \in Nat /\ Place(d) # 0
    BY <1>5, Numbers
<1>8. /\ window'[q] <= Length(q)'
      /\ \A d \in Queue(q)' : Place(d)' < window'[q] => d \in audience'[q]
  <2>1. window' = window /\ audience' = audience
      BY <1>1
  <2>2. ASSUME NEW d \in Queue(q)', Place(d)' < window[q]
        PROVE  d \in audience[q]
      BY <1>5, <1>6, <1>7, <2>2, SMT
  <2> QED
      BY <1>4, <1>6, <1>7, <2>1, <2>2, SMT
<1>9. ~(window_start' /\ window'[q] = 0)
    BY <1>1, Places DEF QueueOK, Opens
<1> QED
    BY <1>3, <1>8, <1>9 DEF QueueOK

-----------------------------------------------------------------------------
(* All steps                                                                 *)

LEMMA QueueStep ==
    ASSUME IsFiniteSet(Clients), Cardinality(Clients) < TicketMod, TypeOK, TicketInv, UnusedOK,
           NEW q \in Kind, started[Other(q)] = 0, QueueOK(q),
           NEW c \in Clients, kind[c] = q, Step(c)
    PROVE  QueueOK(q)'
<1> USE DEF Goto, node, locals, history
<1>t. pc \in [Clients -> Labels] /\ acquired \in [Clients -> {"winner", "loser", "direct"}]
    BY DEF TypeOK
<1>h. my[c] # -1 /\ pc[c] # "wait" => c \in Heads(q)
    BY DEF Heads, Queue
<1>i. pc[c] \notin Outside \union AtTree => my[c] # -1
    BY DEF TicketInv, PhaseInv
<1>1. CASE Overwrite(c)
  <2>1. my[c] = -1
      BY <1>1 DEF Overwrite, TicketInv, PhaseInv, Outside
  <2>2. /\ UNCHANGED <<my, ticket, current, window, window_start, audience, handover, seen,
                       kind, acquired>>
        /\ \A d \in Clients \ {c} : pc'[d] = pc[d]
      BY <1>t, <1>1 DEF Overwrite
  <2> QED
      BY <2>1, <2>2, OutsideStep
<1>2. CASE GetCombiningKey(c) \/ GetCombiningValue(c) \/ Remote(c)
  <2>1. /\ UNCHANGED <<my, ticket, current, window, window_start, audience, handover, seen,
                       kind, acquired>>
        /\ pc[c] \in AtTree /\ \A d \in Clients \ {c} : pc'[d] = pc[d]
        /\ pc'[c] \in AtTree \union {"release", "done"}
      BY <1>t, <1>2 DEF GetCombiningKey, GetCombiningValue, Remote, AtTree
  <2>2. CASE my[c] = -1
      BY <2>1, <2>2, OutsideStep
  <2>3. CASE my[c] # -1
    <3>1. c \in Heads(q) /\ acquired[c] # "loser"
        BY <1>h, <2>1, <2>3 DEF QueueOK, HeadOK, AtTree
    <3>2. ~Opens(c) /\ pc'[c] \notin {"wait", "shrink", "start"} \union Left \union Sizing
        BY <2>1 DEF Opens, AtTree, Left, Sizing
    <3> QED
        BY <2>1, <3>1, <3>2, QuietStep
  <2> QED
      BY <2>2, <2>3
<1>3. CASE CheckKey(c) \/ SetHandover(c) \/ LockQueue(c)
  <2>1. /\ UNCHANGED <<my, ticket, current, window, window_start, audience, kind>>
        /\ pc[c] \in {"check", "handover", "lock"} /\ \A d \in Clients \ {c} : pc'[d] = pc[d]
        /\ pc'[c] \in {"window", "own", "lock"}
      BY <1>t, <1>3 DEF CheckKey, SetHandover, LockQueue
  <2>2. /\ c \in Heads(q) /\ ~Opens(c)
        /\ pc'[c] \notin {"wait", "shrink", "start", "release"}
        /\ pc'[c] \notin Left \union Sizing \union AtTree
      BY <1>h, <1>i, <2>1 DEF Opens, Outside, AtTree, Left, Sizing
  <2> QED
      BY <2>1, <2>2, QuietStep
<1>4. CASE CheckWindow(c)
    BY <1>h, <1>i, <1>4, CheckWindowStep DEF CheckWindow, Outside, AtTree
<1>5. CASE Release(c)
    BY <1>h, <1>i, <1>5, ReleaseStep DEF Release, Outside, AtTree
<1>6. CASE StartWindow(c)
    BY <1>h, <1>i, <1>6, StartWindowStep DEF StartWindow, Outside, AtTree
<1>7. CASE SizeOwn(c) \/ SizeOther(c) \/ SizeOther2(c)
  <2>1. c \in Heads(q)
      BY <1>h, <1>i, <1>7 DEF SizeOwn, SizeOther, SizeOther2, Outside, AtTree
  <2> QED
      BY <1>7, <2>1, SizeStep
<1>8. CASE LeaveWindow(c)
  <2>1. c \in Heads(q)
      BY <1>h, <1>i, <1>8 DEF LeaveWindow, Outside, AtTree
  <2> QED
      BY <1>8, <2>1, LeaveWindowStep
<1>9. CASE Pass(c)
    BY <1>h, <1>i, <1>9, PassStep DEF Pass, Outside, AtTree
<1>10. CASE TakeTicket(c)
    BY <1>10, TakeTicketStep
<1>11. CASE Wait(c)
    BY <1>11, WaitStep
<1> QED
    BY <1>1, <1>2, <1>3, <1>4, <1>5, <1>6, <1>7, <1>8, <1>9, <1>10, <1>11, SMT DEF Step

LEMMA WindowInit == Init => WindowInv
<1> SUFFICES ASSUME Init PROVE WindowInv
    OBVIOUS
<1>1. UnusedOK
    BY DEF Init, UnusedOK
<1>2. \A q \in Kind : Queue(q) = {} /\ Heads(q) = {}
    BY DEF Init, Queue, Heads
<1>3. \A q \in Kind : Length(q) = 0 /\ window[q] = 0 /\ ~window_start
    BY TicketModAssumption, SMT DEF Init, Length, Diff
<1> QED
    BY <1>1, <1>2, <1>3, SMT DEF WindowInv, QueueOK

LEMMA WindowStep ==
    ASSUME IsFiniteSet(Clients), Cardinality(Clients) < TicketMod,
           TypeOK, TicketInv, WindowInv, [Next]_vars
    PROVE  WindowInv'
<1>0. UnusedOK /\ UnusedOK'
    BY UnusedStep DEF WindowInv
<1>1. ASSUME NEW c \in Clients, NEW r \in Kind, NEW k \in Keys, Begin(c, r, k),
             NEW q \in Kind, started'[Other(q)] = 0
      PROVE  QueueOK(q)'
  <2>1. started[Other(q)] = 0
    <3>1. Other(q) \in Kind /\ started \in [Kind -> Nat] /\ started' = [started EXCEPT ![r] = @ + 1]
        BY <1>1 DEF Other, Kind, TypeOK, Begin
    <3> QED
        BY <1>1, <3>1, SMT
  <2>2. my[c] = -1 /\ my' = my
    <3>1. my[c] = -1
        BY <1>1 DEF Begin, TicketInv, PhaseInv, Outside
    <3>2. my' = [my EXCEPT ![c] = -1] /\ my \in [Clients -> Ticket \union {-1}]
        BY <1>1 DEF Begin, TypeOK
    <3> QED
        BY <3>1, <3>2
  <2>3. /\ UNCHANGED <<ticket, current, window, window_start, audience, handover, seen>>
        /\ \A d \in Clients \ {c} :
             pc'[d] = pc[d] /\ kind'[d] = kind[d] /\ acquired'[d] = acquired[d]
      BY <1>1, SMT DEF Begin, Goto, TypeOK
  <2>4. QueueOK(q)
      BY <2>1 DEF WindowInv
  <2> QED
      BY <2>2, <2>3, <2>4, OutsideStep
<1>2. ASSUME NEW c \in Clients, Step(c), NEW q \in Kind, started'[Other(q)] = 0
      PROVE  QueueOK(q)'
  <2>1. started' = started /\ pc[c] # "idle"
      BY <1>2 DEF Step, Overwrite, TakeTicket, Wait, CheckKey, CheckWindow, GetCombiningKey,
         GetCombiningValue, Remote, Release, StartWindow, SizeOwn, SizeOther, SizeOther2,
         SetHandover, LockQueue, LeaveWindow, Pass, history
  <2>2. started[Other(q)] = 0 /\ QueueOK(q)
      BY <1>2, <2>1 DEF WindowInv
  <2>3. kind[c] = q
      BY <1>0, <2>1, <2>2, OnlyOne
  <2> QED
      BY <1>0, <1>2, <2>2, <2>3, QueueStep
<1>3. ASSUME UNCHANGED vars, NEW q \in Kind, started'[Other(q)] = 0
      PROVE  QueueOK(q)'
  <2>1. UNCHANGED <<kind, my, ticket, current, window, window_start, audience, handover, seen,
                    pc, acquired, started>>
      BY <1>3 DEF vars, node, locals, history
  <2>2. QueueOK(q)
      BY <1>3, <2>1 DEF WindowInv
  <2>3. /\ Queue(q)' = Queue(q) /\ Length(q)' = Length(q)
        /\ \A d : Place(d)' = Place(d) /\ Found(d)' = Found(d)
      BY <2>1, QueuesStay DEF Found, Diff
  <2>4. Heads(q)' = Heads(q) /\ \A d : Opens(d) => Opens(d)'
      BY <2>1, <2>3 DEF Heads, Opens
  <2>5. /\ LeftOK(q) => LeftOK(q)'
        /\ \A d : FoundOK(d, q) => FoundOK(d, q)'
      BY <2>1, <2>3 DEF LeftOK, FoundOK
  <2>6. \A d : HeadOK(d, q) => HeadOK(d, q)'
      BY <2>1, <2>5 DEF HeadOK
  <2> QED
      BY <2>1, <2>2, <2>3, <2>4, <2>6 DEF QueueOK
<1> QED
    BY <1>0, <1>1, <1>2, <1>3 DEF Next, Finished, WindowInv

IInv == TypeOK /\ TicketInv /\ WindowInv

LEMMA Invariance ==
    ASSUME IsFiniteSet(Clients), Cardinality(Clients) < TicketMod
    PROVE  Spec => []IInv
<1>1. Init => IInv
    BY TypeInit, TicketInit, WindowInit DEF IInv
<1>2. IInv /\ [Next]_vars => IInv'
    BY TypeStep, TicketStep, WindowStep DEF IInv
<1> QED
    BY <1>1, <1>2, PTL DEF Spec

\* When operations are of one kind, one queue has been used at most, and what
\* QueueOK says of both holds.
LEMMA OneKindIs ==
    ASSUME IInv, OneKind
    PROVE  \E q \in Kind : /\ QueueOK(q) /\ \A p \in Kind \ {q} : window[p] = 0 /\ Queue(p) = {}
<1>1. PICK p \in Kind : started[p] = 0
    BY DEF OneKind
<1>2. PICK q \in Kind : p = Other(q) /\ \A r \in Kind \ {q} : r = p
    BY DEF Other, Kind
<1>3. QueueOK(q) /\ window[p] = 0 /\ Queue(p) = {}
    BY <1>1, <1>2, UnusedQueue DEF IInv, WindowInv, UnusedOK
<1> QED
    BY <1>2, <1>3

\* With searches only or inserts only, what a winner did is handed over to
\* clients that were in its queue when it released, and to no later one.
THEOREM LosersWereWaiting ==
    ASSUME IsFiniteSet(Clients), Cardinality(Clients) < TicketMod
    PROVE  Spec => []HandoverToWaiters
<1>1. IInv => HandoverToWaiters
  <2> SUFFICES ASSUME IInv, OneKind, NEW c \in Clients, acquired[c] = "loser", pc[c] = "release"
               PROVE  c \in audience[kind[c]]
      BY DEF HandoverToWaiters
  <2>1. PICK q \in Kind : QueueOK(q) /\ \A p \in Kind \ {q} : Queue(p) = {}
      BY OneKindIs
  <2>2. my[c] # -1 /\ kind[c] \in Kind
      BY DEF IInv, TicketInv, PhaseInv, Outside, AtTree, TypeOK
  <2>3. c \in Heads(q) /\ kind[c] = q
      BY <2>1, <2>2 DEF Heads, Queue
  <2> QED
      BY <2>1, <2>3 DEF QueueOK, HeadOK
<1> QED
    BY <1>1, Invariance, PTL

\* With searches only or inserts only, when nobody is queued both windows are
\* empty and window_start is false: the next winner can open one.
THEOREM WindowsClose ==
    ASSUME IsFiniteSet(Clients), Cardinality(Clients) < TicketMod
    PROVE  Spec => []WindowCloses
<1>1. IInv => WindowCloses
  <2> SUFFICES ASSUME IInv, OneKind, \A q \in Kind : Queue(q) = {}
               PROVE  ~window_start /\ \A q \in Kind : window[q] = 0
      BY DEF WindowCloses
  <2>1. PICK q \in Kind : QueueOK(q) /\ \A p \in Kind \ {q} : window[p] = 0
      BY OneKindIs
  <2>2. Length(q) = 0 /\ Heads(q) = {}
    <3>1. Cardinality({}) = 0
        BY FS_EmptySet
    <3> QED
        BY <3>1 DEF IInv, TicketInv, OrderInv, Length, Heads
  <2>3. window[q] = 0
      BY <2>1, <2>2, Numbers, SMT DEF QueueOK, IInv
  <2> QED
      BY <2>1, <2>2, <2>3 DEF QueueOK
<1> QED
    BY <1>1, Invariance, PTL

\* With searches only or inserts only, a window counts clients that are
\* queued: it does not wrap below zero and does not exceed the queue.
THEOREM WindowsFitTheQueue ==
    ASSUME IsFiniteSet(Clients), Cardinality(Clients) < TicketMod
    PROVE  Spec => []WindowWithinQueue
<1>1. IInv => WindowWithinQueue
  <2> SUFFICES ASSUME IInv, OneKind, NEW p \in Kind
               PROVE  window[p] <= Cardinality(Queue(p))
      BY DEF WindowWithinQueue
  <2>1. PICK q \in Kind : QueueOK(q) /\ \A r \in Kind \ {q} : window[r] = 0 /\ Queue(r) = {}
      BY OneKindIs
  <2>2. Length(p) = Cardinality(Queue(p)) /\ Length(p) \in Nat
      BY Numbers DEF IInv, TicketInv, OrderInv, Length
  <2>3. CASE p = q
      BY <2>1, <2>2, <2>3 DEF QueueOK
  <2>4. CASE p # q
      BY <2>1, <2>2, <2>4, SMT
  <2> QED
      BY <2>3, <2>4
<1> QED
    BY <1>1, Invariance, PTL
=============================================================================
