------------------------------ MODULE RpcLines ------------------------------
(***************************************************************************)
(* The connections of Rpc and the line of threads at a directory, for any  *)
(* number of buffers and batches: what each operation of a connection does *)
(* to the line, that a line is no longer than there are threads, and that  *)
(* a receive is posted and a send buffer free when one is needed.          *)
(***************************************************************************)
EXTENDS Rpc, AllocatorProofs, FiniteSetTheorems

\* A thread has at most one request outstanding, and a directory always has
\* this many receives posted or holding an unread message: all but the batch
\* that is being read, and one.
EnoughReceives ==
    /\ IsFiniteSet(Threads)
    /\ Cardinality(Threads) <= DIR_MESSAGE_NR - DIR_MESSAGE_NR \div kBatchCount + 1

-----------------------------------------------------------------------------
(* A connection                                                              *)

Fields == {"nr", "messagePool", "sendPool", "recvs", "curMessage", "cq", "hand",
           "curSend", "sendCounter", "out", "sq", "send_cq"}

\* x modulo nr for an x that has gone round at most once.
Wrap(x, nr) == IF x < nr THEN x ELSE x - nr

subNR(nr) == nr \div kBatchCount

\* The buffers go round: the one in the hand, the unread ones, the posted ones
\* and those of the batch that is being read.
RecvOK(c, nr) ==
    /\ c.nr = nr /\ DOMAIN c.messagePool = 0 .. nr - 1
    /\ c.curMessage \in 0 .. nr - 1 /\ c.cq \in 0 .. nr
    /\ c.recvs \in Seq(Nat)
    /\ Len(c.recvs) + c.cq + (c.curMessage % subNR(nr)) = nr
    /\ \A i \in 1 .. Len(c.recvs) : c.recvs[i] = Wrap(c.curMessage + c.cq + i - 1, nr)
    /\ c.hand \in {None, Wrap(c.curMessage + nr - 1, nr)}

\* The sends of a connection, posted or prepared, the oldest first.
Sends(c) == Len(c.sq) + Len(c.out)
SendAt(c, i) == IF i <= Len(c.sq) THEN c.sq[i] ELSE c.out[1]

\* Their buffers are the last ones taken.
SendOK(c, nr, D) ==
    /\ c.nr = nr /\ DOMAIN c.sendPool = 0 .. nr - 1 /\ c.curSend \in 0 .. nr - 1
    /\ c.sq \in Seq([slot : Nat, dest : D, signaled : BOOLEAN])
    /\ c.out \in Seq([slot : Nat, dest : D]) /\ Len(c.out) <= 1
    /\ Sends(c) <= nr
    /\ \A i \in 1 .. Sends(c) : SendAt(c, i).slot = Wrap(c.curSend + nr - Sends(c) + i - 1, nr)

ConnOK(c, nr, D) == DOMAIN c = Fields /\ RecvOK(c, nr) /\ SendOK(c, nr, D)

-----------------------------------------------------------------------------
(* The line of a directory: the threads it has a message of or for, the      *)
(* oldest first.  They are the destinations of its sends, the thread whose   *)
(* message it is processing and those of the messages it has not polled.     *)

Busy(c) == IF c.hand = None THEN 0 ELSE 1
InLine(c) == Len(c.sq) + Busy(c) + c.cq
At(c, i) ==
    CASE i <= Len(c.sq) -> c.sq[i].dest
      [] Len(c.sq) < i /\ i <= Len(c.sq) + Busy(c) ->
           IF c.out = <<>> THEN Received(c) ELSE c.out[1].dest
      [] OTHER -> c.messagePool[Wrap(c.curMessage + (i - (Len(c.sq) + Busy(c) + 1)), c.nr)]

\* What the i-th send of a connection carries.
Payload(c, i) == c.sendPool[SendAt(c, i).slot]

\* A thread's connection has nothing to send and nothing to poll.
Quiet(c) == c.sq = <<>> /\ c.out = <<>> /\ c.cq = 0

\* Thread t waits for directory d, and its connection has done its part.
Queues(t, d) == t \in Threads /\ waiting[t] # 0 /\ target[t] = d /\ Quiet(tcon[t])

\* A thread stands in the line of its target once.  The front of the line has
\* been answered and the answer is in the send buffer, the rest has not.
LineOK(c, d) ==
    /\ c.out # <<>> => c.hand # None
    /\ \A i \in 1 .. InLine(c) :
         /\ Queues(At(c, i), d)
         /\ i <= Sends(c) => replies[At(c, i)] = {Payload(c, i)}
         /\ i > Sends(c) => At(c, i) \in requests[d]
    /\ \A i, j \in 1 .. InLine(c) : At(c, i) = At(c, j) => i = j

Asks(c, t) ==
    /\ waiting[t] # 0 /\ c.cq = 0 /\ Sends(c) = 1 /\ t \in requests[target[t]]
    /\ SendAt(c, 1).dest = target[t] /\ Payload(c, 1) = t
IsAnswered(c, t) ==
    /\ waiting[t] # 0 /\ c.cq = 1 /\ c.sq = <<>> /\ c.out = <<>>
    /\ replies[t] = {c.messagePool[c.curMessage]}

DirOK(d) == ConnOK(dcon[d], DIR_MESSAGE_NR, Threads) /\ LineOK(dcon[d], d)
ThreadOK(t) ==
    /\ ConnOK(tcon[t], APP_MESSAGE_NR, Dirs) /\ tcon[t].hand = None
    /\ Quiet(tcon[t]) \/ Asks(tcon[t], t) \/ IsAnswered(tcon[t], t)

\* A thread that waits has something to send or to poll, or stands in the line.
Members(c) == {At(c, i) : i \in 1 .. InLine(c)}
Placed(t) == waiting[t] # 0 /\ Quiet(tcon[t]) => t \in Members(dcon[target[t]])

RingInv ==
    /\ DOMAIN dcon = Dirs /\ DOMAIN tcon = Threads
    /\ \A d \in Dirs : DirOK(d)
    /\ \A t \in Threads : ThreadOK(t) /\ Placed(t)

-----------------------------------------------------------------------------
(* Going round                                                               *)

\* Zenon proves the leaves that need no arithmetic; the others cite SMT.
USE Zenon

LEMMA Division ==
    ASSUME NEW n \in Nat \ {0}, NEW x \in Nat
    PROVE  \E q \in Nat, r \in 0 .. n - 1 : q = x \div n /\ r = x % n /\ x = q * n + r
BY SMT

LEMMA DivMod ==
    ASSUME NEW n \in Nat \ {0}, NEW x \in Nat, NEW q \in Nat, NEW r \in 0 .. n - 1,
           x = q * n + r
    PROVE  x \div n = q /\ x % n = r
<1>1. PICK k \in Nat, m \in 0 .. n - 1 : k = x \div n /\ m = x % n /\ x = k * n + m
    BY Division
<1>2. k = q
  <2>1. \A a, b \in Nat : a < b => a * n + n <= b * n
    <3> SUFFICES ASSUME NEW a \in Nat, NEW b \in Nat, a < b PROVE a * n + n <= b * n
        OBVIOUS
    <3>1. PICK e \in Nat : b = a + 1 + e
        BY SMT
    <3>2. e * n \in Nat /\ a * n \in Nat /\ b * n = a * n + n + e * n
        BY <3>1, SMT
    <3> QED
        BY <3>2, SMT
  <2>2. k * n \in Nat /\ q * n \in Nat
      BY SMT
  <2>3. ~(k < q)
    <3>1. SUFFICES ASSUME k < q PROVE FALSE
        OBVIOUS
    <3>2. k * n + n <= q * n
        BY <2>1, <3>1
    <3> QED
        BY <1>1, <2>2, <3>2, SMT
  <2>4. ~(q < k)
    <3>1. SUFFICES ASSUME q < k PROVE FALSE
        OBVIOUS
    <3>2. q * n + n <= k * n
        BY <2>1, <3>1
    <3> QED
        BY <1>1, <2>2, <3>2, SMT
  <2> QED
      BY <2>3, <2>4, SMT
<1> QED
    BY <1>1, <1>2, SMT

LEMMA ModWraps ==
    ASSUME NEW n \in Nat \ {0}, NEW x \in Nat, x < n + n
    PROVE  x % n = Wrap(x, n)
<1>1. CASE x < n
    BY <1>1, DivMod, SMT DEF Wrap
<1>2. CASE ~(x < n)
  <2>1. x = 1 * n + (x - n) /\ x - n \in 0 .. n - 1
      BY <1>2, SMT
  <2>2. x % n = x - n
      BY <2>1, DivMod, SMT
  <2> QED
      BY <1>2, <2>2 DEF Wrap
<1> QED
    BY <1>1, <1>2

LEMMA RingSizes ==
    ASSUME NEW nr \in {DIR_MESSAGE_NR, APP_MESSAGE_NR}, NEW s, s = subNR(nr)
    PROVE  /\ nr \in Nat \ {0} /\ kBatchCount \in Nat \ {0}
           /\ s \in Nat \ {0} /\ s <= nr /\ nr = kBatchCount * s
<1>1. nr \in Nat \ {0} /\ kBatchCount \in Nat \ {0} /\ nr % kBatchCount = 0
    BY RingAssumption
<1>2. s \in Nat /\ nr = kBatchCount * s
    BY <1>1, SMT DEF subNR
<1>3. s # 0
    BY <1>1, <1>2, SMT
<1>4. PICK e \in Nat : kBatchCount = 1 + e
    BY <1>1, SMT
<1>5. e * s \in Nat /\ nr = s + e * s
    BY <1>2, <1>4, SMT
<1>6. s <= nr
    BY <1>2, <1>5, SMT
<1> QED
    BY <1>1, <1>2, <1>3, <1>6

\* getMessage moves on to the next buffer.  When that is the first of a batch,
\* the receives it posts are those of the batch before, in order.
LEMMA NextMessage ==
    ASSUME NEW nr \in {DIR_MESSAGE_NR, APP_MESSAGE_NR}, NEW s, s = subNR(nr),
           NEW cur \in 0 .. nr - 1, NEW next, next = Wrap(cur + 1, nr)
    PROVE  /\ next \in 0 .. nr - 1
           /\ cur % s \in 0 .. s - 1
           /\ next % s # 0 => next % s = (cur % s) + 1
           /\ next % s = 0 =>
                /\ cur % s = s - 1
                /\ \A i \in 1 .. s :
                     ((next \div s - 1 + kBatchCount) % kBatchCount) * s + i - 1
                         = Wrap(next + nr - s + i - 1, nr)
<1>0. nr \in Nat \ {0} /\ kBatchCount \in Nat \ {0} /\ s \in Nat \ {0} /\ s <= nr
    BY RingSizes
<1>1. nr = kBatchCount * s
    BY RingSizes
<1>2. next \in 0 .. nr - 1
    BY <1>0, SMT DEF Wrap
<1>3. PICK q \in Nat, r \in 0 .. s - 1 : q = cur \div s /\ r = cur % s /\ cur = q * s + r
  <2>1. cur \in Nat
      BY <1>0, SMT
  <2> QED
      BY <1>0, <2>1, Division
<1>4. q < kBatchCount
  <2>1. SUFFICES ASSUME ~(q < kBatchCount) PROVE FALSE
      OBVIOUS
  <2>2. PICK e \in Nat : q = kBatchCount + e
      BY <1>0, <2>1, SMT
  <2>3. e * s \in Nat /\ q * s = kBatchCount * s + e * s
      BY <1>0, <2>2, SMT
  <2> QED
      BY <1>0, <1>1, <1>3, <2>3, SMT
<1>5. PICK e \in Nat : kBatchCount = q + 1 + e
    BY <1>0, <1>4, SMT
<1>6. PICK u \in Nat, w \in Nat : u = q * s /\ w = e * s
    BY <1>0, SMT
<1>7. nr = u + s + w
  <2>1. kBatchCount * s = q * s + s + e * s
      BY <1>0, <1>5, SMT
  <2> QED
      BY <1>0, <1>1, <1>6, <2>1
<1>8. cur = u + r
    BY <1>3, <1>6
<1>9. CASE r < s - 1
  <2>1. next = u + (r + 1) /\ r + 1 \in 0 .. s - 1 /\ next \in Nat
      BY <1>0, <1>7, <1>8, <1>9, SMT DEF Wrap
  <2>2. next % s = r + 1
      BY <1>0, <1>6, <2>1, DivMod
  <2>3. r + 1 # 0
      BY SMT
  <2> QED
      BY <1>2, <1>3, <2>2, <2>3
<1>10. CASE r = s - 1 /\ e # 0
  <2>1. s <= w
    <3>1. PICK f \in Nat : e = 1 + f
        BY <1>10, SMT
    <3>2. f * s \in Nat /\ e * s = s + f * s
        BY <1>0, <3>1, SMT
    <3> QED
        BY <1>0, <1>6, <3>2, SMT
  <2>2. next = u + s
    <3>1. cur + 1 = u + s
        BY <1>0, <1>8, <1>10, SMT
    <3>2. u + s < nr
        BY <1>0, <1>7, <2>1, SMT
    <3> QED
        BY <3>1, <3>2 DEF Wrap
  <2>3. next % s = 0 /\ next \div s = q + 1
    <3>1. (q + 1) * s + 0 = q * s + s /\ q + 1 \in Nat /\ 0 \in 0 .. s - 1
        BY <1>0, SMT
    <3>2. next = (q + 1) * s + 0
        BY <1>0, <1>6, <2>2, <3>1, SMT
    <3>3. PICK p \in Nat, z \in 0 .. s - 1 : p = q + 1 /\ z = 0
        BY <3>1
    <3>4. next = p * s + z /\ next \in Nat
        BY <1>0, <1>2, <3>2, <3>3, SMT
    <3>5. next \div s = p /\ next % s = z
        BY <1>0, <3>4, DivMod
    <3> QED
        BY <3>3, <3>5
  <2>4. (next \div s - 1 + kBatchCount) % kBatchCount = q
    <3>1. next \div s - 1 + kBatchCount = q + kBatchCount
        BY <1>0, <2>3, SMT
    <3>2. (q + kBatchCount) % kBatchCount = Wrap(q + kBatchCount, kBatchCount)
      <4>1. q + kBatchCount \in Nat /\ q + kBatchCount < kBatchCount + kBatchCount
          BY <1>0, <1>4, SMT
      <4> QED
          BY <1>0, <4>1, ModWraps
    <3>3. Wrap(q + kBatchCount, kBatchCount) = q
        BY <1>0, SMT DEF Wrap
    <3> QED
        BY <3>1, <3>2, <3>3
  <2>5. \A i \in 1 .. s : u + i - 1 = Wrap(next + nr - s + i - 1, nr)
      BY <1>0, <1>2, <1>7, <2>1, <2>2, SMT DEF Wrap
  <2> QED
      BY <1>2, <1>3, <1>6, <1>10, <2>3, <2>4, <2>5
<1>11. CASE r = s - 1 /\ e = 0
  <2>1. w = 0
      BY <1>0, <1>6, <1>11, SMT
  <2>2. next = 0
    <3>1. cur + 1 = u + s /\ nr = u + s
      <4>1. cur + 1 = u + s
          BY <1>0, <1>8, <1>11, SMT
      <4>2. nr = u + s
          BY <1>0, <1>7, <2>1, SMT
      <4> QED
          BY <4>1, <4>2
    <3> QED
        BY <1>0, <3>1, SMT DEF Wrap
  <2>3. next % s = 0 /\ next \div s = 0
    <3>1. 0 * s + 0 = 0 /\ 0 \in Nat /\ 0 \in 0 .. s - 1
        BY <1>0, SMT
    <3> QED
        BY <1>0, <2>2, <3>1, DivMod, SMT
  <2>4. (next \div s - 1 + kBatchCount) % kBatchCount = q
    <3>1. next \div s - 1 + kBatchCount = q
        BY <1>0, <1>5, <1>11, <2>3, SMT
    <3>2. q % kBatchCount = Wrap(q, kBatchCount)
      <4>1. q < kBatchCount + kBatchCount
          BY <1>0, <1>4, SMT
      <4> QED
          BY <1>0, <4>1, ModWraps
    <3> QED
        BY <1>4, <3>1, <3>2 DEF Wrap
  <2>5. \A i \in 1 .. s : u + i - 1 = Wrap(next + nr - s + i - 1, nr)
      BY <1>0, <1>7, <2>1, <2>2, SMT DEF Wrap
  <2> QED
      BY <1>2, <1>3, <1>6, <1>11, <2>3, <2>4, <2>5
<1>12. r < s - 1 \/ r = s - 1
    BY <1>0, SMT
<1> QED
    BY <1>9, <1>10, <1>11, <1>12

-----------------------------------------------------------------------------
(* The operations of a connection                                            *)

\* The half of a connection that receives, or the half that sends, is left alone.
KeepsRecv(m, c) ==
    /\ m.nr = c.nr /\ m.messagePool = c.messagePool /\ m.recvs = c.recvs
    /\ m.curMessage = c.curMessage /\ m.cq = c.cq /\ m.hand = c.hand
KeepsSend(m, c) ==
    /\ m.nr = c.nr /\ m.sendPool = c.sendPool /\ m.curSend = c.curSend
    /\ m.sq = c.sq /\ m.out = c.out

LEMMA RecvKept ==
    ASSUME NEW c, NEW m, NEW nr, RecvOK(c, nr), KeepsRecv(m, c)
    PROVE  RecvOK(m, nr)
BY DEF RecvOK, KeepsRecv

LEMMA SendKept ==
    ASSUME NEW c, NEW m, NEW nr, NEW D, SendOK(c, nr, D), KeepsSend(m, c)
    PROVE  SendOK(m, nr, D)
BY DEF SendOK, KeepsSend, Sends, SendAt

\* The oldest unread buffer is taken in the hand.
Polled(m, c) ==
    /\ KeepsSend(m, c) /\ m.messagePool = c.messagePool
    /\ m.hand = c.curMessage /\ m.cq = c.cq - 1 /\ m.curMessage = Wrap(c.curMessage + 1, c.nr)

LEMMA GetMessageIs ==
    ASSUME NEW nr \in {DIR_MESSAGE_NR, APP_MESSAGE_NR}, NEW D, NEW c, ConnOK(c, nr, D),
           c.cq > 0, NEW m, m = getMessage(c)
    PROVE  ConnOK(m, nr, D) /\ Polled(m, c)
<1>0. DOMAIN c = Fields /\ RecvOK(c, nr) /\ SendOK(c, nr, D)
    BY DEF ConnOK
<1>1. PICK s : s = subNR(nr)
    OBVIOUS
<1>2. nr \in Nat \ {0} /\ s \in Nat \ {0} /\ s <= nr
    BY <1>1, RingSizes
<1>3. c.nr = nr /\ c.curMessage \in 0 .. nr - 1
    BY <1>0 DEF RecvOK
<1>4. PICK cur, next : cur = c.curMessage /\ next = Wrap(cur + 1, nr)
    OBVIOUS
<1>5. (cur + 1) % nr = next
  <2>1. cur + 1 \in Nat /\ cur + 1 < nr + nr
      BY <1>2, <1>3, <1>4, SMT
  <2> QED
      BY <1>2, <1>4, <2>1, ModWraps
<1>6. /\ next \in 0 .. nr - 1 /\ cur % s \in 0 .. s - 1
      /\ next % s # 0 => next % s = (cur % s) + 1
      /\ next % s = 0 =>
           /\ cur % s = s - 1
           /\ \A i \in 1 .. s : ((next \div s - 1 + kBatchCount) % kBatchCount) * s + i - 1
                                  = Wrap(next + nr - s + i - 1, nr)
  <2>1. cur \in 0 .. nr - 1 /\ next = Wrap(cur + 1, nr)
      BY <1>3, <1>4
  <2> QED
      BY <1>1, <2>1, NextMessage, SMT
<1>60. PICK cm \in 0 .. s - 1 : cm = cur % s
    BY <1>6
<1>61. PICK nm \in Nat : nm = next % s
    BY <1>2, <1>6, <1>60, SMT
<1>7. PICK b : b = Batch(c, next)
    OBVIOUS
<1>8. /\ DOMAIN m = Fields /\ KeepsSend(m, c) /\ m.nr = c.nr
      /\ m.messagePool = c.messagePool /\ m.hand = cur /\ m.cq = c.cq - 1
      /\ m.curMessage = next
      /\ m.recvs = IF next % s = 0 THEN c.recvs \o b ELSE c.recvs
    BY <1>0, <1>1, <1>3, <1>4, <1>5, <1>7, SMT DEF getMessage, Fields, KeepsSend, subNR
<1>9. PICK l : l = Len(c.recvs)
    OBVIOUS
<1>10. /\ c.recvs \in Seq(Nat) /\ l \in Nat /\ l + c.cq + (cur % s) = nr /\ c.cq \in 0 .. nr
       /\ \A i \in 1 .. l : c.recvs[i] = Wrap(cur + c.cq + i - 1, nr)
       /\ l + c.cq + cm = nr
  <2>1. c.recvs \in Seq(Nat)
      BY <1>0 DEF RecvOK
  <2>2. Len(c.recvs) \in Nat
      BY <2>1, SMT
  <2> QED
    <3>1. Len(c.recvs) + c.cq + (c.curMessage % subNR(nr)) = nr
        BY <1>0 DEF RecvOK
    <3>2. l + c.cq + (cur % s) = nr
        BY <1>1, <1>4, <1>9, <3>1
    <3>3. l + c.cq + cm = nr
        BY <1>60, <3>2
    <3> QED
        BY <1>0, <1>4, <1>9, <2>1, <2>2, <3>2, <3>3 DEF RecvOK
<1>11. m.hand \in {None, Wrap(m.curMessage + nr - 1, nr)}
  <2>1. cur = Wrap(next + nr - 1, nr)
      BY <1>2, <1>3, <1>4, SMT DEF Wrap
  <2> QED
      BY <1>8, <2>1
<1>12. \A i \in 1 .. l : c.recvs[i] = Wrap(next + (c.cq - 1) + i - 1, nr)
  <2>1. ASSUME NEW i \in 1 .. l PROVE Wrap(cur + c.cq + i - 1, nr) = Wrap(next + (c.cq - 1) + i - 1, nr)
    <3>1. PICK k \in Nat : k = c.cq /\ k # 0
        BY <1>10, SMT
    <3>2. l \in Nat /\ l + k + cm = nr /\ cur \in 0 .. nr - 1
        BY <1>3, <1>4, <1>10, <3>1
    <3>3. Wrap(cur + k + i - 1, nr) = Wrap(next + (k - 1) + i - 1, nr)
        BY <1>2, <1>4, <3>1, <3>2, SMT DEF Wrap
    <3> QED
        BY <3>1, <3>3
  <2> QED
      BY <1>10, <2>1
<1>13. /\ m.recvs \in Seq(Nat)
       /\ Len(m.recvs) + m.cq + (next % s) = nr
       /\ \A i \in 1 .. Len(m.recvs) : m.recvs[i] = Wrap(next + m.cq + i - 1, nr)
  <2>1. CASE next % s # 0
    <3>1. m.recvs = c.recvs
        BY <1>8, <2>1
    <3>2. l + (c.cq - 1) + (next % s) = nr
      <4>1. nm = cm + 1
          BY <1>6, <1>60, <1>61, <2>1
      <4>2. l + (c.cq - 1) + nm = nr
        <5>1. PICK k \in Nat : k = c.cq /\ k # 0
            BY <1>10, SMT
        <5>2. l \in Nat /\ l + k + cm = nr
            BY <1>10, <5>1
        <5>3. l + (k - 1) + nm = nr
            BY <1>2, <4>1, <5>1, <5>2, SMT
        <5> QED
            BY <5>1, <5>3
      <4> QED
          BY <1>61, <4>2
    <3> QED
        BY <1>8, <1>9, <1>10, <1>12, <3>1, <3>2
  <2>2. CASE next % s = 0
    <3>1. b = [i \in 1 .. s |-> ((next \div s - 1 + kBatchCount) % kBatchCount) * s + i - 1]
        BY <1>1, <1>3, <1>7 DEF Batch, subNR
    <3>2. \A i \in 1 .. s : b[i] = Wrap(next + nr - s + i - 1, nr)
        BY <1>6, <2>2, <3>1
    <3>3. b \in [1 .. s -> Nat]
      <4>1. \A i \in 1 .. s : Wrap(next + nr - s + i - 1, nr) \in Nat
          BY <1>2, <1>6, SMT DEF Wrap
      <4> QED
          BY <3>1, <3>2, <4>1
    <3>4. b \in Seq(Nat) /\ Len(b) = s
        BY <1>2, <3>3, SMT
    <3>5. m.recvs = c.recvs \o b
        BY <1>8, <2>2
    <3>6. m.recvs \in Seq(Nat) /\ Len(m.recvs) = l + s
      <4>1. c.recvs \in Seq(Nat) /\ b \in Seq(Nat)
          BY <1>10, <3>4
      <4>2. c.recvs \o b \in Seq(Nat) /\ Len(c.recvs \o b) = Len(c.recvs) + Len(b)
          BY <4>1, SMT
      <4> QED
          BY <1>9, <3>4, <3>5, <4>2
    <3>7. \A j \in 1 .. l + s : m.recvs[j] = IF j <= l THEN c.recvs[j] ELSE b[j - l]
      <4>1. \A j \in 1 .. Len(c.recvs) + Len(b) :
              (c.recvs \o b)[j] = IF j <= Len(c.recvs) THEN c.recvs[j] ELSE b[j - Len(c.recvs)]
          BY <1>10, <3>4, ConcatIs
      <4> QED
          BY <1>9, <3>4, <3>5, <4>1
    <3>70. PICK k \in Nat : k = c.cq /\ k # 0
        BY <1>10, SMT
    <3>8. l + k + (s - 1) = nr
      <4>1. cm = s - 1
          BY <1>6, <1>60, <2>2
      <4> QED
          BY <1>10, <3>70, <4>1
    <3>9. ASSUME NEW j \in 1 .. l + s
          PROVE  m.recvs[j] = Wrap(next + (c.cq - 1) + j - 1, nr)
      <4>1. CASE j <= l
        <5>1. j \in 1 .. l
            BY <1>10, <4>1, SMT
        <5> QED
            BY <1>12, <3>7, <4>1, <5>1
      <4>2. CASE ~(j <= l)
        <5>1. j - l \in 1 .. s
            BY <1>2, <1>10, <4>2, SMT
        <5>2. next + nr - s + (j - l) - 1 = next + (k - 1) + j - 1
          <6>1. next \in Nat /\ l \in Nat
              BY <1>2, <1>6, <1>10, SMT
          <6> QED
              BY <1>2, <3>8, <6>1, SMT
        <5> QED
            BY <3>2, <3>7, <3>70, <4>2, <5>1, <5>2
      <4> QED
          BY <4>1, <4>2
    <3>10. (l + s) + (c.cq - 1) + (next % s) = nr
      <4>1. l \in Nat
          BY <1>10
      <4>2. (l + s) + (k - 1) + 0 = nr
          BY <1>2, <3>8, <4>1, SMT
      <4> QED
          BY <2>2, <3>70, <4>2
    <3> QED
        BY <1>8, <3>6, <3>9, <3>10
  <2> QED
      BY <2>1, <2>2
<1>14. m.cq \in 0 .. nr
    BY <1>2, <1>8, <1>10, SMT
<1>15. RecvOK(m, nr)
    BY <1>0, <1>1, <1>3, <1>6, <1>8, <1>11, <1>13, <1>14 DEF RecvOK
<1> QED
    BY <1>0, <1>3, <1>4, <1>8, <1>15, SendKept DEF ConnOK, Polled

\* The hand is emptied.
Dropped(m, c) ==
    /\ KeepsSend(m, c) /\ m.messagePool = c.messagePool
    /\ m.hand = None /\ m.cq = c.cq /\ m.curMessage = c.curMessage

LEMMA HandDropped ==
    ASSUME NEW nr \in {DIR_MESSAGE_NR, APP_MESSAGE_NR}, NEW D, NEW c, ConnOK(c, nr, D),
           NEW m, m = [c EXCEPT !.hand = None]
    PROVE  ConnOK(m, nr, D) /\ Dropped(m, c)
<1>1. DOMAIN c = Fields /\ RecvOK(c, nr) /\ SendOK(c, nr, D)
    BY DEF ConnOK
<1>2. /\ DOMAIN m = Fields /\ KeepsSend(m, c) /\ m.hand = None /\ m.nr = c.nr
      /\ m.messagePool = c.messagePool /\ m.curMessage = c.curMessage /\ m.cq = c.cq
      /\ m.recvs = c.recvs
    BY <1>1, SMT DEF Fields, KeepsSend
<1>3. RecvOK(m, nr)
    BY <1>1, <1>2 DEF RecvOK
<1> QED
    BY <1>1, <1>2, <1>3, SendKept DEF ConnOK, Dropped

\* A datagram for which a receive is posted goes behind the unread ones.
Arrived(m, c, v) ==
    /\ KeepsSend(m, c)
    /\ m.messagePool = [c.messagePool EXCEPT ![Wrap(c.curMessage + c.cq, c.nr)] = v]
    /\ m.curMessage = c.curMessage /\ m.hand = c.hand /\ m.cq = c.cq + 1

LEMMA DeliveredIs ==
    ASSUME NEW nr \in {DIR_MESSAGE_NR, APP_MESSAGE_NR}, NEW D, NEW c, ConnOK(c, nr, D),
           c.recvs # <<>>, NEW v, NEW m, m = Delivered(c, v)
    PROVE  ConnOK(m, nr, D) /\ Arrived(m, c, v)
<1>1. DOMAIN c = Fields /\ RecvOK(c, nr) /\ SendOK(c, nr, D)
    BY DEF ConnOK
<1>2. nr \in Nat \ {0}
    BY RingSizes
<1>3. /\ c.nr = nr /\ DOMAIN c.messagePool = 0 .. nr - 1 /\ c.curMessage \in 0 .. nr - 1
      /\ c.cq \in 0 .. nr /\ c.recvs \in Seq(Nat)
      /\ Len(c.recvs) + c.cq + (c.curMessage % subNR(nr)) = nr
      /\ \A i \in 1 .. Len(c.recvs) : c.recvs[i] = Wrap(c.curMessage + c.cq + i - 1, nr)
      /\ c.hand \in {None, Wrap(c.curMessage + nr - 1, nr)}
    BY <1>1 DEF RecvOK
<1>4. /\ DOMAIN m = Fields /\ KeepsSend(m, c) /\ m.nr = c.nr
      /\ m.messagePool = [c.messagePool EXCEPT ![Head(c.recvs)] = v]
      /\ m.curMessage = c.curMessage /\ m.hand = c.hand /\ m.cq = c.cq + 1
      /\ m.recvs = Tail(c.recvs)
    BY <1>1, SMT DEF Delivered, Fields, KeepsSend
<1>5. PICK l : l = Len(c.recvs)
    OBVIOUS
<1>6. /\ l \in Nat \ {0} /\ Head(c.recvs) = c.recvs[1] /\ Tail(c.recvs) \in Seq(Nat)
      /\ Len(Tail(c.recvs)) = l - 1
      /\ \A i \in 1 .. l - 1 : Tail(c.recvs)[i] = c.recvs[i + 1]
  <2>1. c.recvs \in Seq(Nat)
      BY <1>3
  <2> QED
      BY <1>5, <2>1, SMT
<1>7. Head(c.recvs) = Wrap(c.curMessage + c.cq, nr)
  <2>1. 1 \in 1 .. l /\ c.curMessage + c.cq + 1 - 1 = c.curMessage + c.cq
      BY <1>2, <1>3, <1>6, SMT
  <2>2. c.recvs[1] = Wrap(c.curMessage + c.cq + 1 - 1, nr)
      BY <1>3, <1>5, <2>1
  <2> QED
      BY <1>6, <2>1, <2>2
<1>8. PICK r \in Nat : r = c.curMessage % subNR(nr)
  <2>1. PICK s : s = subNR(nr)
      OBVIOUS
  <2>2. s \in Nat \ {0} /\ c.curMessage \in Nat
      BY <1>2, <1>3, <2>1, RingSizes, SMT
  <2>3. c.curMessage % s \in Nat
      BY <2>2, SMT
  <2> QED
      BY <2>1, <2>3
<1>9. l + c.cq + r = nr /\ c.cq \in Nat
    BY <1>2, <1>3, <1>5, <1>8, SMT
<1>10. (l - 1) + (c.cq + 1) + r = nr /\ c.cq + 1 \in 0 .. nr
    BY <1>2, <1>6, <1>9, SMT
<1>11. ASSUME NEW i \in 1 .. l - 1
       PROVE  Tail(c.recvs)[i] = Wrap(c.curMessage + (c.cq + 1) + i - 1, nr)
  <2>1. i + 1 \in 1 .. l
      BY <1>6, SMT
  <2>2. c.curMessage + c.cq + (i + 1) - 1 = c.curMessage + (c.cq + 1) + i - 1
    <3>1. c.curMessage \in Nat /\ c.cq \in Nat
        BY <1>2, <1>3, <1>9, SMT
    <3> QED
        BY <3>1, SMT
  <2>3. c.recvs[i + 1] = Wrap(c.curMessage + c.cq + (i + 1) - 1, nr)
      BY <1>3, <1>5, <2>1
  <2> QED
      BY <1>6, <2>2, <2>3
<1>12. DOMAIN m.messagePool = 0 .. nr - 1
    BY <1>3, <1>4
<1>13. RecvOK(m, nr)
    BY <1>3, <1>4, <1>6, <1>8, <1>10, <1>11, <1>12 DEF RecvOK
<1> QED
    BY <1>1, <1>3, <1>4, <1>7, <1>13, SendKept DEF ConnOK, Arrived

\* A send buffer is taken while there is one that no send uses.
Prepared(m, c, v, dest) ==
    /\ KeepsRecv(m, c) /\ m.sq = c.sq
    /\ Len(m.out) = 1 /\ m.out[1].slot = c.curSend /\ m.out[1].dest = dest
    /\ m.sendPool[c.curSend] = v
    /\ \A i \in 1 .. Len(c.sq) : m.sendPool[c.sq[i].slot] = c.sendPool[c.sq[i].slot]

LEMMA GetSendPoolIs ==
    ASSUME NEW nr \in {DIR_MESSAGE_NR, APP_MESSAGE_NR}, NEW D, NEW c, ConnOK(c, nr, D),
           c.out = <<>>, Len(c.sq) < nr, NEW v, NEW dest \in D,
           NEW m, m = getSendPool(c, v, dest)
    PROVE  ConnOK(m, nr, D) /\ Prepared(m, c, v, dest)
<1>1. DOMAIN c = Fields /\ RecvOK(c, nr) /\ SendOK(c, nr, D)
    BY DEF ConnOK
<1>2. nr \in Nat \ {0}
    BY RingSizes
<1>3. /\ c.nr = nr /\ DOMAIN c.sendPool = 0 .. nr - 1 /\ c.curSend \in 0 .. nr - 1
      /\ c.sq \in Seq([slot : Nat, dest : D, signaled : BOOLEAN])
    BY <1>1 DEF SendOK
<1>4. PICK l \in Nat : l = Len(c.sq)
    BY <1>3, SMT
<1>5. Sends(c) = l
    BY <1>4, SMT DEF Sends
<1>6. \A i \in 1 .. l : c.sq[i].slot = Wrap(c.curSend + nr - l + i - 1, nr)
  <2>1. \A i \in 1 .. l : SendAt(c, i).slot = Wrap(c.curSend + nr - l + i - 1, nr)
      BY <1>1, <1>5 DEF SendOK
  <2>2. \A i \in 1 .. l : SendAt(c, i) = c.sq[i]
      BY <1>4, SMT DEF SendAt
  <2> QED
      BY <2>1, <2>2
<1>7. PICK o : o = [slot |-> c.curSend, dest |-> dest]
    OBVIOUS
<1>8. o \in [slot : Nat, dest : D] /\ o.slot = c.curSend /\ o.dest = dest
    BY <1>2, <1>3, <1>7, SMT
<1>9. PICK next : next = Wrap(c.curSend + 1, nr)
    OBVIOUS
<1>10. (c.curSend + 1) % c.nr = next /\ next \in 0 .. nr - 1
  <2>1. c.curSend + 1 \in Nat /\ c.curSend + 1 < nr + nr
      BY <1>2, <1>3, SMT
  <2>2. Wrap(c.curSend + 1, nr) \in 0 .. nr - 1
      BY <1>2, <1>3, SMT DEF Wrap
  <2> QED
      BY <1>2, <1>3, <1>9, <2>1, <2>2, ModWraps
<1>11. /\ DOMAIN m = Fields /\ KeepsRecv(m, c) /\ m.sq = c.sq /\ m.out = <<o>>
       /\ m.sendPool = [c.sendPool EXCEPT ![c.curSend] = v] /\ m.curSend = next
       /\ m.nr = nr
  <2>1. /\ DOMAIN m = Fields /\ KeepsRecv(m, c) /\ m.sq = c.sq
        /\ m.out = <<[slot |-> c.curSend, dest |-> dest]>>
        /\ m.sendPool = [c.sendPool EXCEPT ![c.curSend] = v]
        /\ m.curSend = (c.curSend + 1) % c.nr /\ m.nr = c.nr
      BY <1>1, SMT DEF getSendPool, Fields, KeepsRecv
  <2> QED
      BY <1>3, <1>7, <1>10, <2>1
<1>12. m.out \in Seq([slot : Nat, dest : D]) /\ Len(m.out) = 1 /\ m.out[1] = o
    BY <1>8, <1>11, SMT
<1>13. Sends(m) = l + 1
    BY <1>4, <1>11, <1>12 DEF Sends
<1>14. ASSUME NEW i \in 1 .. l + 1
       PROVE  SendAt(m, i).slot = Wrap(next + nr - (l + 1) + i - 1, nr)
  <2>1. l < nr
      BY <1>4
  <2>2. CASE i <= l
    <3>1. i \in 1 .. l /\ SendAt(m, i) = c.sq[i]
        BY <1>4, <1>11, <2>2, SMT DEF SendAt
    <3>2. Wrap(c.curSend + nr - l + i - 1, nr) = Wrap(next + nr - (l + 1) + i - 1, nr)
      <4>1. PICK k \in Nat : k = c.curSend /\ k < nr
          BY <1>2, <1>3, SMT
      <4>2. CASE k + 1 < nr
        <5>1. next = k + 1
            BY <1>9, <4>1, <4>2 DEF Wrap
        <5>2. c.curSend + nr - l + i - 1 = next + nr - (l + 1) + i - 1
            BY <1>2, <4>1, <5>1, SMT
        <5> QED
            BY <5>2
      <4>3. CASE ~(k + 1 < nr)
        <5>1. next = 0 /\ k = nr - 1
            BY <1>2, <1>9, <4>1, <4>3, SMT DEF Wrap
        <5> QED
            BY <1>2, <2>1, <2>2, <4>1, <5>1, SMT DEF Wrap
      <4> QED
          BY <4>2, <4>3
    <3> QED
        BY <1>6, <3>1, <3>2
  <2>3. CASE ~(i <= l)
    <3>1. i = l + 1 /\ SendAt(m, i) = o
        BY <1>4, <1>11, <1>12, <2>3, SMT DEF SendAt
    <3>2. c.curSend = Wrap(next + nr - (l + 1) + (l + 1) - 1, nr)
        BY <1>2, <1>3, <1>9, SMT DEF Wrap
    <3> QED
        BY <1>8, <3>1, <3>2
  <2> QED
      BY <2>2, <2>3
<1>15. ASSUME NEW i \in 1 .. l PROVE c.sq[i].slot # c.curSend
  <2>1. l < nr
      BY <1>4
  <2>2. Wrap(c.curSend + nr - l + i - 1, nr) # c.curSend
      BY <1>2, <1>3, <2>1, SMT DEF Wrap
  <2> QED
      BY <1>6, <2>2
<1>16. l + 1 <= nr /\ DOMAIN m.sendPool = 0 .. nr - 1 /\ m.sendPool[c.curSend] = v
  <2>1. l < nr
      BY <1>4
  <2> QED
      BY <1>2, <1>3, <1>11, <2>1, SMT
<1>17. \A i \in 1 .. Len(c.sq) : m.sendPool[c.sq[i].slot] = c.sendPool[c.sq[i].slot]
  <2>1. ASSUME NEW i \in 1 .. l PROVE c.sq[i].slot \in 0 .. nr - 1
    <3>1. l < nr
        BY <1>4
    <3>2. Wrap(c.curSend + nr - l + i - 1, nr) \in 0 .. nr - 1
        BY <1>2, <1>3, <3>1, SMT DEF Wrap
    <3> QED
        BY <1>6, <3>2
  <2> QED
      BY <1>3, <1>4, <1>11, <1>15, <2>1
<1>18. SendOK(m, nr, D)
    BY <1>3, <1>10, <1>11, <1>12, <1>13, <1>14, <1>16, SMT DEF SendOK
<1> QED
    BY <1>1, <1>4, <1>8, <1>11, <1>12, <1>15, <1>16, <1>17, <1>18, RecvKept
       DEF ConnOK, Prepared

LEMMA Lengths ==
    ASSUME NEW S, NEW q \in Seq(S)
    PROVE  Len(q) \in Nat /\ (q # <<>> => Len(q) > 0 /\ q[1] \in S) /\ (Len(q) = 0 => q = <<>>)
BY SMT

\* The prepared send becomes the last posted one.
Posted(m, c) ==
    /\ KeepsRecv(m, c) /\ m.sendPool = c.sendPool /\ m.out = <<>> /\ Len(c.out) = 1
    /\ Len(m.sq) = Len(c.sq) + 1
    /\ \A i \in 1 .. Len(c.sq) + 1 : /\ m.sq[i].slot = SendAt(c, i).slot
                                     /\ m.sq[i].dest = SendAt(c, i).dest

LEMMA SendRawMessageIs ==
    ASSUME NEW nr \in {DIR_MESSAGE_NR, APP_MESSAGE_NR}, NEW D, NEW c, ConnOK(c, nr, D),
           c.out # <<>>, NEW m, m = sendRawMessage(c)
    PROVE  ConnOK(m, nr, D) /\ Posted(m, c)
<1>1. DOMAIN c = Fields /\ RecvOK(c, nr) /\ SendOK(c, nr, D)
    BY DEF ConnOK
<1>2. nr \in Nat \ {0}
    BY RingSizes
<1>3. /\ c.nr = nr /\ DOMAIN c.sendPool = 0 .. nr - 1 /\ c.curSend \in 0 .. nr - 1
      /\ c.sq \in Seq([slot : Nat, dest : D, signaled : BOOLEAN])
      /\ c.out \in Seq([slot : Nat, dest : D]) /\ Len(c.out) <= 1
    BY <1>1 DEF SendOK
<1>4. PICK l \in Nat : l = Len(c.sq)
    BY <1>3, SMT
<1>5. Len(c.out) = 1 /\ c.out[1] \in [slot : Nat, dest : D]
  <2>1. PICK S : S = [slot : Nat, dest : D]
      OBVIOUS
  <2>2. c.out \in Seq(S) /\ Len(c.out) <= 1
      BY <1>3, <2>1
  <2>3. Len(c.out) = 1 /\ c.out[1] \in S
    <3>1. Len(c.out) \in Nat /\ Len(c.out) > 0 /\ c.out[1] \in S
        BY <2>2, Lengths
    <3>2. \A n \in Nat : n <= 1 /\ n > 0 => n = 1
        BY SMT
    <3> QED
        BY <2>2, <3>1, <3>2
  <2> QED
      BY <2>1, <2>3
<1>6. Sends(c) = l + 1
    BY <1>4, <1>5 DEF Sends
<1>7. \A i \in 1 .. l + 1 : SendAt(c, i).slot = Wrap(c.curSend + nr - (l + 1) + i - 1, nr)
    BY <1>1, <1>6 DEF SendOK
<1>8. PICK o : o = [slot |-> c.out[1].slot, dest |-> c.out[1].dest, signaled |-> Signaled(c)]
    OBVIOUS
<1>9. /\ o \in [slot : Nat, dest : D, signaled : BOOLEAN]
      /\ o.slot = c.out[1].slot /\ o.dest = c.out[1].dest
  <2>1. Signaled(c) \in BOOLEAN
      BY DEF Signaled
  <2> QED
      BY <1>5, <1>8, <2>1
<1>10. /\ DOMAIN m = Fields /\ KeepsRecv(m, c) /\ m.sq = Append(c.sq, o) /\ m.out = <<>>
       /\ m.sendPool = c.sendPool /\ m.curSend = c.curSend /\ m.nr = nr
  <2>1. m.sq = Append(c.sq, [slot |-> c.out[1].slot, dest |-> c.out[1].dest,
                             signaled |-> Signaled(c)])
      BY <1>1 DEF sendRawMessage, Fields
  <2>2. /\ DOMAIN m = Fields /\ KeepsRecv(m, c) /\ m.out = <<>>
        /\ m.sendPool = c.sendPool /\ m.curSend = c.curSend /\ m.nr = c.nr
      BY <1>1 DEF sendRawMessage, Fields, KeepsRecv
  <2> QED
      BY <1>3, <1>8, <2>1, <2>2
<1>11. /\ m.sq \in Seq([slot : Nat, dest : D, signaled : BOOLEAN]) /\ Len(m.sq) = l + 1
       /\ \A i \in 1 .. l : m.sq[i] = c.sq[i]
       /\ m.sq[l + 1] = o
  <2>1. Append(c.sq, o) \in Seq([slot : Nat, dest : D, signaled : BOOLEAN])
    <3>1. PICK S : S = [slot : Nat, dest : D, signaled : BOOLEAN]
        OBVIOUS
    <3>2. c.sq \in Seq(S) /\ o \in S
        BY <1>3, <1>9, <3>1
    <3>3. Append(c.sq, o) \in Seq(S)
        BY <3>2, SMT
    <3> QED
        BY <3>1, <3>3
  <2>2. /\ Len(Append(c.sq, o)) = l + 1
        /\ \A i \in 1 .. l : Append(c.sq, o)[i] = c.sq[i]
        /\ Append(c.sq, o)[l + 1] = o
      BY <1>3, <1>4, SMT
  <2> QED
      BY <1>10, <2>1, <2>2
<1>12. \A i \in 1 .. l + 1 : m.sq[i].slot = SendAt(c, i).slot /\ m.sq[i].dest = SendAt(c, i).dest
  <2>1. \A i \in 1 .. l : SendAt(c, i) = c.sq[i]
      BY <1>4, SMT DEF SendAt
  <2>2. SendAt(c, l + 1) = c.out[1]
      BY <1>4, SMT DEF SendAt
  <2>3. \A i \in 1 .. l + 1 : i \in 1 .. l \/ i = l + 1
      BY SMT
  <2> QED
      BY <1>9, <1>11, <2>1, <2>2, <2>3
<1>13. m.out \in Seq([slot : Nat, dest : D]) /\ Len(m.out) = 0
    BY <1>10, SMT
<1>14. Sends(m) = l + 1
    BY <1>11, <1>13, SMT DEF Sends
<1>15. \A i \in 1 .. l + 1 : SendAt(m, i) = m.sq[i]
    BY <1>11, SMT DEF SendAt
<1>16. \A i \in 1 .. l + 1 : SendAt(m, i).slot = Wrap(c.curSend + nr - (l + 1) + i - 1, nr)
    BY <1>7, <1>12, <1>15
<1>17. l + 1 <= nr
    BY <1>1, <1>6 DEF SendOK
<1>18. Len(m.out) <= 1
    BY <1>13, SMT
<1>19. SendOK(m, nr, D)
    BY <1>3, <1>10, <1>11, <1>13, <1>14, <1>16, <1>17, <1>18 DEF SendOK
<1> QED
    BY <1>1, <1>4, <1>5, <1>10, <1>11, <1>12, <1>19, RecvKept DEF ConnOK, Posted

\* The card takes the oldest send.
Transmitted(m, c) ==
    /\ KeepsRecv(m, c) /\ m.sendPool = c.sendPool /\ m.out = c.out
    /\ Len(c.sq) \in Nat \ {0} /\ Len(m.sq) = Len(c.sq) - 1 /\ Head(c.sq) = c.sq[1]
    /\ \A i \in 1 .. Len(c.sq) - 1 : m.sq[i] = c.sq[i + 1]

LEMMA SentIs ==
    ASSUME NEW nr \in {DIR_MESSAGE_NR, APP_MESSAGE_NR}, NEW D, NEW c, ConnOK(c, nr, D),
           c.sq # <<>>, NEW m, m = Sent(c)
    PROVE  ConnOK(m, nr, D) /\ Transmitted(m, c)
<1>1. DOMAIN c = Fields /\ RecvOK(c, nr) /\ SendOK(c, nr, D)
    BY DEF ConnOK
<1>2. nr \in Nat \ {0}
    BY RingSizes
<1>3. /\ c.nr = nr /\ DOMAIN c.sendPool = 0 .. nr - 1 /\ c.curSend \in 0 .. nr - 1
      /\ c.sq \in Seq([slot : Nat, dest : D, signaled : BOOLEAN])
      /\ c.out \in Seq([slot : Nat, dest : D]) /\ Len(c.out) <= 1
    BY <1>1 DEF SendOK
<1>4. PICK l : l = Len(c.sq)
    OBVIOUS
<1>5. /\ l \in Nat \ {0} /\ Head(c.sq) = c.sq[1]
      /\ Tail(c.sq) \in Seq([slot : Nat, dest : D, signaled : BOOLEAN])
      /\ Len(Tail(c.sq)) = l - 1
      /\ \A i \in 1 .. l - 1 : Tail(c.sq)[i] = c.sq[i + 1]
  <2>1. PICK S : S = [slot : Nat, dest : D, signaled : BOOLEAN]
      OBVIOUS
  <2>2. c.sq \in Seq(S)
      BY <1>3, <2>1
  <2>3. /\ l \in Nat \ {0} /\ Head(c.sq) = c.sq[1] /\ Tail(c.sq) \in Seq(S)
        /\ Len(Tail(c.sq)) = l - 1
        /\ \A i \in 1 .. l - 1 : Tail(c.sq)[i] = c.sq[i + 1]
      BY <1>4, <2>2, SMT
  <2> QED
      BY <2>1, <2>3
<1>6. /\ DOMAIN m = Fields /\ KeepsRecv(m, c) /\ m.sq = Tail(c.sq) /\ m.out = c.out
      /\ m.sendPool = c.sendPool /\ m.curSend = c.curSend /\ m.nr = c.nr
    BY <1>1 DEF Sent, Fields, KeepsRecv
<1>7. PICK k \in 0 .. 1 : k = Len(c.out)
  <2>1. PICK S : S = [slot : Nat, dest : D]
      OBVIOUS
  <2>2. c.out \in Seq(S) /\ Len(c.out) <= 1
      BY <1>3, <2>1
  <2>3. Len(c.out) \in Nat
      BY <2>2, Lengths
  <2>4. \A n \in Nat : n <= 1 => n \in 0 .. 1
      BY SMT
  <2> QED
      BY <2>2, <2>3, <2>4
<1>8. Sends(c) = l + k /\ Sends(m) = l - 1 + k
    BY <1>4, <1>5, <1>6, <1>7 DEF Sends
<1>9. \A i \in 1 .. l - 1 + k : SendAt(m, i) = SendAt(c, i + 1)
    BY <1>4, <1>5, <1>6, SMT DEF SendAt
<1>10. \A i \in 1 .. l + k : SendAt(c, i).slot = Wrap(c.curSend + nr - (l + k) + i - 1, nr)
    BY <1>1, <1>8 DEF SendOK
<1>11. ASSUME NEW i \in 1 .. l - 1 + k
       PROVE  SendAt(m, i).slot = Wrap(c.curSend + nr - (l - 1 + k) + i - 1, nr)
  <2>1. i + 1 \in 1 .. l + k
      BY <1>5, SMT
  <2>2. c.curSend + nr - (l + k) + (i + 1) - 1 = c.curSend + nr - (l - 1 + k) + i - 1
      BY <1>2, <1>3, <1>5, SMT
  <2>3. SendAt(c, i + 1).slot = Wrap(c.curSend + nr - (l + k) + (i + 1) - 1, nr)
      BY <1>10, <2>1
  <2> QED
      BY <1>9, <2>2, <2>3
<1>12. l - 1 + k <= nr
  <2>1. l + k <= nr
      BY <1>1, <1>8 DEF SendOK
  <2> QED
      BY <1>2, <1>5, <2>1, SMT
<1>13. SendOK(m, nr, D)
    BY <1>3, <1>5, <1>6, <1>8, <1>11, <1>12 DEF SendOK
<1> QED
    BY <1>1, <1>4, <1>5, <1>6, <1>13, RecvKept DEF ConnOK, Transmitted

Fresh(c) ==
    c.cq = 0 /\ c.hand = None /\ c.out = <<>> /\ c.sq = <<>> /\ Len(c.sq) = 0

LEMMA ConnectionIs ==
    ASSUME NEW nr \in {DIR_MESSAGE_NR, APP_MESSAGE_NR}, NEW D, NEW u, NEW v,
           NEW c, c = Connection(nr, u, v)
    PROVE  ConnOK(c, nr, D) /\ Fresh(c)
<1>1. PICK s : s = subNR(nr)
    OBVIOUS
<1>2. nr \in Nat \ {0} /\ s \in Nat \ {0}
    BY <1>1, RingSizes
<1>3. /\ DOMAIN c = Fields /\ c.nr = nr /\ DOMAIN c.messagePool = 0 .. nr - 1
      /\ DOMAIN c.sendPool = 0 .. nr - 1 /\ c.curMessage = 0 /\ c.cq = 0 /\ c.hand = None
      /\ c.curSend = 0 /\ c.out = <<>> /\ c.sq = <<>> /\ c.recvs = [i \in 1 .. nr |-> i - 1]
    BY SMT DEF Connection, Fields
<1>4. 0 % s = 0
    BY <1>2, SMT
<1>5. c.recvs \in Seq(Nat) /\ Len(c.recvs) = nr
  <2>1. \A i \in 1 .. nr : i - 1 \in Nat
      BY <1>2, SMT
  <2>2. c.recvs \in [1 .. nr -> Nat]
      BY <1>3, <2>1
  <2> QED
      BY <1>2, <2>2, SMT
<1>6. \A i \in 1 .. nr : c.recvs[i] = Wrap(0 + 0 + i - 1, nr)
    BY <1>2, <1>3, SMT DEF Wrap
<1>7. 0 \in 0 .. nr - 1 /\ 0 \in 0 .. nr /\ nr + 0 + 0 = nr
    BY <1>2, SMT
<1>8. RecvOK(c, nr)
    BY <1>1, <1>3, <1>4, <1>5, <1>6, <1>7 DEF RecvOK
<1>9. /\ c.sq \in Seq([slot : Nat, dest : D, signaled : BOOLEAN])
      /\ c.out \in Seq([slot : Nat, dest : D]) /\ Len(c.out) = 0 /\ Len(c.sq) = 0
    BY <1>3, SMT
<1>10. Sends(c) = 0 /\ 0 <= nr /\ 0 <= 1
    BY <1>2, <1>9, SMT DEF Sends
<1>11. SendOK(c, nr, D)
  <2>1. \A i \in 1 .. 0 : FALSE
      BY SMT
  <2> QED
      BY <1>3, <1>7, <1>9, <1>10, <2>1 DEF SendOK
<1> QED
    BY <1>3, <1>8, <1>9, <1>11 DEF ConnOK, Fresh

-----------------------------------------------------------------------------
(* The operations of a directory move no one in its line                     *)

\* m has the line of c, and the same answers at its front.
SameLine(m, c) ==
    /\ InLine(m) = InLine(c) /\ Sends(m) = Sends(c)
    /\ m.out # <<>> => m.hand # None
    /\ \A i \in 1 .. InLine(c) : At(m, i) = At(c, i)
    /\ \A i \in 1 .. Sends(c) : Payload(m, i) = Payload(c, i)

LEMMA ConnTypes ==
    ASSUME NEW nr \in {DIR_MESSAGE_NR, APP_MESSAGE_NR}, NEW D, NEW c, ConnOK(c, nr, D)
    PROVE  /\ nr \in Nat \ {0} /\ c.nr = nr
           /\ Len(c.sq) \in Nat /\ Len(c.out) \in 0 .. 1 /\ c.cq \in 0 .. nr
           /\ c.curMessage \in 0 .. nr - 1 /\ c.curSend \in 0 .. nr - 1
           /\ DOMAIN c.messagePool = 0 .. nr - 1 /\ DOMAIN c.sendPool = 0 .. nr - 1
           /\ c.out = <<>> <=> Len(c.out) = 0
           /\ c.sq = <<>> <=> Len(c.sq) = 0
           /\ Busy(c) \in 0 .. 1 /\ InLine(c) \in Nat /\ Sends(c) \in Nat
<1>1. nr \in Nat \ {0}
    BY RingSizes
<1>2. RecvOK(c, nr) /\ SendOK(c, nr, D)
    BY DEF ConnOK
<1>3. /\ c.nr = nr /\ c.cq \in 0 .. nr /\ c.curMessage \in 0 .. nr - 1
      /\ c.curSend \in 0 .. nr - 1
      /\ DOMAIN c.messagePool = 0 .. nr - 1 /\ DOMAIN c.sendPool = 0 .. nr - 1
      /\ c.sq \in Seq([slot : Nat, dest : D, signaled : BOOLEAN])
      /\ c.out \in Seq([slot : Nat, dest : D]) /\ Len(c.out) <= 1
    BY <1>2 DEF RecvOK, SendOK
<1>4. /\ Len(c.sq) \in Nat /\ Len(c.out) \in Nat
      /\ Len(c.out) = 0 => c.out = <<>>
      /\ Len(c.sq) = 0 => c.sq = <<>>
    BY <1>3, Lengths
<1>5. Len(<<>>) = 0 /\ \A n \in Nat : n <= 1 => n \in 0 .. 1
    BY SMT
<1>6. Busy(c) \in 0 .. 1
    BY SMT DEF Busy
<1>7. InLine(c) \in Nat /\ Sends(c) \in Nat
  <2>1. PICK l, o, k, b \in Nat : l = Len(c.sq) /\ o = Len(c.out) /\ k = c.cq /\ b = Busy(c)
      BY <1>1, <1>3, <1>4, <1>6, SMT
  <2>2. l + b + k \in Nat /\ l + o \in Nat
      BY SMT
  <2> QED
      BY <2>1, <2>2 DEF InLine, Sends
<1> QED
    BY <1>1, <1>3, <1>4, <1>5, <1>6, <1>7

\* The three parts of a line.
LineParts(c, l, b) ==
    /\ \A i \in 1 .. l : At(c, i) = c.sq[i].dest
    /\ b = 1 => At(c, l + 1) = IF c.out = <<>> THEN Received(c) ELSE c.out[1].dest
    /\ \A j \in Nat : At(c, l + b + j + 1) = c.messagePool[Wrap(c.curMessage + j, c.nr)]

LEMMA AtIs ==
    ASSUME NEW c, NEW l \in Nat, l = Len(c.sq), NEW b \in 0 .. 1, b = Busy(c)
    PROVE  LineParts(c, l, b)
<1>1. \A i \in 1 .. l : At(c, i) = c.sq[i].dest
    BY SMT DEF At
<1>2. b = 1 => At(c, l + 1) = IF c.out = <<>> THEN Received(c) ELSE c.out[1].dest
  <2>1. b = 1 => ~(l + 1 <= l) /\ l < l + 1 /\ l + 1 <= l + b
      BY SMT
  <2> QED
      BY <2>1 DEF At
<1>3. ASSUME NEW j \in Nat
      PROVE  At(c, l + b + j + 1) = c.messagePool[Wrap(c.curMessage + j, c.nr)]
  <2>1. PICK i : i = l + b + j + 1
      OBVIOUS
  <2>2. ~(i <= l) /\ ~(l < i /\ i <= l + b) /\ i - (l + b + 1) = j
    <3>1. \A x, y, z \in Nat : /\ ~(x + y + z + 1 <= x) /\ ~(x + y + z + 1 <= x + y)
                               /\ (x + y + z + 1) - (x + y + 1) = z
        BY SMT
    <3>2. b \in Nat
        BY SMT
    <3> QED
        BY <2>1, <3>1, <3>2
  <2>3. At(c, i) = c.messagePool[Wrap(c.curMessage + (i - (l + b + 1)), c.nr)]
      BY <2>2 DEF At
  <2> QED
      BY <2>1, <2>2, <2>3
<1> QED
    BY <1>1, <1>2, <1>3 DEF LineParts

LEMMA LineIndex ==
    ASSUME NEW l \in Nat, NEW b \in 0 .. 1, NEW k \in Nat, NEW i \in 1 .. l + b + k
    PROVE  i \in 1 .. l \/ (b = 1 /\ i = l + 1) \/ \E j \in 0 .. k - 1 : i = l + b + j + 1
<1>1. CASE i <= l
    BY <1>1, SMT
<1>2. CASE ~(i <= l) /\ i <= l + b
    BY <1>2, SMT
<1>3. CASE ~(i <= l + b)
  <2>1. i - (l + b + 1) \in 0 .. k - 1 /\ i = l + b + (i - (l + b + 1)) + 1
      BY <1>3, SMT
  <2> QED
      BY <2>1
<1> QED
    BY <1>1, <1>2, <1>3, SMT

\* dirThread: the oldest message that was not polled is now in the hand.
LEMMA PolledLine ==
    ASSUME NEW c, ConnOK(c, DIR_MESSAGE_NR, Threads), c.hand = None, c.out = <<>>, c.cq > 0,
           NEW m, m = getMessage(c)
    PROVE  ConnOK(m, DIR_MESSAGE_NR, Threads) /\ SameLine(m, c)
<1>1. PICK nr \in {DIR_MESSAGE_NR, APP_MESSAGE_NR} : nr = DIR_MESSAGE_NR
    OBVIOUS
<1>2. /\ nr \in Nat \ {0} /\ c.nr = nr /\ Len(c.sq) \in Nat /\ c.cq \in 0 .. nr
      /\ c.curMessage \in 0 .. nr - 1
    BY <1>1, ConnTypes
<1>3. /\ ConnOK(m, nr, Threads) /\ KeepsSend(m, c)
      /\ m.messagePool = c.messagePool /\ m.hand = c.curMessage /\ m.cq = c.cq - 1
      /\ m.curMessage = Wrap(c.curMessage + 1, nr)
  <2>1. ConnOK(c, nr, Threads)
      BY <1>1
  <2>2. ConnOK(m, nr, Threads) /\ Polled(m, c)
      BY <2>1, GetMessageIs
  <2> QED
      BY <1>2, <2>2 DEF Polled
<1>4. /\ m.sq = c.sq /\ m.out = c.out /\ m.sendPool = c.sendPool /\ m.nr = nr
    BY <1>2, <1>3 DEF KeepsSend
<1>5. PICK l \in Nat, k \in Nat, cur \in 0 .. nr - 1 :
        l = Len(c.sq) /\ k + 1 = c.cq /\ cur = c.curMessage
  <2>1. c.cq - 1 \in Nat /\ (c.cq - 1) + 1 = c.cq
      BY <1>2, SMT
  <2> QED
      BY <1>2, <2>1
<1>6. k = m.cq /\ m.hand = cur /\ cur # None
    BY <1>2, <1>3, <1>5, SMT DEF None
<1>7. Busy(c) = 0 /\ Busy(m) = 1
    BY <1>6 DEF Busy
<1>8. InLine(m) = InLine(c) /\ InLine(c) = l + 1 + k
  <2>1. l + 1 + k = l + 0 + (k + 1)
      BY SMT
  <2> QED
      BY <1>4, <1>5, <1>6, <1>7, <2>1 DEF InLine
<1>9. /\ \A i \in 1 .. l : At(c, i) = c.sq[i].dest
      /\ \A j \in Nat : At(c, l + 0 + j + 1) = c.messagePool[Wrap(cur + j, nr)]
  <2>1. PICK b \in 0 .. 1 : b = 0 /\ b = Busy(c) /\ l = Len(c.sq)
      BY <1>5, <1>7, SMT
  <2>2. LineParts(c, l, b)
      BY <2>1, AtIs
  <2> QED
      BY <1>2, <1>5, <2>1, <2>2 DEF LineParts
<1>10. /\ \A i \in 1 .. l : At(m, i) = m.sq[i].dest
       /\ At(m, l + 1) = Received(m)
       /\ \A j \in Nat : At(m, l + 1 + j + 1) = m.messagePool[Wrap(m.curMessage + j, nr)]
  <2>1. PICK b \in 0 .. 1 : b = 1 /\ b = Busy(m) /\ l = Len(m.sq)
      BY <1>4, <1>5, <1>7, SMT
  <2>2. LineParts(m, l, b)
      BY <2>1, AtIs
  <2>3. m.out = <<>> /\ m.nr = nr
      BY <1>4
  <2> QED
      BY <2>1, <2>2, <2>3 DEF LineParts
<1>11. ASSUME NEW i \in 1 .. l + 1 + k PROVE At(m, i) = At(c, i)
  <2>1. CASE i \in 1 .. l
    <3>1. At(m, i) = m.sq[i].dest /\ At(c, i) = c.sq[i].dest /\ m.sq = c.sq
        BY <1>4, <1>9, <1>10, <2>1
    <3> QED
        BY <3>1
  <2>2. CASE i = l + 1
    <3>1. l + 0 + 0 + 1 = l + 1 /\ cur + 0 = cur /\ Wrap(cur, nr) = cur /\ 0 \in Nat
        BY <1>2, SMT DEF Wrap
    <3>2. At(c, l + 0 + 0 + 1) = c.messagePool[Wrap(cur + 0, nr)]
        BY <1>9, <3>1
    <3>3. At(m, l + 1) = c.messagePool[cur]
        BY <1>3, <1>6, <1>10 DEF Received
    <3> QED
        BY <2>2, <3>1, <3>2, <3>3
  <2>3. ASSUME NEW j \in 0 .. k - 1, i = l + 1 + j + 1 PROVE At(m, i) = At(c, i)
    <3>1. j \in Nat /\ j + 1 \in Nat /\ l + 0 + (j + 1) + 1 = i
        BY <2>3, SMT
    <3>2. Wrap(m.curMessage + j, nr) = Wrap(cur + (j + 1), nr)
      <4>1. PICK n : n = Wrap(cur + 1, nr)
          OBVIOUS
      <4>2. j + 1 <= nr
        <5>1. k + 1 <= nr
            BY <1>2, <1>5, SMT
        <5> QED
            BY <1>2, <3>1, <5>1, SMT
      <4>3. Wrap(n + j, nr) = Wrap(cur + (j + 1), nr)
          BY <1>2, <3>1, <4>1, <4>2, SMT DEF Wrap
      <4> QED
          BY <1>3, <1>5, <4>1, <4>3
    <3>3. At(m, i) = m.messagePool[Wrap(m.curMessage + j, nr)]
        BY <1>10, <2>3, <3>1
    <3>4. At(c, i) = c.messagePool[Wrap(cur + (j + 1), nr)]
        BY <1>9, <3>1
    <3> QED
        BY <1>3, <3>2, <3>3, <3>4
  <2>4. 1 \in 0 .. 1
      BY SMT
  <2>5. i \in 1 .. l \/ i = l + 1 \/ \E j \in 0 .. k - 1 : i = l + 1 + j + 1
      BY <2>4, LineIndex
  <2> QED
      BY <2>1, <2>2, <2>3, <2>5
<1>12. Sends(m) = Sends(c) /\ \A i : Payload(m, i) = Payload(c, i)
    BY <1>4 DEF Sends, Payload, SendAt
<1> QED
    BY <1>1, <1>3, <1>4, <1>8, <1>11, <1>12 DEF SameLine

\* process_message: the answer to the thread in the hand is prepared.
NextAnswered(m, c, v) ==
    /\ InLine(m) = InLine(c) /\ Sends(m) = Sends(c) + 1 /\ m.hand # None
    /\ \A i \in 1 .. InLine(c) : At(m, i) = At(c, i)
    /\ \A i \in 1 .. Sends(c) : Payload(m, i) = Payload(c, i)
    /\ Payload(m, Sends(c) + 1) = v

LEMMA AnsweredLine ==
    ASSUME NEW c, ConnOK(c, DIR_MESSAGE_NR, Threads), c.hand # None, c.out = <<>>,
           Len(c.sq) < DIR_MESSAGE_NR, NEW t \in Threads, t = Received(c),
           NEW v, NEW m, m = getSendPool(c, v, t)
    PROVE  ConnOK(m, DIR_MESSAGE_NR, Threads) /\ NextAnswered(m, c, v)
<1>1. PICK nr \in {DIR_MESSAGE_NR, APP_MESSAGE_NR} : nr = DIR_MESSAGE_NR
    OBVIOUS
<1>2. nr \in Nat \ {0} /\ c.nr = nr /\ Len(c.sq) \in Nat
    BY <1>1, ConnTypes
<1>3. ConnOK(m, nr, Threads) /\ Prepared(m, c, v, t)
  <2>1. ConnOK(c, nr, Threads) /\ Len(c.sq) < nr
      BY <1>1
  <2> QED
      BY <2>1, GetSendPoolIs
<1>4. /\ m.nr = c.nr /\ m.messagePool = c.messagePool /\ m.curMessage = c.curMessage
      /\ m.cq = c.cq /\ m.hand = c.hand /\ m.sq = c.sq
      /\ Len(m.out) = 1 /\ m.out[1].slot = c.curSend /\ m.out[1].dest = t
    BY <1>3 DEF Prepared, KeepsRecv
<1>5. m.out # <<>>
  <2>1. Len(<<>>) = 0 /\ 0 # 1
      BY SMT
  <2> QED
      BY <1>4, <2>1
<1>6. PICK l \in Nat : l = Len(c.sq) /\ l = Len(m.sq)
    BY <1>2, <1>4
<1>7. Busy(c) = 1 /\ Busy(m) = 1
    BY <1>4 DEF Busy
<1>8. LineParts(c, l, 1) /\ LineParts(m, l, 1)
  <2>1. PICK b \in 0 .. 1 : b = 1 /\ b = Busy(c) /\ b = Busy(m)
      BY <1>7, SMT
  <2>2. LineParts(c, l, b)
      BY <1>6, <2>1, AtIs
  <2>3. LineParts(m, l, b)
      BY <1>6, <2>1, AtIs
  <2> QED
      BY <2>1, <2>2, <2>3
<1>9. PICK k \in Nat : k = c.cq
  <2>1. c.cq \in 0 .. nr
      BY <1>1, ConnTypes
  <2> QED
      BY <1>2, <2>1, SMT
<1>10. InLine(c) = l + 1 + k /\ InLine(m) = InLine(c)
    BY <1>4, <1>6, <1>7, <1>9 DEF InLine
<1>11. Sends(c) = l /\ Sends(m) = l + 1
  <2>1. Len(<<>>) = 0 /\ l + 0 = l
      BY SMT
  <2> QED
      BY <1>4, <1>6, <2>1 DEF Sends
<1>12. ASSUME NEW i \in 1 .. l + 1 + k PROVE At(m, i) = At(c, i)
  <2>1. CASE i \in 1 .. l
    <3>1. At(m, i) = m.sq[i].dest /\ At(c, i) = c.sq[i].dest /\ m.sq = c.sq
        BY <1>4, <1>8, <2>1 DEF LineParts
    <3> QED
        BY <3>1
  <2>2. CASE i = l + 1
    <3>1. At(m, l + 1) = m.out[1].dest /\ At(c, l + 1) = Received(c)
        BY <1>5, <1>8 DEF LineParts
    <3> QED
        BY <1>4, <2>2, <3>1
  <2>3. ASSUME NEW j \in 0 .. k - 1, i = l + 1 + j + 1 PROVE At(m, i) = At(c, i)
    <3>1. j \in Nat
        BY SMT
    <3>2. /\ At(m, l + 1 + j + 1) = m.messagePool[Wrap(m.curMessage + j, m.nr)]
          /\ At(c, l + 1 + j + 1) = c.messagePool[Wrap(c.curMessage + j, c.nr)]
        BY <1>8, <3>1 DEF LineParts
    <3> QED
        BY <1>4, <2>3, <3>2
  <2>4. i \in 1 .. l \/ i = l + 1 \/ \E j \in 0 .. k - 1 : i = l + 1 + j + 1
    <3>1. 1 \in 0 .. 1
        BY SMT
    <3> QED
        BY <3>1, LineIndex
  <2> QED
      BY <2>1, <2>2, <2>3, <2>4
<1>13. ASSUME NEW i \in 1 .. l PROVE Payload(m, i) = Payload(c, i)
  <2>1. SendAt(m, i) = m.sq[i] /\ SendAt(c, i) = c.sq[i]
      BY <1>6, SMT DEF SendAt
  <2>2. m.sendPool[c.sq[i].slot] = c.sendPool[c.sq[i].slot]
      BY <1>3, <1>6 DEF Prepared
  <2> QED
      BY <1>4, <2>1, <2>2 DEF Payload
<1>14. Payload(m, l + 1) = v
  <2>1. SendAt(m, l + 1) = m.out[1]
      BY <1>6, SMT DEF SendAt
  <2> QED
      BY <1>3, <2>1 DEF Payload, Prepared
<1> QED
    BY <1>1, <1>3, <1>4, <1>10, <1>11, <1>12, <1>13, <1>14 DEF NextAnswered

\* sendMessage2App: the answer is posted and the hand is empty.
LEMMA PostedLine ==
    ASSUME NEW c, ConnOK(c, DIR_MESSAGE_NR, Threads), c.hand # None, c.out # <<>>,
           NEW n, n = [sendRawMessage(c) EXCEPT !.hand = None]
    PROVE  ConnOK(n, DIR_MESSAGE_NR, Threads) /\ SameLine(n, c)
<1>1. PICK nr \in {DIR_MESSAGE_NR, APP_MESSAGE_NR} : nr = DIR_MESSAGE_NR
    OBVIOUS
<1>2. nr \in Nat \ {0} /\ c.nr = nr /\ Len(c.sq) \in Nat
    BY <1>1, ConnTypes
<1>3. PICK m : m = sendRawMessage(c)
    OBVIOUS
<1>4. ConnOK(m, nr, Threads) /\ Posted(m, c)
    BY <1>1, <1>3, SendRawMessageIs
<1>5. ConnOK(n, nr, Threads) /\ Dropped(n, m)
  <2>1. n = [m EXCEPT !.hand = None]
      BY <1>3
  <2> QED
      BY <1>4, <2>1, HandDropped
<1>6. /\ n.nr = c.nr /\ n.messagePool = c.messagePool /\ n.curMessage = c.curMessage
      /\ n.cq = c.cq /\ n.hand = None /\ n.sendPool = c.sendPool /\ n.out = <<>>
      /\ Len(c.out) = 1 /\ n.sq = m.sq
    BY <1>4, <1>5 DEF Posted, KeepsRecv, Dropped, KeepsSend
<1>7. PICK l \in Nat : l = Len(c.sq)
    BY <1>2
<1>8. /\ Len(n.sq) = l + 1
      /\ \A i \in 1 .. l + 1 : n.sq[i].slot = SendAt(c, i).slot /\ n.sq[i].dest = SendAt(c, i).dest
    BY <1>4, <1>6, <1>7 DEF Posted
<1>9. Busy(c) = 1 /\ Busy(n) = 0
    BY <1>6 DEF Busy
<1>10. LineParts(c, l, 1) /\ LineParts(n, l + 1, 0)
  <2>1. PICK b, e \in 0 .. 1 : b = 1 /\ b = Busy(c) /\ e = 0 /\ e = Busy(n)
      BY <1>9, SMT
  <2>2. LineParts(c, l, b)
      BY <1>7, <2>1, AtIs
  <2>3. PICK p \in Nat : p = l + 1 /\ p = Len(n.sq)
      BY <1>8, SMT
  <2>4. LineParts(n, p, e)
      BY <2>1, <2>3, AtIs
  <2> QED
      BY <2>1, <2>2, <2>3, <2>4
<1>11. PICK k \in Nat : k = c.cq
  <2>1. c.cq \in 0 .. nr
      BY <1>1, ConnTypes
  <2> QED
      BY <1>2, <2>1, SMT
<1>12. InLine(c) = l + 1 + k /\ InLine(n) = InLine(c)
  <2>1. (l + 1) + 0 = l + 1
      BY SMT
  <2> QED
      BY <1>6, <1>7, <1>8, <1>9, <1>11, <2>1 DEF InLine
<1>13. Sends(c) = l + 1 /\ Sends(n) = l + 1
  <2>1. Len(<<>>) = 0 /\ (l + 1) + 0 = l + 1
      BY SMT
  <2> QED
      BY <1>6, <1>7, <1>8, <2>1 DEF Sends
<1>14. /\ \A i \in 1 .. l : SendAt(c, i) = c.sq[i]
       /\ SendAt(c, l + 1) = c.out[1]
       /\ \A i \in 1 .. l + 1 : SendAt(n, i) = n.sq[i]
    BY <1>7, <1>8, SMT DEF SendAt
<1>15. ASSUME NEW i \in 1 .. l + 1 + k PROVE At(n, i) = At(c, i)
  <2>0. 1 .. l \subseteq 1 .. l + 1 /\ l + 1 \in 1 .. l + 1
      BY SMT
  <2>1. CASE i \in 1 .. l
    <3>1. At(n, i) = n.sq[i].dest /\ At(c, i) = c.sq[i].dest
        BY <1>10, <2>0, <2>1 DEF LineParts
    <3> QED
        BY <1>8, <1>14, <2>0, <2>1, <3>1
  <2>2. CASE i = l + 1
    <3>1. At(n, l + 1) = n.sq[l + 1].dest /\ At(c, l + 1) = c.out[1].dest
        BY <1>10, <2>0 DEF LineParts
    <3> QED
        BY <1>8, <1>14, <2>0, <2>2, <3>1
  <2>3. ASSUME NEW j \in 0 .. k - 1, i = l + 1 + j + 1 PROVE At(n, i) = At(c, i)
    <3>1. j \in Nat /\ (l + 1) + 0 + j + 1 = l + 1 + j + 1
        BY SMT
    <3>2. /\ At(n, (l + 1) + 0 + j + 1) = n.messagePool[Wrap(n.curMessage + j, n.nr)]
          /\ At(c, l + 1 + j + 1) = c.messagePool[Wrap(c.curMessage + j, c.nr)]
        BY <1>10, <3>1 DEF LineParts
    <3> QED
        BY <1>6, <2>3, <3>1, <3>2
  <2>4. i \in 1 .. l \/ i = l + 1 \/ \E j \in 0 .. k - 1 : i = l + 1 + j + 1
    <3>1. 1 \in 0 .. 1
        BY SMT
    <3> QED
        BY <3>1, LineIndex
  <2> QED
      BY <2>1, <2>2, <2>3, <2>4
<1>16. ASSUME NEW i \in 1 .. l + 1 PROVE Payload(n, i) = Payload(c, i)
    BY <1>6, <1>8, <1>14 DEF Payload
<1> QED
    BY <1>1, <1>5, <1>6, <1>12, <1>13, <1>15, <1>16 DEF SameLine

\* A datagram arrives: its thread goes to the end of the line.
Joined(m, c, t) ==
    /\ InLine(m) = InLine(c) + 1 /\ Sends(m) = Sends(c) /\ m.out = c.out /\ m.hand = c.hand
    /\ \A i \in 1 .. InLine(c) : At(m, i) = At(c, i)
    /\ At(m, InLine(c) + 1) = t
    /\ \A i \in 1 .. Sends(c) : Payload(m, i) = Payload(c, i)

LEMMA JoinedLine ==
    ASSUME NEW c, ConnOK(c, DIR_MESSAGE_NR, Threads), c.recvs # <<>>,
           Busy(c) + c.cq < DIR_MESSAGE_NR, NEW t, NEW m, m = Delivered(c, t)
    PROVE  ConnOK(m, DIR_MESSAGE_NR, Threads) /\ Joined(m, c, t)
<1>1. PICK nr \in {DIR_MESSAGE_NR, APP_MESSAGE_NR} : nr = DIR_MESSAGE_NR
    OBVIOUS
<1>2. /\ nr \in Nat \ {0} /\ c.nr = nr /\ Len(c.sq) \in Nat /\ c.cq \in 0 .. nr
      /\ c.curMessage \in 0 .. nr - 1 /\ DOMAIN c.messagePool = 0 .. nr - 1 /\ Busy(c) \in 0 .. 1
    BY <1>1, ConnTypes
<1>3. ConnOK(m, nr, Threads) /\ Arrived(m, c, t)
  <2>1. ConnOK(c, nr, Threads)
      BY <1>1
  <2> QED
      BY <2>1, DeliveredIs
<1>4. PICK l \in Nat, b \in 0 .. 1, k \in Nat, cur \in 0 .. nr - 1 :
        l = Len(c.sq) /\ b = Busy(c) /\ k = c.cq /\ cur = c.curMessage
  <2>1. c.cq \in Nat
      BY <1>2, SMT
  <2> QED
      BY <1>2, <2>1
<1>5. b + k < nr
    BY <1>1, <1>4
<1>6. /\ m.nr = nr /\ m.curMessage = cur /\ m.hand = c.hand /\ m.cq = k + 1
      /\ m.sq = c.sq /\ m.out = c.out /\ m.sendPool = c.sendPool
      /\ m.messagePool = [c.messagePool EXCEPT ![Wrap(cur + k, nr)] = t]
    BY <1>2, <1>3, <1>4 DEF Arrived, KeepsSend
<1>7. Busy(m) = b /\ Len(m.sq) = l
    BY <1>4, <1>6 DEF Busy
<1>8. LineParts(c, l, b) /\ LineParts(m, l, b)
    BY <1>4, <1>7, AtIs
<1>9. InLine(c) = l + b + k /\ InLine(m) = l + b + k + 1 /\ InLine(m) = InLine(c) + 1
  <2>1. l + b + (k + 1) = l + b + k + 1
      BY SMT
  <2> QED
      BY <1>4, <1>6, <1>7, <2>1 DEF InLine
<1>10. Sends(m) = Sends(c) /\ \A i : Payload(m, i) = Payload(c, i)
    BY <1>6 DEF Sends, Payload, SendAt
<1>11. \A x \in 0 .. nr - 1 : x # Wrap(cur + k, nr) => m.messagePool[x] = c.messagePool[x]
    BY <1>2, <1>6
<1>12. Wrap(cur + k, nr) \in 0 .. nr - 1
  <2>1. k < nr
      BY <1>2, <1>5, SMT
  <2> QED
      BY <1>2, <2>1, SMT DEF Wrap
<1>13. At(m, l + b + k + 1) = t
  <2>1. At(m, l + b + k + 1) = m.messagePool[Wrap(m.curMessage + k, m.nr)]
      BY <1>8 DEF LineParts
  <2> QED
      BY <1>2, <1>6, <1>12, <2>1
<1>14. ASSUME NEW i \in 1 .. l + b + k PROVE At(m, i) = At(c, i)
  <2>1. CASE i \in 1 .. l
    <3>1. At(m, i) = m.sq[i].dest /\ At(c, i) = c.sq[i].dest /\ m.sq = c.sq
        BY <1>6, <1>8, <2>1 DEF LineParts
    <3> QED
        BY <3>1
  <2>2. CASE b = 1 /\ i = l + 1
    <3>1. c.hand # None
        BY <1>4, <2>2, SMT DEF Busy
    <3>2. PICK h : h = Wrap(cur + nr - 1, nr)
        OBVIOUS
    <3>3. c.hand = h
        BY <1>1, <1>4, <3>1, <3>2 DEF ConnOK, RecvOK
    <3>4. h \in 0 .. nr - 1 /\ h # Wrap(cur + k, nr)
        BY <1>2, <1>5, <2>2, <3>2, SMT DEF Wrap
    <3>5. Received(m) = Received(c)
        BY <1>6, <1>11, <3>3, <3>4 DEF Received
    <3>6. /\ At(m, l + 1) = IF m.out = <<>> THEN Received(m) ELSE m.out[1].dest
          /\ At(c, l + 1) = IF c.out = <<>> THEN Received(c) ELSE c.out[1].dest
        BY <1>8, <2>2 DEF LineParts
    <3> QED
        BY <1>6, <2>2, <3>5, <3>6
  <2>3. ASSUME NEW j \in 0 .. k - 1, i = l + b + j + 1 PROVE At(m, i) = At(c, i)
    <3>1. j \in Nat /\ Wrap(cur + j, nr) \in 0 .. nr - 1 /\ Wrap(cur + j, nr) # Wrap(cur + k, nr)
      <4>1. k < nr
          BY <1>2, <1>5, SMT
      <4> QED
          BY <1>2, <4>1, SMT DEF Wrap
    <3>2. /\ At(m, l + b + j + 1) = m.messagePool[Wrap(m.curMessage + j, m.nr)]
          /\ At(c, l + b + j + 1) = c.messagePool[Wrap(c.curMessage + j, c.nr)]
        BY <1>8, <3>1 DEF LineParts
    <3>3. At(m, i) = m.messagePool[Wrap(cur + j, nr)] /\ At(c, i) = c.messagePool[Wrap(cur + j, nr)]
        BY <1>2, <1>4, <1>6, <2>3, <3>2
    <3> QED
        BY <1>11, <3>1, <3>3
  <2> QED
      BY <2>1, <2>2, <2>3, LineIndex
<1> QED
    BY <1>1, <1>3, <1>6, <1>9, <1>10, <1>13, <1>14 DEF Joined

\* The card sends the oldest answer: its thread leaves the head of the line.
Left(m, c) ==
    /\ InLine(c) = InLine(m) + 1 /\ Sends(c) = Sends(m) + 1 /\ m.out = c.out /\ m.hand = c.hand
    /\ \A i \in 1 .. InLine(m) : At(m, i) = At(c, i + 1)
    /\ \A i \in 1 .. Sends(m) : Payload(m, i) = Payload(c, i + 1)
    /\ Head(c.sq).dest = At(c, 1) /\ c.sendPool[Head(c.sq).slot] = Payload(c, 1)

LEMMA LeftLine ==
    ASSUME NEW c, ConnOK(c, DIR_MESSAGE_NR, Threads), c.sq # <<>>, NEW m, m = Sent(c)
    PROVE  ConnOK(m, DIR_MESSAGE_NR, Threads) /\ Left(m, c)
<1>1. PICK nr \in {DIR_MESSAGE_NR, APP_MESSAGE_NR} : nr = DIR_MESSAGE_NR
    OBVIOUS
<1>2. /\ nr \in Nat \ {0} /\ c.cq \in 0 .. nr /\ Busy(c) \in 0 .. 1
      /\ Len(c.out) \in 0 .. 1
    BY <1>1, ConnTypes
<1>3. ConnOK(m, nr, Threads) /\ Transmitted(m, c)
  <2>1. ConnOK(c, nr, Threads)
      BY <1>1
  <2> QED
      BY <2>1, SentIs
<1>4. /\ m.nr = c.nr /\ m.curMessage = c.curMessage /\ m.hand = c.hand /\ m.cq = c.cq
      /\ m.out = c.out /\ m.sendPool = c.sendPool /\ m.messagePool = c.messagePool
      /\ Len(c.sq) \in Nat \ {0} /\ Len(m.sq) = Len(c.sq) - 1 /\ Head(c.sq) = c.sq[1]
      /\ \A i \in 1 .. Len(c.sq) - 1 : m.sq[i] = c.sq[i + 1]
    BY <1>3 DEF Transmitted, KeepsRecv
<1>5. PICK l \in Nat, b \in 0 .. 1, k \in Nat, o \in Nat :
        /\ l + 1 = Len(c.sq) /\ l = Len(m.sq) /\ b = Busy(c) /\ k = c.cq /\ o = Len(c.out)
        /\ Len(c.sq) - 1 = l
  <2>1. PICK n \in Nat \ {0} : n = Len(c.sq) /\ Len(m.sq) = n - 1
      BY <1>4
  <2>2. n - 1 \in Nat /\ (n - 1) + 1 = n /\ c.cq \in Nat /\ Len(c.out) \in Nat
      BY <1>2, <2>1, SMT
  <2> QED
      BY <1>2, <2>1, <2>2
<1>6. Busy(m) = b
    BY <1>4, <1>5 DEF Busy
<1>7. LineParts(c, l + 1, b) /\ LineParts(m, l, b)
  <2>1. PICK p \in Nat : p = l + 1 /\ p = Len(c.sq)
      BY <1>5, SMT
  <2>2. LineParts(c, p, b)
      BY <1>5, <2>1, AtIs
  <2>3. LineParts(m, l, b)
      BY <1>5, <1>6, AtIs
  <2> QED
      BY <2>1, <2>2, <2>3
<1>8. InLine(c) = InLine(m) + 1 /\ InLine(m) = l + b + k /\ Sends(c) = Sends(m) + 1 /\ Sends(m) = l + o
  <2>1. (l + 1) + b + k = (l + b + k) + 1 /\ (l + 1) + o = (l + o) + 1
      BY SMT
  <2> QED
      BY <1>4, <1>5, <1>6, <2>1 DEF InLine, Sends
<1>9. \A i \in 1 .. l : m.sq[i] = c.sq[i + 1]
    BY <1>4, <1>5
<1>10. ASSUME NEW i \in 1 .. l + b + k PROVE At(m, i) = At(c, i + 1)
  <2>1. CASE i \in 1 .. l
    <3>1. i + 1 \in 1 .. l + 1
        BY <2>1, SMT
    <3>2. At(m, i) = m.sq[i].dest /\ At(c, i + 1) = c.sq[i + 1].dest
        BY <1>7, <2>1, <3>1 DEF LineParts
    <3> QED
        BY <1>9, <2>1, <3>2
  <2>2. CASE b = 1 /\ i = l + 1
    <3>1. Received(m) = Received(c)
        BY <1>4 DEF Received
    <3>2. /\ At(m, l + 1) = IF m.out = <<>> THEN Received(m) ELSE m.out[1].dest
          /\ At(c, (l + 1) + 1) = IF c.out = <<>> THEN Received(c) ELSE c.out[1].dest
        BY <1>7, <2>2 DEF LineParts
    <3> QED
        BY <1>4, <2>2, <3>1, <3>2
  <2>3. ASSUME NEW j \in 0 .. k - 1, i = l + b + j + 1 PROVE At(m, i) = At(c, i + 1)
    <3>1. j \in Nat /\ (l + 1) + b + j + 1 = i + 1
        BY <2>3, SMT
    <3>2. /\ At(m, l + b + j + 1) = m.messagePool[Wrap(m.curMessage + j, m.nr)]
          /\ At(c, (l + 1) + b + j + 1) = c.messagePool[Wrap(c.curMessage + j, c.nr)]
        BY <1>7, <3>1 DEF LineParts
    <3> QED
        BY <1>4, <2>3, <3>1, <3>2
  <2>4. i \in 1 .. l \/ (b = 1 /\ i = l + 1) \/ \E j \in 0 .. k - 1 : i = l + b + j + 1
      BY LineIndex
  <2> QED
      BY <2>1, <2>2, <2>3, <2>4
<1>11. ASSUME NEW i \in 1 .. l + o PROVE Payload(m, i) = Payload(c, i + 1)
  <2>1. CASE i \in 1 .. l
    <3>1. i <= l /\ i + 1 <= l + 1
        BY <2>1, SMT
    <3>2. SendAt(m, i) = m.sq[i] /\ SendAt(c, i + 1) = c.sq[i + 1]
        BY <1>5, <3>1 DEF SendAt
    <3> QED
        BY <1>4, <1>9, <2>1, <3>2 DEF Payload
  <2>2. CASE i \notin 1 .. l
    <3>1. ~(i <= l) /\ ~(i + 1 <= l + 1)
        BY <2>2, SMT
    <3>2. SendAt(m, i) = m.out[1] /\ SendAt(c, i + 1) = c.out[1]
        BY <1>5, <3>1 DEF SendAt
    <3> QED
        BY <1>4, <3>2 DEF Payload
  <2> QED
      BY <2>1, <2>2
<1>12. Head(c.sq).dest = At(c, 1) /\ c.sendPool[Head(c.sq).slot] = Payload(c, 1)
  <2>1. 1 \in 1 .. l + 1 /\ 1 <= l + 1
      BY SMT
  <2>2. At(c, 1) = c.sq[1].dest
      BY <1>7, <2>1 DEF LineParts
  <2>3. SendAt(c, 1) = c.sq[1]
      BY <1>5, <2>1 DEF SendAt
  <2>4. Head(c.sq) = c.sq[1]
      BY <1>4
  <2>5. Payload(c, 1) = c.sendPool[c.sq[1].slot]
      BY <2>3 DEF Payload
  <2> QED
      BY <2>2, <2>4, <2>5
<1> QED
    BY <1>1, <1>3, <1>4, <1>8, <1>10, <1>11, <1>12 DEF Left

-----------------------------------------------------------------------------
(* A thread stands in a line once, so a line is no longer than there are     *)
(* threads                                                                   *)

LEMMA LineIsShort ==
    ASSUME NEW c, NEW d, ConnOK(c, DIR_MESSAGE_NR, Threads), LineOK(c, d),
           NEW T, IsFiniteSet(T), \A i \in 1 .. InLine(c) : At(c, i) \in T
    PROVE  InLine(c) <= Cardinality(T)
<1>1. InLine(c) \in Nat
    BY ConnTypes
<1>2. PICK n \in Nat : n = InLine(c)
    BY <1>1
<1>3. PICK k \in Nat : k = Cardinality(T)
    BY FS_CardinalityType
<1>4. SUFFICES ASSUME ~(n <= k) PROVE FALSE
    BY <1>2, <1>3
<1>5. IsFiniteSet(1 .. n) /\ Cardinality(1 .. n) = n
  <2>1. 1 \in Int /\ n \in Int /\ n - 1 + 1 = n /\ ~(1 > n)
      BY <1>4, SMT
  <2> QED
      BY <2>1, FS_Interval
<1>6. k < n
    BY <1>4, SMT
<1>7. PICK f : f = [i \in 1 .. n |-> At(c, i)]
    OBVIOUS
<1>8. f \in [1 .. n -> T]
    BY <1>2, <1>7
<1>9. \E x, y \in 1 .. n : x # y /\ f[x] = f[y]
  <2>1. Cardinality(T) < Cardinality(1 .. n)
      BY <1>3, <1>5, <1>6
  <2> QED
      BY <1>5, <1>8, <2>1, FS_PigeonHole
<1> QED
    BY <1>2, <1>7, <1>9 DEF LineOK

LEMMA SendsInLine ==
    ASSUME NEW c, NEW d, ConnOK(c, DIR_MESSAGE_NR, Threads), LineOK(c, d)
    PROVE  Sends(c) <= InLine(c)
<1>1. /\ Len(c.sq) \in Nat /\ Len(c.out) \in 0 .. 1 /\ c.cq \in Nat /\ Busy(c) \in 0 .. 1
      /\ c.out = <<>> <=> Len(c.out) = 0
  <2>1. c.cq \in 0 .. DIR_MESSAGE_NR /\ DIR_MESSAGE_NR \in Nat
      BY ConnTypes
  <2> QED
      BY <2>1, ConnTypes, SMT
<1>2. PICK l \in Nat, o \in 0 .. 1, k \in Nat, b \in 0 .. 1 :
        l = Len(c.sq) /\ o = Len(c.out) /\ k = c.cq /\ b = Busy(c)
    BY <1>1
<1>3. o # 0 => b = 1
    BY <1>1, <1>2 DEF LineOK, Busy
<1>4. l + o <= l + b + k
    BY <1>3, SMT
<1> QED
    BY <1>2, <1>4 DEF Sends, InLine

\* A receive is posted for a thread that does not stand in the line.
LEMMA ReceiveIsPosted ==
    ASSUME EnoughReceives, NEW c, NEW d, ConnOK(c, DIR_MESSAGE_NR, Threads), LineOK(c, d),
           NEW t \in Threads, \A i \in 1 .. InLine(c) : At(c, i) # t
    PROVE  c.recvs # <<>> /\ Busy(c) + c.cq < DIR_MESSAGE_NR
<1>1. PICK T : T = Threads \ {t}
    OBVIOUS
<1>2. /\ IsFiniteSet(T) /\ Cardinality(T) = Cardinality(Threads) - 1 /\ IsFiniteSet(Threads)
      /\ Cardinality(Threads) \in Nat
    BY <1>1, FS_RemoveElement, FS_CardinalityType DEF EnoughReceives
<1>3. InLine(c) <= Cardinality(T)
  <2>1. \A i \in 1 .. InLine(c) : At(c, i) \in T
      BY <1>1 DEF LineOK, Queues
  <2> QED
      BY <1>2, <2>1, LineIsShort
<1>4. PICK nr \in {DIR_MESSAGE_NR, APP_MESSAGE_NR}, s \in {subNR(DIR_MESSAGE_NR)} :
        nr = DIR_MESSAGE_NR /\ s = subNR(nr)
    OBVIOUS
<1>5. nr \in Nat \ {0} /\ s \in Nat \ {0} /\ s <= nr
    BY <1>4, RingSizes
<1>6. /\ c.cq \in 0 .. nr /\ c.curMessage \in 0 .. nr - 1 /\ Len(c.sq) \in Nat /\ Busy(c) \in 0 .. 1
    BY <1>4, ConnTypes
<1>7. PICK l \in Nat, b \in 0 .. 1, k \in Nat, n \in Nat, p \in Nat :
        l = Len(c.sq) /\ b = Busy(c) /\ k = c.cq /\ n = Cardinality(Threads) /\ p = c.curMessage
  <2>1. c.cq \in Nat /\ c.curMessage \in Nat
      BY <1>5, <1>6, SMT
  <2> QED
      BY <1>2, <1>6, <2>1
<1>8. l + b + k <= n - 1 /\ n <= nr - s + 1
  <2>1. n <= nr - s + 1
      BY <1>4, <1>7 DEF EnoughReceives, subNR
  <2> QED
      BY <1>2, <1>3, <1>7, <2>1 DEF InLine
<1>9. b + k <= nr - s
    BY <1>5, <1>8, SMT
<1>10. PICK r \in 0 .. s - 1 : r = p % s
    BY <1>5, SMT
<1>11. PICK z : z = Len(c.recvs)
    OBVIOUS
<1>12. z + k + r = nr /\ c.recvs \in Seq(Nat)
    BY <1>4, <1>7, <1>10, <1>11 DEF ConnOK, RecvOK
<1>13. z \in Nat
    BY <1>11, <1>12, Lengths
<1>14. z # 0 /\ b + k < nr
    BY <1>5, <1>9, <1>12, <1>13, SMT
<1>15. Len(<<>>) = 0
    BY SMT
<1> QED
    BY <1>4, <1>7, <1>11, <1>14, <1>15

\* A send buffer is free for the thread in the hand.
LEMMA SendBufferIsFree ==
    ASSUME EnoughReceives, NEW c, NEW d, ConnOK(c, DIR_MESSAGE_NR, Threads), LineOK(c, d),
           c.hand # None
    PROVE  Len(c.sq) < DIR_MESSAGE_NR
<1>1. IsFiniteSet(Threads) /\ Cardinality(Threads) \in Nat
    BY FS_CardinalityType DEF EnoughReceives
<1>2. InLine(c) <= Cardinality(Threads)
  <2>1. \A i \in 1 .. InLine(c) : At(c, i) \in Threads
      BY DEF LineOK, Queues
  <2> QED
      BY <1>1, <2>1, LineIsShort
<1>3. PICK nr \in {DIR_MESSAGE_NR, APP_MESSAGE_NR}, s \in {subNR(DIR_MESSAGE_NR)} :
        nr = DIR_MESSAGE_NR /\ s = subNR(nr)
    OBVIOUS
<1>4. nr \in Nat \ {0} /\ s \in Nat \ {0} /\ s <= nr
    BY <1>3, RingSizes
<1>5. Len(c.sq) \in Nat /\ c.cq \in 0 .. nr /\ Busy(c) = 1
    BY <1>3, ConnTypes DEF Busy
<1>6. PICK l \in Nat, k \in Nat, n \in Nat : l = Len(c.sq) /\ k = c.cq /\ n = Cardinality(Threads)
  <2>1. c.cq \in Nat
      BY <1>4, <1>5, SMT
  <2> QED
      BY <1>1, <1>5, <2>1
<1>7. l + 1 + k <= n
    BY <1>2, <1>5, <1>6 DEF InLine
<1>8. n <= nr - s + 1
    BY <1>3, <1>6 DEF EnoughReceives, subNR
<1>9. l < nr
    BY <1>4, <1>7, <1>8, SMT
<1> QED
    BY <1>3, <1>6, <1>9
=============================================================================
