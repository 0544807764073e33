------------------------------ MODULE RpcProofs ------------------------------
(***************************************************************************)
(* Proofs about Rpc, for any number of buffers and batches and any number  *)
(* of threads up to the receives a directory always keeps posted: the      *)
(* rings lose and corrupt no message, so that the allocators behind them   *)
(* do what those of Allocator do.                                          *)
(***************************************************************************)
EXTENDS RpcLines

\* Zenon proves the leaves that need no arithmetic; the others cite SMT.
USE Zenon

-----------------------------------------------------------------------------
(* What a step leaves alone                                                  *)

Undisturbed(t) ==
    /\ tcon'[t] = tcon[t] /\ waiting'[t] = waiting[t] /\ target'[t] = target[t]
    /\ replies'[t] = replies[t]
    /\ \A d \in Dirs : t \in requests[d] => t \in requests'[d]

LEMMA ThreadKept ==
    ASSUME NEW t \in Threads, ThreadOK(t), target[t] \in Dirs, Undisturbed(t)
    PROVE  ThreadOK(t)'
<1>1. /\ tcon'[t] = tcon[t] /\ waiting'[t] = waiting[t] /\ target'[t] = target[t]
      /\ replies'[t] = replies[t]
      /\ t \in requests[target[t]] => t \in requests'[target[t]]
    BY DEF Undisturbed
<1>2. PICK c : c = tcon[t] /\ c = tcon'[t]
    BY <1>1
<1>3. /\ ConnOK(c, APP_MESSAGE_NR, Dirs) /\ c.hand = None
      /\ Quiet(c) \/ Asks(c, t) \/ IsAnswered(c, t)
    BY <1>2 DEF ThreadOK
<1>4. Quiet(c)' = Quiet(c) /\ ConnOK(c, APP_MESSAGE_NR, Dirs)' = ConnOK(c, APP_MESSAGE_NR, Dirs)
    OBVIOUS
<1>5. Asks(c, t) => Asks(c, t)'
    BY <1>1 DEF Asks
<1>6. IsAnswered(c, t) => IsAnswered(c, t)'
    BY <1>1 DEF IsAnswered
<1>7. ConnOK(c, APP_MESSAGE_NR, Dirs)' /\ (Quiet(c)' \/ Asks(c, t)' \/ IsAnswered(c, t)')
    BY <1>3, <1>4, <1>5, <1>6
<1> QED
    BY <1>2, <1>3, <1>7 DEF ThreadOK

LEMMA QueueKept ==
    ASSUME NEW t, NEW d, Queues(t, d), Undisturbed(t)
    PROVE  Queues(t, d)'
BY DEF Queues, Undisturbed

LEMMA LineKept ==
    ASSUME NEW d \in Dirs, NEW c, NEW m, LineOK(c, d), Sends(c) \in Nat, SameLine(m, c),
           \A t \in Threads : Queues(t, d) => Undisturbed(t)
    PROVE  LineOK(m, d)'
<1>1. /\ m.out # <<>> => m.hand # None
      /\ InLine(m) = InLine(c) /\ Sends(m) = Sends(c)
      /\ \A i \in 1 .. InLine(c) : At(m, i) = At(c, i)
      /\ \A i \in 1 .. Sends(c) : Payload(m, i) = Payload(c, i)
    BY DEF SameLine
<1>2. ASSUME NEW i \in 1 .. InLine(c)
      PROVE  /\ Queues(At(m, i), d)'
             /\ i <= Sends(m) => replies'[At(m, i)] = {Payload(m, i)}
             /\ i > Sends(m) => At(m, i) \in requests'[d]
  <2>1. PICK t : t = At(c, i)
      OBVIOUS
  <2>2. /\ Queues(t, d)
        /\ i <= Sends(c) => replies[t] = {Payload(c, i)}
        /\ i > Sends(c) => t \in requests[d]
      BY <2>1 DEF LineOK
  <2>3. t \in Threads /\ Undisturbed(t)
      BY <2>2 DEF Queues
  <2>4. Queues(t, d)'
      BY <2>2, <2>3, QueueKept
  <2>5. replies'[t] = replies[t] /\ (t \in requests[d] => t \in requests'[d])
      BY <2>3 DEF Undisturbed
  <2>6. i <= Sends(c) => i \in 1 .. Sends(c)
      BY SMT
  <2>7. At(m, i) = t /\ Sends(m) = Sends(c)
      BY <1>1, <2>1
  <2>8. i <= Sends(m) => Payload(m, i) = Payload(c, i)
      BY <1>1, <2>6, <2>7
  <2>9. i <= Sends(m) => replies'[At(m, i)] = {Payload(m, i)}
      BY <2>2, <2>5, <2>7, <2>8
  <2> QED
      BY <2>2, <2>4, <2>5, <2>7, <2>9
<1>3. \A i, j \in 1 .. InLine(c) : At(m, i) = At(m, j) => i = j
    BY <1>1 DEF LineOK
<1> QED
    BY <1>1, <1>2, <1>3 DEF LineOK

LEMMA DirKept ==
    ASSUME NEW d \in Dirs, DirOK(d), dcon'[d] = dcon[d],
           \A t \in Threads : Queues(t, d) => Undisturbed(t)
    PROVE  DirOK(d)'
<1>1. PICK c : c = dcon[d] /\ c = dcon'[d]
    OBVIOUS
<1>2. ConnOK(c, DIR_MESSAGE_NR, Threads) /\ LineOK(c, d)
    BY <1>1 DEF DirOK
<1>3. Sends(c) \in Nat
    BY <1>2, ConnTypes
<1>4. SameLine(c, c)
    BY <1>2 DEF SameLine, LineOK
<1>5. LineOK(c, d)'
    BY <1>2, <1>3, <1>4, LineKept
<1> QED
    BY <1>1, <1>2, <1>5 DEF DirOK

LEMMA PlaceKept ==
    ASSUME NEW t \in Threads, Placed(t), Undisturbed(t),
           t \in Members(dcon[target[t]]) => t \in Members(dcon'[target[t]])
    PROVE  Placed(t)'
BY DEF Placed, Undisturbed

\* A step of a thread that no line holds.
LEMMA ThreadStep ==
    ASSUME CallTypeOK, RingInv, NEW t \in Threads, NEW m, tcon' = [tcon EXCEPT ![t] = m],
           dcon' = dcon, \A d \in Dirs : ~Queues(t, d),
           \A u \in Threads \ {t} : Undisturbed(u), ThreadOK(t)', waiting'[t] = 0 \/ ~Quiet(m)
    PROVE  RingInv'
<1>1. DOMAIN dcon' = Dirs /\ DOMAIN tcon' = Threads
    BY DEF RingInv
<1>2. ASSUME NEW d \in Dirs PROVE DirOK(d)'
  <2>1. \A u \in Threads : Queues(u, d) => Undisturbed(u)
      OBVIOUS
  <2> QED
      BY <2>1, DirKept DEF RingInv
<1>3. ASSUME NEW u \in Threads PROVE ThreadOK(u)'
  <2>1. CASE u # t
      BY <2>1, ThreadKept DEF RingInv, CallTypeOK
  <2> QED
      BY <2>1
<1>4. ASSUME NEW u \in Threads PROVE Placed(u)'
  <2>1. CASE u # t
      BY <2>1, PlaceKept DEF RingInv
  <2>2. CASE u = t
    <3>1. tcon'[t] = m
        BY DEF RingInv
    <3> QED
        BY <2>2, <3>1 DEF Placed
  <2> QED
      BY <2>1, <2>2
<1> QED
    BY <1>1, <1>2, <1>3, <1>4 DEF RingInv

\* A step of a directory that moves no one in its line.
LEMMA DirStep ==
    ASSUME CallTypeOK, RingInv, NEW d \in Dirs, NEW m, dcon' = [dcon EXCEPT ![d] = m],
           ConnOK(m, DIR_MESSAGE_NR, Threads), SameLine(m, dcon[d]), UNCHANGED <<vars, tcon>>
    PROVE  RingInv'
<1>1. DOMAIN dcon' = Dirs /\ DOMAIN tcon' = Threads
    BY DEF RingInv
<1>2. \A u \in Threads : Undisturbed(u)
    BY DEF Undisturbed, vars
<1>3. ASSUME NEW e \in Dirs PROVE DirOK(e)'
  <2>1. CASE e = d
    <3>1. PICK c : c = dcon[d]
        OBVIOUS
    <3>2. ConnOK(c, DIR_MESSAGE_NR, Threads) /\ LineOK(c, d) /\ SameLine(m, c)
        BY <3>1 DEF RingInv, DirOK
    <3>3. Sends(c) \in Nat
        BY <3>2, ConnTypes
    <3>4. LineOK(m, d)'
        BY <1>2, <3>2, <3>3, LineKept
    <3>5. dcon'[d] = m
        BY DEF RingInv
    <3> QED
        BY <2>1, <3>4, <3>5 DEF DirOK
  <2>2. CASE e # d
      BY <1>2, <2>2, DirKept DEF RingInv
  <2> QED
      BY <2>1, <2>2
<1>4. ASSUME NEW u \in Threads PROVE ThreadOK(u)'
    BY <1>2, ThreadKept DEF RingInv, CallTypeOK
<1>5. ASSUME NEW u \in Threads PROVE Placed(u)'
  <2>1. Members(m) = Members(dcon[d])
      BY DEF SameLine, Members
  <2>2. \A e \in Dirs : Members(dcon'[e]) = Members(dcon[e])
      BY <2>1 DEF RingInv
  <2>3. target[u] \in Dirs
      BY DEF CallTypeOK
  <2> QED
      BY <1>2, <2>2, <2>3, PlaceKept DEF RingInv
<1> QED
    BY <1>1, <1>3, <1>4, <1>5 DEF RingInv

-----------------------------------------------------------------------------
(* The steps                                                                 *)

LEMMA PollStep ==
    ASSUME CallTypeOK, RingInv, NEW d \in Dirs, dirThread(d)
    PROVE  RingInv' /\ UNCHANGED vars
<1>1. PICK c, m : c = dcon[d] /\ m = getMessage(c)
    OBVIOUS
<1>2. ConnOK(c, DIR_MESSAGE_NR, Threads) /\ LineOK(c, d)
    BY <1>1 DEF RingInv, DirOK
<1>3. /\ c.hand = None /\ c.cq > 0 /\ dcon' = [dcon EXCEPT ![d] = m]
      /\ UNCHANGED <<vars, tcon>> /\ UNCHANGED vars
    BY <1>1 DEF dirThread, RingInv
<1>4. c.out = <<>>
    BY <1>2, <1>3 DEF LineOK
<1>5. ConnOK(m, DIR_MESSAGE_NR, Threads) /\ SameLine(m, c)
    BY <1>1, <1>2, <1>3, <1>4, PolledLine
<1>6. SameLine(m, dcon[d])
    BY <1>1, <1>5
<1> QED
    BY <1>3, <1>5, <1>6, DirStep

LEMMA PostStep ==
    ASSUME CallTypeOK, RingInv, NEW d \in Dirs, sendMessage2App(d)
    PROVE  RingInv' /\ UNCHANGED vars
<1>1. PICK c, m : c = dcon[d] /\ m = [sendRawMessage(c) EXCEPT !.hand = None]
    OBVIOUS
<1>2. ConnOK(c, DIR_MESSAGE_NR, Threads) /\ LineOK(c, d)
    BY <1>1 DEF RingInv, DirOK
<1>3. /\ c.out # <<>> /\ dcon' = [dcon EXCEPT ![d] = m]
      /\ UNCHANGED <<vars, tcon>> /\ UNCHANGED vars
    BY <1>1 DEF sendMessage2App, CanSend, RingInv
<1>4. c.hand # None
    BY <1>2, <1>3 DEF LineOK
<1>5. ConnOK(m, DIR_MESSAGE_NR, Threads) /\ SameLine(m, c)
    BY <1>1, <1>2, <1>3, <1>4, PostedLine
<1>6. SameLine(m, dcon[d])
    BY <1>1, <1>5
<1> QED
    BY <1>3, <1>5, <1>6, DirStep

\* The thread a directory answers has asked it.
LEMMA AnswerStep ==
    ASSUME EnoughReceives, CallTypeOK, CallInv, RingInv, NEW d \in Dirs, Process(d)
    PROVE  RingInv' /\ \E t \in Threads : process_message(d, t)
<1>1. PICK c, t, v, m : /\ c = dcon[d] /\ t = Received(c) /\ v = alloc_chunck(d).res
                        /\ m = getSendPool(c, v, t)
    OBVIOUS
<1>2. ConnOK(c, DIR_MESSAGE_NR, Threads) /\ LineOK(c, d)
    BY <1>1 DEF RingInv, DirOK
<1>3. /\ c.hand # None /\ c.out = <<>> /\ Answer(d, t)
      /\ dcon' = [dcon EXCEPT ![d] = m] /\ tcon' = tcon
    BY <1>1 DEF Process
<1>4. PICK l \in Nat, k \in Nat : /\ l = Len(c.sq) /\ k = c.cq /\ Sends(c) = l
                                  /\ InLine(c) = l + 1 + k /\ Busy(c) = 1
  <2>1. Len(c.sq) \in Nat /\ c.cq \in 0 .. DIR_MESSAGE_NR /\ DIR_MESSAGE_NR \in Nat
      BY <1>2, ConnTypes
  <2>2. c.cq \in Nat /\ Len(<<>>) = 0
      BY <2>1, SMT
  <2>3. Busy(c) = 1
      BY <1>3 DEF Busy
  <2>4. Sends(c) = Len(c.sq)
    <3>1. \A n \in Nat : n + 0 = n
        BY SMT
    <3> QED
        BY <1>3, <2>1, <2>2, <3>1 DEF Sends
  <2> QED
      BY <2>1, <2>2, <2>3, <2>4 DEF InLine
<1>5. At(c, l + 1) = t
  <2>1. PICK b \in 0 .. 1 : b = 1 /\ b = Busy(c)
      BY <1>4, SMT
  <2>2. LineParts(c, l, b)
      BY <1>4, <2>1, AtIs
  <2> QED
      BY <1>1, <1>3, <2>1, <2>2 DEF LineParts
<1>6. l + 1 \in 1 .. InLine(c) /\ l + 1 > l
    BY <1>4, SMT
<1>7. t \in Threads /\ Queues(t, d) /\ t \in requests[d]
    BY <1>2, <1>4, <1>5, <1>6 DEF LineOK, Queues
<1>8. process_message(d, t)
    BY <1>3, <1>7 DEF process_message
<1>9. ConnOK(m, DIR_MESSAGE_NR, Threads) /\ NextAnswered(m, c, v)
  <2>1. Len(c.sq) < DIR_MESSAGE_NR
      BY <1>2, <1>3, SendBufferIsFree
  <2> QED
      BY <1>1, <1>2, <1>3, <1>7, <2>1, AnsweredLine
<1>10. /\ requests' = [requests EXCEPT ![d] = @ \ {t}]
       /\ replies' = [replies EXCEPT ![t] = @ \union {v}]
       /\ target' = target /\ waiting' = waiting
    BY <1>1, <1>3 DEF Answer
<1>11. /\ requests'[d] = requests[d] \ {t}
       /\ \A e \in Dirs : e # d => requests'[e] = requests[e]
    BY <1>10 DEF CallTypeOK
<1>12. replies'[t] = {v} /\ \A u \in Threads : u # t => replies'[u] = replies[u]
  <2>1. replies[t] = {}
      BY <1>7 DEF CallInv
  <2> QED
      BY <1>7, <1>10, <2>1 DEF CallTypeOK
<1>13. \A u \in Threads : u # t => Undisturbed(u)
    BY <1>3, <1>10, <1>11, <1>12 DEF Undisturbed
<1>14. LineOK(m, d)'
  <2>1. /\ InLine(m) = InLine(c) /\ Sends(m) = l + 1 /\ m.hand # None
        /\ \A i \in 1 .. InLine(c) : At(m, i) = At(c, i)
        /\ \A i \in 1 .. l : Payload(m, i) = Payload(c, i)
        /\ Payload(m, l + 1) = v
      BY <1>4, <1>9 DEF NextAnswered
  <2>2. ASSUME NEW i \in 1 .. InLine(c), i # l + 1
        PROVE  /\ Queues(At(m, i), d)'
               /\ i <= Sends(m) => replies'[At(m, i)] = {Payload(m, i)}
               /\ i > Sends(m) => At(m, i) \in requests'[d]
    <3>1. PICK u : u = At(c, i)
        OBVIOUS
    <3>2. /\ Queues(u, d) /\ u \in Threads
          /\ i <= l => replies[u] = {Payload(c, i)}
          /\ i > l => u \in requests[d]
        BY <1>2, <1>4, <3>1 DEF LineOK, Queues
    <3>3. u # t
        BY <1>2, <1>5, <1>6, <2>2, <3>1 DEF LineOK
    <3>4. Queues(u, d)'
        BY <1>13, <3>2, <3>3, QueueKept
    <3>5. (i <= l + 1 => i \in 1 .. l /\ i <= l) /\ (i > l + 1 => i > l)
        BY <1>4, <2>2, SMT
    <3>6. At(m, i) = u
        BY <2>1, <3>1
    <3>7. i <= l + 1 => Payload(m, i) = Payload(c, i)
        BY <2>1, <3>5
    <3>8. replies'[u] = replies[u] /\ (u \in requests[d] => u \in requests'[d])
        BY <1>11, <1>12, <3>2, <3>3
    <3> QED
        BY <2>1, <3>2, <3>4, <3>5, <3>6, <3>7, <3>8
  <2>3. /\ Queues(At(m, l + 1), d)'
        /\ l + 1 <= Sends(m) => replies'[At(m, l + 1)] = {Payload(m, l + 1)}
        /\ l + 1 > Sends(m) => At(m, l + 1) \in requests'[d]
    <3>1. At(m, l + 1) = t
        BY <1>5, <1>6, <2>1
    <3>2. Queues(t, d)'
        BY <1>3, <1>7, <1>10 DEF Queues
    <3>3. ~(l + 1 > l + 1)
        BY SMT
    <3> QED
        BY <1>12, <2>1, <3>1, <3>2, <3>3
  <2>4. \A i, j \in 1 .. InLine(c) : At(m, i) = At(m, j) => i = j
      BY <1>2, <2>1 DEF LineOK
  <2>5. ASSUME NEW i \in 1 .. InLine(c)
        PROVE  /\ Queues(At(m, i), d)'
               /\ i <= Sends(m) => replies'[At(m, i)] = {Payload(m, i)}
               /\ i > Sends(m) => At(m, i) \in requests'[d]
    <3>1. CASE i = l + 1
        BY <2>3, <3>1
    <3> QED
        BY <2>2, <3>1
  <2> QED
      BY <2>1, <2>4, <2>5 DEF LineOK
<1>15. DOMAIN dcon' = Dirs /\ DOMAIN tcon' = Threads /\ dcon'[d] = m
    BY <1>3 DEF RingInv
<1>16. ASSUME NEW e \in Dirs PROVE DirOK(e)'
  <2>1. CASE e = d
      BY <1>9, <1>14, <1>15, <2>1 DEF DirOK
  <2>2. CASE e # d
    <3>1. \A u \in Threads : Queues(u, e) => Undisturbed(u)
        BY <1>7, <1>13, <2>2 DEF Queues
    <3>2. dcon'[e] = dcon[e]
        BY <1>3, <2>2 DEF RingInv
    <3> QED
        BY <3>1, <3>2, DirKept DEF RingInv
  <2> QED
      BY <2>1, <2>2
<1>17. ASSUME NEW u \in Threads PROVE ThreadOK(u)'
  <2>1. CASE u = t
    <3>1. ConnOK(tcon[t], APP_MESSAGE_NR, Dirs) /\ tcon[t].hand = None /\ Quiet(tcon[t])
        BY <1>7 DEF RingInv, ThreadOK, Queues
    <3>2. PICK x : x = tcon[t] /\ x = tcon'[t]
        BY <1>3
    <3>3. ConnOK(x, APP_MESSAGE_NR, Dirs) /\ x.hand = None /\ Quiet(x)
        BY <3>1, <3>2
    <3> QED
        BY <2>1, <3>2, <3>3 DEF ThreadOK
  <2>2. CASE u # t
      BY <1>13, <2>2, ThreadKept DEF RingInv, CallTypeOK
  <2> QED
      BY <2>1, <2>2
<1>18. ASSUME NEW u \in Threads PROVE Placed(u)'
  <2>1. Members(m) = Members(c)
      BY <1>9 DEF NextAnswered, Members
  <2>2. \A e \in Dirs : Members(dcon'[e]) = Members(dcon[e])
      BY <1>1, <1>3, <2>1 DEF RingInv
  <2>3. target[u] \in Dirs
      BY DEF CallTypeOK
  <2> QED
      BY <1>3, <1>10, <2>2, <2>3 DEF RingInv, Placed
<1> QED
    BY <1>7, <1>8, <1>15, <1>16, <1>17, <1>18 DEF RingInv

LEMMA ThreadStates ==
    ASSUME RingInv, NEW t \in Threads, NEW c, c = tcon[t]
    PROVE  /\ ConnOK(c, APP_MESSAGE_NR, Dirs) /\ c.hand = None
           /\ waiting[t] = 0 => Quiet(c)
           /\ c.sq # <<>> \/ c.out # <<>> => Asks(c, t)
           /\ c.cq > 0 => IsAnswered(c, t)
           /\ ~Quiet(c) => \A d \in Dirs : ~Queues(t, d)
<1>1. /\ ConnOK(c, APP_MESSAGE_NR, Dirs) /\ c.hand = None
      /\ Quiet(c) \/ Asks(c, t) \/ IsAnswered(c, t)
    BY DEF RingInv, ThreadOK
<1>2. ~(0 > 0)
    BY SMT
<1>3. c.cq > 0 => c.cq # 0
    BY <1>2
<1>4. /\ waiting[t] = 0 => Quiet(c)
      /\ c.sq # <<>> \/ c.out # <<>> => Asks(c, t)
    BY <1>1 DEF Quiet, Asks, IsAnswered
<1>5. c.cq > 0 => IsAnswered(c, t)
    BY <1>1, <1>3 DEF Quiet, Asks
<1>6. ~Quiet(c) => \A d \in Dirs : ~Queues(t, d)
    BY DEF Queues
<1> QED
    BY <1>1, <1>4, <1>5, <1>6

\* A thread whose connection has nothing to send and nothing to poll.
LEMMA QuietThread ==
    ASSUME NEW t \in Threads, NEW m, tcon'[t] = m, ConnOK(m, APP_MESSAGE_NR, Dirs),
           m.hand = None, Quiet(m)
    PROVE  ThreadOK(t)'
BY DEF ThreadOK

\* The one send of a thread.
LEMMA OneSend ==
    ASSUME NEW c, ConnOK(c, APP_MESSAGE_NR, Dirs), Sends(c) = 1
    PROVE  /\ c.sq # <<>> => Len(c.sq) = 1 /\ c.out = <<>> /\ SendAt(c, 1) = c.sq[1]
           /\ c.out # <<>> => Len(c.sq) = 0 /\ c.sq = <<>> /\ SendAt(c, 1) = c.out[1]
<1>1. /\ Len(c.sq) \in Nat /\ Len(c.out) \in 0 .. 1
      /\ (c.out = <<>> <=> Len(c.out) = 0) /\ (c.sq = <<>> <=> Len(c.sq) = 0)
    BY ConnTypes
<1>2. PICK l \in Nat, o \in 0 .. 1 : l = Len(c.sq) /\ o = Len(c.out)
    BY <1>1
<1>3. l + o = 1
    BY <1>2 DEF Sends
<1>4. (l # 0 => l = 1 /\ o = 0 /\ 1 <= l) /\ (o # 0 => l = 0 /\ ~(1 <= l))
    BY <1>3, SMT
<1> QED
    BY <1>1, <1>2, <1>4 DEF SendAt

\* A thread that asks joins the line of its target.
LEMMA RequestStep ==
    ASSUME EnoughReceives, CallTypeOK, CallInv, RingInv, NEW t \in Threads, TransmitRequest(t)
    PROVE  RingInv' /\ UNCHANGED vars
<1>1. PICK a, b : a = tcon[t] /\ b = Sent(a)
    OBVIOUS
<1>2. /\ a.sq # <<>> /\ tcon' = [tcon EXCEPT ![t] = b] /\ UNCHANGED vars
      /\ dcon' = [dcon EXCEPT ![Head(a.sq).dest] = Delivered(@, a.sendPool[Head(a.sq).slot])]
    BY <1>1 DEF TransmitRequest
<1>3. ConnOK(a, APP_MESSAGE_NR, Dirs) /\ a.hand = None /\ Asks(a, t) /\ ~Quiet(a)
    BY <1>1, <1>2, ThreadStates DEF Quiet
<1>4. PICK d \in Dirs : d = target[t]
    BY DEF CallTypeOK
<1>5. /\ waiting[t] # 0 /\ a.cq = 0 /\ Sends(a) = 1 /\ t \in requests[d]
      /\ SendAt(a, 1).dest = d /\ Payload(a, 1) = t
    BY <1>3, <1>4 DEF Asks
<1>6. Len(a.sq) = 1 /\ a.out = <<>> /\ SendAt(a, 1) = a.sq[1]
    BY <1>2, <1>3, <1>5, OneSend
<1>7. ConnOK(b, APP_MESSAGE_NR, Dirs) /\ Transmitted(b, a)
    BY <1>1, <1>2, <1>3, SentIs
<1>8. b.hand = None /\ Quiet(b)
  <2>1. b.hand = a.hand /\ b.cq = a.cq /\ b.out = a.out /\ Len(b.sq) = Len(a.sq) - 1
      BY <1>7 DEF Transmitted, KeepsRecv
  <2>2. 1 - 1 = 0
      BY SMT
  <2>3. b.sq = <<>> <=> Len(b.sq) = 0
      BY <1>7, ConnTypes
  <2> QED
      BY <1>3, <1>5, <1>6, <2>1, <2>2, <2>3 DEF Quiet
<1>9. Head(a.sq).dest = d /\ a.sendPool[Head(a.sq).slot] = t
  <2>1. Head(a.sq) = SendAt(a, 1)
      BY <1>6, <1>7 DEF Transmitted
  <2> QED
      BY <1>5, <2>1 DEF Payload
<1>10. PICK c, m : c = dcon[d] /\ m = Delivered(c, t)
    OBVIOUS
<1>11. /\ tcon'[t] = b /\ dcon'[d] = m /\ DOMAIN tcon' = Threads /\ DOMAIN dcon' = Dirs
       /\ \A e \in Dirs : e # d => dcon'[e] = dcon[e]
       /\ \A u \in Threads : u # t => tcon'[u] = tcon[u]
    BY <1>2, <1>9, <1>10 DEF RingInv
<1>12. \A u \in Threads : u # t => Undisturbed(u)
    BY <1>2, <1>11 DEF Undisturbed, vars
<1>13. \A e \in Dirs : ~Queues(t, e)
    BY <1>1, <1>3 DEF Queues
<1>14. ConnOK(c, DIR_MESSAGE_NR, Threads) /\ LineOK(c, d)
    BY <1>10 DEF RingInv, DirOK
<1>15. \A i \in 1 .. InLine(c) : At(c, i) # t
    BY <1>13, <1>14 DEF LineOK
<1>16. ConnOK(m, DIR_MESSAGE_NR, Threads) /\ Joined(m, c, t)
  <2>1. c.recvs # <<>> /\ Busy(c) + c.cq < DIR_MESSAGE_NR
      BY <1>14, <1>15, ReceiveIsPosted
  <2> QED
      BY <1>10, <1>14, <2>1, JoinedLine
<1>17. LineOK(m, d)'
  <2>1. PICK n \in Nat, k \in Nat : n = InLine(c) /\ k = Sends(c) /\ k <= n
    <3>1. InLine(c) \in Nat /\ Sends(c) \in Nat
        BY <1>14, ConnTypes
    <3> QED
        BY <1>14, <3>1, SendsInLine
  <2>2. /\ InLine(m) = n + 1 /\ Sends(m) = k /\ m.out = c.out /\ m.hand = c.hand
        /\ \A i \in 1 .. n : At(m, i) = At(c, i)
        /\ At(m, n + 1) = t
        /\ \A i \in 1 .. k : Payload(m, i) = Payload(c, i)
      BY <1>16, <2>1 DEF Joined
  <2>3. \A i \in 1 .. n + 1 : i \in 1 .. n \/ i = n + 1
      BY SMT
  <2>4. ASSUME NEW i \in 1 .. n
        PROVE  /\ Queues(At(m, i), d)'
               /\ i <= k => replies'[At(m, i)] = {Payload(m, i)}
               /\ i > k => At(m, i) \in requests'[d]
    <3>1. PICK u : u = At(c, i) /\ u = At(m, i)
        BY <2>2
    <3>2. /\ Queues(u, d) /\ u \in Threads
          /\ i <= k => replies[u] = {Payload(c, i)}
          /\ i > k => u \in requests[d]
        BY <1>14, <2>1, <3>1 DEF LineOK, Queues
    <3>3. Queues(u, d)'
        BY <1>12, <1>13, <3>2, QueueKept
    <3>4. i <= k => i \in 1 .. k
        BY SMT
    <3>5. replies' = replies /\ requests' = requests
        BY <1>2 DEF vars
    <3> QED
        BY <2>2, <3>1, <3>2, <3>3, <3>4, <3>5
  <2>5. Queues(t, d)' /\ t \in requests'[d]
      BY <1>2, <1>4, <1>5, <1>8, <1>11 DEF Queues, vars
  <2>6. ~(n + 1 <= k)
      BY <2>1, SMT
  <2>7. \A i, j \in 1 .. n + 1 : At(m, i) = At(m, j) => i = j
    <3>1. \A i, j \in 1 .. n : At(m, i) = At(m, j) => i = j
        BY <1>14, <2>1, <2>2 DEF LineOK
    <3>2. \A i \in 1 .. n : At(m, i) # At(m, n + 1)
        BY <1>15, <2>1, <2>2
    <3> QED
        BY <2>3, <3>1, <3>2
  <2>8. m.out # <<>> => m.hand # None
      BY <1>14, <2>2 DEF LineOK
  <2>9. ASSUME NEW i \in 1 .. n + 1
        PROVE  /\ Queues(At(m, i), d)'
               /\ i <= k => replies'[At(m, i)] = {Payload(m, i)}
               /\ i > k => At(m, i) \in requests'[d]
    <3>1. CASE i = n + 1
        BY <2>2, <2>5, <2>6, <3>1
    <3> QED
        BY <2>3, <2>4, <3>1
  <2> QED
      BY <2>2, <2>7, <2>8, <2>9 DEF LineOK
<1>18. ASSUME NEW e \in Dirs PROVE DirOK(e)'
  <2>1. CASE e = d
      BY <1>11, <1>16, <1>17, <2>1 DEF DirOK
  <2>2. CASE e # d
    <3>1. \A u \in Threads : Queues(u, e) => Undisturbed(u)
        BY <1>12, <1>13
    <3> QED
        BY <1>11, <2>2, <3>1, DirKept DEF RingInv
  <2> QED
      BY <2>1, <2>2
<1>19. ASSUME NEW u \in Threads PROVE ThreadOK(u)'
  <2>1. CASE u = t
      BY <1>7, <1>8, <1>11, <2>1, QuietThread
  <2>2. CASE u # t
      BY <1>12, <2>2, ThreadKept DEF RingInv, CallTypeOK
  <2> QED
      BY <2>1, <2>2
<1>20. t \in Members(m) /\ Members(c) \subseteq Members(m)
  <2>1. PICK n \in Nat : n = InLine(c)
    <3>1. InLine(c) \in Nat
        BY <1>14, ConnTypes
    <3> QED
        BY <3>1
  <2>2. 1 .. n \subseteq 1 .. n + 1 /\ n + 1 \in 1 .. n + 1
      BY SMT
  <2>3. /\ InLine(m) = n + 1 /\ \A i \in 1 .. n : At(m, i) = At(c, i)
        /\ At(m, n + 1) = t
      BY <1>16, <2>1 DEF Joined
  <2> QED
      BY <2>1, <2>2, <2>3 DEF Members
<1>21. ASSUME NEW u \in Threads PROVE Placed(u)'
  <2>1. CASE u = t
      BY <1>2, <1>4, <1>11, <1>20, <2>1 DEF Placed, vars
  <2>2. CASE u # t
    <3>1. target[u] \in Dirs
        BY DEF CallTypeOK
    <3>2. u \in Members(dcon[target[u]]) => u \in Members(dcon'[target[u]])
        BY <1>10, <1>11, <1>20, <3>1
    <3> QED
        BY <1>12, <2>2, <3>2, PlaceKept DEF RingInv
  <2> QED
      BY <2>1, <2>2
<1> QED
    BY <1>2, <1>11, <1>18, <1>19, <1>21 DEF RingInv

\* The thread at the head of a line gets its answer.
LEMMA ReplyStep ==
    ASSUME EnoughReceives, CallTypeOK, CallInv, RingInv, NEW d \in Dirs, TransmitReply(d)
    PROVE  RingInv' /\ UNCHANGED vars
<1>1. PICK c, m : c = dcon[d] /\ m = Sent(c)
    OBVIOUS
<1>2. /\ c.sq # <<>> /\ dcon' = [dcon EXCEPT ![d] = m] /\ UNCHANGED vars
      /\ tcon' = [tcon EXCEPT ![Head(c.sq).dest] = Delivered(@, c.sendPool[Head(c.sq).slot])]
    BY <1>1 DEF TransmitReply
<1>3. ConnOK(c, DIR_MESSAGE_NR, Threads) /\ LineOK(c, d)
    BY <1>1 DEF RingInv, DirOK
<1>4. ConnOK(m, DIR_MESSAGE_NR, Threads) /\ Left(m, c)
    BY <1>1, <1>2, <1>3, LeftLine
<1>5. PICK n \in Nat, k \in Nat : n = InLine(m) /\ k = Sends(m)
  <2>1. InLine(m) \in Nat /\ Sends(m) \in Nat
      BY <1>4, ConnTypes
  <2> QED
      BY <2>1
<1>6. /\ InLine(c) = n + 1 /\ Sends(c) = k + 1 /\ m.out = c.out /\ m.hand = c.hand
      /\ \A i \in 1 .. n : At(m, i) = At(c, i + 1)
      /\ \A i \in 1 .. k : Payload(m, i) = Payload(c, i + 1)
      /\ Head(c.sq).dest = At(c, 1) /\ c.sendPool[Head(c.sq).slot] = Payload(c, 1)
    BY <1>4, <1>5 DEF Left
<1>7. PICK t, v : t = At(c, 1) /\ v = Payload(c, 1)
    OBVIOUS
<1>8. t \in Threads /\ Queues(t, d) /\ replies[t] = {v}
  <2>1. 1 \in 1 .. n + 1 /\ 1 <= k + 1
      BY SMT
  <2> QED
      BY <1>3, <1>6, <1>7, <2>1 DEF LineOK, Queues
<1>9. waiting[t] # 0 /\ target[t] = d /\ Quiet(tcon[t])
    BY <1>8 DEF Queues
<1>10. PICK a, b : a = tcon[t] /\ b = Delivered(a, v)
    OBVIOUS
<1>11. /\ tcon'[t] = b /\ dcon'[d] = m /\ DOMAIN tcon' = Threads /\ DOMAIN dcon' = Dirs
       /\ \A e \in Dirs : e # d => dcon'[e] = dcon[e]
       /\ \A u \in Threads : u # t => tcon'[u] = tcon[u]
    BY <1>2, <1>6, <1>7, <1>8, <1>10 DEF RingInv
<1>12. \A u \in Threads : u # t => Undisturbed(u)
    BY <1>2, <1>11 DEF Undisturbed, vars
<1>13. ConnOK(a, APP_MESSAGE_NR, Dirs) /\ a.hand = None /\ a.sq = <<>> /\ a.out = <<>> /\ a.cq = 0
    BY <1>8, <1>9, <1>10, ThreadStates DEF Quiet
<1>14. PICK nr \in {DIR_MESSAGE_NR, APP_MESSAGE_NR} : nr = APP_MESSAGE_NR
    OBVIOUS
<1>15. /\ nr \in Nat \ {0} /\ a.nr = nr /\ a.curMessage \in 0 .. nr - 1
       /\ DOMAIN a.messagePool = 0 .. nr - 1
    BY <1>13, <1>14, ConnTypes
<1>16. a.recvs # <<>>
  <2>1. PICK s : s = subNR(nr)
      OBVIOUS
  <2>2. s \in Nat \ {0} /\ s <= nr
      BY <2>1, RingSizes
  <2>3. PICK p \in Nat : p = a.curMessage
      BY <1>15, SMT
  <2>4. PICK r \in 0 .. s - 1 : r = p % s
      BY <2>2, SMT
  <2>5. PICK z : z = Len(a.recvs)
      OBVIOUS
  <2>6. z + 0 + r = nr /\ a.recvs \in Seq(Nat)
      BY <1>13, <1>14, <2>1, <2>3, <2>4, <2>5 DEF ConnOK, RecvOK
  <2>7. z \in Nat
      BY <2>5, <2>6, Lengths
  <2>8. z # 0
      BY <1>15, <2>2, <2>6, <2>7, SMT
  <2>9. Len(<<>>) = 0
      BY SMT
  <2> QED
      BY <2>5, <2>8, <2>9
<1>17. ConnOK(b, nr, Dirs) /\ Arrived(b, a, v)
  <2>1. ConnOK(a, nr, Dirs)
      BY <1>13, <1>14
  <2> QED
      BY <1>10, <1>16, <2>1, DeliveredIs
<1>18. /\ b.hand = None /\ b.cq = 1 /\ b.sq = <<>> /\ b.out = <<>>
       /\ b.messagePool[b.curMessage] = v
  <2>1. /\ b.hand = a.hand /\ b.cq = a.cq + 1 /\ b.sq = a.sq /\ b.out = a.out
        /\ b.curMessage = a.curMessage
        /\ b.messagePool = [a.messagePool EXCEPT ![Wrap(a.curMessage + a.cq, a.nr)] = v]
      BY <1>17 DEF Arrived, KeepsSend
  <2>2. 0 + 1 = 1 /\ Wrap(a.curMessage + 0, nr) = a.curMessage
      BY <1>15, SMT DEF Wrap
  <2>3. b.messagePool = [a.messagePool EXCEPT ![a.curMessage] = v]
      BY <1>13, <1>15, <2>1, <2>2
  <2> QED
      BY <1>13, <1>15, <2>1, <2>2, <2>3
<1>19. ThreadOK(t)'
  <2>1. IsAnswered(b, t)'
      BY <1>2, <1>8, <1>9, <1>18 DEF IsAnswered, vars
  <2> QED
      BY <1>11, <1>14, <1>17, <1>18, <2>1 DEF ThreadOK
<1>20. \A i \in 1 .. n : i + 1 \in 1 .. n + 1 /\ i + 1 # 1 /\ (i + 1 <= k + 1 <=> i <= k) /\ (i + 1 > k + 1 <=> i > k)
    BY SMT
<1>21. LineOK(m, d)'
  <2>1. ASSUME NEW i \in 1 .. n
        PROVE  /\ Queues(At(m, i), d)' /\ At(m, i) # t
               /\ i <= k => replies'[At(m, i)] = {Payload(m, i)}
               /\ i > k => At(m, i) \in requests'[d]
    <3>1. PICK u : u = At(c, i + 1) /\ u = At(m, i)
        BY <1>6
    <3>2. i + 1 \in 1 .. n + 1 /\ i + 1 # 1 /\ (i <= k => i + 1 <= k + 1) /\ (i > k => i + 1 > k + 1)
        BY <1>20
    <3>3. /\ Queues(u, d) /\ u \in Threads
          /\ i <= k => replies[u] = {Payload(c, i + 1)}
          /\ i > k => u \in requests[d]
        BY <1>3, <1>6, <3>1, <3>2 DEF LineOK, Queues
    <3>4. u # t
      <4>1. 1 \in 1 .. n + 1
          BY SMT
      <4> QED
          BY <1>3, <1>6, <1>7, <3>1, <3>2, <4>1 DEF LineOK
    <3>5. Queues(u, d)'
        BY <1>12, <3>3, <3>4, QueueKept
    <3>6. i <= k => i \in 1 .. k
        BY SMT
    <3>7. replies' = replies /\ requests' = requests
        BY <1>2 DEF vars
    <3> QED
        BY <1>6, <3>1, <3>3, <3>4, <3>5, <3>6, <3>7
  <2>2. \A i, j \in 1 .. n : At(m, i) = At(m, j) => i = j
    <3>1. ASSUME NEW i \in 1 .. n, NEW j \in 1 .. n, At(m, i) = At(m, j) PROVE i = j
      <4>1. At(c, i + 1) = At(c, j + 1) /\ i + 1 \in 1 .. n + 1 /\ j + 1 \in 1 .. n + 1
          BY <1>6, <1>20, <3>1
      <4>2. i + 1 = j + 1
          BY <1>3, <1>6, <4>1 DEF LineOK
      <4> QED
          BY <4>2, SMT
    <3> QED
        BY <3>1
  <2>3. m.out # <<>> => m.hand # None
      BY <1>3, <1>6 DEF LineOK
  <2> QED
      BY <1>5, <2>1, <2>2, <2>3 DEF LineOK
<1>22. ASSUME NEW e \in Dirs PROVE DirOK(e)'
  <2>1. CASE e = d
      BY <1>4, <1>11, <1>21, <2>1 DEF DirOK
  <2>2. CASE e # d
    <3>1. \A u \in Threads : Queues(u, e) => Undisturbed(u)
        BY <1>9, <1>12, <2>2 DEF Queues
    <3> QED
        BY <1>11, <2>2, <3>1, DirKept DEF RingInv
  <2> QED
      BY <2>1, <2>2
<1>23. ASSUME NEW u \in Threads PROVE ThreadOK(u)'
  <2>1. CASE u # t
      BY <1>12, <2>1, ThreadKept DEF RingInv, CallTypeOK
  <2> QED
      BY <1>19, <2>1
<1>24. ASSUME NEW u \in Threads PROVE Placed(u)'
  <2>1. CASE u = t
    <3>1. ~Quiet(b)
      <4>1. 1 # 0
          BY SMT
      <4> QED
          BY <1>18, <4>1 DEF Quiet
    <3> QED
        BY <1>11, <2>1, <3>1 DEF Placed
  <2>2. CASE u # t
    <3>1. target[u] \in Dirs
        BY DEF CallTypeOK
    <3>2. ASSUME u \in Members(c) PROVE u \in Members(m)
      <4>1. PICK i \in 1 .. n + 1 : u = At(c, i)
          BY <1>6, <3>2 DEF Members
      <4>2. i # 1
          BY <1>7, <2>2, <4>1
      <4>3. i - 1 \in 1 .. n /\ (i - 1) + 1 = i
          BY <4>2, SMT
      <4>4. u = At(m, i - 1)
          BY <1>6, <4>1, <4>3
      <4> QED
          BY <1>5, <4>3, <4>4 DEF Members
    <3>3. u \in Members(dcon[target[u]]) => u \in Members(dcon'[target[u]])
        BY <1>1, <1>11, <3>1, <3>2
    <3> QED
        BY <1>12, <2>2, <3>3, PlaceKept DEF RingInv
  <2> QED
      BY <2>1, <2>2
<1> QED
    BY <1>2, <1>11, <1>22, <1>23, <1>24 DEF RingInv

LEMMA SendStep ==
    ASSUME CallTypeOK, RingInv, NEW t \in Threads, sendMessage2Dir(t)
    PROVE  RingInv' /\ UNCHANGED vars
<1>1. PICK a, b : a = tcon[t] /\ b = sendRawMessage(a)
    OBVIOUS
<1>2. a.out # <<>> /\ tcon' = [tcon EXCEPT ![t] = b] /\ UNCHANGED vars /\ dcon' = dcon
    BY <1>1 DEF sendMessage2Dir, CanSend
<1>3. ConnOK(a, APP_MESSAGE_NR, Dirs) /\ a.hand = None /\ Asks(a, t) /\ ~Quiet(a)
    BY <1>1, <1>2, ThreadStates DEF Quiet
<1>4. \A d \in Dirs : ~Queues(t, d)
    BY <1>1, <1>3, ThreadStates
<1>5. /\ waiting[t] # 0 /\ a.cq = 0 /\ Sends(a) = 1 /\ t \in requests[target[t]]
      /\ SendAt(a, 1).dest = target[t] /\ Payload(a, 1) = t
    BY <1>3 DEF Asks
<1>6. Len(a.sq) = 0
    BY <1>2, <1>3, <1>5, OneSend
<1>7. ConnOK(b, APP_MESSAGE_NR, Dirs) /\ Posted(b, a)
    BY <1>1, <1>2, <1>3, SendRawMessageIs
<1>8. /\ b.hand = None /\ b.cq = 0 /\ b.sendPool = a.sendPool /\ b.out = <<>> /\ Len(b.sq) = 1
      /\ b.sq[1].slot = SendAt(a, 1).slot /\ b.sq[1].dest = SendAt(a, 1).dest
  <2>1. 0 + 1 = 1 /\ 1 \in 1 .. 0 + 1
      BY SMT
  <2> QED
      BY <1>3, <1>5, <1>6, <1>7, <2>1 DEF Posted, KeepsRecv
<1>9. Sends(b) = 1 /\ SendAt(b, 1) = b.sq[1]
  <2>1. Len(<<>>) = 0 /\ 1 + 0 = 1 /\ 1 <= 1
      BY SMT
  <2> QED
      BY <1>8, <2>1 DEF Sends, SendAt
<1>10. Asks(b, t)'
  <2>1. Payload(b, 1) = t
      BY <1>5, <1>8, <1>9 DEF Payload
  <2> QED
      BY <1>2, <1>5, <1>8, <1>9, <2>1 DEF Asks, vars
<1>11. tcon'[t] = b /\ \A u \in Threads \ {t} : Undisturbed(u)
    BY <1>2 DEF RingInv, Undisturbed, vars
<1>12. ThreadOK(t)'
    BY <1>7, <1>8, <1>10, <1>11 DEF ThreadOK
<1>13. ~Quiet(b)
  <2>1. Len(<<>>) = 0 /\ 1 # 0
      BY SMT
  <2> QED
      BY <1>8, <2>1 DEF Quiet
<1> QED
    BY <1>2, <1>4, <1>11, <1>12, <1>13, ThreadStep

\* The address a thread installs is the one it was answered with.
LEMMA InstallStep ==
    ASSUME CallTypeOK, RingInv, NEW t \in Threads, rpc_wait(t)
    PROVE  RingInv' /\ RpcWait(t)
<1>1. PICK a, b, n : a = tcon[t] /\ b = getMessage(a) /\ n = [b EXCEPT !.hand = None]
    OBVIOUS
<1>2. /\ waiting[t] # 0 /\ a.cq > 0 /\ Install(t, Received(b))
      /\ tcon' = [tcon EXCEPT ![t] = n] /\ dcon' = dcon
    BY <1>1 DEF rpc_wait
<1>3. ConnOK(a, APP_MESSAGE_NR, Dirs) /\ a.hand = None /\ IsAnswered(a, t)
    BY <1>1, <1>2, ThreadStates
<1>4. \A d \in Dirs : ~Queues(t, d)
  <2>1. ~Quiet(a)
    <3>1. ~(0 > 0)
        BY SMT
    <3> QED
        BY <1>2, <3>1 DEF Quiet
  <2> QED
      BY <1>1, <2>1, ThreadStates
<1>5. ConnOK(b, APP_MESSAGE_NR, Dirs) /\ Polled(b, a)
    BY <1>1, <1>2, <1>3, GetMessageIs
<1>6. ConnOK(n, APP_MESSAGE_NR, Dirs) /\ Dropped(n, b)
    BY <1>1, <1>5, HandDropped
<1>7. n.hand = None /\ Quiet(n)
  <2>1. 1 - 1 = 0
      BY SMT
  <2>2. a.cq = 1 /\ a.sq = <<>> /\ a.out = <<>>
      BY <1>3 DEF IsAnswered
  <2> QED
      BY <1>5, <1>6, <2>1, <2>2 DEF Polled, Dropped, KeepsSend, Quiet
<1>8. Received(b) = a.messagePool[a.curMessage]
    BY <1>5 DEF Polled, Received
<1>9. Received(b) \in replies[t]
    BY <1>3, <1>8 DEF IsAnswered
<1>10. RpcWait(t)
    BY <1>2, <1>9 DEF RpcWait
<1>11. tcon'[t] = n /\ \A u \in Threads \ {t} : tcon'[u] = tcon[u]
    BY <1>2 DEF RingInv
<1>12. \A u \in Threads \ {t} : Undisturbed(u)
  <2>1. /\ waiting' = [waiting EXCEPT ![t] = 0] /\ target' = target /\ requests' = requests
        /\ replies' = [replies EXCEPT ![t] = @ \ {Received(b)}]
      BY <1>2 DEF Install
  <2> QED
      BY <1>11, <2>1 DEF CallTypeOK, Undisturbed
<1>13. ThreadOK(t)'
    BY <1>6, <1>7, <1>11, QuietThread
<1>14. waiting'[t] = 0
    BY <1>2 DEF Install, CallTypeOK
<1> QED
    BY <1>2, <1>4, <1>10, <1>12, <1>13, <1>14, ThreadStep

LEMMA DsmAllocStep ==
    ASSUME CallTypeOK, CallTypeOK', RingInv, NEW t \in Threads,
           NEW size \in {LeafSize, PageSize}, DsmAlloc(t, size)
    PROVE  RingInv'
<1>1. PICK a : a = tcon[t]
    OBVIOUS
<1>2. waiting[t] = 0 /\ Alloc(t, size) /\ dcon' = dcon
    BY DEF DsmAlloc, Alloc
<1>3. /\ ConnOK(a, APP_MESSAGE_NR, Dirs) /\ a.hand = None
      /\ a.sq = <<>> /\ a.out = <<>> /\ a.cq = 0
    BY <1>1, <1>2, ThreadStates DEF Quiet
<1>4. PICK d \in Dirs : d = target'[t]
    BY DEF CallTypeOK
<1>5. /\ target' = [target EXCEPT ![t] = d] /\ replies' = replies
      /\ \/ waiting' = waiting /\ requests' = requests
         \/ /\ waiting' = [waiting EXCEPT ![t] = size]
            /\ requests' = [requests EXCEPT ![d] = @ \union {t}]
  <2>1. PICK e : e = NextTarget(target[t])
      OBVIOUS
  <2>2. /\ target' = [target EXCEPT ![t] = e] /\ replies' = replies
        /\ \/ waiting' = waiting /\ requests' = requests
           \/ /\ waiting' = [waiting EXCEPT ![t] = size]
              /\ requests' = [requests EXCEPT ![e] = @ \union {t}]
      BY <1>2, <2>1 DEF Alloc
  <2>3. e = d
      BY <1>4, <2>2 DEF CallTypeOK
  <2> QED
      BY <2>2, <2>3
<1>6. PICK m : m = IF waiting'[t] = 0 THEN a ELSE getSendPool(a, t, d)
    OBVIOUS
<1>7. tcon' = [tcon EXCEPT ![t] = m]
    BY <1>1, <1>4, <1>6 DEF DsmAlloc, RingInv
<1>8. tcon'[t] = m /\ \A u \in Threads \ {t} : tcon'[u] = tcon[u]
    BY <1>7 DEF RingInv
<1>9. \A u \in Threads \ {t} : Undisturbed(u)
  <2>1. ASSUME NEW u \in Threads \ {t}
        PROVE  /\ waiting'[u] = waiting[u] /\ target'[u] = target[u]
               /\ \A e \in Dirs : u \in requests[e] => u \in requests'[e]
    <3>1. target'[u] = target[u] /\ waiting'[u] = waiting[u]
        BY <1>5 DEF CallTypeOK
    <3>2. ASSUME NEW e \in Dirs, u \in requests[e] PROVE u \in requests'[e]
      <4>1. CASE requests' = requests
          BY <3>2, <4>1
      <4>2. CASE requests' = [requests EXCEPT ![d] = @ \union {t}]
        <5>1. requests'[e] = IF e = d THEN requests[e] \union {t} ELSE requests[e]
            BY <4>2 DEF CallTypeOK
        <5> QED
            BY <3>2, <5>1
      <4> QED
          BY <1>5, <4>1, <4>2
    <3> QED
        BY <3>1, <3>2
  <2> QED
      BY <1>5, <1>8, <2>1 DEF Undisturbed
<1>10. \A e \in Dirs : ~Queues(t, e)
    BY <1>2 DEF Queues
<1>11. ThreadOK(t)'
  <2>1. CASE waiting'[t] = 0
    <3>1. m = a
        BY <1>6, <2>1
    <3> QED
        BY <1>3, <1>8, <3>1, QuietThread DEF Quiet
  <2>2. CASE waiting'[t] # 0
    <3>1. m = getSendPool(a, t, d)
        BY <1>6, <2>2
    <3>2. requests' = [requests EXCEPT ![d] = @ \union {t}]
        BY <1>2, <1>5, <2>2
    <3>3. t \in requests'[target'[t]]
        BY <1>4, <3>2 DEF CallTypeOK
    <3>4. Len(a.sq) < APP_MESSAGE_NR /\ Len(a.sq) = 0
      <4>1. APP_MESSAGE_NR \in Nat \ {0}
          BY RingAssumption
      <4>2. Len(<<>>) = 0 /\ 0 < APP_MESSAGE_NR
          BY <4>1, SMT
      <4> QED
          BY <1>3, <4>2
    <3>5. ConnOK(m, APP_MESSAGE_NR, Dirs) /\ Prepared(m, a, t, d)
        BY <1>3, <3>1, <3>4, GetSendPoolIs
    <3>6. /\ m.hand = None /\ m.cq = 0 /\ m.sq = a.sq /\ Len(m.out) = 1
          /\ m.out[1].slot = a.curSend /\ m.out[1].dest = d /\ m.sendPool[a.curSend] = t
        BY <1>3, <3>5 DEF Prepared, KeepsRecv
    <3>7. Sends(m) = 1 /\ SendAt(m, 1) = m.out[1]
      <4>1. 0 + 1 = 1 /\ ~(1 <= 0)
          BY SMT
      <4> QED
          BY <3>4, <3>6, <4>1 DEF Sends, SendAt
    <3>8. Asks(m, t)'
        BY <1>4, <2>2, <3>3, <3>6, <3>7 DEF Asks, Payload
    <3> QED
        BY <1>8, <3>5, <3>6, <3>8 DEF ThreadOK
  <2> QED
      BY <2>1, <2>2
<1>12. waiting'[t] = 0 \/ ~Quiet(m)
  <2>1. SUFFICES ASSUME waiting'[t] # 0 PROVE ~Quiet(m)
      OBVIOUS
  <2>2. m = getSendPool(a, t, d)
      BY <1>6, <2>1
  <2>3. m.out = <<[slot |-> a.curSend, dest |-> d]>>
      BY <1>3, <2>2 DEF getSendPool, ConnOK, Fields
  <2>4. Len(m.out) = 1 /\ Len(<<>>) = 0 /\ 1 # 0
      BY <2>3, SMT
  <2> QED
      BY <2>4 DEF Quiet
<1> QED
    BY <1>2, <1>7, <1>9, <1>10, <1>11, <1>12, ThreadStep

LEMMA RingsUnchanged ==
    ASSUME CallTypeOK, RingInv, UNCHANGED <<target, waiting, requests, replies, dcon, tcon>>
    PROVE  RingInv'
<1>1. \A t \in Threads : Undisturbed(t)
    BY DEF Undisturbed
<1>2. \A d \in Dirs : DirOK(d)'
    BY <1>1, DirKept DEF RingInv
<1>3. \A t \in Threads : ThreadOK(t)' /\ Placed(t)'
    BY <1>1, ThreadKept, PlaceKept DEF RingInv, CallTypeOK
<1> QED
    BY <1>2, <1>3 DEF RingInv

LEMMA InitRings == RpcInit => RingInv
<1> SUFFICES ASSUME RpcInit PROVE RingInv
    OBVIOUS
<1>1. DOMAIN dcon = Dirs /\ DOMAIN tcon = Threads
    BY DEF RpcInit
<1>2. ASSUME NEW d \in Dirs PROVE DirOK(d)
  <2>1. PICK c : c = dcon[d] /\ c = Connection(DIR_MESSAGE_NR, 0, Null)
      BY DEF RpcInit
  <2>2. ConnOK(c, DIR_MESSAGE_NR, Threads) /\ Fresh(c)
      BY <2>1, ConnectionIs
  <2>3. InLine(c) = 0
    <3>1. 0 + 0 + 0 = 0
        BY SMT
    <3> QED
        BY <2>2, <3>1 DEF InLine, Busy, Fresh
  <2>4. \A i \in 1 .. 0 : FALSE
      BY SMT
  <2>5. LineOK(c, d)
      BY <2>2, <2>3, <2>4 DEF LineOK, Fresh
  <2> QED
      BY <2>1, <2>2, <2>5 DEF DirOK
<1>3. ASSUME NEW t \in Threads PROVE ThreadOK(t)
  <2>1. PICK c : c = tcon[t] /\ c = Connection(APP_MESSAGE_NR, Null, 0)
      BY DEF RpcInit
  <2>2. ConnOK(c, APP_MESSAGE_NR, Dirs) /\ Fresh(c)
      BY <2>1, ConnectionIs
  <2> QED
      BY <2>1, <2>2 DEF ThreadOK, Quiet, Fresh
<1>4. \A t \in Threads : Placed(t)
    BY DEF Placed, RpcInit, Init
<1> QED
    BY <1>1, <1>2, <1>3, <1>4 DEF RingInv

-----------------------------------------------------------------------------
(* The rings carry messages                                                  *)

LEMMA RingStep ==
    ASSUME EnoughReceives, IInv, RingInv, [RpcNext]_rpcvars
    PROVE  RingInv' /\ [Next]_vars
<1>0. CallTypeOK /\ CallInv
    BY DEF IInv
<1>1. ASSUME NEW t \in Threads, NEW size \in {LeafSize, PageSize}, DsmAlloc(t, size)
      PROVE  RingInv' /\ [Next]_vars
  <2>1. Next
      BY <1>1 DEF DsmAlloc, Next
  <2>2. CallTypeOK'
      BY <2>1, NextIInv DEF IInv
  <2> QED
      BY <1>0, <1>1, <2>1, <2>2, DsmAllocStep
<1>2. ASSUME NEW t \in Threads, sendMessage2Dir(t) PROVE RingInv' /\ [Next]_vars
    BY <1>0, <1>2, SendStep
<1>3. ASSUME NEW t \in Threads, rpc_wait(t) PROVE RingInv' /\ [Next]_vars
  <2>1. RingInv' /\ RpcWait(t)
      BY <1>0, <1>3, InstallStep
  <2> QED
      BY <2>1 DEF Next
<1>4. ASSUME NEW t \in Threads, TransmitRequest(t) PROVE RingInv' /\ [Next]_vars
    BY <1>0, <1>4, RequestStep
<1>5. ASSUME NEW t \in Threads, NEW b \in live, FreeBlock(t, b) PROVE RingInv' /\ [Next]_vars
  <2>1. Next
      BY <1>5 DEF FreeBlock, Next
  <2>2. UNCHANGED <<target, waiting, requests, replies, dcon, tcon>>
      BY <1>5 DEF FreeBlock, Free
  <2> QED
      BY <1>0, <2>1, <2>2, RingsUnchanged
<1>6. ASSUME NEW d \in Dirs, dirThread(d) PROVE RingInv' /\ [Next]_vars
    BY <1>0, <1>6, PollStep
<1>7. ASSUME NEW d \in Dirs, Process(d) PROVE RingInv' /\ [Next]_vars
  <2>1. RingInv' /\ \E t \in Threads : process_message(d, t)
      BY <1>0, <1>7, AnswerStep
  <2> QED
      BY <2>1 DEF Next
<1>8. ASSUME NEW d \in Dirs, sendMessage2App(d) PROVE RingInv' /\ [Next]_vars
    BY <1>0, <1>8, PostStep
<1>9. ASSUME NEW d \in Dirs, TransmitReply(d) PROVE RingInv' /\ [Next]_vars
    BY <1>0, <1>9, ReplyStep
<1>10. CASE RpcFinished \/ UNCHANGED rpcvars
  <2>1. UNCHANGED vars /\ UNCHANGED <<target, waiting, requests, replies, dcon, tcon>>
      BY <1>10 DEF RpcFinished, Finished, rpcvars, vars
  <2> QED
      BY <1>0, <2>1, RingsUnchanged
<1> QED
    BY <1>1, <1>2, <1>3, <1>4, <1>5, <1>6, <1>7, <1>8, <1>9, <1>10
       DEF RpcNext, ThreadWaits, Serve

-----------------------------------------------------------------------------
(* The buffers hold what is under way                                        *)

\* The messages a directory has not answered are the back of its line.
LEMMA UnreadIs ==
    ASSUME NEW c, NEW d, ConnOK(c, DIR_MESSAGE_NR, Threads), LineOK(c, d), NEW x
    PROVE  x \in Unread(c) <=> \E i \in 1 .. InLine(c) : i > Sends(c) /\ x = At(c, i)
<1>1. PICK nr \in {DIR_MESSAGE_NR, APP_MESSAGE_NR} : nr = DIR_MESSAGE_NR
    OBVIOUS
<1>2. /\ nr \in Nat \ {0} /\ c.nr = nr /\ Len(c.sq) \in Nat /\ Len(c.out) \in 0 .. 1
      /\ c.cq \in 0 .. nr /\ c.curMessage \in 0 .. nr - 1 /\ Busy(c) \in 0 .. 1
      /\ c.out = <<>> <=> Len(c.out) = 0
    BY <1>1, ConnTypes
<1>3. PICK l \in Nat, b \in 0 .. 1, o \in 0 .. 1, k \in Nat, cur \in 0 .. nr - 1 :
        l = Len(c.sq) /\ b = Busy(c) /\ o = Len(c.out) /\ k = c.cq /\ cur = c.curMessage
  <2>1. c.cq \in Nat
      BY <1>2, SMT
  <2> QED
      BY <1>2, <2>1
<1>4. k <= nr
    BY <1>2, <1>3, SMT
<1>5. LineParts(c, l, b)
    BY <1>3, AtIs
<1>6. InLine(c) = l + b + k /\ Sends(c) = l + o
    BY <1>3 DEF InLine, Sends
<1>7. (b = 1 <=> c.hand # None) /\ (c.out = <<>> <=> o = 0) /\ (o = 1 => b = 1)
  <2>1. 0 # 1 /\ (o = 0 \/ o = 1)
      BY SMT
  <2> QED
      BY <1>2, <1>3, <2>1 DEF Busy, LineOK
<1>8. ASSUME NEW j \in 0 .. k - 1
      PROVE  /\ c.messagePool[(c.curMessage + j) % c.nr] = At(c, l + b + j + 1)
             /\ l + b + j + 1 \in 1 .. InLine(c) /\ l + b + j + 1 > Sends(c)
  <2>1. j \in Nat /\ cur + j \in Nat /\ cur + j < nr + nr
      BY <1>2, <1>4, SMT
  <2>2. (cur + j) % nr = Wrap(cur + j, nr)
      BY <1>2, <2>1, ModWraps
  <2>3. c.messagePool[(c.curMessage + j) % c.nr] = c.messagePool[Wrap(c.curMessage + j, c.nr)]
      BY <1>2, <1>3, <2>2
  <2>4. At(c, l + b + j + 1) = c.messagePool[Wrap(c.curMessage + j, c.nr)]
      BY <1>5, <2>1 DEF LineParts
  <2>5. l + b + j + 1 \in 1 .. l + b + k /\ l + b + j + 1 > l + o
      BY <1>7, SMT
  <2> QED
      BY <1>6, <2>3, <2>4, <2>5
<1>9. ASSUME c.hand # None, c.out = <<>>
      PROVE  Received(c) = At(c, l + 1) /\ l + 1 \in 1 .. InLine(c) /\ l + 1 > Sends(c)
  <2>1. b = 1 /\ o = 0
      BY <1>7, <1>9
  <2>2. l + 1 \in 1 .. l + b + k /\ l + 1 > l + o
      BY <2>1, SMT
  <2> QED
      BY <1>5, <1>6, <1>9, <2>1, <2>2 DEF LineParts
<1>10. ASSUME x \in Unread(c) PROVE \E i \in 1 .. InLine(c) : i > Sends(c) /\ x = At(c, i)
  <2>1. CASE \E j \in 0 .. c.cq - 1 : x = c.messagePool[(c.curMessage + j) % c.nr]
      BY <1>3, <1>8, <2>1
  <2>2. CASE c.hand # None /\ c.out = <<>> /\ x = Received(c)
      BY <1>9, <2>2
  <2> QED
      BY <1>10, <2>1, <2>2 DEF Unread
<1>11. ASSUME NEW i \in 1 .. InLine(c), i > Sends(c), x = At(c, i) PROVE x \in Unread(c)
  <2>1. i \in 1 .. l + b + k /\ i > l + o
      BY <1>6, <1>11
  <2>2. i \in 1 .. l \/ (b = 1 /\ i = l + 1) \/ \E j \in 0 .. k - 1 : i = l + b + j + 1
      BY <2>1, LineIndex
  <2>3. CASE i \in 1 .. l
      BY <2>1, <2>3, SMT
  <2>4. CASE b = 1 /\ i = l + 1
    <3>1. o = 0
        BY <2>1, <2>4, SMT
    <3> QED
        BY <1>7, <1>9, <1>11, <2>4, <3>1 DEF Unread
  <2>5. ASSUME NEW j \in 0 .. k - 1, i = l + b + j + 1 PROVE x \in Unread(c)
      BY <1>3, <1>8, <1>11, <2>5 DEF Unread
  <2> QED
      BY <2>2, <2>3, <2>4, <2>5
<1> QED
    BY <1>10, <1>11

Carries(c, dest, x) ==
    \E i \in 1 .. Sends(c) : SendAt(c, i).dest = dest /\ x = Payload(c, i)

LEMMA UnsentIs ==
    ASSUME NEW nr \in {DIR_MESSAGE_NR, APP_MESSAGE_NR}, NEW D, NEW c, ConnOK(c, nr, D),
           NEW dest, NEW x
    PROVE  x \in Unsent(c, dest) <=> Carries(c, dest, x)
<1>1. PICK q, o, p : q = c.sq /\ o = c.out /\ p = q \o o
    OBVIOUS
<1>2. /\ q \in Seq([slot : Nat, dest : D, signaled : BOOLEAN])
      /\ o \in Seq([slot : Nat, dest : D])
    BY <1>1 DEF ConnOK, SendOK
<1>3. PICK S : S = [slot : Nat, dest : D, signaled : BOOLEAN] \union [slot : Nat, dest : D]
    OBVIOUS
<1>4. q \in Seq(S) /\ o \in Seq(S)
  <2>1. PICK S1, S2 : S1 = [slot : Nat, dest : D, signaled : BOOLEAN] /\ S2 = [slot : Nat, dest : D]
      OBVIOUS
  <2>2. q \in Seq(S1) /\ o \in Seq(S2) /\ S = S1 \union S2
      BY <1>2, <1>3, <2>1
  <2> QED
      BY <2>2, SMT
<1>5. PICK l \in Nat, k \in Nat : l = Len(q) /\ k = Len(o)
    BY <1>4, Lengths
<1>6. DOMAIN p = 1 .. l + k /\ Sends(c) = l + k
  <2>1. p \in Seq(S) /\ Len(p) = l + k
      BY <1>1, <1>4, <1>5, SMT
  <2>2. DOMAIN p = 1 .. Len(p)
      BY <2>1, SMT
  <2> QED
      BY <1>1, <1>5, <2>1, <2>2 DEF Sends
<1>7. \A i \in 1 .. l + k : p[i] = SendAt(c, i)
  <2>1. \A i \in 1 .. l + k : p[i] = IF i <= l THEN q[i] ELSE o[i - l]
    <3>1. \A j \in 1 .. Len(q) + Len(o) : (q \o o)[j] = IF j <= Len(q) THEN q[j] ELSE o[j - Len(q)]
        BY <1>4, ConcatIs
    <3> QED
        BY <1>1, <1>5, <3>1
  <2>2. k <= 1
      BY <1>1, <1>5 DEF ConnOK, SendOK
  <2>3. \A i \in 1 .. l + k : ~(i <= l) => i - l = 1
      BY <2>2, SMT
  <2> QED
      BY <1>1, <1>5, <2>1, <2>3 DEF SendAt
<1>8. Unsent(c, dest) = {c.sendPool[p[i].slot] : i \in {j \in DOMAIN p : p[j].dest = dest}}
    BY <1>1 DEF Unsent
<1>9. ASSUME x \in Unsent(c, dest)
      PROVE  \E i \in 1 .. Sends(c) : SendAt(c, i).dest = dest /\ x = Payload(c, i)
  <2>1. PICK i \in {j \in DOMAIN p : p[j].dest = dest} : x = c.sendPool[p[i].slot]
      BY <1>8, <1>9
  <2>2. i \in 1 .. l + k /\ p[i].dest = dest
      BY <1>6, <2>1
  <2>3. p[i] = SendAt(c, i)
      BY <1>7, <2>2
  <2> QED
      BY <1>6, <2>1, <2>2, <2>3 DEF Payload
<1>10. ASSUME NEW i \in 1 .. Sends(c), SendAt(c, i).dest = dest, x = Payload(c, i)
       PROVE  x \in Unsent(c, dest)
  <2>1. i \in 1 .. l + k
      BY <1>6, <1>10
  <2>2. p[i] = SendAt(c, i)
      BY <1>7, <2>1
  <2>3. i \in {j \in DOMAIN p : p[j].dest = dest} /\ x = c.sendPool[p[i].slot]
      BY <1>6, <1>10, <2>1, <2>2 DEF Payload
  <2> QED
      BY <1>8, <2>3
<1> QED
    BY <1>9, <1>10 DEF Carries

\* The front of a line are the destinations of its sends.
LEMMA SendsFirst ==
    ASSUME NEW c, NEW d, ConnOK(c, DIR_MESSAGE_NR, Threads), LineOK(c, d),
           NEW i \in 1 .. Sends(c)
    PROVE  i \in 1 .. InLine(c) /\ i <= Sends(c) /\ SendAt(c, i).dest = At(c, i)
<1>1. /\ Len(c.sq) \in Nat /\ Len(c.out) \in 0 .. 1 /\ Busy(c) \in 0 .. 1
      /\ c.out = <<>> <=> Len(c.out) = 0
      /\ InLine(c) \in Nat /\ Sends(c) \in Nat
    BY ConnTypes
<1>2. PICK l \in Nat, b \in 0 .. 1, o \in 0 .. 1 : l = Len(c.sq) /\ b = Busy(c) /\ o = Len(c.out)
    BY <1>1
<1>3. LineParts(c, l, b)
    BY <1>2, AtIs
<1>4. Sends(c) = l + o
    BY <1>2 DEF Sends
<1>5. i \in 1 .. InLine(c) /\ i <= Sends(c)
  <2>1. PICK n, k \in Nat : n = InLine(c) /\ k = Sends(c)
      BY <1>1
  <2>2. k <= n
      BY <2>1, SendsInLine
  <2>3. i \in 1 .. k
      BY <2>1
  <2>4. i \in 1 .. n /\ i <= k
      BY <2>2, <2>3, SMT
  <2> QED
      BY <2>1, <2>4
<1>6. i \in 1 .. l + o
    BY <1>4
<1>7. CASE i \in 1 .. l
  <2>1. i <= l
      BY <1>7, SMT
  <2> QED
      BY <1>2, <1>3, <1>5, <1>7, <2>1 DEF LineParts, SendAt
<1>8. CASE i \notin 1 .. l
  <2>1. i = l + 1 /\ o # 0 /\ ~(l + 1 <= l)
      BY <1>6, <1>8, SMT
  <2>2. c.out # <<>> /\ c.hand # None
      BY <1>1, <1>2, <2>1 DEF LineOK
  <2>3. b = 1
      BY <1>2, <2>2 DEF Busy
  <2> QED
      BY <1>2, <1>3, <1>5, <2>1, <2>2, <2>3 DEF LineParts, SendAt
<1> QED
    BY <1>7, <1>8

\* A thread's connection holds the one message of its call, or none.
ThreadHolds(c, t) ==
    /\ \A x : x \in Unread(c) <=> IsAnswered(c, t) /\ replies[t] = {x}
    /\ \A d, x : x \in Unsent(c, d) <=> Asks(c, t) /\ d = target[t] /\ x = t

LEMMA ThreadHoldsIts ==
    ASSUME NEW t \in Threads, ThreadOK(t)
    PROVE  ThreadHolds(tcon[t], t)
<1>1. PICK c : c = tcon[t]
    OBVIOUS
<1>2. ConnOK(c, APP_MESSAGE_NR, Dirs) /\ c.hand = None
      /\ (Quiet(c) \/ Asks(c, t) \/ IsAnswered(c, t))
    BY <1>1 DEF ThreadOK
<1>3. PICK nr \in Nat \ {0}, cur \in Nat : c.nr = nr /\ c.curMessage = cur /\ cur < nr
  <2>1. PICK n \in {DIR_MESSAGE_NR, APP_MESSAGE_NR} : n = APP_MESSAGE_NR
      OBVIOUS
  <2>2. n \in Nat \ {0} /\ c.nr = n /\ c.curMessage \in 0 .. n - 1
      BY <1>2, <2>1, ConnTypes
  <2>3. \A m \in 0 .. n - 1 : m \in Nat /\ m < n
      BY <2>2, SMT
  <2> QED
      BY <2>2, <2>3
<1>4. \A x : x \in Unread(c) <=> \E i \in 0 .. c.cq - 1 : x = c.messagePool[(cur + i) % nr]
    BY <1>2, <1>3 DEF Unread
<1>5. Sends(c) = Len(c.sq) + Len(c.out)
    BY DEF Sends
<1>6. c.sq = <<>> /\ c.out = <<>> => Sends(c) = 0
    BY <1>5, SMT
<1>7. Asks(c, t) => Sends(c) = 1 /\ c.cq = 0
    BY DEF Asks
<1>8. Quiet(c) => Sends(c) = 0 /\ c.cq = 0
    BY <1>6 DEF Quiet
<1>9. IsAnswered(c, t) => Sends(c) = 0 /\ c.cq = 1 /\ replies[t] = {c.messagePool[cur]}
    BY <1>3, <1>6 DEF IsAnswered
<1>10. 0 .. 0 - 1 = {} /\ 0 .. 1 - 1 = {0} /\ 1 .. 0 = {} /\ 1 .. 1 = {1} /\ 0 # 1
    BY SMT
<1>11. (cur + 0) % nr = cur
  <2>1. cur + 0 = cur /\ cur < nr + nr
      BY <1>3, SMT
  <2> QED
      BY <1>3, <2>1, ModWraps DEF Wrap
<1>12. ASSUME NEW x PROVE x \in Unread(c) <=> IsAnswered(c, t) /\ replies[t] = {x}
  <2>1. CASE IsAnswered(c, t)
    <3>1. x \in Unread(c) <=> x = c.messagePool[cur]
      <4>1. 0 .. c.cq - 1 = {0}
          BY <1>9, <1>10, <2>1
      <4>2. x \in Unread(c) <=> \E i \in {0} : x = c.messagePool[(cur + i) % nr]
          BY <1>4, <4>1
      <4> QED
          BY <1>11, <4>2
    <3> QED
        BY <1>9, <2>1, <3>1
  <2>2. CASE ~IsAnswered(c, t)
      BY <1>2, <1>4, <1>7, <1>8, <1>10, <2>2
  <2> QED
      BY <2>1, <2>2
<1>13. ASSUME NEW d, NEW x
       PROVE  x \in Unsent(c, d) <=> Asks(c, t) /\ d = target[t] /\ x = t
  <2>1. x \in Unsent(c, d) <=> Carries(c, d, x)
      BY <1>2, UnsentIs
  <2>2. CASE Asks(c, t)
      BY <1>7, <1>10, <2>1, <2>2 DEF Asks, Carries
  <2>3. CASE ~Asks(c, t)
      BY <1>2, <1>8, <1>9, <1>10, <2>1, <2>3 DEF Carries
  <2> QED
      BY <2>2, <2>3
<1>14. ThreadHolds(c, t)
    BY <1>12, <1>13 DEF ThreadHolds
<1> QED
    BY <1>1, <1>14

\* A directory's connection holds the requests of the back of the line and the
\* replies to the front of it.
DirHolds(c) ==
    /\ \A x : x \in Unread(c) <=> \E i \in 1 .. InLine(c) : i > Sends(c) /\ x = At(c, i)
    /\ \A t, x : x \in Unsent(c, t) <=>
         \E i \in 1 .. InLine(c) : i <= Sends(c) /\ t = At(c, i) /\ x = Payload(c, i)

LEMMA DirHoldsItsLine ==
    ASSUME NEW d \in Dirs, DirOK(d)
    PROVE  DirHolds(dcon[d])
<1>1. PICK c : c = dcon[d]
    OBVIOUS
<1>2. ConnOK(c, DIR_MESSAGE_NR, Threads) /\ LineOK(c, d)
    BY <1>1 DEF DirOK
<1>3. \A i \in 1 .. Sends(c) :
        i \in 1 .. InLine(c) /\ i <= Sends(c) /\ SendAt(c, i).dest = At(c, i)
    BY <1>2, SendsFirst
<1>4. \A i \in 1 .. InLine(c) : i <= Sends(c) => i \in 1 .. Sends(c)
  <2>1. PICK n, k \in Nat : n = InLine(c) /\ k = Sends(c)
      BY <1>2, ConnTypes
  <2>2. \A i \in 1 .. n : i <= k => i \in 1 .. k
      BY SMT
  <2> QED
      BY <2>1, <2>2
<1>5. ASSUME NEW t, NEW x
      PROVE  x \in Unsent(c, t) <=>
               \E i \in 1 .. InLine(c) : i <= Sends(c) /\ t = At(c, i) /\ x = Payload(c, i)
  <2>1. x \in Unsent(c, t) <=> Carries(c, t, x)
      BY <1>2, UnsentIs
  <2> QED
      BY <1>3, <1>4, <2>1 DEF Carries
<1>6. \A x : x \in Unread(c) <=> \E i \in 1 .. InLine(c) : i > Sends(c) /\ x = At(c, i)
    BY <1>2, UnreadIs
<1>7. DirHolds(c)
    BY <1>5, <1>6 DEF DirHolds
<1> QED
    BY <1>1, <1>7

LEMMA RingInvHolds ==
    ASSUME IInv, RingInv
    PROVE  RingsHoldTheMessages
<1>1. /\ \A d \in Dirs : DirOK(d) /\ DirHolds(dcon[d])
      /\ \A t \in Threads : ThreadOK(t) /\ Placed(t) /\ ThreadHolds(tcon[t], t)
    BY ThreadHoldsIts, DirHoldsItsLine DEF RingInv
<1>2. /\ \A t \in Threads : target[t] \in Dirs
      /\ \A d \in Dirs : \A x \in requests[d] : x \in Threads
  <2>1. target \in [Threads -> Dirs] /\ requests \in [Dirs -> SUBSET Threads]
      BY DEF IInv, CallTypeOK
  <2>2. \A d \in Dirs : requests[d] \in SUBSET Threads
      BY <2>1
  <2> QED
      BY <2>1, <2>2
<1>3. CallInv
    BY DEF IInv
\* Where the message of a thread that waits is.
<1>4. ASSUME NEW t \in Threads, waiting[t] # 0, Quiet(tcon[t])
      PROVE  \/ t \in requests[target[t]] /\ t \in Unread(dcon[target[t]])
             \/ \E x : replies[t] = {x} /\ x \in Unsent(dcon[target[t]], t)
  <2>1. PICK d, c : d = target[t] /\ c = dcon[d]
      OBVIOUS
  <2>2. d \in Dirs
      BY <1>2, <2>1
  <2>3. LineOK(c, d) /\ DirHolds(c)
      BY <1>1, <2>1, <2>2 DEF DirOK
  <2>4. t \in Members(c)
      BY <1>1, <1>4, <2>1 DEF Placed
  <2>5. PICK i \in 1 .. InLine(c) : t = At(c, i)
      BY <2>4 DEF Members
  <2>6. CASE i <= Sends(c)
    <3>1. replies[t] = {Payload(c, i)}
        BY <2>3, <2>5, <2>6 DEF LineOK
    <3>2. Payload(c, i) \in Unsent(c, t)
        BY <2>3, <2>5, <2>6 DEF DirHolds
    <3> QED
        BY <2>1, <3>1, <3>2
  <2>7. CASE i > Sends(c)
    <3>1. t \in requests[d]
        BY <2>3, <2>5, <2>7 DEF LineOK
    <3>2. t \in Unread(c)
        BY <2>3, <2>5, <2>7 DEF DirHolds
    <3> QED
        BY <2>1, <3>1, <3>2
  <2>8. i <= Sends(c) \/ i > Sends(c)
    <3>1. PICK n, k \in Nat : n = InLine(c) /\ k = Sends(c)
        BY <1>1, <2>1, <2>2, ConnTypes DEF DirOK
    <3>2. \A j \in 1 .. n : j <= k \/ j > k
        BY SMT
    <3> QED
        BY <3>1, <3>2
  <2> QED
      BY <2>6, <2>7, <2>8
<1>5. ASSUME NEW d \in Dirs, NEW x \in requests[d]
      PROVE  x \in Unread(dcon[d]) \/ \E t \in Threads : x \in Unsent(tcon[t], d)
  <2>1. x \in Threads
      BY <1>2, <1>5
  <2>2. waiting[x] # 0 /\ d = target[x] /\ replies[x] = {}
      BY <1>3, <1>5, <2>1 DEF CallInv
  <2>3. CASE Asks(tcon[x], x)
      BY <1>1, <2>1, <2>2, <2>3 DEF ThreadHolds
  <2>4. CASE IsAnswered(tcon[x], x)
      BY <2>2, <2>4 DEF IsAnswered
  <2>5. CASE Quiet(tcon[x])
      BY <1>4, <2>1, <2>2, <2>5
  <2> QED
      BY <1>1, <2>1, <2>3, <2>4, <2>5 DEF ThreadOK
<1>6. ASSUME NEW d \in Dirs, NEW x \in Unread(dcon[d]) PROVE x \in requests[d]
  <2>1. PICK c : c = dcon[d]
      OBVIOUS
  <2>2. DirHolds(c) /\ LineOK(c, d) /\ x \in Unread(c)
      BY <1>1, <1>6, <2>1 DEF DirOK
  <2>3. PICK i \in 1 .. InLine(c) : i > Sends(c) /\ x = At(c, i)
      BY <2>2 DEF DirHolds
  <2> QED
      BY <2>2, <2>3 DEF LineOK
<1>7. ASSUME NEW d \in Dirs, NEW t \in Threads, NEW x \in Unsent(tcon[t], d)
      PROVE  x \in requests[d]
  <2>1. PICK c : c = tcon[t]
      OBVIOUS
  <2>2. ThreadHolds(c, t) /\ x \in Unsent(c, d)
      BY <1>1, <1>7, <2>1
  <2>3. Asks(c, t) /\ d = target[t] /\ x = t
      BY <2>2 DEF ThreadHolds
  <2> QED
      BY <2>3 DEF Asks
<1>8. ASSUME NEW t \in Threads, NEW x \in replies[t]
      PROVE  x \in Unread(tcon[t]) \/ \E d \in Dirs : x \in Unsent(dcon[d], t)
  <2>1. waiting[t] # 0 /\ replies[t] # {}
      BY <1>3, <1>8 DEF CallInv
  <2>2. t \notin requests[target[t]]
      BY <1>2, <1>3, <2>1 DEF CallInv
  <2>3. CASE Asks(tcon[t], t)
      BY <2>2, <2>3 DEF Asks
  <2>4. CASE IsAnswered(tcon[t], t)
    <3>1. PICK y : replies[t] = {y}
        BY <2>4 DEF IsAnswered
    <3>2. x = y
        BY <1>8, <3>1
    <3> QED
        BY <1>1, <2>4, <3>1, <3>2 DEF ThreadHolds
  <2>5. CASE Quiet(tcon[t])
    <3>1. PICK y : replies[t] = {y} /\ y \in Unsent(dcon[target[t]], t)
        BY <1>4, <2>1, <2>2, <2>5
    <3>2. x = y
        BY <1>8, <3>1
    <3> QED
        BY <1>2, <3>1, <3>2
  <2> QED
      BY <1>1, <2>3, <2>4, <2>5 DEF ThreadOK
<1>9. ASSUME NEW t \in Threads, NEW x \in Unread(tcon[t]) PROVE x \in replies[t]
  <2>1. PICK c : c = tcon[t]
      OBVIOUS
  <2>2. ThreadHolds(c, t) /\ x \in Unread(c)
      BY <1>1, <1>9, <2>1
  <2>3. replies[t] = {x}
      BY <2>2 DEF ThreadHolds
  <2> QED
      BY <2>3
<1>10. ASSUME NEW t \in Threads, NEW d \in Dirs, NEW x \in Unsent(dcon[d], t)
       PROVE  x \in replies[t]
  <2>1. PICK c : c = dcon[d]
      OBVIOUS
  <2>2. DirHolds(c) /\ LineOK(c, d) /\ x \in Unsent(c, t)
      BY <1>1, <1>10, <2>1 DEF DirOK
  <2>3. \A u, y : y \in Unsent(c, u) <=>
          \E i \in 1 .. InLine(c) : i <= Sends(c) /\ u = At(c, i) /\ y = Payload(c, i)
      BY <2>2 DEF DirHolds
  <2>4. PICK i \in 1 .. InLine(c) : i <= Sends(c) /\ t = At(c, i) /\ x = Payload(c, i)
      BY <2>2, <2>3, SMT
  <2>5. replies[At(c, i)] = {Payload(c, i)}
      BY <2>2, <2>4 DEF LineOK
  <2> QED
      BY <2>4, <2>5
<1>11. ASSUME NEW d \in Dirs
       PROVE  requests[d] = Unread(dcon[d]) \union UNION {Unsent(tcon[t], d) : t \in Threads}
    BY <1>5, <1>6, <1>7
<1>12. ASSUME NEW t \in Threads
       PROVE  replies[t] = Unread(tcon[t]) \union UNION {Unsent(dcon[d], t) : d \in Dirs}
    BY <1>8, <1>9, <1>10
<1> QED
    BY <1>11, <1>12 DEF RingsHoldTheMessages

-----------------------------------------------------------------------------
(* The theorems                                                              *)

LEMMA RpcStep ==
    ASSUME EnoughReceives, IInv, RingInv, [RpcNext]_rpcvars
    PROVE  IInv' /\ RingInv' /\ [Next]_vars
<1>1. RingInv' /\ [Next]_vars
    BY RingStep
<1> QED
    BY <1>1, NextIInv

\* The rings of RawMessageConnection, with the directory thread and the threads
\* acting on whatever message they find in a receive buffer, implement the
\* sets of requests and replies of Allocator: a directory answers exactly the
\* threads that have asked it and are not yet answered, and a thread installs
\* exactly the chunk it was answered with.  This holds for every depth of the
\* two rings and every number of threads up to the receives a directory always
\* has posted.
THEOREM RingsImplementMessages ==
    ASSUME Origins, EnoughReceives
    PROVE  RpcSpec => RingsCarryMessages
<1>1. RpcInit => Init /\ IInv /\ RingInv
    BY InitRings, InitIInv DEF RpcInit
<1>2. IInv /\ RingInv /\ [RpcNext]_rpcvars => IInv' /\ RingInv' /\ [Next]_vars
    BY RpcStep
<1> QED
    BY <1>1, <1>2, PTL DEF RpcSpec, Spec, RingsCarryMessages

\* Under the same bound no message is lost or overwritten in the rings: the
\* receive buffers not yet read and the send buffers not yet on the wire hold
\* exactly the requests to be answered and the replies to be installed.
THEOREM NoMessageIsLost ==
    ASSUME Origins, EnoughReceives
    PROVE  RpcSpec => []RingsHoldTheMessages
<1>1. RpcInit => IInv /\ RingInv
    BY InitRings, InitIInv DEF RpcInit
<1>2. IInv /\ RingInv /\ [RpcNext]_rpcvars => IInv' /\ RingInv'
    BY RpcStep
<1>3. IInv /\ RingInv => RingsHoldTheMessages
    BY RingInvHolds
<1> QED
    BY <1>1, <1>2, <1>3, PTL DEF RpcSpec

\* So the blocks handed out by threads that reach the directories through the
\* rings are disjoint: what NoByteHasTwoOwners says of the sets of messages
\* holds of the buffers.
THEOREM NoByteHasTwoOwnersBehindRings ==
    ASSUME Origins, EnoughReceives
    PROVE  RpcSpec => []BlocksAreDisjoint
BY RingsImplementMessages, NoByteHasTwoOwners, PTL DEF RingsCarryMessages
=============================================================================
