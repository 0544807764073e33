-------------------------------- MODULE Rpc --------------------------------
(***************************************************************************)
(* The messages of Allocator travel in rings of buffers.  Both ends of an  *)
(* RPC own a RawMessageConnection: receive buffers that are posted to the  *)
(* card in kBatchCount batches, and send buffers that are used in turn.    *)
(* The card takes a posted buffer for every datagram, drops the datagram   *)
(* when there is none, and reads a send buffer some time after the send    *)
(* was posted; only one send in SIGNAL_BATCH + 1 reports its completion.   *)
(*                                                                         *)
(* The module adds the rings to Allocator.  A directory answers whatever   *)
(* thread the buffer in its hand names, and a thread installs whatever     *)
(* address the buffer holds that it received: requests and replies no      *)
(* longer decide what happens, they record what should be under way.       *)
(***************************************************************************)
EXTENDS Allocator

CONSTANTS
    kBatchCount,
    DIR_MESSAGE_NR,  \* buffers of a directory
    APP_MESSAGE_NR,  \* buffers of a thread
    SIGNAL_BATCH     \* sends between two that are signaled

\* The connections have whole batches of buffers.
ASSUME RingAssumption ==
    /\ {kBatchCount, DIR_MESSAGE_NR, APP_MESSAGE_NR} \subseteq Nat \ {0}
    /\ DIR_MESSAGE_NR % kBatchCount = 0 /\ APP_MESSAGE_NR % kBatchCount = 0

VARIABLES
    dcon,            \* the connection of each directory
    tcon             \* the connection of each thread

rpcvars == <<vars, dcon, tcon>>

None == -1

\* A connection after initRecv: every receive buffer is posted, in order,
\* and the buffers hold nothing of use.
Connection(nr, received, sent) ==
    [nr |-> nr, messagePool |-> [i \in 0 .. nr - 1 |-> received],
     sendPool |-> [i \in 0 .. nr - 1 |-> sent],
     recvs |-> [i \in 1 .. nr |-> i - 1],   \* posted receive buffers
     curMessage |-> 0, cq |-> 0,            \* datagrams received and not polled
     hand |-> None,                         \* the buffer being processed
     curSend |-> 0, sendCounter |-> 0,
     out |-> <<>>,                          \* the send being prepared
     sq |-> <<>>, send_cq |-> 0]

\* Mutant: the batch posted is the one about to be read.
NextBatch(c, cur) == [i \in 1 .. c.nr \div kBatchCount |-> cur + i - 1]

\* Mutant: no receive is posted again.
NoBatch(c, cur) == <<>>

\* The receives posted again when curMessage has become cur: the batch before it.
Batch(c, cur) ==
    LET subNR == c.nr \div kBatchCount
        b == (cur \div subNR - 1 + kBatchCount) % kBatchCount
    IN [i \in 1 .. subNR |-> b * subNR + i - 1]

\* pollWithCQ of a receive, and getMessage.
getMessage(c) ==
    LET cur == (c.curMessage + 1) % c.nr IN
    [c EXCEPT !.cq = @ - 1, !.hand = c.curMessage, !.curMessage = cur,
              !.recvs = IF cur % (c.nr \div kBatchCount) = 0 THEN @ \o Batch(c, cur) ELSE @]

Received(c) == c.messagePool[c.hand]

\* Mutant: the same send buffer is used every time.
SendPoolKept(c, m, dest) ==
    [c EXCEPT !.sendPool[c.curSend] = m, !.out = <<[slot |-> c.curSend, dest |-> dest]>>]

\* getSendPool: the next send buffer, filled with m, for the connection dest.
getSendPool(c, m, dest) ==
    [c EXCEPT !.sendPool[c.curSend] = m, !.out = <<[slot |-> c.curSend, dest |-> dest]>>,
              !.curSend = (c.curSend + 1) % c.nr]

Signaled(c) == c.sendCounter % (SIGNAL_BATCH + 1) = 0

\* sendRawMessage waits for a completion before every signaled send but the first.
CanSend(c) == c.out # <<>> /\ (Signaled(c) /\ c.sendCounter > 0 => c.send_cq > 0)

sendRawMessage(c) ==
    [c EXCEPT !.send_cq = IF Signaled(c) /\ c.sendCounter > 0 THEN @ - 1 ELSE @,
              !.sq = Append(@, [slot |-> c.out[1].slot, dest |-> c.out[1].dest,
                                signaled |-> Signaled(c)]),
              !.out = <<>>, !.sendCounter = @ + 1]

\* The card: a send leaves its buffer ...
Sent(c) ==
    [c EXCEPT !.sq = Tail(@), !.send_cq = IF Head(c.sq).signaled THEN @ + 1 ELSE @]

\* ... and arrives in a posted receive buffer, or nowhere.
Delivered(c, m) ==
    IF c.recvs = <<>> THEN c
    ELSE [c EXCEPT !.messagePool[Head(c.recvs)] = m, !.recvs = Tail(@), !.cq = @ + 1]

-----------------------------------------------------------------------------
RpcInit ==
    /\ Init
    /\ dcon = [d \in Dirs |-> Connection(DIR_MESSAGE_NR, 0, Null)]
    /\ tcon = [t \in Threads |-> Connection(APP_MESSAGE_NR, Null, 0)]

\* DSM::alloc up to rpc_call_dir: a MALLOC is prepared if the thread has no chunk.
DsmAlloc(t, size) ==
    /\ Alloc(t, size)
    /\ tcon' = [tcon EXCEPT ![t] = IF waiting'[t] = 0 THEN @ ELSE getSendPool(@, t, target'[t])]
    /\ UNCHANGED dcon

\* ThreadConnection::sendMessage2Dir.
sendMessage2Dir(t) ==
    /\ CanSend(tcon[t])
    /\ tcon' = [tcon EXCEPT ![t] = sendRawMessage(@)]
    /\ UNCHANGED <<vars, dcon>>

\* rpc_wait, and the rest of DSM::alloc: the reply's chunk is read at once.
rpc_wait(t) ==
    LET c == getMessage(tcon[t]) IN
    /\ waiting[t] # 0 /\ tcon[t].cq > 0
    /\ Install(t, Received(c))
    /\ tcon' = [tcon EXCEPT ![t] = [c EXCEPT !.hand = None]]
    /\ UNCHANGED dcon

\* Directory::dirThread polls a message; its buffer may be posted again
\* before process_message reads it.
dirThread(d) ==
    /\ dcon[d].hand = None /\ dcon[d].cq > 0
    /\ dcon' = [dcon EXCEPT ![d] = getMessage(@)]
    /\ UNCHANGED <<vars, tcon>>

\* Directory::process_message up to sendMessage2App.
Process(d) ==
    LET t == Received(dcon[d]) IN
    /\ dcon[d].hand # None /\ dcon[d].out = <<>>
    /\ Answer(d, t)
    /\ dcon' = [dcon EXCEPT ![d] = getSendPool(@, alloc_chunck(d).res, t)]
    /\ UNCHANGED tcon

\* DirectoryConnection::sendMessage2App, then the next message is polled.
sendMessage2App(d) ==
    /\ CanSend(dcon[d])
    /\ dcon' = [dcon EXCEPT ![d] = [sendRawMessage(@) EXCEPT !.hand = None]]
    /\ UNCHANGED <<vars, tcon>>

FreeBlock(t, b) == Free(t, b) /\ UNCHANGED <<dcon, tcon>>

\* The cards: datagrams of one connection stay in order.
TransmitRequest(t) ==
    LET s == Head(tcon[t].sq) IN
    /\ tcon[t].sq # <<>>
    /\ tcon' = [tcon EXCEPT ![t] = Sent(@)]
    /\ dcon' = [dcon EXCEPT ![s.dest] = Delivered(@, tcon[t].sendPool[s.slot])]
    /\ UNCHANGED vars

TransmitReply(d) ==
    LET s == Head(dcon[d].sq) IN
    /\ dcon[d].sq # <<>>
    /\ dcon' = [dcon EXCEPT ![d] = Sent(@)]
    /\ tcon' = [tcon EXCEPT ![s.dest] = Delivered(@, dcon[d].sendPool[s.slot])]
    /\ UNCHANGED vars

RpcFinished == Finished /\ UNCHANGED <<dcon, tcon>>

ThreadWaits(t) == sendMessage2Dir(t) \/ rpc_wait(t) \/ TransmitRequest(t)
Serve(d) == dirThread(d) \/ Process(d) \/ sendMessage2App(d)

RpcNext ==
    \/ \E t \in Threads : \/ \E size \in {LeafSize, PageSize} : DsmAlloc(t, size)
                          \/ ThreadWaits(t)
                          \/ \E b \in live : FreeBlock(t, b)
    \/ \E d \in Dirs : Serve(d) \/ TransmitReply(d)
    \/ RpcFinished

\* Directories and waiting threads poll for ever, and cards send what is posted.
RpcFairness ==
    /\ \A t \in Threads : WF_rpcvars(ThreadWaits(t))
    /\ \A d \in Dirs : WF_rpcvars(Serve(d)) /\ WF_rpcvars(TransmitReply(d))

RpcSpec == RpcInit /\ [][RpcNext]_rpcvars
RpcLiveSpec == RpcSpec /\ RpcFairness

-----------------------------------------------------------------------------
(* Properties *)

\* What a connection has received and not processed, and what it still sends to dest.
Unread(c) ==
    {c.messagePool[(c.curMessage + i) % c.nr] : i \in 0 .. c.cq - 1}
        \union (IF c.hand # None /\ c.out = <<>> THEN {Received(c)} ELSE {})
Unsent(c, dest) ==
    LET sends == c.sq \o c.out IN
    {c.sendPool[sends[i].slot] : i \in {j \in DOMAIN sends : sends[j].dest = dest}}

\* While no directory has more requests outstanding than it keeps receives
\* posted, the rings lose and corrupt nothing: the requests a directory has
\* to answer, and the replies a thread is owed, are those in the buffers.  No
\* datagram is dropped, no receive buffer is posted again with an unread
\* message in it, and no send buffer is filled again before the card read it.
RingsHoldTheMessages ==
    /\ \A d \in Dirs :
         requests[d] = Unread(dcon[d]) \union UNION {Unsent(tcon[t], d) : t \in Threads}
    /\ \A t \in Threads :
         replies[t] = Unread(tcon[t]) \union UNION {Unsent(dcon[d], t) : d \in Dirs}

\* Under the same condition the rings carry messages as Allocator has them:
\* although a directory and a thread act on what they find in a buffer, a
\* directory answers only a thread that has asked it and has no answer yet, and
\* a thread installs only the chunk it was answered with, each of them once.
RingsCarryMessages == Spec
=============================================================================
