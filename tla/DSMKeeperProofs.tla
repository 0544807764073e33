-------------------------- MODULE DSMKeeperProofs --------------------------
(***************************************************************************)
(* The barriers of DSMKeeper hold for any number of servers, queue pairs   *)
(* and barriers, and from the first one on all queue pairs are connected.  *)
(***************************************************************************)
EXTENDS DSMKeeper, FiniteSetTheorems, TLAPS

Sizes == maxServer \in Nat \ {0} /\ barriers \in Nat

Preparing == {"start", "while", "set", "get", "myself"}
Running == {"run", "add", "barrier", "sum", "done"}

Server == [pc : Preparing \union Running, curServer : 0 .. maxServer,
           serverNum : 0 .. maxServer, k : Nat,
           arrived : 0 .. barriers, passed : Nat, ret : Int]

TypeOK ==
    /\ sv \in [Servers -> Server]
    /\ meta = [x \in Servers \X Servers |-> meta[x]]
    /\ count \in [1 .. barriers -> Nat \union {Absent}]
    /\ parts \in [Servers -> Int]

-----------------------------------------------------------------------------
(* The exchange                                                              *)

\* serverNum counts the servers that have started.
Started == {s \in Servers : ~At(s, "start")}
StartInv == serverNum = Cardinality(Started)

\* What server s has published for server r is what setDataToRemote makes.
MetaInv ==
    \A s, r \in Servers : meta[<<s, r>>] \in {<<>>, <<setDataToRemote(s, r)>>}

\* The pairs of server s that lead to server r are connected at this end.
Half(s, r) ==
    \A i \in Apps, k \in Directories :
        /\ peer[AppQp(s, i, k, r)] = DirQp(r, i, k, s)
        /\ peer[DirQp(s, i, k, r)] = AppQp(r, i, k, s)

\* Server s has done its end of the pairs to server r: in the loop those up to
\* curServer, later up to k, then all but its own, then all.
Did(s, r) ==
    \/ At(s, "while") /\ r # s /\ r < sv[s].curServer
    \/ (At(s, "set") \/ At(s, "get")) /\ r # s /\ r < sv[s].k
    \/ At(s, "myself") /\ r # s
    \/ sv[s].pc \in Running

ExchangeInv ==
    /\ \A s, r \in Servers : Did(s, r) => Half(s, r)
    /\ \A s \in Servers : At(s, "start") => sv[s].curServer = 0
    /\ \A s \in Servers : At(s, "set") \/ At(s, "get") => sv[s].k < sv[s].serverNum
    /\ \A s \in Servers : At(s, "sum") => sv[s].k < maxServer

-----------------------------------------------------------------------------
(* The barriers                                                              *)

\* The servers that have counted themselves at barrier b.
Arrived(b) == {s \in Servers : sv[s].arrived >= b}

\* A counter that is there is the number of those that have arrived, and it is
\* there because server 0 has come to the barrier, and only then.
CountInv ==
    \A b \in 1 .. barriers :
        /\ count[b] = Absent => Arrived(b) = {}
        /\ count[b] # Absent =>
             /\ count[b] = Cardinality(Arrived(b))
             /\ sv[0].arrived >= b \/ (At(0, "add") /\ sv[0].arrived = b - 1)

\* A server has arrived at one barrier more than it has passed while it waits
\* there; it comes to a barrier only connected, and passes it after all others
\* have arrived.
PassInv ==
    /\ \A s \in Servers :
         /\ sv[s].pc \in Preparing => sv[s].arrived = 0
         /\ At(s, "add") => sv[s].arrived < barriers
         /\ sv[s].arrived = IF At(s, "barrier") THEN sv[s].passed + 1 ELSE sv[s].passed
    /\ \A s, r \in Servers : sv[r].arrived >= sv[s].passed

IInv == TypeOK /\ StartInv /\ MetaInv /\ ExchangeInv /\ CountInv /\ PassInv

-----------------------------------------------------------------------------
(* What a step of one server leaves alone                                    *)

Only(s) == \A r \in Servers \ {s} : sv'[r] = sv[r]

\* Zenon proves the leaves that need no arithmetic; the others cite SMT.
USE Zenon

LEMMA StartFrame ==
    ASSUME StartInv, NEW s \in Servers, Only(s), serverNum' = serverNum,
           At(s, "start")' <=> At(s, "start")
    PROVE  StartInv'
<1>1. Started' = Started
    BY DEF Started, At, Only
<1> QED
    BY <1>1 DEF StartInv

LEMMA MetaFrame ==
    ASSUME MetaInv, meta' = meta
    PROVE  MetaInv'
BY DEF MetaInv, setDataToRemote

LEMMA ExchangeFrame ==
    ASSUME ExchangeInv, NEW s \in Servers, Only(s),
           \A r \in Servers \ {s}, u \in Servers : Half(r, u) => Half(r, u)',
           \A r \in Servers : Did(s, r)' => Half(s, r)',
           ~At(s, "start")',
           At(s, "set")' \/ At(s, "get")' => sv'[s].k < sv'[s].serverNum,
           At(s, "sum")' => sv'[s].k < maxServer
    PROVE  ExchangeInv'
<1>1. ASSUME NEW r \in Servers, NEW u \in Servers, Did(r, u)' PROVE Half(r, u)'
  <2>1. CASE r = s
      BY <1>1, <2>1
  <2>2. CASE r # s
    <3>1. Did(r, u)
        BY <1>1, <2>2 DEF Did, At, Only
    <3> QED
        BY <2>2, <3>1 DEF ExchangeInv
  <2> QED
      BY <2>1, <2>2
<1>2. \A r \in Servers :
        /\ At(r, "start")' => sv'[r].curServer = 0
        /\ At(r, "set")' \/ At(r, "get")' => sv'[r].k < sv'[r].serverNum
        /\ At(r, "sum")' => sv'[r].k < maxServer
    BY DEF ExchangeInv, At, Only
<1> QED
    BY <1>1, <1>2 DEF ExchangeInv

LEMMA CountFrame ==
    ASSUME Sizes, CountInv, NEW s \in Servers, Only(s), count' = count,
           sv'[s].arrived = sv[s].arrived, ~At(s, "add")
    PROVE  CountInv'
<1>1. \A b \in 1 .. barriers : Arrived(b)' = Arrived(b)
    BY DEF Arrived, Only
<1>2. 0 \in Servers
    BY SMT DEF Servers, Sizes
<1>3. sv'[0].arrived = sv[0].arrived /\ (At(0, "add") => At(0, "add")')
    BY <1>2 DEF Only, At
<1> QED
    BY <1>1, <1>3 DEF CountInv

LEMMA PassFrame ==
    ASSUME PassInv, NEW s \in Servers, Only(s),
           sv'[s].arrived = sv[s].arrived, sv'[s].passed = sv[s].passed,
           sv'[s].pc \in Preparing => sv[s].pc \in Preparing,
           At(s, "add")' => sv[s].arrived < barriers,
           At(s, "barrier")' <=> At(s, "barrier")
    PROVE  PassInv'
<1>1. \A r \in Servers : sv'[r].arrived = sv[r].arrived /\ sv'[r].passed = sv[r].passed
    BY DEF Only
<1>2. \A r \in Servers :
        /\ sv'[r].pc \in Preparing => sv'[r].arrived = 0
        /\ At(r, "add")' => sv'[r].arrived < barriers
        /\ sv'[r].arrived = IF At(r, "barrier")' THEN sv'[r].passed + 1 ELSE sv'[r].passed
    BY <1>1, SMT DEF PassInv, At, Only
<1> QED
    BY <1>1, <1>2 DEF PassInv

\* The next turn of the loop over the servers: nobody is passed over.
LEMMA AdvanceIs ==
    ASSUME Sizes, NEW s \in Servers, NEW x \in Server
    PROVE  LET y == Advance(s, x) IN
           /\ y \in Server /\ y.arrived = x.arrived /\ y.passed = x.passed
           /\ y.pc \in {"set", "while", "myself"}
           /\ y.pc = "set" => y.k < y.serverNum
           /\ \A r \in Servers \ {s} :
                \/ y.pc = "set" /\ r < y.k
                \/ y.pc = "while" /\ r < y.curServer
                \/ y.pc = "myself"
                => r < x.k
<1> DEFINE k == IF x.k = s THEN x.k + 1 ELSE x.k
           y == Advance(s, x)
<1>0. /\ x.k \in Nat /\ x.serverNum \in 0 .. maxServer /\ k \in Nat /\ s \in Nat
      /\ maxServer \in Nat
    BY SMT DEF Server, Servers, Sizes
<1>1. CASE k < x.serverNum
  <2>1. y = [x EXCEPT !.k = k, !.pc = "set"]
      BY <1>1 DEF Advance
  <2>2. /\ y \in Server /\ y.arrived = x.arrived /\ y.passed = x.passed
        /\ y.pc = "set" /\ y.k = k /\ y.serverNum = x.serverNum
      BY <1>0, <2>1 DEF Server, Preparing
  <2> QED
      BY <1>0, <1>1, <2>2, SMT DEF Servers
<1>2. CASE ~(k < x.serverNum)
  <2> DEFINE p == IF x.serverNum < maxServer THEN "while" ELSE "myself"
  <2>1. y = [x EXCEPT !.curServer = x.serverNum, !.pc = p]
      BY <1>2 DEF Advance
  <2>2. /\ y \in Server /\ y.arrived = x.arrived /\ y.passed = x.passed
        /\ y.pc = p /\ y.curServer = x.serverNum
      BY <1>0, <2>1 DEF Server, Preparing
  <2> QED
      BY <1>0, <1>2, <2>2, SMT DEF Servers
<1> QED
    BY <1>1, <1>2

-----------------------------------------------------------------------------
(* The steps, one by one                                                     *)

LEMMA EnterStep ==
    ASSUME Sizes, IInv, NEW s \in Servers, serverEnter(s)
    PROVE  IInv'
<1>0. TypeOK /\ StartInv /\ MetaInv /\ ExchangeInv /\ CountInv /\ PassInv /\ sv[s] \in Server
    BY DEF IInv, TypeOK
<1>1. /\ sv[s].pc = "start" /\ serverNum' = serverNum + 1
      /\ sv' = [sv EXCEPT ![s] = [sv[s] EXCEPT !.pc = "while"]]
      /\ UNCHANGED <<peer, meta, count, parts>>
    BY DEF serverEnter, At
<1>2. /\ sv'[s] \in Server /\ sv'[s].pc = "while" /\ sv'[s].curServer = sv[s].curServer
      /\ sv'[s].arrived = sv[s].arrived /\ sv'[s].passed = sv[s].passed
    BY <1>0, <1>1 DEF Server, TypeOK, Preparing
<1>3. Only(s)
    BY <1>0, <1>1 DEF Only, TypeOK
<1>4. TypeOK'
    BY <1>0, <1>1, <1>2 DEF TypeOK
<1>5. StartInv'
  <2>1. Started' = Started \union {s} /\ s \notin Started
      BY <1>1, <1>2, <1>3 DEF Started, At, Only
  <2>2. IsFiniteSet(Servers) /\ Started \subseteq Servers
      BY FS_Interval, SMT DEF Servers, Started, Sizes
  <2>3. IsFiniteSet(Started)
      BY <2>2, FS_Subset
  <2> QED
      BY <1>0, <1>1, <2>1, <2>3, FS_AddElement DEF StartInv
<1>6. MetaInv' /\ CountInv' /\ PassInv'
    BY <1>0, <1>1, <1>2, <1>3, MetaFrame, CountFrame, PassFrame DEF At, Preparing
<1>7. ExchangeInv'
  <2>1. \A r, u \in Servers : Half(r, u)' <=> Half(r, u)
      BY <1>1, SMT DEF Half
  <2>2. \A r \in Servers : ~Did(s, r)'
    <3>1. sv'[s].curServer = 0
        BY <1>0, <1>1, <1>2 DEF ExchangeInv, At
    <3> QED
        BY <1>2, <3>1, SMT DEF Did, At, Running, Servers
  <2> QED
      BY <1>0, <1>2, <1>3, <2>1, <2>2, ExchangeFrame DEF At
<1> QED
    BY <1>4, <1>5, <1>6, <1>7 DEF IInv

LEMMA ServerConnectStep ==
    ASSUME Sizes, IInv, NEW s \in Servers, serverConnect(s)
    PROVE  IInv'
<1> DEFINE x == [sv[s] EXCEPT !.serverNum = serverNum, !.k = sv[s].curServer]
<1>0. TypeOK /\ StartInv /\ MetaInv /\ ExchangeInv /\ CountInv /\ PassInv /\ sv[s] \in Server
    BY DEF IInv, TypeOK
<1>1. /\ sv[s].pc = "while" /\ sv' = [sv EXCEPT ![s] = Advance(s, x)]
      /\ UNCHANGED <<peer, serverNum, meta, count, parts>>
    BY <1>0 DEF serverConnect, At, TypeOK
<1>2. serverNum \in 0 .. maxServer
  <2>1. IsFiniteSet(Servers) /\ Started \subseteq Servers /\ Cardinality(Servers) = maxServer
      BY FS_Interval, SMT DEF Servers, Started, Sizes
  <2>2. Cardinality(Started) <= maxServer /\ Cardinality(Started) \in Nat
      BY <2>1, FS_Subset, FS_CardinalityType
  <2> QED
      BY <1>0, <2>2, SMT DEF StartInv, Sizes
<1>3. /\ x \in Server /\ x.k = sv[s].curServer
      /\ x.arrived = sv[s].arrived /\ x.passed = sv[s].passed
  <2>1. sv[s].curServer \in Nat
      BY <1>0, SMT DEF Server, Sizes
  <2> QED
      BY <1>0, <1>2, <2>1 DEF Server
<1> HIDE DEF x
<1>4. /\ sv'[s] \in Server /\ sv'[s].arrived = sv[s].arrived /\ sv'[s].passed = sv[s].passed
      /\ sv'[s].pc \in {"set", "while", "myself"}
      /\ sv'[s].pc = "set" => sv'[s].k < sv'[s].serverNum
      /\ \A r \in Servers \ {s} :
           \/ sv'[s].pc = "set" /\ r < sv'[s].k
           \/ sv'[s].pc = "while" /\ r < sv'[s].curServer
           \/ sv'[s].pc = "myself"
           => r < sv[s].curServer
    <2>1. sv'[s] = Advance(s, x)
        BY <1>0, <1>1 DEF TypeOK
    <2> QED
        BY <1>3, <2>1, AdvanceIs, SMT
<1>5. Only(s)
    BY <1>0, <1>1 DEF Only, TypeOK
<1>6. TypeOK'
    BY <1>0, <1>1, <1>4 DEF TypeOK
<1>7. StartInv' /\ MetaInv' /\ CountInv' /\ PassInv'
    BY <1>0, <1>1, <1>4, <1>5, StartFrame, MetaFrame, CountFrame, PassFrame DEF At, Preparing
<1>8. ExchangeInv'
  <2>1. \A r, u \in Servers : Half(r, u)' <=> Half(r, u)
      BY <1>1, SMT DEF Half
  <2>2. ASSUME NEW r \in Servers, Did(s, r)' PROVE Half(s, r)'
    <3>1. r # s /\ r < sv[s].curServer
        BY <1>4, <2>2 DEF Did, At, Running
    <3>2. Did(s, r)
        BY <1>1, <3>1 DEF Did, At
    <3> QED
        BY <1>0, <2>1, <3>2 DEF ExchangeInv
  <2> QED
      BY <1>0, <1>4, <1>5, <2>1, <2>2, ExchangeFrame DEF At
<1> QED
    BY <1>6, <1>7, <1>8 DEF IInv

LEMMA ConnectSetStep ==
    ASSUME Sizes, IInv, NEW s \in Servers, ConnectSet(s)
    PROVE  IInv'
<1> DEFINE r == sv[s].k
<1>0. /\ TypeOK /\ StartInv /\ MetaInv /\ ExchangeInv /\ CountInv /\ PassInv /\ sv[s] \in Server
    BY DEF IInv, TypeOK
<1>1. /\ sv[s].pc = "set" /\ meta' = [meta EXCEPT ![<<s, r>>] = <<setDataToRemote(s, r)>>]
      /\ sv' = [sv EXCEPT ![s] = [sv[s] EXCEPT !.pc = "get"]]
      /\ UNCHANGED <<peer, serverNum, count, parts>>
    BY DEF ConnectSet, At, setKey
<1>2. r \in Servers /\ r < sv[s].serverNum
    BY <1>0, <1>1, SMT DEF ExchangeInv, At, Server, Servers, Sizes
<1>3. /\ sv'[s] \in Server /\ sv'[s].pc = "get" /\ sv'[s].k = r
      /\ sv'[s].serverNum = sv[s].serverNum
      /\ sv'[s].arrived = sv[s].arrived /\ sv'[s].passed = sv[s].passed
    BY <1>0, <1>1 DEF Server, TypeOK, Preparing
<1>4. Only(s)
    BY <1>0, <1>1 DEF Only, TypeOK
<1>5. TypeOK'
  <2>1. meta' = [x \in Servers \X Servers |-> meta'[x]]
      BY <1>0, <1>1 DEF TypeOK
  <2> QED
      BY <1>0, <1>1, <1>3, <2>1 DEF TypeOK
<1>6. MetaInv'
  <2>1. ASSUME NEW a \in Servers, NEW b \in Servers
        PROVE  meta'[<<a, b>>] = IF <<a, b>> = <<s, r>> THEN <<setDataToRemote(s, r)>>
                                 ELSE meta[<<a, b>>]
      BY <1>0, <1>1 DEF TypeOK
  <2>2. ASSUME NEW a \in Servers, NEW b \in Servers
        PROVE  meta'[<<a, b>>] \in {<<>>, <<setDataToRemote(a, b)>>}
      BY <1>0, <2>1, SMT DEF MetaInv
  <2> QED
      BY <2>2 DEF MetaInv, setDataToRemote
<1>7. StartInv' /\ CountInv' /\ PassInv'
    BY <1>0, <1>1, <1>3, <1>4, StartFrame, CountFrame, PassFrame DEF At, Preparing
<1>8. ExchangeInv'
  <2>1. \A a, b \in Servers : Half(a, b)' <=> Half(a, b)
      BY <1>1, SMT DEF Half
  <2>2. \A b \in Servers : Did(s, b)' => Did(s, b)
      BY <1>1, <1>3 DEF Did, At, Running
  <2> QED
      BY <1>0, <1>2, <1>3, <1>4, <2>1, <2>2, ExchangeFrame DEF At, ExchangeInv
<1> QED
    BY <1>5, <1>6, <1>7, <1>8 DEF IInv

\* setDataFromRemote connects one end of the pairs, and no others.
LEMMA SetDataConnects ==
    ASSUME NEW s \in Servers, NEW r \in Servers,
           peer' = setDataFromRemote(s, r, setDataToRemote(r, s))
    PROVE  /\ Half(s, r)'
           /\ \A a, b \in Servers : a # s \/ b # r => (Half(a, b)' <=> Half(a, b))
<1>1. \A i \in Apps, k \in Directories, a, b \in Servers :
        AppQp(a, i, k, b) \in Qp /\ DirQp(a, i, k, b) \in Qp
    BY DEF AppQp, DirQp, Qp
<1>2. \A q \in Qp : q.server # s \/ q.to # r => peer'[q] = peer[q]
    BY DEF setDataFromRemote
<1>3. ASSUME NEW i \in Apps, NEW k \in Directories
      PROVE  /\ peer'[AppQp(s, i, k, r)] = DirQp(r, i, k, s)
             /\ peer'[DirQp(s, i, k, r)] = AppQp(r, i, k, s)
  <2>1. /\ AppQp(s, i, k, r).server = s /\ AppQp(s, i, k, r).to = r
        /\ AppQp(s, i, k, r).of = "app"
        /\ AppQp(s, i, k, r).app = i /\ AppQp(s, i, k, r).dir = k
      BY DEF AppQp
  <2>2. /\ DirQp(s, i, k, r).server = s /\ DirQp(s, i, k, r).to = r
        /\ DirQp(s, i, k, r).of = "dir"
        /\ DirQp(s, i, k, r).app = i /\ DirQp(s, i, k, r).dir = k
      BY DEF DirQp
  <2>3. /\ setDataToRemote(r, s).dirRcQpn2app[<<k, i>>] = DirQp(r, i, k, s)
        /\ setDataToRemote(r, s).appRcQpn2dir[<<i, k>>] = AppQp(r, i, k, s)
      BY DEF setDataToRemote
  <2>4. peer'[AppQp(s, i, k, r)] = setDataToRemote(r, s).dirRcQpn2app[<<k, i>>]
      BY <1>1, <2>1 DEF setDataFromRemote
  <2>5. peer'[DirQp(s, i, k, r)] = setDataToRemote(r, s).appRcQpn2dir[<<i, k>>]
      BY <1>1, <2>2 DEF setDataFromRemote
  <2> QED
      BY <2>3, <2>4, <2>5
<1>4. ASSUME NEW a \in Servers, NEW b \in Servers, a # s \/ b # r,
             NEW i \in Apps, NEW k \in Directories
      PROVE  /\ peer'[AppQp(a, i, k, b)] = peer[AppQp(a, i, k, b)]
             /\ peer'[DirQp(a, i, k, b)] = peer[DirQp(a, i, k, b)]
  <2>1. /\ AppQp(a, i, k, b).server = a /\ AppQp(a, i, k, b).to = b
        /\ DirQp(a, i, k, b).server = a /\ DirQp(a, i, k, b).to = b
      BY DEF AppQp, DirQp
  <2> QED
      BY <1>1, <1>2, <1>4, <2>1
<1> QED
    BY <1>3, <1>4, SMT DEF Half, AppQp, DirQp

LEMMA ConnectGetStep ==
    ASSUME Sizes, IInv, NEW s \in Servers, ConnectGet(s)
    PROVE  IInv'
<1>0. /\ TypeOK /\ StartInv /\ MetaInv /\ ExchangeInv /\ CountInv /\ PassInv /\ sv[s] \in Server
    BY DEF IInv, TypeOK
<1>2. PICK r \in Servers : r = sv[s].k
  <2>1. sv[s].k \in Servers
      BY <1>0, SMT DEF ConnectGet, ExchangeInv, At, Server, Servers, Sizes
  <2> QED
      BY <2>1
<1> DEFINE x == [sv[s] EXCEPT !.k = r + 1]
<1>1. /\ sv[s].pc = "get" /\ meta[<<r, s>>] # <<>>
      /\ peer' = setDataFromRemote(s, r, meta[<<r, s>>][1])
      /\ sv' = [sv EXCEPT ![s] = Advance(s, x)]
      /\ UNCHANGED <<serverNum, meta, count, parts>>
    BY <1>0, <1>2 DEF ConnectGet, At, getKey, TypeOK
<1>3. peer' = setDataFromRemote(s, r, setDataToRemote(r, s))
  <2>1. meta[<<r, s>>] = <<setDataToRemote(r, s)>>
      BY <1>0, <1>1, <1>2 DEF MetaInv
  <2> QED
      BY <1>1, <2>1, SMT
<1>4. x \in Server /\ x.k = r + 1 /\ x.arrived = sv[s].arrived /\ x.passed = sv[s].passed
    BY <1>0, <1>2, SMT DEF Server
<1> HIDE DEF x
<1>5. /\ sv'[s] \in Server /\ sv'[s].arrived = sv[s].arrived /\ sv'[s].passed = sv[s].passed
      /\ sv'[s].pc \in {"set", "while", "myself"}
      /\ sv'[s].pc = "set" => sv'[s].k < sv'[s].serverNum
      /\ \A u \in Servers \ {s} :
           \/ sv'[s].pc = "set" /\ u < sv'[s].k
           \/ sv'[s].pc = "while" /\ u < sv'[s].curServer
           \/ sv'[s].pc = "myself"
           => u < r + 1
    <2>1. sv'[s] = Advance(s, x)
        BY <1>0, <1>1 DEF TypeOK
    <2> QED
        BY <1>4, <2>1, AdvanceIs, SMT
<1>6. Only(s)
    BY <1>0, <1>1 DEF Only, TypeOK
<1>7. TypeOK'
    BY <1>0, <1>1, <1>5 DEF TypeOK
<1>8. StartInv' /\ MetaInv' /\ CountInv' /\ PassInv'
    BY <1>0, <1>1, <1>5, <1>6, StartFrame, MetaFrame, CountFrame, PassFrame DEF At, Preparing
<1>9. ExchangeInv'
  <2>1. /\ Half(s, r)'
        /\ \A a, b \in Servers : a # s \/ b # r => (Half(a, b)' <=> Half(a, b))
      BY <1>2, <1>3, SetDataConnects
  <2>2. ASSUME NEW u \in Servers, Did(s, u)' PROVE Half(s, u)'
    <3>1. u # s /\ u < r + 1
        BY <1>5, <2>2 DEF Did, At, Running
    <3>2. CASE u = r
        BY <2>1, <3>2
    <3>3. CASE u # r
      <4>1. Did(s, u)
          BY <1>1, <1>2, <3>1, <3>3, SMT DEF Did, At, Servers
      <4> QED
          BY <1>0, <2>1, <3>3, <4>1 DEF ExchangeInv
    <3> QED
        BY <3>2, <3>3
  <2>3. \A a \in Servers \ {s}, b \in Servers : Half(a, b) => Half(a, b)'
      BY <2>1
  <2> QED
      BY <1>0, <1>5, <1>6, <2>2, <2>3, ExchangeFrame DEF At
<1> QED
    BY <1>7, <1>8, <1>9 DEF IInv

LEMMA ConnectMySelfStep ==
    ASSUME Sizes, IInv, NEW s \in Servers, connectMySelf(s)
    PROVE  IInv'
<1>0. TypeOK /\ StartInv /\ MetaInv /\ ExchangeInv /\ CountInv /\ PassInv /\ sv[s] \in Server
    BY DEF IInv, TypeOK
<1>1. /\ sv[s].pc = "myself" /\ peer' = setDataFromRemote(s, s, setDataToRemote(s, s))
      /\ sv' = [sv EXCEPT ![s] = [sv[s] EXCEPT !.pc = "run"]]
      /\ UNCHANGED <<serverNum, meta, count, parts>>
    BY DEF connectMySelf, At
<1>2. /\ sv'[s] \in Server /\ sv'[s].pc = "run"
      /\ sv'[s].arrived = sv[s].arrived /\ sv'[s].passed = sv[s].passed
    BY <1>0, <1>1 DEF Server, TypeOK, Running
<1>3. Only(s)
    BY <1>0, <1>1 DEF Only, TypeOK
<1>4. TypeOK'
    BY <1>0, <1>1, <1>2 DEF TypeOK
<1>5. StartInv' /\ MetaInv' /\ CountInv' /\ PassInv'
    BY <1>0, <1>1, <1>2, <1>3, StartFrame, MetaFrame, CountFrame, PassFrame DEF At, Preparing
<1>6. ExchangeInv'
  <2>1. /\ Half(s, s)'
        /\ \A a, b \in Servers : a # s \/ b # s => (Half(a, b)' <=> Half(a, b))
      BY <1>1, SetDataConnects
  <2>2. ASSUME NEW u \in Servers, u # s PROVE Half(s, u)'
    <3>1. Did(s, u)
        BY <1>1, <2>2 DEF Did, At
    <3> QED
        BY <1>0, <2>1, <2>2, <3>1 DEF ExchangeInv
  <2>3. \A a \in Servers \ {s}, b \in Servers : Half(a, b) => Half(a, b)'
      BY <2>1
  <2>4. \A u \in Servers : Half(s, u)'
      BY <2>1, <2>2
  <2> QED
      BY <1>0, <1>2, <1>3, <2>3, <2>4, ExchangeFrame DEF At
<1> QED
    BY <1>4, <1>5, <1>6 DEF IInv

\* A server that runs stays connected whatever it does.
LEMMA RunningFrame ==
    ASSUME ExchangeInv, NEW s \in Servers, Only(s), peer' = peer,
           sv[s].pc \in Running, sv'[s].pc \in Running,
           At(s, "sum")' => sv'[s].k < maxServer
    PROVE  ExchangeInv'
<1>1. \A a, b \in Servers : Half(a, b)' <=> Half(a, b)
    BY SMT DEF Half
<1>2. \A u \in Servers : Half(s, u)'
    BY <1>1 DEF ExchangeInv, Did
<1> QED
    BY <1>1, <1>2, ExchangeFrame DEF At, Running

LEMMA BarrierSetStep ==
    ASSUME Sizes, IInv, NEW s \in Servers, BarrierSet(s)
    PROVE  IInv'
<1> DEFINE b == sv[s].arrived + 1
<1>0. TypeOK /\ StartInv /\ MetaInv /\ ExchangeInv /\ CountInv /\ PassInv /\ sv[s] \in Server
    BY DEF IInv, TypeOK
<1>1. /\ sv[s].pc = "run" /\ b \in 1 .. barriers
      /\ count' = [count EXCEPT ![b] = IF s = 0 THEN 0 ELSE count[b]]
      /\ sv' = [sv EXCEPT ![s] = [sv[s] EXCEPT !.pc = "add"]]
      /\ UNCHANGED <<peer, serverNum, meta, parts>>
    BY <1>0, SMT DEF BarrierSet, At, Server, Sizes
<1>2. /\ sv'[s] \in Server /\ sv'[s].pc = "add"
      /\ sv'[s].arrived = sv[s].arrived /\ sv'[s].passed = sv[s].passed
    BY <1>0, <1>1 DEF Server, TypeOK, Running
<1>3. Only(s)
    BY <1>0, <1>1 DEF Only, TypeOK
<1>4. TypeOK'
    BY <1>0, <1>1, <1>2 DEF TypeOK
<1>5. StartInv' /\ MetaInv' /\ ExchangeInv'
    BY <1>0, <1>1, <1>2, <1>3, StartFrame, MetaFrame, RunningFrame DEF At, Running
<1>6. PassInv'
  <2>1. sv[s].arrived < barriers
      BY <1>0, <1>1, SMT DEF Server, Sizes
  <2> QED
      BY <1>0, <1>1, <1>2, <1>3, <2>1, PassFrame DEF At, Preparing
<1>7. CountInv'
  <2>1. CASE s # 0
    <3>1. count' = count
        BY <1>0, <1>1, <2>1 DEF TypeOK
    <3> QED
        BY <1>0, <1>1, <1>2, <1>3, <3>1, CountFrame DEF At
  <2>2. CASE s = 0
    <3>1. count[b] = Absent
        BY <1>0, <1>1, <2>2, SMT DEF CountInv, At, Server, Sizes
    <3>2. \A c \in 1 .. barriers : Arrived(c)' = Arrived(c)
        BY <1>2, <1>3 DEF Arrived, Only
    <3>3. count'[b] = 0 /\ Arrived(b) = {} /\ \A c \in 1 .. barriers : c # b => count'[c] = count[c]
        BY <1>0, <1>1, <2>2, <3>1 DEF TypeOK, CountInv
    <3>4. Cardinality({}) = 0 /\ Absent # 0
        BY FS_EmptySet, SMT DEF Absent
    <3>5. At(0, "add")' /\ sv'[0].arrived = b - 1 /\ ~At(0, "add")
        BY <1>0, <1>1, <1>2, <2>2, SMT DEF At, Server, Sizes
    <3>6. ASSUME NEW c \in 1 .. barriers
          PROVE  /\ count'[c] = Absent => Arrived(c)' = {}
                 /\ count'[c] # Absent =>
                      /\ count'[c] = Cardinality(Arrived(c)')
                      /\ sv'[0].arrived >= c \/ (At(0, "add")' /\ sv'[0].arrived = c - 1)
      <4>1. CASE c = b
          BY <3>2, <3>3, <3>4, <3>5, <4>1
      <4>2. CASE c # b
          BY <1>0, <1>2, <2>2, <3>2, <3>3, <3>5, <4>2 DEF CountInv
      <4> QED
          BY <4>1, <4>2
    <3> QED
        BY <3>6 DEF CountInv, Absent
  <2> QED
      BY <2>1, <2>2
<1> QED
    BY <1>4, <1>5, <1>6, <1>7 DEF IInv

LEMMA BarrierAddStep ==
    ASSUME Sizes, IInv, NEW s \in Servers, BarrierAdd(s)
    PROVE  IInv'
<1>0. TypeOK /\ StartInv /\ MetaInv /\ ExchangeInv /\ CountInv /\ PassInv /\ sv[s] \in Server
    BY DEF IInv, TypeOK
<1>b. PICK b \in 1 .. barriers : b = sv[s].arrived + 1
  <2>1. sv[s].arrived + 1 \in 1 .. barriers
      BY <1>0, SMT DEF BarrierAdd, PassInv, At, Server, Sizes
  <2> QED
      BY <2>1
<1>1. /\ sv[s].pc = "add" /\ count[b] # Absent
      /\ count' = [count EXCEPT ![b] = count[b] + 1]
      /\ sv' = [sv EXCEPT ![s] = [sv[s] EXCEPT !.pc = "barrier", !.arrived = b]]
      /\ UNCHANGED <<peer, serverNum, meta, parts>>
    BY <1>b, <1>0 DEF BarrierAdd, At, TypeOK
<1>2. /\ sv'[s] \in Server /\ sv'[s].pc = "barrier"
      /\ sv'[s].arrived = b /\ sv'[s].passed = sv[s].passed
  <2>1. b \in 0 .. barriers
      BY SMT DEF Sizes
  <2> QED
      BY <1>0, <1>1, <2>1 DEF Server, TypeOK, Running
<1>3. Only(s)
    BY <1>0, <1>1 DEF Only, TypeOK
<1>4. TypeOK'
    BY <1>0, <1>1, <1>2, SMT DEF TypeOK
<1>5. StartInv' /\ MetaInv' /\ ExchangeInv'
    BY <1>0, <1>1, <1>2, <1>3, StartFrame, MetaFrame, RunningFrame DEF At, Running
<1>6. PassInv'
  <2>1. sv[s].passed + 1 = b
      BY <1>0, <1>b, <1>1 DEF PassInv, At
  <2>2. \A r \in Servers :
          /\ sv'[r].pc \in Preparing => sv'[r].arrived = 0
          /\ At(r, "add")' => sv'[r].arrived < barriers
          /\ sv'[r].arrived = IF At(r, "barrier")' THEN sv'[r].passed + 1 ELSE sv'[r].passed
      BY <1>0, <1>2, <1>3, <2>1, SMT DEF PassInv, At, Only, Preparing
  <2>3. \A r \in Servers : /\ sv'[r].arrived \in Nat /\ sv[r].arrived \in Nat
                           /\ sv'[r].arrived >= sv[r].arrived
                           /\ sv'[r].passed = sv[r].passed /\ sv[r].passed \in Nat
    <3>1. sv[s].arrived \in Nat /\ b \in Nat /\ b >= sv[s].arrived
        BY <1>0, <1>b, SMT DEF Server, Sizes
    <3>2. \A r \in Servers : sv[r].arrived \in Nat /\ sv[r].passed \in Nat
      <4>1. \A r \in Servers : sv[r] \in Server
          BY <1>0 DEF TypeOK
      <4>2. \A r \in Servers : sv[r].arrived \in 0 .. barriers /\ sv[r].passed \in Nat
          BY <4>1 DEF Server
      <4> QED
          BY <4>2, SMT
    <3> QED
        BY <1>2, <1>3, <3>1, <3>2, SMT DEF Only
  <2>4. \A r, u \in Servers : sv'[u].arrived >= sv'[r].passed
      BY <1>0, <2>3, SMT DEF PassInv
  <2> QED
      BY <2>2, <2>4 DEF PassInv
<1>7. CountInv'
  <2>0. 0 \in Servers /\ \A r \in Servers : sv[r].arrived \in Nat
      BY <1>0, SMT DEF Servers, Sizes, TypeOK, Server
  <2>1. Arrived(b)' = Arrived(b) \union {s} /\ s \notin Arrived(b)
      BY <1>b, <1>2, <1>3, <2>0, SMT DEF Arrived, Only
  <2>2. \A c \in 1 .. barriers : c # b => Arrived(c)' = Arrived(c)
      BY <1>b, <1>2, <1>3, <2>0, SMT DEF Arrived, Only
  <2>3. Cardinality(Arrived(b)') = Cardinality(Arrived(b)) + 1
    <3>1. IsFiniteSet(Servers) /\ Arrived(b) \subseteq Servers
        BY FS_Interval, SMT DEF Servers, Arrived, Sizes
    <3> QED
        BY <2>1, <3>1, FS_Subset, FS_AddElement
  <2>4. /\ count'[b] = count[b] + 1 /\ count[b] = Cardinality(Arrived(b)) /\ count[b] \in Nat
        /\ \A c \in 1 .. barriers : c # b => count'[c] = count[c]
      BY <1>0, <1>1 DEF TypeOK, CountInv
  <2>5. ASSUME NEW c \in 1 .. barriers,
               sv[0].arrived >= c \/ (At(0, "add") /\ sv[0].arrived = c - 1)
        PROVE  sv'[0].arrived >= c \/ (At(0, "add")' /\ sv'[0].arrived = c - 1)
    <3>1. CASE s = 0
        BY <1>b, <1>2, <2>0, <2>5, <3>1, SMT
    <3>2. CASE s # 0
        BY <1>3, <2>0, <2>5, <3>2 DEF Only, At
    <3> QED
        BY <3>1, <3>2
  <2>6. ASSUME NEW c \in 1 .. barriers
        PROVE  /\ count'[c] = Absent => Arrived(c)' = {}
               /\ count'[c] # Absent =>
                    /\ count'[c] = Cardinality(Arrived(c)')
                    /\ sv'[0].arrived >= c \/ (At(0, "add")' /\ sv'[0].arrived = c - 1)
    <3>1. CASE c = b
      <4>1. count'[b] = Cardinality(Arrived(b)') /\ count'[b] # Absent
          BY <2>3, <2>4, SMT DEF Absent
      <4>2. sv'[0].arrived >= b \/ (At(0, "add")' /\ sv'[0].arrived = b - 1)
          BY <1>0, <1>1, <2>5 DEF CountInv
      <4> QED
          BY <3>1, <4>1, <4>2
    <3>2. CASE c # b
        BY <1>0, <2>2, <2>4, <2>5, <3>2 DEF CountInv
    <3> QED
        BY <3>1, <3>2
  <2> QED
      BY <2>6 DEF CountInv, Absent
<1> QED
    BY <1>4, <1>5, <1>6, <1>7 DEF IInv

LEMMA BarrierGetStep ==
    ASSUME Sizes, IInv, NEW s \in Servers, BarrierGet(s)
    PROVE  IInv'
<1>0. TypeOK /\ StartInv /\ MetaInv /\ ExchangeInv /\ CountInv /\ PassInv /\ sv[s] \in Server
    BY DEF IInv, TypeOK
<1>1. /\ sv[s].pc = "barrier" /\ count[sv[s].arrived] = maxServer
      /\ sv' = [sv EXCEPT ![s] = [sv[s] EXCEPT !.pc = "run", !.passed = sv[s].passed + 1]]
      /\ UNCHANGED <<peer, serverNum, meta, count, parts>>
    BY <1>0 DEF BarrierGet, At, TypeOK
<1>2. /\ sv'[s] \in Server /\ sv'[s].pc = "run"
      /\ sv'[s].arrived = sv[s].arrived /\ sv'[s].passed = sv[s].passed + 1
  <2>1. sv[s].passed + 1 \in Nat
      BY <1>0, SMT DEF Server
  <2> QED
      BY <1>0, <1>1, <2>1 DEF Server, TypeOK, Running
<1>3. Only(s)
    BY <1>0, <1>1 DEF Only, TypeOK
<1>4. TypeOK'
    BY <1>0, <1>1, <1>2 DEF TypeOK
<1>5. StartInv' /\ MetaInv' /\ ExchangeInv' /\ CountInv'
    BY <1>0, <1>1, <1>2, <1>3, StartFrame, MetaFrame, RunningFrame, CountFrame DEF At, Running
<1>6. sv[s].arrived = sv[s].passed + 1 /\ sv[s].arrived \in 1 .. barriers
    BY <1>0, <1>1, SMT DEF PassInv, At, Server, Sizes
<1>7. \A r \in Servers : sv[r].arrived >= sv[s].arrived
  <2> DEFINE A == Arrived(sv[s].arrived)
  <2>1. IsFiniteSet(Servers) /\ A \subseteq Servers /\ Cardinality(Servers) = maxServer
      BY FS_Interval, SMT DEF Servers, Arrived, Sizes
  <2>2. Cardinality(A) = maxServer
      BY <1>0, <1>1, <1>6, SMT DEF CountInv, Absent, Sizes
  <2>3. A = Servers
      BY <2>1, <2>2, FS_Subset
  <2> QED
      BY <2>3 DEF Arrived
<1>8. PassInv'
  <2>1. \A r \in Servers :
          /\ sv'[r].pc \in Preparing => sv'[r].arrived = 0
          /\ At(r, "add")' => sv'[r].arrived < barriers
          /\ sv'[r].arrived = IF At(r, "barrier")' THEN sv'[r].passed + 1 ELSE sv'[r].passed
      BY <1>0, <1>2, <1>3, <1>6 DEF PassInv, At, Only, Preparing
  <2>2. \A r \in Servers : sv'[r].arrived = sv[r].arrived
      BY <1>2, <1>3 DEF Only
  <2>3. ASSUME NEW r \in Servers, NEW u \in Servers
        PROVE  sv'[u].arrived >= sv'[r].passed
    <3>1. CASE r = s
        BY <1>2, <1>6, <1>7, <2>2, <3>1
    <3>2. CASE r # s
        BY <1>0, <1>3, <2>2, <3>2 DEF PassInv, Only
    <3> QED
        BY <3>1, <3>2
  <2> QED
      BY <2>1, <2>3 DEF PassInv
<1> QED
    BY <1>4, <1>5, <1>8 DEF IInv

LEMMA SumPutStep ==
    ASSUME Sizes, IInv, NEW s \in Servers, SumPut(s)
    PROVE  IInv'
<1> DEFINE p == IF s = 0 THEN "sum" ELSE "done"
<1>0. TypeOK /\ StartInv /\ MetaInv /\ ExchangeInv /\ CountInv /\ PassInv /\ sv[s] \in Server
    BY DEF IInv, TypeOK
<1>1. /\ sv[s].pc = "run" /\ parts' = [parts EXCEPT ![s] = 2 ^ s]
      /\ sv' = [sv EXCEPT ![s] = [sv[s] EXCEPT !.pc = p, !.k = 0]]
      /\ UNCHANGED <<peer, serverNum, meta, count>>
    BY <1>0 DEF SumPut, At, TypeOK
<1>2. /\ sv'[s] \in Server /\ sv'[s].pc \in {"sum", "done"} /\ sv'[s].k = 0
      /\ sv'[s].arrived = sv[s].arrived /\ sv'[s].passed = sv[s].passed
    BY <1>0, <1>1 DEF Server, TypeOK, Running
<1>3. Only(s)
    BY <1>0, <1>1 DEF Only, TypeOK
<1>4. TypeOK'
  <2>1. 2 ^ s \in Int
      BY SMT DEF Servers, Sizes
  <2> QED
      BY <1>0, <1>1, <1>2, <2>1 DEF TypeOK
<1>5. ExchangeInv'
    BY <1>0, <1>1, <1>2, <1>3, RunningFrame, SMT DEF Running, Sizes
<1>6. StartInv' /\ MetaInv' /\ CountInv' /\ PassInv'
    BY <1>0, <1>1, <1>2, <1>3, StartFrame, MetaFrame, CountFrame, PassFrame DEF At, Preparing
<1> QED
    BY <1>4, <1>5, <1>6 DEF IInv

LEMMA SumAddStep ==
    ASSUME Sizes, IInv, NEW s \in Servers, SumAdd(s)
    PROVE  IInv'
<1> DEFINE i == sv[s].k
           p == IF i + 1 = maxServer THEN "done" ELSE "sum"
           total == sv[s].ret + parts[i]
<1>0. TypeOK /\ StartInv /\ MetaInv /\ ExchangeInv /\ CountInv /\ PassInv /\ sv[s] \in Server
    BY DEF IInv, TypeOK
<1>1. /\ sv[s].pc = "sum"
      /\ sv' = [sv EXCEPT ![s] = [sv[s] EXCEPT !.ret = total, !.k = i + 1, !.pc = p]]
      /\ UNCHANGED <<peer, serverNum, meta, count, parts>>
    BY <1>0 DEF SumAdd, At, TypeOK
<1>2. i \in Servers /\ total \in Int
  <2>1. i \in Servers
      BY <1>0, <1>1, SMT DEF ExchangeInv, At, Server, Servers, Sizes
  <2> QED
      BY <1>0, <2>1, SMT DEF TypeOK, Server
<1>3. /\ sv'[s] \in Server /\ sv'[s].pc = p /\ sv'[s].k = i + 1
      /\ sv'[s].arrived = sv[s].arrived /\ sv'[s].passed = sv[s].passed
  <2>1. i + 1 \in Nat /\ p \in Running
      BY <1>2, SMT DEF Servers, Running, Sizes
  <2> HIDE DEF i, p, total
  <2> QED
      BY <1>0, <1>1, <1>2, <2>1 DEF Server, TypeOK
<1>4. Only(s)
    BY <1>0, <1>1 DEF Only, TypeOK
<1>5. TypeOK'
    BY <1>0, <1>1, <1>3 DEF TypeOK
<1>6. ExchangeInv'
  <2>1. p = "sum" => i + 1 < maxServer
      BY <1>2, SMT DEF Servers, Sizes
  <2> QED
      BY <1>0, <1>1, <1>3, <1>4, <2>1, RunningFrame DEF Running, At
<1>7. StartInv' /\ MetaInv' /\ CountInv' /\ PassInv'
    BY <1>0, <1>1, <1>3, <1>4, StartFrame, MetaFrame, CountFrame, PassFrame, SMT DEF At, Preparing
<1> QED
    BY <1>5, <1>6, <1>7 DEF IInv

-----------------------------------------------------------------------------
(* The invariant holds throughout                                            *)

LEMMA InitIInv == Sizes /\ Init => IInv
<1> SUFFICES ASSUME Sizes, Init PROVE IInv
    OBVIOUS
<1>1. \A s \in Servers : /\ sv[s].pc = "start" /\ sv[s].curServer = 0
                         /\ sv[s].arrived = 0 /\ sv[s].passed = 0
    BY DEF Init
<1>2. TypeOK
    BY SMT DEF Init, TypeOK, Server, Preparing, Sizes, Absent
<1>3. StartInv
  <2>1. Started = {} /\ Cardinality({}) = 0
      BY <1>1, FS_EmptySet DEF Started, At
  <2> QED
      BY <2>1 DEF StartInv, Init
<1>4. MetaInv
    BY DEF Init, MetaInv
<1>5. ExchangeInv
    BY <1>1 DEF ExchangeInv, Did, At, Running
<1>6. CountInv
  <2>1. \A b \in 1 .. barriers : Arrived(b) = {} /\ count[b] = Absent
      BY <1>1, SMT DEF Arrived, Init
  <2> QED
      BY <2>1 DEF CountInv
<1>7. PassInv
    BY <1>1, SMT DEF PassInv, At, Preparing
<1> QED
    BY <1>2, <1>3, <1>4, <1>5, <1>6, <1>7 DEF IInv

LEMMA NextIInv == Sizes /\ IInv /\ [Next]_vars => IInv'
<1> SUFFICES ASSUME Sizes, IInv, [Next]_vars PROVE IInv'
    OBVIOUS
<1>1. ASSUME NEW s \in Servers, Step(s) PROVE IInv'
    BY <1>1, EnterStep, ServerConnectStep, ConnectSetStep, ConnectGetStep, ConnectMySelfStep,
       BarrierSetStep, BarrierAddStep, BarrierGetStep, SumPutStep, SumAddStep DEF Step
<1>2. CASE UNCHANGED vars
  <2> USE <1>2 DEF vars, At
  <2>1. TypeOK' /\ StartInv'
      BY DEF IInv, TypeOK, StartInv, Started
  <2>2. MetaInv'
      BY MetaFrame DEF IInv
  <2>3. ExchangeInv'
      BY SMT DEF IInv, ExchangeInv, Did, Half
  <2>4. CountInv'
    <3>1. \A b \in 1 .. barriers : Arrived(b)' = Arrived(b)
        BY DEF Arrived
    <3> QED
        BY <3>1 DEF IInv, CountInv
  <2>5. PassInv'
      BY DEF IInv, PassInv
  <2> QED
      BY <2>1, <2>2, <2>3, <2>4, <2>5 DEF IInv
<1> QED
    BY <1>1, <1>2 DEF Next, Finished

\* No server leaves a barrier before all have come to it, and none leaves the
\* first one before every queue pair of the cluster is connected at both ends,
\* for any number of servers, threads, directories and barriers and any order
\* in which the servers start.
THEOREM BarriersAreSafe ==
    ASSUME Sizes
    PROVE  Spec => []BarriersHold
<1>1. IInv => BarriersHold
  <2> SUFFICES ASSUME IInv, NEW s \in Servers, sv[s].passed > 0, NEW r \in Servers
               PROVE  sv[r].arrived >= sv[s].passed /\ \A u \in Servers : Connected(r, u)
      BY DEF BarriersHold
  <2>1. \A u \in Servers : sv[u].arrived >= sv[s].passed
      BY DEF IInv, PassInv
  <2>2. \A u \in Servers : sv[u].pc \in Running
    <3>1. \A u \in Servers : sv[u] \in Server /\ sv[u].arrived # 0
      <4>1. sv[s].passed \in Nat /\ \A u \in Servers : sv[u] \in Server /\ sv[u].arrived \in Nat
        <5>1. \A u \in Servers : sv[u] \in Server
            BY DEF IInv, TypeOK
        <5>2. \A u \in Servers : sv[u].arrived \in 0 .. barriers /\ sv[u].passed \in Nat
            BY <5>1 DEF Server
        <5> QED
            BY <5>1, <5>2, SMT
      <4> QED
          BY <2>1, <4>1, SMT
    <3> QED
        BY <3>1 DEF IInv, PassInv, Server
  <2>3. \A u, w \in Servers : Half(u, w)
      BY <2>2 DEF IInv, ExchangeInv, Did
  <2>4. \A u \in Servers : Connected(r, u)
      BY <2>3 DEF Connected, Half
  <2> QED
      BY <2>1, <2>4
<1> QED
    BY <1>1, InitIInv, NextIInv, PTL DEF Spec
====
