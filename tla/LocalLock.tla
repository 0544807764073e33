------------------------------ MODULE LocalLock ------------------------------
(***************************************************************************)
(* One LocalLockNode of the local lock table of a compute node             *)
(* (include/LocalLockTable.h): the slot all keys of Keys hash to.          *)
(* Clients (threads or coroutines) insert and search those keys.  Inserts  *)
(* are combined (acquire_local_write_lock ... release_local_write_lock)    *)
(* and searches delegated (acquire_local_read_lock ...): a client at the   *)
(* head of a ticket queue is a winner, which goes to the remote tree, or a *)
(* loser, to which the winner's access is handed over.  A client whose key *)
(* differs from the key of the queue goes to the tree directly.            *)
(*                                                                         *)
(* One step is one access to a field other clients may access at that      *)
(* moment.  The fields read_xxx and write_xxx are one function xxx with    *)
(* domain Kind.  The tree below is mem, one cell per key; a value is the   *)
(* pair <<key it was passed for, client that passed it>>.                  *)
(***************************************************************************)
EXTENDS Integers, FiniteSets

CONSTANTS
    Clients,    \* threads and coroutines of the compute node
    Keys,       \* keys that hash to this lock node
    NoKey,      \* nullptr in unique_read_key and unique_write_key
    NoClient,   \* an unlocked mutex, and the writer of the initial values
    TicketMod,  \* 2^8: tickets, currents and windows are uint8_t
    Workloads   \* bound: how many operations of each kind may start together

ASSUME TicketModAssumption == TicketMod \in Nat \ {0, 1}
ASSUME NoClientAssumption == NoClient \notin Clients
ASSUME NoKeyAssumption == NoKey \notin Keys

Kind == {"read", "write"}
Other(q) == IF q = "read" THEN "write" ELSE "read"
Ticket == 0 .. TicketMod - 1
Value == Keys \X (Clients \union {NoClient})

VARIABLES
    \* --- LocalLockNode
    ticket,        \* read_ticket, write_ticket
    current,       \* read_current, write_current
    handover,      \* read_handover, write_handover
    window,        \* read_window, write_window
    window_start,
    mutex,         \* r_lock, w_lock: the client that holds it
    unique,        \* unique_read_key, unique_write_key
    ret_value,
    wc_buffer,
    \* --- the remote tree
    mem,
    \* --- locals of the clients
    pc, kind, key, val,
    acquired,      \* acquire_ret: "loser" is (true, _), "direct" is (_, true)
    my,            \* the ticket taken
    seen,          \* the ticket counter loaded by the release
    seen_current,  \* the current of the other queue, loaded to size its window
    \* --- bounds and history
    started,       \* operations started, per kind
    winner_key,    \* key of the last winner of each queue
    audience,      \* the clients queued when the last winner released
    picked         \* writers whose buffered value, or a later one, was fetched

node == <<ticket, current, handover, window, window_start, mutex, unique,
          ret_value, wc_buffer>>
locals == <<pc, kind, key, val, acquired, my, seen, seen_current>>
history == <<started, winner_key, audience, picked>>
vars == <<node, mem, locals, history>>

Goto(c, label) == pc' = [pc EXCEPT ![c] = label]

\* Mutant: a counter wider than the field it is kept in.
IncWide(n) == n + 1
\* Mutant: the head of the queue counted twice.
DiffOffByOne(a, b) == IF a >= b THEN a - b + 1 ELSE a - b + 1 + TicketMod

\* uint8_t arithmetic.
Inc(n) == IF n = TicketMod - 1 THEN 0 ELSE n + 1
Dec(n) == IF n = 0 THEN TicketMod - 1 ELSE n - 1
Diff(a, b) == IF a >= b THEN a - b ELSE a - b + TicketMod

\* The clients holding a ticket of queue q.
Queue(q) == {c \in Clients : kind[c] = q /\ my[c] # -1}

Init ==
    /\ ticket = [q \in Kind |-> 0]
    /\ current = [q \in Kind |-> 0]
    /\ handover = [q \in Kind |-> FALSE]
    /\ window = [q \in Kind |-> 0]
    /\ window_start = FALSE
    /\ mutex = [q \in Kind |-> NoClient]
    /\ unique = [q \in Kind |-> NoKey]
    /\ mem = [k \in Keys |-> <<k, NoClient>>]
    /\ \E k \in Keys :
         /\ ret_value = <<k, NoClient>>
         /\ wc_buffer = <<k, NoClient>>
         /\ key = [c \in Clients |-> k]
         /\ val = [c \in Clients |-> <<k, NoClient>>]
         /\ winner_key = [q \in Kind |-> k]
    /\ pc = [c \in Clients |-> "idle"]
    /\ kind = [c \in Clients |-> "read"]
    /\ acquired = [c \in Clients |-> "winner"]
    /\ my = [c \in Clients |-> -1]
    /\ seen = [c \in Clients |-> 0]
    /\ seen_current = [c \in Clients |-> 0]
    /\ started = [q \in Kind |-> 0]
    /\ audience = [q \in Kind |-> {}]
    /\ picked = {}

-----------------------------------------------------------------------------
(* acquire_local_read_lock, acquire_local_write_lock *)

\* A client begins a search or an insert of k: it offers k as the key of the
\* queue.  A different key there sends it to the tree without the lock.
Begin(c, q, k) ==
    /\ pc[c] \in {"idle", "done"}
    /\ started' = [started EXCEPT ![q] = @ + 1]
    /\ \E w \in Workloads : \A r \in Kind : started'[r] <= w[r]
    /\ kind' = [kind EXCEPT ![c] = q]
    /\ key' = [key EXCEPT ![c] = k]
    /\ val' = [val EXCEPT ![c] = IF q = "write" THEN <<k, c>> ELSE <<k, NoClient>>]
    /\ my' = [my EXCEPT ![c] = -1]
    /\ picked' = picked \ {c}
    /\ \/ /\ unique[q] = NoKey
          /\ unique' = [unique EXCEPT ![q] = k]
          /\ acquired' = [acquired EXCEPT ![c] = "winner"]
          /\ Goto(c, IF q = "write" THEN "buffer" ELSE "ticket")
       \/ /\ unique[q] = k
          /\ acquired' = [acquired EXCEPT ![c] = "winner"]
          /\ Goto(c, IF q = "write" THEN "buffer" ELSE "ticket")
          /\ UNCHANGED unique
       \/ /\ unique[q] \notin {NoKey, k}
          /\ acquired' = [acquired EXCEPT ![c] = "direct"]
          /\ Goto(c, IF q = "write" THEN "combine" ELSE "remote")
          /\ UNCHANGED unique
    /\ UNCHANGED <<ticket, current, handover, window, window_start, mutex,
                   ret_value, wc_buffer, mem, seen, seen_current,
                   winner_key, audience>>

\* An insert leaves its value in the buffer, over the one that is there.
Overwrite(c) ==
    /\ pc[c] = "buffer"
    /\ wc_buffer' = val[c]
    /\ Goto(c, "ticket")
    /\ UNCHANGED <<ticket, current, handover, window, window_start, mutex,
                   unique, ret_value, mem, kind, key, val, acquired, my, seen,
                   seen_current, history>>

\* Mutant: the ticket is read but not incremented.
TakeTicketShared(c) ==
    /\ pc[c] = "ticket"
    /\ my' = [my EXCEPT ![c] = ticket[kind[c]]]
    /\ Goto(c, "wait")
    /\ UNCHANGED <<node, mem, kind, key, val, acquired, seen, seen_current, history>>

TakeTicket(c) ==
    LET q == kind[c] IN
    /\ pc[c] = "ticket"
    /\ my' = [my EXCEPT ![c] = ticket[q]]
    /\ ticket' = [ticket EXCEPT ![q] = Inc(@)]
    /\ Goto(c, "wait")
    /\ UNCHANGED <<current, handover, window, window_start, mutex, unique,
                   ret_value, wc_buffer, mem, kind, key, val, acquired, seen,
                   seen_current, history>>

\* The spin loop, or the waiting queue of the coroutines, sees its turn.
Wait(c) ==
    /\ pc[c] = "wait"
    /\ my[c] = current[kind[c]]
    /\ Goto(c, "check")
    /\ UNCHANGED <<node, mem, kind, key, val, acquired, my, seen, seen_current,
                   history>>

\* Mutant: the key of the queue is not checked again after the wait.
CheckKeyDropped(c) ==
    /\ pc[c] = "check"
    /\ Goto(c, "own")
    /\ UNCHANGED <<node, mem, kind, key, val, acquired, my, seen, seen_current, history>>

\* The head of the queue checks that the queue still belongs to its key.
CheckKey(c) ==
    LET q == kind[c] IN
    /\ pc[c] = "check"
    /\ \/ /\ unique[q] # key[c]
          /\ acquired' = [acquired EXCEPT ![c] = "direct"]
          /\ Goto(c, "window")
       \/ /\ unique[q] = key[c]
          /\ Goto(c, "own")
          /\ UNCHANGED acquired
    /\ UNCHANGED <<node, mem, kind, key, val, my, seen, seen_current, history>>

\* Mutant: the handover goes on outside the time window.
CheckWindowDropped(c) ==
    LET q == kind[c] IN
    /\ pc[c] = "own"
    /\ acquired' = [acquired EXCEPT ![c] = IF handover[q] THEN "loser" ELSE "winner"]
    /\ Goto(c, CASE handover[q] -> "release"
                 [] ~handover[q] /\ q = "write" -> "combine"
                 [] OTHER -> "remote")
    /\ UNCHANGED <<node, mem, kind, key, val, my, seen, seen_current, history>>

\* Outside a time window nothing is handed over.
CheckWindow(c) ==
    LET q == kind[c]
        h == handover[q] /\ window[q] # 0
    IN
    /\ pc[c] = "own"
    /\ handover' = [handover EXCEPT ![q] = h]
    /\ acquired' = [acquired EXCEPT ![c] = IF h THEN "loser" ELSE "winner"]
    /\ Goto(c, CASE h -> "release"
                 [] ~h /\ q = "write" -> "combine"
                 [] OTHER -> "remote")
    /\ UNCHANGED <<ticket, current, window, window_start, mutex, unique,
                   ret_value, wc_buffer, mem, kind, key, val, my, seen,
                   seen_current, history>>

-----------------------------------------------------------------------------
(* Between acquire and release: Tree::insert and Tree::search. *)

\* get_combining_value compares the key of the queue ...
GetCombiningKey(c) ==
    /\ pc[c] = "combine"
    /\ Goto(c, IF unique["write"] = key[c] THEN "fetch" ELSE "remote")
    /\ UNCHANGED <<node, mem, kind, key, val, acquired, my, seen, seen_current,
                   history>>

\* ... and then takes the buffered value.
GetCombiningValue(c) ==
    /\ pc[c] = "fetch"
    /\ val' = [val EXCEPT ![c] = wc_buffer]
    /\ picked' = picked \union
         {d \in Clients : kind[d] = "write" /\ key[d] = key[c]
                            /\ pc[d] \notin {"idle", "done", "buffer"}}
    /\ Goto(c, "remote")
    /\ UNCHANGED <<node, mem, kind, key, acquired, my, seen, seen_current,
                   started, winner_key, audience>>

\* The tree is read or written, by a winner or by a direct client.
Remote(c) ==
    /\ pc[c] = "remote"
    /\ \/ /\ kind[c] = "read"
          /\ val' = [val EXCEPT ![c] = mem[key[c]]]
          /\ UNCHANGED mem
       \/ /\ kind[c] = "write"
          /\ mem' = [mem EXCEPT ![key[c]] = val[c]]
          /\ UNCHANGED val
    /\ Goto(c, IF acquired[c] = "direct" THEN "done" ELSE "release")
    /\ UNCHANGED <<node, kind, key, acquired, my, seen, seen_current, history>>

-----------------------------------------------------------------------------
(* release_local_read_lock, release_local_write_lock *)

\* The result of a search passes from the winner to the losers, then the
\* ticket counter is loaded.  (current is stable while c is the head.)
Release(c) ==
    LET q == kind[c] IN
    /\ pc[c] = "release"
    /\ \/ /\ handover[q]
          /\ val' = [val EXCEPT ![c] = IF q = "read" THEN ret_value ELSE @]
          /\ UNCHANGED <<ret_value, winner_key, audience>>
       \/ /\ ~handover[q]
          /\ ret_value' = IF q = "read" THEN val[c] ELSE ret_value
          /\ winner_key' = [winner_key EXCEPT ![q] = key[c]]
          /\ audience' = [audience EXCEPT ![q] = Queue(q)]
          /\ UNCHANGED val
    /\ seen' = [seen EXCEPT ![c] = ticket[q]]
    /\ Goto(c, "start")
    /\ UNCHANGED <<ticket, current, handover, window, window_start, mutex,
                   unique, wc_buffer, mem, kind, key, acquired, my,
                   seen_current, started, picked>>

\* A winner opens a time window unless one is open.
StartWindow(c) ==
    LET q == kind[c] IN
    /\ pc[c] = "start"
    /\ \/ /\ ~handover[q] /\ ~window_start
          /\ window_start' = TRUE
          /\ Goto(c, IF q = "read" THEN "size_own" ELSE "size_other")
       \/ /\ handover[q] \/ window_start
          /\ Goto(c, "handover")
          /\ UNCHANGED window_start
    /\ UNCHANGED <<ticket, current, handover, window, mutex, unique, ret_value,
                   wc_buffer, mem, kind, key, val, acquired, my, seen,
                   seen_current, history>>

\* The window of the own queue: the clients queued when seen was loaded.  A
\* reader sizes its own window first, a writer last.
SizeOwn(c) ==
    LET q == kind[c] IN
    /\ pc[c] = "size_own"
    /\ window' = [window EXCEPT ![q] = Diff(seen[c], current[q])]
    /\ Goto(c, IF q = "read" THEN "size_other" ELSE "handover")
    /\ UNCHANGED <<ticket, current, handover, window_start, mutex, unique,
                   ret_value, wc_buffer, mem, kind, key, val, acquired, my,
                   seen, seen_current, history>>

\* The window of the other queue, under that queue's mutex: load its current,
SizeOther(c) ==
    LET o == Other(kind[c]) IN
    /\ pc[c] = "size_other"
    /\ mutex[o] = NoClient
    /\ mutex' = [mutex EXCEPT ![o] = c]
    /\ seen_current' = [seen_current EXCEPT ![c] = current[o]]
    /\ Goto(c, "size_other2")
    /\ UNCHANGED <<ticket, current, handover, window, window_start, unique,
                   ret_value, wc_buffer, mem, kind, key, val, acquired, my,
                   seen, history>>

\* then its ticket counter, and unlock.  The load of the counter and the store
\* of the window are one step: a client that takes its ticket between them is
\* not counted, as if it had come after the store.
SizeOther2(c) ==
    LET o == Other(kind[c]) IN
    /\ pc[c] = "size_other2"
    /\ window' = [window EXCEPT ![o] = Diff(ticket[o], seen_current[c])]
    /\ mutex' = [mutex EXCEPT ![o] = NoClient]
    /\ Goto(c, IF kind[c] = "read" THEN "handover" ELSE "size_own")
    /\ UNCHANGED <<ticket, current, handover, window_start, unique, ret_value,
                   wc_buffer, mem, kind, key, val, acquired, my, seen,
                   seen_current, history>>

\* Hand over if someone is queued behind; otherwise the next epoch is free
\* to choose another key.
SetHandover(c) ==
    LET q == kind[c]
        h == seen[c] # Inc(current[q])
    IN
    /\ pc[c] = "handover"
    /\ handover' = [handover EXCEPT ![q] = h]
    /\ unique' = [unique EXCEPT ![q] = IF h THEN @ ELSE NoKey]
    /\ Goto(c, "lock")
    /\ UNCHANGED <<ticket, current, window, window_start, mutex, ret_value,
                   wc_buffer, mem, kind, key, val, acquired, my, seen,
                   seen_current, history>>

LockQueue(c) ==
    LET q == kind[c] IN
    /\ pc[c] = "lock"
    /\ mutex[q] = NoClient
    /\ mutex' = [mutex EXCEPT ![q] = c]
    /\ Goto(c, "window")
    /\ UNCHANGED <<ticket, current, handover, window, window_start, unique,
                   ret_value, wc_buffer, mem, kind, key, val, acquired, my,
                   seen, seen_current, history>>

\* Mutant: the window shrinks but is never closed.
LeaveWindowOpen(c) ==
    LET q == kind[c] IN
    /\ pc[c] = "window"
    /\ window' = [window EXCEPT ![q] = IF @ # 0 THEN Dec(@) ELSE @]
    /\ Goto(c, "pass")
    /\ UNCHANGED <<ticket, current, handover, window_start, mutex, unique,
                   ret_value, wc_buffer, mem, kind, key, val, acquired, my,
                   seen, seen_current, history>>

\* if (window) { --window; if (!read_window && !write_window) window_start =
\* false; }: a release runs this under its mutex, a direct client of
\* CheckKey without it.
LeaveWindow(c) ==
    LET q == kind[c] IN
    /\ \/ /\ pc[c] = "window"
          /\ Goto(c, IF window[q] # 0 THEN "shrink" ELSE "pass")
          /\ UNCHANGED <<window, window_start>>
       \/ /\ pc[c] = "shrink"
          /\ window' = [window EXCEPT ![q] = Dec(@)]
          /\ Goto(c, "empty")
          /\ UNCHANGED window_start
       \/ /\ pc[c] = "empty"
          /\ Goto(c, IF window["read"] = 0 THEN "empty_other" ELSE "pass")
          /\ UNCHANGED <<window, window_start>>
       \/ /\ pc[c] = "empty_other"
          /\ Goto(c, IF window["write"] = 0 THEN "close" ELSE "pass")
          /\ UNCHANGED <<window, window_start>>
       \/ /\ pc[c] = "close"
          /\ window_start' = FALSE
          /\ Goto(c, "pass")
          /\ UNCHANGED window
    /\ UNCHANGED <<ticket, current, handover, mutex, unique, ret_value,
                   wc_buffer, mem, kind, key, val, acquired, my, seen,
                   seen_current, history>>

\* Mutant: the mutex of the queue is not unlocked.
PassLocked(c) ==
    LET q == kind[c] IN
    /\ pc[c] = "pass"
    /\ current' = [current EXCEPT ![q] = Inc(@)]
    /\ my' = [my EXCEPT ![c] = -1]
    /\ seen' = [seen EXCEPT ![c] = 0]
    /\ seen_current' = [seen_current EXCEPT ![c] = 0]
    /\ Goto(c, CASE acquired[c] # "direct" -> "done"
                 [] acquired[c] = "direct" /\ q = "write" -> "combine"
                 [] OTHER -> "remote")
    /\ UNCHANGED <<ticket, handover, window, window_start, mutex, unique,
                   ret_value, wc_buffer, mem, kind, key, val, acquired, history>>

\* The next ticket is served.  A direct client now goes to the tree.  (The
\* locals of the release go out of scope.)
Pass(c) ==
    LET q == kind[c] IN
    /\ pc[c] = "pass"
    /\ current' = [current EXCEPT ![q] = Inc(@)]
    /\ mutex' = [mutex EXCEPT ![q] = IF @ = c THEN NoClient ELSE @]
    /\ my' = [my EXCEPT ![c] = -1]
    /\ seen' = [seen EXCEPT ![c] = 0]
    /\ seen_current' = [seen_current EXCEPT ![c] = 0]
    /\ Goto(c, CASE acquired[c] # "direct" -> "done"
                 [] acquired[c] = "direct" /\ q = "write" -> "combine"
                 [] OTHER -> "remote")
    /\ UNCHANGED <<ticket, handover, window, window_start, unique, ret_value,
                   wc_buffer, mem, kind, key, val, acquired, history>>

\* The steps of an operation in progress.
Step(c) ==
    \/ Overwrite(c) \/ TakeTicket(c) \/ Wait(c) \/ CheckKey(c)
    \/ CheckWindow(c) \/ GetCombiningKey(c) \/ GetCombiningValue(c)
    \/ Remote(c) \/ Release(c) \/ StartWindow(c) \/ SizeOwn(c)
    \/ SizeOther(c) \/ SizeOther2(c) \/ SetHandover(c) \/ LockQueue(c)
    \/ LeaveWindow(c) \/ Pass(c)

\* Every operation has returned and the bounds are used up.
Finished ==
    /\ \A c \in Clients : pc[c] \in {"idle", "done"}
    /\ UNCHANGED vars

Next ==
    \/ \E c \in Clients, q \in Kind, k \in Keys : Begin(c, q, k)
    \/ \E c \in Clients : Step(c)
    \/ Finished

Spec == Init /\ [][Next]_vars

\* The threads run, the coroutine master polls every waiting coroutine, and
\* std::mutex is acquired eventually by whoever waits for it.
Fairness == \A c \in Clients : WF_vars(Step(c))
LiveSpec == Spec /\ Fairness

-----------------------------------------------------------------------------
(* Properties *)

Labels == {"idle", "buffer", "ticket", "wait", "check", "own", "combine",
           "fetch", "remote", "release", "start", "size_own", "size_other",
           "size_other2", "handover", "lock", "window", "shrink", "empty",
           "empty_other", "close", "pass", "done"}

\* Every field and local holds a value of its C++ type.
TypeOK ==
    /\ ticket \in [Kind -> Ticket] /\ current \in [Kind -> Ticket]
    /\ handover \in [Kind -> BOOLEAN]
    /\ window \in [Kind -> Ticket] /\ window_start \in BOOLEAN
    /\ mutex \in [Kind -> Clients \union {NoClient}]
    /\ unique \in [Kind -> Keys \union {NoKey}]
    /\ ret_value \in Value /\ wc_buffer \in Value
    /\ mem \in [Keys -> Value]
    /\ pc \in [Clients -> Labels] /\ kind \in [Clients -> Kind]
    /\ key \in [Clients -> Keys] /\ val \in [Clients -> Value]
    /\ acquired \in [Clients -> {"winner", "loser", "direct"}]
    /\ my \in [Clients -> Ticket \union {-1}]
    /\ seen \in [Clients -> Ticket] /\ seen_current \in [Clients -> Ticket]
    /\ started \in [Kind -> Nat]
    /\ winner_key \in [Kind -> Keys]
    /\ audience \in [Kind -> SUBSET Clients]
    /\ picked \in SUBSET Clients

\* The clients that believe they are at the head of queue q.
Heads(q) == {c \in Queue(q) : pc[c] # "wait"}

\* The ticket lock of each queue is a lock: between the end of its wait and
\* the increment of current a client is alone (acquire_local_xxx_lock to
\* release_local_xxx_lock), so handover, ret_value and the reset of the key
\* have one writer.
MutualExclusion ==
    \A q \in Kind : \A c, d \in Heads(q) : c = d

\* "losers accept the ret val from winner": what is handed to a loser comes
\* from a winner that worked on the loser's own key.
HandoverSameKey ==
    \A c \in Clients :
        acquired[c] = "loser" /\ pc[c] = "release" => winner_key[kind[c]] = key[c]

\* The operations started so far are all searches or all inserts.
OneKind == \E q \in Kind : started[q] = 0

\* A loser was queued when the winner released, as the size of the time window
\* intends: with operations of one kind nothing is handed to a later arrival.
HandoverToWaiters ==
    OneKind => \A c \in Clients :
        acquired[c] = "loser" /\ pc[c] = "release" => c \in audience[kind[c]]

\* A time window never outlives its clients: with operations of one kind, when
\* nobody is queued, both windows are empty and the next winner can open one.
WindowCloses ==
    OneKind /\ (\A q \in Kind : Queue(q) = {}) =>
        ~window_start /\ \A q \in Kind : window[q] = 0

\* A window counts clients that are queued: with operations of one kind it
\* never wraps below zero and never exceeds the queue.
WindowWithinQueue ==
    OneKind => \A q \in Kind : window[q] <= Cardinality(Queue(q))

\* write_handover of Tree::insert, "whether the insert is handed to another
\* coroutine for processing": when an insert returns as a loser, its value or
\* a later one for its key has been fetched for writing.
HandedOverIsProcessed ==
    \A c \in Clients :
        pc[c] = "done" /\ kind[c] = "write" /\ acquired[c] = "loser" => c \in picked

\* Tree::insert(k, v) inserts the pair it is called with: the tree holds for k
\* only values passed for k.
ValueBelongsToKey == \A k \in Keys : mem[k][1] = k

\* Every operation that starts returns.
EveryOperationReturns ==
    \A c \in Clients : []<>(pc[c] \in {"idle", "done"})
====
