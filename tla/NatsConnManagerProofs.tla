------------------------ MODULE NatsConnManagerProofs ------------------------
(***************************************************************************)
(* Proofs about NatsConnManager, for every list of configurations and      *)
(* every number of goroutines.                                             *)
(*                                                                         *)
(* LockInv: the lock excludes, so that the range of StartAll never meets   *)
(* an entry that CloseAll deleted.  MapInv: a connection leaves the map    *)
(* only when it is stopped, and the holder of the lock has still to visit  *)
(* all that is in the map.  LoopInv: the handler of a connection that is   *)
(* not stopped belongs to a loop that is running; without it a token could *)
(* be put where nobody looks, and a reconnect be lost.                     *)
(***************************************************************************)
EXTENDS NatsConnManager, FiniteSetTheorems, WellFoundedInduction, TLAPS

\* A StartAll that holds the lock for reading.
Reading(t) == pc[t] \in {"range", "start", "select", "refresh", "ensure"}

Types ==
    /\ created \subseteq Conns
    /\ pc \in [Threads -> PcStates]
    /\ cur \in [Threads -> {0} \cup Conns]
    /\ todo \in [Threads -> SUBSET Names]
    /\ token \in [Threads -> BOOLEAN]
    /\ ctxDone \in [Conns -> BOOLEAN]
    /\ net \in [Conns -> {"up", "down", "closed"}]
    /\ handler \in [Conns -> {{}} \cup {{t} : t \in Threads}]
    /\ stale \in [Conns -> BOOLEAN]
    /\ reconnects \in [Conns -> 0 .. MaxReconnects]
    /\ jsFailed \subseteq Conns
    /\ crashed \in BOOLEAN

LockInv ==
    /\ readers = {t \in Starters : Reading(t)}
    /\ writer = {t \in Closers : pc[t] = "closing"}
    /\ queued = {t \in Closers : pc[t] = "locking"}
    /\ \A t, u \in writer \cup queued : t = u
    /\ writer # {} => readers = {}
    /\ \A t \in Threads : pc[t] \in {"locking", "closing"} => t \in Closers
    /\ \A t \in Closers : pc[t] \in {"idle", "locking", "closing", "done"}
    /\ \A t \in Runners : pc[t] # "range"

MapInv ==
    /\ DOMAIN clients \subseteq Names
    /\ \A n \in DOMAIN clients : clients[n] \in created
    /\ \A c \in created : ctxDone[c] \/ \E n \in DOMAIN clients : clients[n] = c
    /\ \A t \in Starters : Reading(t) => todo[t] \subseteq DOMAIN clients
    /\ \A t \in Closers : pc[t] = "closing" => todo[t] = DOMAIN clients
    /\ \A t \in Closers : pc[t] = "done" => DOMAIN clients = {}
    /\ created = {} => DOMAIN clients = {} /\ \A t \in Threads : pc[t] = "idle"

LoopInv ==
    /\ \A t \in Threads : pc[t] = "start" \/ InStart(t) => cur[t] \in Conns
    /\ \A c \in Conns : \A t \in handler[c] : ctxDone[c] \/ (cur[t] = c /\ InStart(t))

Inv == Types /\ LockInv /\ MapInv /\ LoopInv /\ ReconnectNotLost

------------------------------------------------------------------------------
\* A set of natural numbers has a least element.
LEMMA Least ==
    ASSUME NEW T, T \subseteq Nat, T # {}
    PROVE  \E m \in T : \A n \in T : ~(n < m)
<1> DEFINE R == OpToRel(<, Nat)
<1>1. IsWellFoundedOn(R, Nat)
  BY NatLessThanWellFounded
<1>2. \A m, n \in Nat : m < n => <<m, n>> \in R
  BY DEF OpToRel
<1> HIDE DEF R
<1>3. PICK m \in T : \A n \in T : ~(<<n, m>> \in R)
  BY <1>1, WFMin
<1>4. \A n \in T : ~(n < m)
  BY <1>2, <1>3
<1> QED
  BY <1>4

\* Every name has a first configuration.
LEMMA FirstIsConn == \A n \in Names : First(n) \in Conns /\ Configs[First(n)] = n
<1> SUFFICES ASSUME NEW n \in Names PROVE First(n) \in Conns /\ Configs[First(n)] = n
  OBVIOUS
<1>1. Configs \in Seq(Range(Configs)) /\ DOMAIN Configs = 1 .. Len(Configs) /\ Len(Configs) \in Nat
  BY ManagerAssumption
<1> DEFINE T == {i \in 1 .. Len(Configs) : Configs[i] = n}
<1>2. T \subseteq Nat /\ T # {}
  BY <1>1 DEF Names, Range
<1>3. PICK m \in T : \A i \in T : ~(i < m)
  BY <1>2, Least
<1>4. \A j \in 1 .. m - 1 : Configs[j] # n
  BY <1>1, <1>3
<1>5. \E i \in Conns : Configs[i] = n /\ \A j \in 1 .. i - 1 : Configs[j] # n
  BY <1>1, <1>3, <1>4 DEF Conns
<1> QED
  BY <1>5 DEF First

LEMMA ThreadKinds ==
    /\ Starters \subseteq Threads /\ Runners \subseteq Threads /\ Closers \subseteq Threads
    /\ \A t \in Threads : t \in Starters \/ t \in Runners \/ t \in Closers
    /\ \A t \in Closers : t \notin Starters /\ t \notin Runners
    /\ \A t \in Starters : t \notin Runners
BY ManagerAssumption DEF Threads

LEMMA InvInit == Init => Inv
<1> SUFFICES ASSUME Init PROVE Inv
  OBVIOUS
<1>1. /\ clients = << >> /\ created = {} /\ readers = {} /\ writer = {} /\ queued = {}
      /\ \A t \in Threads : pc[t] = "idle"
      /\ handler = [c \in Conns |-> {}] /\ stale = [c \in Conns |-> FALSE]
  BY DEF Init
<1>2. Types
  <2>1. /\ pc \in [Threads -> PcStates] /\ cur \in [Threads -> {0} \cup Conns]
        /\ todo \in [Threads -> SUBSET Names] /\ token \in [Threads -> BOOLEAN]
    BY DEF Init, PcStates
  <2>2. /\ ctxDone \in [Conns -> BOOLEAN] /\ net \in [Conns -> {"up", "down", "closed"}]
        /\ handler \in [Conns -> {{}} \cup {{t} : t \in Threads}] /\ stale \in [Conns -> BOOLEAN]
    BY DEF Init
  <2>3. reconnects \in [Conns -> 0 .. MaxReconnects]
    BY ManagerAssumption DEF Init
  <2> QED
    BY <2>1, <2>2, <2>3 DEF Types, Init
<1>3. LockInv
  BY <1>1, ThreadKinds DEF LockInv, Reading
<1>4. MapInv
  <2>1. DOMAIN clients = {}
    BY <1>1
  <2> QED
    BY <1>1, <2>1, ThreadKinds DEF MapInv, Reading
<1>5. LoopInv /\ ReconnectNotLost
  BY <1>1 DEF LoopInv, ReconnectNotLost, InStart
<1> QED
  BY <1>2, <1>3, <1>4, <1>5 DEF Inv

------------------------------------------------------------------------------
(* The lock.                                                               *)

ReadStates == {"range", "start", "select", "refresh", "ensure"}

\* A step of a loop of Start: of a thread that is no closer.
LoopStep(t) ==
    \/ StartLoop(t) \/ TakeReconnect(t) \/ Refresh(t) \/ EnsureStream(t) \/ StartReturns(t)
    \/ StartNext(t) \/ \E n \in Names : GetClient(t, n)

\* The steps that leave every thread at its place.
Still ==
    \/ GetNatsManager \/ ConnectFails
    \/ \E c \in Conns : Disconnect(c) \/ Reconnect(c) \/ GiveUp(c) \/ Stop(c)
    \/ \E t \in Threads : StartPanics(t) \/ CloseNext(t)

LEMMA StepKinds ==
    ASSUME Next
    PROVE  \/ Still
           \/ \E t \in Threads :
                \/ LoopStep(t) \/ StartAll(t) \/ StartAllReturns(t)
                \/ CloseAll(t) \/ Lock(t) \/ CloseAllReturn(t)
BY DEF Next, ThreadStep, Still, LoopStep

LEMMA StillPlaces == Still => UNCHANGED <<pc, cur, readers, writer, queued>>
BY DEF Still, GetNatsManager, ConnectFails, Disconnect, Reconnect, Reconnected, GiveUp, Stop, StartPanics, CloseNext,
       threadVars, lockVars

LEMMA LoopPlaces ==
    ASSUME Types, LockInv, NEW t \in Threads, LoopStep(t)
    PROVE  /\ t \notin Closers
           /\ UNCHANGED <<readers, writer, queued, clients, created>>
           /\ \E l \in PcStates :
                /\ pc' = [pc EXCEPT ![t] = l]
                /\ t \in Starters => Reading(t) /\ l \in ReadStates
                /\ l \notin {"locking", "closing"} /\ (l = "range" => t \in Starters)
<1> DEFINE Goal ==
        /\ t \notin Closers
        /\ UNCHANGED <<readers, writer, queued, clients, created>>
        /\ \E l \in PcStates :
            /\ pc' = [pc EXCEPT ![t] = l]
            /\ t \in Starters => Reading(t) /\ l \in ReadStates
            /\ l \notin {"locking", "closing"} /\ (l = "range" => t \in Starters)
<1>0. t \in Starters \/ t \in Runners \/ t \in Closers
  BY ThreadKinds
<1>1. CASE StartLoop(t)
  BY <1>0, <1>1 DEF StartLoop, Goto, LockInv, Reading, ReadStates, PcStates, lockVars
<1>2. CASE TakeReconnect(t)
  BY <1>0, <1>2 DEF TakeReconnect, Goto, LockInv, Reading, ReadStates, PcStates, lockVars
<1>3. CASE Refresh(t)
  BY <1>0, <1>3 DEF Refresh, Goto, LockInv, Reading, ReadStates, PcStates, lockVars
<1>4. CASE EnsureStream(t)
  BY <1>0, <1>4 DEF EnsureStream, Goto, LockInv, Reading, ReadStates, PcStates, lockVars
<1>5. CASE StartReturns(t)
  BY <1>0, <1>5 DEF StartReturns, Goto, LockInv, Reading, ReadStates, PcStates, lockVars
<1>6. CASE StartNext(t)
  <2>1. t \in Starters /\ t \notin Closers /\ pc[t] = "range" /\ pc' = [pc EXCEPT ![t] = "start"]
    BY <1>6, ThreadKinds DEF StartNext, Goto
  <2>2. UNCHANGED <<readers, writer, queued, clients, created>>
    BY <1>6 DEF StartNext, lockVars
  <2> QED
    BY <2>1, <2>2 DEF Reading, ReadStates, PcStates
<1>7. ASSUME NEW n \in Names, GetClient(t, n) PROVE Goal
  <2>1. t \in Runners /\ t \notin Starters /\ t \notin Closers
    BY <1>7, ThreadKinds DEF GetClient
  <2> QED
    BY <1>7, <2>1 DEF GetClient, Goto, PcStates, lockVars
<1> QED
  BY <1>1, <1>2, <1>3, <1>4, <1>5, <1>6, <1>7 DEF LoopStep

LEMMA LockStep ==
    ASSUME Types, LockInv, Next
    PROVE  LockInv' /\ pc' \in [Threads -> PcStates]
<1> USE ThreadKinds
<1>0. pc \in [Threads -> PcStates]
  BY DEF Types
<1>1. CASE Still
  BY <1>0, <1>1, StillPlaces DEF LockInv, Reading
<1>2. ASSUME NEW t \in Threads, LoopStep(t) PROVE LockInv' /\ pc' \in [Threads -> PcStates]
  <2>1. t \notin Closers /\ UNCHANGED <<readers, writer, queued>>
    BY <1>2, LoopPlaces
  <2>2. PICK l \in PcStates :
                /\ pc' = [pc EXCEPT ![t] = l]
                /\ t \in Starters => Reading(t) /\ l \in ReadStates
                /\ l \notin {"locking", "closing"} /\ (l = "range" => t \in Starters)
    BY <1>2, LoopPlaces
  <2>3. pc' \in [Threads -> PcStates] /\ \A u \in Threads : pc'[u] = IF u = t THEN l ELSE pc[u]
    BY <1>0, <2>2
  <2>4. \A u \in Starters : Reading(u)' <=> Reading(u)
    BY <2>2, <2>3 DEF Reading, ReadStates
  <2> QED
    BY <2>1, <2>2, <2>3, <2>4 DEF LockInv
<1>3. ASSUME NEW t \in Threads, StartAll(t) PROVE LockInv' /\ pc' \in [Threads -> PcStates]
  <2>1. /\ t \in Starters /\ pc[t] = "idle" /\ writer = {} /\ queued = {}
        /\ readers' = readers \cup {t} /\ pc' = [pc EXCEPT ![t] = "range"] /\ UNCHANGED <<writer, queued>>
    BY <1>3 DEF StartAll, Goto, CanRead
  <2> QED
    BY <1>0, <2>1 DEF LockInv, Reading, PcStates
<1>4. ASSUME NEW t \in Threads, StartAllReturns(t) PROVE LockInv' /\ pc' \in [Threads -> PcStates]
  <2>1. /\ t \in Starters /\ pc[t] = "range"
        /\ readers' = readers \ {t} /\ pc' = [pc EXCEPT ![t] = "done"] /\ UNCHANGED <<writer, queued>>
    BY <1>4 DEF StartAllReturns, Goto
  <2> QED
    BY <1>0, <2>1 DEF LockInv, Reading, PcStates
<1>5. ASSUME NEW t \in Threads, CloseAll(t) PROVE LockInv' /\ pc' \in [Threads -> PcStates]
  <2>1. /\ t \in Closers /\ pc[t] = "idle" /\ writer = {} /\ queued = {}
        /\ queued' = {t} /\ pc' = [pc EXCEPT ![t] = "locking"] /\ UNCHANGED <<readers, writer>>
    BY <1>5 DEF CloseAll, Goto, CanRead
  <2> QED
    BY <1>0, <2>1 DEF LockInv, Reading, PcStates
<1>6. ASSUME NEW t \in Threads, Lock(t) PROVE LockInv' /\ pc' \in [Threads -> PcStates]
  <2>1. /\ pc[t] = "locking" /\ readers = {} /\ queued' = {} /\ writer' = {t}
        /\ pc' = [pc EXCEPT ![t] = "closing"] /\ readers' = readers
    BY <1>6 DEF Lock, Goto
  <2>2. t \in Closers /\ queued = {t} /\ writer = {}
    BY <2>1 DEF LockInv
  <2> QED
    BY <1>0, <2>1, <2>2 DEF LockInv, Reading, PcStates
<1>7. ASSUME NEW t \in Threads, CloseAllReturn(t) PROVE LockInv' /\ pc' \in [Threads -> PcStates]
  <2>1. /\ pc[t] = "closing" /\ writer' = {} /\ pc' = [pc EXCEPT ![t] = "done"] /\ UNCHANGED <<readers, queued>>
    BY <1>7 DEF CloseAllReturn, Goto
  <2>2. t \in Closers /\ writer = {t} /\ queued = {}
    BY <2>1 DEF LockInv
  <2> QED
    BY <1>0, <2>1, <2>2 DEF LockInv, Reading, PcStates
<1> QED
  BY <1>1, <1>2, <1>3, <1>4, <1>5, <1>6, <1>7, StepKinds

------------------------------------------------------------------------------
(* The map and the connections.                                            *)

\* The steps that change the map.
LEMMA MapStep ==
    ASSUME Inv, Next
    PROVE  MapInv' /\ created' \subseteq Conns
<1> USE ThreadKinds
<1>0. Types /\ LockInv /\ MapInv /\ LockInv' /\ pc' \in [Threads -> PcStates]
  BY LockStep DEF Inv
<1>1. CASE GetNatsManager
  <2>1. /\ created = {} /\ created' = {First(n) : n \in Names} /\ clients' = [n \in Names |-> First(n)]
        /\ pc' = pc /\ todo' = todo /\ ctxDone' = ctxDone
    BY <1>1 DEF GetNatsManager, threadVars, connVars
  <2>2. \A t \in Threads : pc[t] = "idle"
    BY <1>0, <2>1 DEF MapInv
  <2>3. DOMAIN clients' = Names /\ \A n \in Names : clients'[n] = First(n) /\ First(n) \in Conns
    BY <2>1, FirstIsConn
  <2>4. created' = {} => Names = {}
    BY <2>1
  <2> QED
    BY <2>1, <2>2, <2>3, <2>4 DEF MapInv, Reading
\* Nothing leaves the map, no context is renewed, and no thread leaves its range.
<1>2. ASSUME UNCHANGED <<clients, created, pc, todo>>, \A c \in Conns : ctxDone[c] => ctxDone'[c]
      PROVE  MapInv' /\ created' \subseteq Conns
  BY <1>0, <1>2 DEF MapInv, Reading, Types
<1>3. ASSUME NEW t \in Threads, CloseNext(t) PROVE MapInv' /\ created' \subseteq Conns
  <2>1. pc[t] = "closing" /\ UNCHANGED <<created, pc>>
    BY <1>3 DEF CloseNext
  <2>2. PICK n \in todo[t] :
            /\ ctxDone' = [ctxDone EXCEPT ![clients[n]] = TRUE]
            /\ clients' = Restrict(clients, DOMAIN clients \ {n})
            /\ todo' = [todo EXCEPT ![t] = @ \ {n}]
    BY <1>3 DEF CloseNext, StopConn
  <2>3. t \in Closers /\ t \in writer /\ readers = {} /\ \A u \in Closers : pc[u] = "closing" => u = t
    BY <1>0, <2>1 DEF LockInv
  <2>4. n \in DOMAIN clients /\ todo[t] = DOMAIN clients /\ clients[n] \in created
    BY <1>0, <2>1, <2>2, <2>3 DEF MapInv
  <2>5. DOMAIN clients' = DOMAIN clients \ {n} /\ \A m \in DOMAIN clients' : clients'[m] = clients[m]
    BY <2>2 DEF Restrict
  <2>6. \A c \in Conns : ctxDone'[c] <=> ctxDone[c] \/ c = clients[n]
    BY <1>0, <2>2 DEF Types
  <2>7. todo'[t] = DOMAIN clients'
    BY <1>0, <2>2, <2>4, <2>5 DEF Types
  <2>8. \A u \in Starters : ~Reading(u)'
    BY <1>0, <2>1, <2>3 DEF LockInv, Reading
  <2>9. \A c \in created : ctxDone'[c] \/ \E m \in DOMAIN clients' : clients'[m] = c
    BY <1>0, <2>5, <2>6 DEF MapInv, Types
  <2>10. created # {}
    BY <2>4
  <2> QED
    BY <1>0, <2>1, <2>3, <2>5, <2>7, <2>8, <2>9, <2>10 DEF MapInv, Types
\* Another step of a thread: it may have a new range.
<1>4. ASSUME NEW t \in Threads, UNCHANGED <<clients, created, ctxDone>>, created # {},
             \A u \in Threads : u # t => pc'[u] = pc[u] /\ todo'[u] = todo[u],
             t \in Starters /\ Reading(t)' => todo'[t] \subseteq DOMAIN clients,
             t \in Closers /\ pc'[t] = "closing" => todo'[t] = DOMAIN clients,
             t \in Closers /\ pc'[t] = "done" => DOMAIN clients = {}
      PROVE  MapInv' /\ created' \subseteq Conns
  BY <1>0, <1>4 DEF MapInv, Reading, Types
<1>5. CASE Still
  <2>1. CASE GetNatsManager
    BY <1>1, <2>1
  <2>2. CASE ConnectFails
    BY <1>2, <2>2 DEF ConnectFails, threadVars, connVars
  <2>3. ASSUME NEW c \in Conns, Disconnect(c) \/ Reconnect(c) \/ GiveUp(c) PROVE MapInv' /\ created' \subseteq Conns
    BY <1>2, <2>3 DEF Disconnect, Reconnect, Reconnected, GiveUp, threadVars
  <2>4. ASSUME NEW c \in Conns, Stop(c) PROVE MapInv' /\ created' \subseteq Conns
    <3>1. UNCHANGED <<clients, created, pc, todo>> /\ ctxDone' = [ctxDone EXCEPT ![c] = TRUE]
      BY <2>4 DEF Stop, StopConn, threadVars
    <3>2. \A d \in Conns : ctxDone[d] => ctxDone'[d]
      BY <1>0, <3>1 DEF Types
    <3> QED
      BY <1>2, <3>1, <3>2
  <2>5. ASSUME NEW t \in Threads, StartPanics(t) PROVE MapInv' /\ created' \subseteq Conns
    BY <1>2, <2>5 DEF StartPanics, threadVars, connVars
  <2> QED
    BY <1>3, <1>5, <2>1, <2>2, <2>3, <2>4, <2>5 DEF Still
<1>6. ASSUME NEW t \in Threads, LoopStep(t) PROVE MapInv' /\ created' \subseteq Conns
  <2>1. t \notin Closers /\ UNCHANGED <<clients, created>>
    BY <1>0, <1>6, LoopPlaces
  <2>2. PICK l \in PcStates : pc' = [pc EXCEPT ![t] = l] /\ (t \in Starters => Reading(t))
    BY <1>0, <1>6, LoopPlaces
  <2>3. created # {}
    <3>1. CASE pc[t] = "idle"
      BY <1>6, <3>1 DEF LoopStep, StartLoop, TakeReconnect, Refresh, EnsureStream, StartReturns, StartNext,
                        GetClient, CanRead
    <3> QED
      BY <1>0, <3>1 DEF MapInv
  <2>4. ctxDone' = ctxDone
    BY <1>6 DEF LoopStep, StartLoop, TakeReconnect, Refresh, EnsureStream, StartReturns, StartNext, GetClient,
                connVars
  <2>5. todo' = todo \/ \E n : todo' = [todo EXCEPT ![t] = @ \ {n}]
    BY <1>6 DEF LoopStep, StartLoop, TakeReconnect, Refresh, EnsureStream, StartReturns, StartNext, GetClient
  <2>6. /\ \A u \in Threads : u # t => todo'[u] = todo[u]
        /\ todo'[t] \subseteq todo[t]
    BY <1>0, <2>5 DEF Types
  <2>7. \A u \in Threads : u # t => pc'[u] = pc[u]
    BY <1>0, <2>2 DEF Types
  <2>8. t \in Starters => todo[t] \subseteq DOMAIN clients
    BY <1>0, <2>2 DEF MapInv
  <2> QED
    BY <1>4, <2>1, <2>3, <2>4, <2>6, <2>7, <2>8
<1>7. ASSUME NEW t \in Threads, StartAll(t) \/ StartAllReturns(t) PROVE MapInv' /\ created' \subseteq Conns
  <2>1. /\ t \in Starters /\ UNCHANGED <<clients, created, ctxDone>>
        /\ \E l \in {"range", "done"} : pc' = [pc EXCEPT ![t] = l]
        /\ \/ pc[t] = "range" /\ todo' = todo
           \/ todo' = [todo EXCEPT ![t] = DOMAIN clients] /\ created # {}
    BY <1>7 DEF StartAll, StartAllReturns, CanRead, Goto, connVars
  <2>2. created # {}
    BY <1>0, <2>1 DEF MapInv
  <2>3. \A u \in Threads : u # t => pc'[u] = pc[u] /\ todo'[u] = todo[u]
    BY <1>0, <2>1 DEF Types
  <2>4. todo'[t] \subseteq DOMAIN clients
    <3>1. CASE pc[t] = "range" /\ todo' = todo
      BY <1>0, <2>1, <3>1 DEF MapInv, Reading
    <3>2. CASE todo' = [todo EXCEPT ![t] = DOMAIN clients]
      BY <1>0, <3>2 DEF Types
    <3> QED
      BY <2>1, <3>1, <3>2
  <2> QED
    BY <1>4, <2>1, <2>2, <2>3, <2>4
<1>8. ASSUME NEW t \in Threads, CloseAll(t) \/ Lock(t) \/ CloseAllReturn(t) PROVE MapInv' /\ created' \subseteq Conns
  <2>1. /\ UNCHANGED <<clients, created, ctxDone>>
        /\ \/ pc' = [pc EXCEPT ![t] = "locking"] /\ todo' = todo /\ created # {} /\ t \in Closers
           \/ /\ pc' = [pc EXCEPT ![t] = "closing"] /\ pc[t] = "locking"
              /\ todo' = [todo EXCEPT ![t] = DOMAIN clients]
           \/ pc' = [pc EXCEPT ![t] = "done"] /\ pc[t] = "closing" /\ todo[t] = {} /\ todo' = todo
    BY <1>8 DEF CloseAll, Lock, CloseAllReturn, CanRead, Goto, connVars
  <2>2. created # {} /\ t \in Closers
    BY <1>0, <2>1 DEF MapInv, LockInv
  <2>3. \A u \in Threads : u # t => pc'[u] = pc[u] /\ todo'[u] = todo[u]
    BY <1>0, <2>1 DEF Types
  <2>4. /\ pc'[t] = "closing" => todo'[t] = DOMAIN clients
        /\ pc'[t] = "done" => DOMAIN clients = {}
    BY <1>0, <2>1, <2>2 DEF Types, MapInv
  <2> QED
    BY <1>4, <2>1, <2>2, <2>3, <2>4
<1> QED
  BY <1>5, <1>6, <1>7, <1>8, StepKinds

LEMMA ThreadTypes ==
    ASSUME Inv, Next
    PROVE  /\ cur' \in [Threads -> {0} \cup Conns]
           /\ todo' \in [Threads -> SUBSET Names]
           /\ token' \in [Threads -> BOOLEAN]
           /\ crashed' \in BOOLEAN
<1> USE ThreadKinds
<1>0. Types /\ LockInv /\ MapInv
  BY DEF Inv
<1>1. crashed' \in BOOLEAN
  BY <1>0 DEF Types, Next, GetNatsManager, ConnectFails, Disconnect, Reconnect, Reconnected, GiveUp, Stop,
       StartAll, CloseAll, StartPanics, ThreadStep, StartLoop, TakeReconnect, Refresh, EnsureStream, StartReturns,
       StartNext, StartAllReturns, Lock, CloseNext, CloseAllReturn, GetClient
<1>2. \/ cur' = cur
      \/ \E t \in Threads : \E n \in DOMAIN clients : cur' = [cur EXCEPT ![t] = clients[n]]
  <2>1. ASSUME NEW t \in Threads, StartNext(t)
        PROVE  \E n \in DOMAIN clients : cur' = [cur EXCEPT ![t] = clients[n]]
    <3>1. todo[t] \subseteq DOMAIN clients
      BY <1>0, <2>1 DEF StartNext, MapInv, Reading
    <3> QED
      BY <2>1, <3>1 DEF StartNext
  <2>2. ASSUME NEW t \in Threads, NEW n \in Names, GetClient(t, n)
        PROVE  cur' = cur \/ \E m \in DOMAIN clients : cur' = [cur EXCEPT ![t] = clients[m]]
    BY <2>2 DEF GetClient
  <2> QED
    BY <2>1, <2>2 DEF Next, GetNatsManager, ConnectFails, Disconnect, Reconnect, Reconnected, GiveUp, Stop,
       StartAll, CloseAll, StartPanics, ThreadStep, StartLoop, TakeReconnect, Refresh, EnsureStream, StartReturns,
       StartAllReturns, Lock, CloseNext, CloseAllReturn, threadVars
<1>3. \A n \in DOMAIN clients : clients[n] \in Conns
  BY <1>0 DEF MapInv, Types
<1>4. cur' \in [Threads -> {0} \cup Conns]
  BY <1>0, <1>2, <1>3 DEF Types
<1>5. \/ todo' = todo
      \/ \E t \in Threads : \E S \in SUBSET Names : todo' = [todo EXCEPT ![t] = S]
  <2>1. DOMAIN clients \subseteq Names /\ \A t \in Threads : \A n : todo[t] \ {n} \subseteq Names
    BY <1>0 DEF MapInv, Types
  <2>2. ASSUME NEW t \in Threads, StartNext(t) \/ CloseNext(t) \/ StartAll(t) \/ Lock(t)
        PROVE  \E S \in SUBSET Names : todo' = [todo EXCEPT ![t] = S]
    <3>1. \/ todo' = [todo EXCEPT ![t] = DOMAIN clients]
          \/ \E n : todo' = [todo EXCEPT ![t] = todo[t] \ {n}]
      BY <2>2 DEF StartNext, CloseNext, StartAll, Lock
    <3> QED
      BY <2>1, <3>1
  <2>3. ASSUME NEW t \in Threads, NEW n \in Names, GetClient(t, n) PROVE todo' = todo
    BY <2>3 DEF GetClient
  <2> QED
    BY <2>2, <2>3 DEF Next, GetNatsManager, ConnectFails, Disconnect, Reconnect, Reconnected, GiveUp, Stop,
       CloseAll, StartPanics, ThreadStep, StartLoop, TakeReconnect, Refresh, EnsureStream, StartReturns,
       StartAllReturns, CloseAllReturn, threadVars
<1>6. todo' \in [Threads -> SUBSET Names]
  BY <1>0, <1>5 DEF Types
<1>7. \/ token' = token
      \/ \E t \in Threads : token' = [token EXCEPT ![t] = FALSE]
      \/ \E c \in Conns : token' = [t \in Threads |-> token[t] \/ t \in handler[c]]
  <2>1. ASSUME NEW t \in Threads, NEW n \in Names, GetClient(t, n) PROVE token' = token
    BY <2>1 DEF GetClient
  <2> QED
    BY <2>1 DEF Next, GetNatsManager, ConnectFails, Disconnect, Reconnect, Reconnected, GiveUp, Stop,
       StartAll, CloseAll, StartPanics, ThreadStep, StartLoop, TakeReconnect, Refresh, EnsureStream, StartReturns,
       StartNext, StartAllReturns, Lock, CloseNext, CloseAllReturn, threadVars
<1>8. token' \in [Threads -> BOOLEAN]
  BY <1>0, <1>7 DEF Types
<1> QED
  BY <1>1, <1>4, <1>6, <1>8

\* What the steps do to the connections.
ConnTypes ==
    /\ ctxDone \in [Conns -> BOOLEAN]
    /\ net \in [Conns -> {"up", "down", "closed"}]
    /\ handler \in [Conns -> {{}} \cup {{t} : t \in Threads}]
    /\ stale \in [Conns -> BOOLEAN]
    /\ reconnects \in [Conns -> 0 .. MaxReconnects]
    /\ jsFailed \subseteq Conns

LEMMA ConnKinds ==
    ASSUME Next
    PROVE  \/ UNCHANGED connVars
           \/ \E c \in Conns : Disconnect(c) \/ Reconnect(c) \/ GiveUp(c) \/ Stop(c)
           \/ \E t \in Threads : StartLoop(t) \/ Refresh(t) \/ CloseNext(t)
<1>1. ASSUME NEW t \in Threads, NEW n \in Names, GetClient(t, n) PROVE UNCHANGED connVars
  BY <1>1 DEF GetClient
<1> QED
  BY <1>1 DEF Next, GetNatsManager, ConnectFails,
       StartAll, CloseAll, StartPanics, ThreadStep, TakeReconnect, EnsureStream, StartReturns,
       StartNext, StartAllReturns, Lock, CloseAllReturn

LEMMA ConnStep ==
    ASSUME Inv, Next
    PROVE  ConnTypes'
<1>0. Types /\ LoopInv
  BY DEF Inv
<1>1. CASE UNCHANGED connVars
  BY <1>0, <1>1 DEF ConnTypes, Types, connVars
<1>2. ASSUME NEW c \in Conns, Disconnect(c) \/ GiveUp(c) PROVE ConnTypes'
  BY <1>0, <1>2 DEF ConnTypes, Types, Disconnect, GiveUp
<1>3. ASSUME NEW c \in Conns, Reconnect(c) PROVE ConnTypes'
  <2>1. /\ reconnects[c] < MaxReconnects /\ reconnects' = [reconnects EXCEPT ![c] = @ + 1]
        /\ net' = [net EXCEPT ![c] = "up"] /\ stale' = [stale EXCEPT ![c] = handler[c] # {}]
        /\ UNCHANGED <<ctxDone, handler, jsFailed>>
    BY <1>3 DEF Reconnect, Reconnected
  <2>2. reconnects' \in [Conns -> 0 .. MaxReconnects]
    BY <1>0, <2>1, ManagerAssumption DEF Types
  <2>3. stale' \in [Conns -> BOOLEAN]
    BY <1>0, <2>1 DEF Types
  <2> QED
    BY <1>0, <2>1, <2>2, <2>3 DEF ConnTypes, Types
<1>4. ASSUME NEW c, StopConn(c) PROVE ConnTypes'
  BY <1>0, <1>4 DEF ConnTypes, Types, StopConn
<1>5. ASSUME NEW t \in Threads, StartLoop(t) PROVE ConnTypes'
  <2>1. handler' = [handler EXCEPT ![cur[t]] = {t}] /\ UNCHANGED <<ctxDone, net, stale, reconnects, jsFailed>>
    BY <1>5 DEF StartLoop
  <2> QED
    BY <1>0, <2>1 DEF ConnTypes, Types
<1>6. ASSUME NEW t \in Threads, Refresh(t) PROVE ConnTypes'
  <2>1. cur[t] \in Conns
    BY <1>0, <1>6 DEF Refresh, LoopInv, InStart
  <2>2. /\ stale' = [stale EXCEPT ![cur[t]] = FALSE] \/ stale' = stale
        /\ jsFailed' = jsFailed \cup {cur[t]} \/ jsFailed' = jsFailed
        /\ UNCHANGED <<ctxDone, net, handler, reconnects>>
    BY <1>6 DEF Refresh
  <2> QED
    BY <1>0, <2>1, <2>2 DEF ConnTypes, Types
<1> QED
  BY <1>1, <1>2, <1>3, <1>4, <1>5, <1>6, ConnKinds DEF Stop, CloseNext

------------------------------------------------------------------------------
(* The loops of Start and the reconnects.                                  *)

\* A loop of connection c that will still make s.js again.
Pending(c, t) == cur[t] = c /\ (pc[t] = "refresh" \/ (InStart(t) /\ token[t]))

LEMMA LoopsStep ==
    ASSUME Inv, Next
    PROVE  LoopInv' /\ ReconnectNotLost'
<1> DEFINE Goal == LoopInv' /\ ReconnectNotLost'
<1>0. Types /\ LockInv /\ MapInv /\ LoopInv
  BY DEF Inv
<1>t. /\ pc' \in [Threads -> PcStates] /\ cur' \in [Threads -> {0} \cup Conns]
      /\ token' \in [Threads -> BOOLEAN] /\ ConnTypes'
  BY <1>0, LockStep, ThreadTypes, ConnStep
<1>r. \A c \in Conns : stale[c] /\ ~ctxDone[c] /\ c \notin jsFailed => \E t \in Threads : Pending(c, t)
  BY DEF Inv, ReconnectNotLost, Pending
<1>s. ASSUME LoopInv',
             \A c \in Conns : stale'[c] /\ ~ctxDone'[c] /\ c \notin jsFailed' => \E t \in Threads : Pending(c, t)'
      PROVE  Goal
  BY <1>s DEF ReconnectNotLost, Pending
\* No connection has anything new, and the threads that are in a loop stay there.
<1>1. ASSUME UNCHANGED <<handler, stale, jsFailed>>, \A c \in Conns : ctxDone[c] => ctxDone'[c],
             \A t \in Threads : pc'[t] = "start" \/ InStart(t)' => cur'[t] \in Conns,
             \A t \in Threads : InStart(t) /\ ~ctxDone'[cur[t]] => cur'[t] = cur[t] /\ InStart(t)',
             \A c \in Conns, t \in Threads : Pending(c, t) /\ ~ctxDone'[c] => Pending(c, t)'
      PROVE  Goal
  <2>1. \A c \in Conns : \A t \in handler[c] : t \in Threads
    BY <1>0 DEF Types
  <2>2. LoopInv'
    BY <1>0, <1>1, <2>1 DEF LoopInv
  <2> QED
    BY <1>1, <1>r, <1>s, <2>2
<1>2. ASSUME UNCHANGED <<pc, cur, token, handler, stale, jsFailed>>, \A c \in Conns : ctxDone[c] => ctxDone'[c]
      PROVE  Goal
  <2>1. \A t \in Threads : InStart(t)' <=> InStart(t)
    BY <1>2 DEF InStart
  <2>2. \A c \in Conns, t \in Threads : Pending(c, t)' <=> Pending(c, t)
    BY <1>2, <2>1 DEF Pending
  <2>3. \A t \in Threads : pc'[t] = "start" \/ InStart(t)' => cur'[t] \in Conns
    BY <1>0, <1>2, <2>1 DEF LoopInv
  <2> QED
    BY <1>1, <1>2, <2>1, <2>2, <2>3
<1>3. ASSUME NEW c, StopConn(c), UNCHANGED <<pc, cur, token>> PROVE Goal
  <2>1. UNCHANGED <<handler, stale, jsFailed>> /\ ctxDone' = [ctxDone EXCEPT ![c] = TRUE]
    BY <1>3 DEF StopConn
  <2>2. \A d \in Conns : ctxDone[d] => ctxDone'[d]
    BY <1>0, <2>1 DEF Types
  <2> QED
    BY <1>2, <1>3, <2>1, <2>2
<1>4. ASSUME NEW c \in Conns, Reconnect(c) PROVE Goal
  <2>1. /\ stale' = [stale EXCEPT ![c] = handler[c] # {}]
        /\ token' = [t \in Threads |-> token[t] \/ t \in handler[c]]
        /\ UNCHANGED <<pc, cur, ctxDone, handler, jsFailed>>
    BY <1>4 DEF Reconnect, Reconnected
  <2>2. \A t \in Threads : InStart(t)' <=> InStart(t)
    BY <2>1 DEF InStart
  <2>3. LoopInv'
    BY <1>0, <2>1, <2>2 DEF LoopInv, InStart
  <2>4. \A d \in Conns, t \in Threads : Pending(d, t) => Pending(d, t)'
    BY <1>0, <2>1, <2>2 DEF Pending, Types
  <2>5. ASSUME handler[c] # {}, ~ctxDone[c] PROVE \E t \in Threads : Pending(c, t)'
    <3>1. PICK t \in Threads : t \in handler[c]
      BY <1>0, <2>5 DEF Types
    <3>2. cur[t] = c /\ InStart(t)
      BY <1>0, <2>5, <3>1 DEF LoopInv
    <3>3. cur'[t] = c /\ InStart(t)' /\ token'[t]
      BY <2>1, <2>2, <3>1, <3>2
    <3> QED
      BY <3>3 DEF Pending
  <2>6. \A d \in Conns : stale'[d] => (d = c /\ handler[c] # {}) \/ stale[d]
    BY <1>0, <2>1 DEF Types
  <2> QED
    BY <1>r, <1>s, <2>1, <2>3, <2>4, <2>5, <2>6
\* A step of a thread that is in no loop before or after.
<1>5. ASSUME NEW t \in Threads, UNCHANGED connVars, token' = token, ~InStart(t), ~InStart(t)',
             \A u \in Threads : u # t => pc'[u] = pc[u] /\ cur'[u] = cur[u],
             pc'[t] = "start" => cur'[t] \in Conns
      PROVE  Goal
  <2>1. UNCHANGED <<handler, stale, jsFailed, ctxDone>>
    BY <1>5 DEF connVars
  <2>2. \A u \in Threads : u # t => (InStart(u)' <=> InStart(u))
    BY <1>5 DEF InStart
  <2>3. \A d \in Conns, u \in Threads : Pending(d, u) => Pending(d, u)'
    BY <1>5, <2>2 DEF Pending, InStart
  <2>4. \A u \in Threads : pc'[u] = "start" \/ InStart(u)' => cur'[u] \in Conns
    BY <1>0, <1>5, <2>2 DEF LoopInv
  <2> QED
    BY <1>1, <1>5, <2>1, <2>2, <2>3, <2>4
\* A loop starts: its thread had installed no handler of a live connection.
<1>6. ASSUME NEW t \in Threads, StartLoop(t) PROVE Goal
  <2>1. /\ pc[t] = "start" /\ pc' = [pc EXCEPT ![t] = "select"] /\ cur' = cur
        /\ handler' = [handler EXCEPT ![cur[t]] = {t}] /\ token' = [token EXCEPT ![t] = FALSE]
        /\ UNCHANGED <<ctxDone, stale, jsFailed>>
    BY <1>6 DEF StartLoop, Goto
  <2>2. /\ pc'[t] = "select" /\ \A u \in Threads : u # t => pc'[u] = pc[u] /\ token'[u] = token[u]
    BY <1>0, <2>1 DEF Types
  <2>3. cur[t] \in Conns /\ ~InStart(t) /\ InStart(t)'
    BY <1>0, <2>1, <2>2 DEF LoopInv, InStart
  <2>4. \A u \in Threads : u # t => (InStart(u)' <=> InStart(u))
    BY <2>2 DEF InStart
  <2>5. \A d \in Conns, u \in Threads : Pending(d, u) => Pending(d, u)'
    BY <2>1, <2>2, <2>3, <2>4 DEF Pending
  <2>6. handler'[cur[t]] = {t} /\ \A d \in Conns : d # cur[t] => handler'[d] = handler[d]
    BY <1>0, <2>1, <2>3 DEF Types
  <2>7. \A u \in Threads : pc'[u] = "start" \/ InStart(u)' => cur'[u] \in Conns
    BY <1>0, <2>1, <2>2, <2>3, <2>4 DEF LoopInv
  <2>8. ASSUME NEW d \in Conns, NEW u \in handler'[d] PROVE ctxDone'[d] \/ (cur'[u] = d /\ InStart(u)')
    <3>1. CASE d = cur[t]
      BY <2>1, <2>3, <2>6, <2>8, <3>1
    <3>2. CASE d # cur[t]
      <4>1. u \in handler[d] /\ u \in Threads
        BY <1>0, <2>6, <2>8, <3>2 DEF Types
      <4>2. ctxDone[d] \/ (cur[u] = d /\ InStart(u))
        BY <1>0, <4>1 DEF LoopInv
      <4> QED
        BY <2>1, <2>3, <2>4, <4>1, <4>2
    <3> QED
      BY <3>1, <3>2
  <2>9. LoopInv'
    BY <2>7, <2>8 DEF LoopInv
  <2> QED
    BY <1>r, <1>s, <2>1, <2>5, <2>9
\* Thread t stays in its loop, and keeps what is pending.
<1>7. ASSUME NEW t \in Threads, UNCHANGED <<cur, handler, ctxDone>>,
             InStart(t), InStart(t)', \A u \in Threads : u # t => pc'[u] = pc[u] /\ token'[u] = token[u],
             \A c \in Conns : stale'[c] => stale[c], jsFailed \subseteq jsFailed',
             \/ Pending(cur[t], t)'
             \/ \A c \in Conns : Pending(c, t) => ~stale'[c] \/ c \in jsFailed'
             \/ ~Pending(cur[t], t)
      PROVE  Goal
  <2>1. \A u \in Threads : u # t => (InStart(u)' <=> InStart(u))
    BY <1>7 DEF InStart
  <2>2. \A c \in Conns, u \in Threads : u # t /\ Pending(c, u) => Pending(c, u)'
    BY <1>7, <2>1 DEF Pending
  <2>3. \A u \in Threads : pc'[u] = "start" \/ InStart(u)' => cur'[u] \in Conns
    BY <1>0, <1>7, <2>1 DEF LoopInv, InStart
  <2>4. \A c \in Conns : \A u \in handler[c] : u \in Threads
    BY <1>0 DEF Types
  <2>5. LoopInv'
    BY <1>0, <1>7, <2>1, <2>3, <2>4 DEF LoopInv
  <2>6. ASSUME NEW c \in Conns, Pending(c, t), stale'[c], c \notin jsFailed' PROVE Pending(c, t)'
    <3>1. c = cur[t]
      BY <2>6 DEF Pending
    <3> QED
      BY <1>7, <2>6, <3>1
  <2>7. ASSUME NEW c \in Conns, stale'[c], ~ctxDone'[c], c \notin jsFailed' PROVE \E u \in Threads : Pending(c, u)'
    <3>1. PICK u \in Threads : Pending(c, u)
      BY <1>7, <1>r, <2>7
    <3> QED
      BY <2>2, <2>6, <2>7, <3>1
  <2> QED
    BY <1>s, <2>5, <2>7
<1>8. ASSUME NEW t \in Threads, TakeReconnect(t) PROVE Goal
  <2>1. /\ pc[t] = "select" /\ pc' = [pc EXCEPT ![t] = "refresh"] /\ token' = [token EXCEPT ![t] = FALSE]
        /\ UNCHANGED <<cur, handler, ctxDone, stale, jsFailed>>
    BY <1>8 DEF TakeReconnect, Goto, connVars
  <2>2. pc'[t] = "refresh" /\ \A u \in Threads : u # t => pc'[u] = pc[u] /\ token'[u] = token[u]
    BY <1>0, <2>1 DEF Types
  <2>3. InStart(t) /\ InStart(t)' /\ Pending(cur[t], t)'
    BY <2>1, <2>2 DEF InStart, Pending
  <2> QED
    BY <1>7, <2>1, <2>2, <2>3
<1>9. ASSUME NEW t \in Threads, Refresh(t) PROVE Goal
  <2>1. /\ pc[t] = "refresh" /\ UNCHANGED <<cur, handler, ctxDone, token>>
        /\ \/ stale' = [stale EXCEPT ![cur[t]] = FALSE] /\ pc' = [pc EXCEPT ![t] = "ensure"] /\ jsFailed' = jsFailed
           \/ jsFailed' = jsFailed \cup {cur[t]} /\ pc' = [pc EXCEPT ![t] = "select"] /\ stale' = stale
    BY <1>9 DEF Refresh, Goto
  <2>2. pc'[t] \in {"ensure", "select"} /\ \A u \in Threads : u # t => pc'[u] = pc[u] /\ token'[u] = token[u]
    BY <1>0, <2>1 DEF Types
  <2>3. InStart(t) /\ InStart(t)' /\ cur[t] \in Conns
    BY <1>0, <2>1, <2>2 DEF InStart, LoopInv
  <2>4. /\ \A c \in Conns : stale'[c] => stale[c]
        /\ jsFailed \subseteq jsFailed'
        /\ ~stale'[cur[t]] \/ cur[t] \in jsFailed'
    BY <1>0, <2>1, <2>3 DEF Types
  <2>5. \A c \in Conns : Pending(c, t) => ~stale'[c] \/ c \in jsFailed'
    BY <2>4 DEF Pending
  <2> QED
    BY <1>7, <2>1, <2>2, <2>3, <2>4, <2>5
<1>10. ASSUME NEW t \in Threads, EnsureStream(t) PROVE Goal
  <2>1. /\ pc[t] = "ensure" /\ pc' = [pc EXCEPT ![t] = "select"]
        /\ UNCHANGED <<cur, token, handler, ctxDone, stale, jsFailed>>
    BY <1>10 DEF EnsureStream, Goto, connVars
  <2>2. pc'[t] = "select" /\ \A u \in Threads : u # t => pc'[u] = pc[u] /\ token'[u] = token[u]
    BY <1>0, <2>1 DEF Types
  <2>3. InStart(t) /\ InStart(t)'
    BY <2>1, <2>2 DEF InStart
  <2>4. Pending(cur[t], t)' \/ ~Pending(cur[t], t)
    BY <2>1, <2>2, <2>3 DEF Pending
  <2> QED
    BY <1>7, <2>1, <2>2, <2>3, <2>4
\* A loop ends only when its connection is stopped.
<1>11. ASSUME NEW t \in Threads, StartReturns(t) PROVE Goal
  <2>1. /\ pc[t] = "select" /\ ctxDone[cur[t]] /\ UNCHANGED <<cur, token, handler, ctxDone, stale, jsFailed>>
        /\ \E l \in {"range", "done"} : pc' = [pc EXCEPT ![t] = l]
    BY <1>11 DEF StartReturns, Goto, connVars
  <2>2. pc'[t] \in {"range", "done"} /\ \A u \in Threads : u # t => pc'[u] = pc[u]
    BY <1>0, <2>1 DEF Types
  <2>3. ~InStart(t)' /\ \A u \in Threads : u # t => (InStart(u)' <=> InStart(u))
    BY <2>2 DEF InStart
  <2>4. \A u \in Threads : pc'[u] = "start" \/ InStart(u)' => cur'[u] \in Conns
    BY <1>0, <2>1, <2>2, <2>3 DEF LoopInv
  <2>5. \A c \in Conns, u \in Threads : Pending(c, u) /\ ~ctxDone'[c] => Pending(c, u)'
    BY <2>1, <2>2, <2>3 DEF Pending
  <2>6. \A u \in Threads : InStart(u) /\ ~ctxDone'[cur[u]] => cur'[u] = cur[u] /\ InStart(u)'
    BY <2>1, <2>3
  <2> QED
    BY <1>1, <2>1, <2>4, <2>5, <2>6
<1>12. ASSUME NEW t \in Threads, StartNext(t) \/ \E n \in Names : GetClient(t, n) PROVE Goal
  <2>1. /\ pc[t] \in {"range", "idle"} /\ UNCHANGED connVars /\ token' = token
        /\ \E l \in {"start", "done"} : pc' = [pc EXCEPT ![t] = l] /\ (l = "done" => cur' = cur)
        /\ cur' = cur \/ \E c : cur' = [cur EXCEPT ![t] = c]
        /\ pc' = [pc EXCEPT ![t] = "done"] \/ \E n \in DOMAIN clients : cur' = [cur EXCEPT ![t] = clients[n]]
    <3>1. CASE StartNext(t)
      <4>1. todo[t] \subseteq DOMAIN clients
        BY <1>0, <3>1 DEF StartNext, MapInv, Reading
      <4> QED
        BY <3>1, <4>1 DEF StartNext, Goto
    <3>2. ASSUME NEW n \in Names, GetClient(t, n) PROVE <2>1!1
      BY <3>2 DEF GetClient, Goto
    <3> QED
      BY <1>12, <3>1, <3>2 DEF GetClient, Goto
  <2>2. pc'[t] \in {"start", "done"} /\ \A u \in Threads : u # t => pc'[u] = pc[u] /\ cur'[u] = cur[u]
    BY <1>0, <2>1 DEF Types
  <2>3. \A n \in DOMAIN clients : clients[n] \in Conns
    BY <1>0 DEF MapInv, Types
  <2>4. pc'[t] = "start" => cur'[t] \in Conns
    BY <1>0, <2>1, <2>3 DEF Types
  <2>5. ~InStart(t) /\ ~InStart(t)'
    BY <2>1, <2>2 DEF InStart
  <2> QED
    BY <1>5, <2>1, <2>2, <2>4, <2>5
<1>13. ASSUME NEW t \in Threads,
              StartAll(t) \/ StartAllReturns(t) \/ CloseAll(t) \/ Lock(t) \/ CloseAllReturn(t)
       PROVE  Goal
  <2>1. /\ pc[t] \in {"idle", "range", "locking", "closing"} /\ UNCHANGED <<connVars, cur, token>>
        /\ \E l \in {"range", "locking", "closing", "done"} : pc' = [pc EXCEPT ![t] = l]
    BY <1>13 DEF StartAll, StartAllReturns, CloseAll, Lock, CloseAllReturn, Goto
  <2>2. /\ pc'[t] \in {"range", "locking", "closing", "done"}
        /\ \A u \in Threads : u # t => pc'[u] = pc[u]
    BY <1>0, <2>1 DEF Types
  <2>3. ~InStart(t) /\ ~InStart(t)' /\ pc'[t] # "start"
    BY <2>1, <2>2 DEF InStart
  <2> QED
    BY <1>5, <2>1, <2>2, <2>3
<1>14. CASE Still
  <2>1. CASE GetNatsManager \/ ConnectFails
    BY <1>2, <2>1 DEF GetNatsManager, ConnectFails, threadVars, connVars
  <2>2. ASSUME NEW c \in Conns, Disconnect(c) \/ GiveUp(c) PROVE Goal
    BY <1>2, <2>2 DEF Disconnect, GiveUp, threadVars
  <2>3. ASSUME NEW c \in Conns, Stop(c) PROVE Goal
    BY <1>3, <2>3 DEF Stop, threadVars
  <2>4. ASSUME NEW t \in Threads, StartPanics(t) PROVE Goal
    BY <1>2, <2>4 DEF StartPanics, threadVars, connVars
  <2>5. ASSUME NEW t \in Threads, CloseNext(t) PROVE Goal
    BY <1>3, <2>5 DEF CloseNext
  <2> QED
    BY <1>4, <1>14, <2>1, <2>2, <2>3, <2>4, <2>5 DEF Still
<1> QED
  BY <1>6, <1>8, <1>9, <1>10, <1>11, <1>12, <1>13, <1>14, StepKinds DEF LoopStep

------------------------------------------------------------------------------
LEMMA InvStep == Inv /\ [Next]_vars => Inv'
<1> SUFFICES ASSUME Inv, [Next]_vars PROVE Inv'
  OBVIOUS
<1>1. CASE Next
  <2>1. Types'
    BY <1>1, LockStep, MapStep, ThreadTypes, ConnStep DEF Inv, Types, ConnTypes
  <2> QED
    BY <1>1, <2>1, LockStep, MapStep, LoopsStep DEF Inv
<1>2. CASE UNCHANGED vars
  <2>1. /\ UNCHANGED <<clients, created, readers, writer, queued, pc, cur, todo, token>>
        /\ UNCHANGED <<ctxDone, net, handler, stale, reconnects, jsFailed, crashed>>
    BY <1>2 DEF vars, lockVars, threadVars, connVars
  <2>2. Types' /\ LockInv' /\ MapInv'
    BY <2>1 DEF Inv, Types, LockInv, MapInv, Reading
  <2>3. LoopInv' /\ ReconnectNotLost'
    BY <2>1 DEF Inv, LoopInv, ReconnectNotLost, InStart
  <2> QED
    BY <2>2, <2>3 DEF Inv
<1> QED
  BY <1>1, <1>2

\* The inductive invariant holds in every reachable state of the manager.
THEOREM Invariance == Spec => []Inv
BY InvInit, InvStep, PTL DEF Spec

\* The types of the manager's state, the exclusion of its lock, and at most
\* one loop whose handlers are installed, for any number of goroutines.
THEOREM TypeCorrect == Spec => []TypeOK
<1>1. Inv => TypeOK
  <2> SUFFICES ASSUME Inv PROVE TypeOK
    OBVIOUS
  <2>1. DOMAIN clients \subseteq Names /\ Range(clients) \subseteq created
    BY DEF Inv, MapInv, Range
  <2>2. readers \subseteq Threads /\ writer \subseteq Closers /\ queued \subseteq Closers
    BY ThreadKinds DEF Inv, LockInv
  <2>3. ASSUME writer # {} PROVE readers = {} /\ Cardinality(writer) = 1
    <3>1. PICK t \in writer : writer = {t}
      BY <2>3 DEF Inv, LockInv
    <3>2. readers = {}
      BY <2>3 DEF Inv, LockInv
    <3> QED
      BY <3>1, <3>2, FS_Singleton
  <2>4. ASSUME NEW c \in Conns PROVE handler[c] \subseteq Threads /\ Cardinality(handler[c]) <= 1
    <3>1. handler[c] = {} \/ \E t \in Threads : handler[c] = {t}
      BY DEF Inv, Types
    <3>2. CASE handler[c] = {}
      BY <3>2, FS_EmptySet
    <3>3. ASSUME NEW t \in Threads, handler[c] = {t} PROVE <2>4!2
      <4>1. Cardinality({t}) = 1
        BY FS_Singleton
      <4> QED
        BY <3>3, <4>1
    <3> QED
      BY <3>1, <3>2, <3>3
  <2> QED
    BY <2>1, <2>2, <2>3, <2>4 DEF Inv, Types, TypeOK
<1> QED
  BY <1>1, Invariance, PTL

\* A CloseAll that returned has stopped every connection ever made, however
\* its range met the other callers of the map.
THEOREM ClosedAll == Spec => []ClosedMeansAll
<1>1. Inv => ClosedMeansAll
  BY DEF Inv, MapInv, ClosedMeansAll
<1> QED
  BY <1>1, Invariance, PTL

\* No reconnect is lost in the channel with one place, although its handler
\* never waits and Start may run several times for one connection.
THEOREM NotLost == Spec => []ReconnectNotLost
<1>1. Inv => ReconnectNotLost
  BY DEF Inv
<1> QED
  BY <1>1, Invariance, PTL

==============================================================================
