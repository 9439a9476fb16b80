--------------------------- MODULE NatsConnManager ---------------------------
(***************************************************************************)
(* libs/nats/nats_connection_manager.go, and the life of a connection in   *)
(* nats.go and subscribe.go (NewNatsConnect, Start, Stop): a map of named  *)
(* connections under a readers-writer lock, and per connection the loop of *)
(* Start, which reacts to reconnects until the connection is stopped.      *)
(* StartAll runs these loops, one after the other, while it holds the lock *)
(* for reading; the other way to run one is to get the connection by name  *)
(* and to call its Start from a goroutine.                                 *)
(*                                                                         *)
(* External: Go's RWMutex (a waiting writer keeps new readers out) and the *)
(* client library, which reconnects a number of times, calls the handlers  *)
(* installed last, and gives up.                                           *)
(***************************************************************************)
EXTENDS Naturals, Sequences, FiniteSets, Functions

CONSTANTS
    Configs,        \* the names in managerConfig, in order; a name may recur
    Starters,       \* goroutines that call StartAll
    Runners,        \* goroutines that call GetClient and then Start
    Closers,        \* goroutines that call CloseAll
    MaxReconnects   \* bound: reconnects of a connection

ASSUME ManagerAssumption ==
    /\ Configs \in Seq(Range(Configs))
    /\ Starters \cap Runners = {} /\ (Starters \cup Runners) \cap Closers = {}
    /\ MaxReconnects \in Nat

Conns == DOMAIN Configs     \* a connection is the place of its configuration
Names == Range(Configs)
Threads == Starters \cup Runners \cup Closers

VARIABLES
    clients,    \* m.clients, a partial function from Names to Conns
    created,    \* the connections made by NewNatsConnect
    readers, writer, queued,    \* m.mu: who holds it, and who waits to write
    pc, cur, todo,      \* of each thread: place, connection, rest of its range
    token,      \* reconnectChan of the thread's Start is full
    ctxDone,    \* s.ctx of each connection is cancelled
    net,        \* "up", "down" or "closed"
    handler,    \* the thread whose Start installed the handlers last, or {}
    stale,      \* a handler was told of a reconnect since s.js was made
    reconnects, \* how many there were
    jsFailed,   \* history: connections whose JetStream() failed after one
    crashed

lockVars == <<readers, writer, queued>>
threadVars == <<pc, cur, todo, token>>
connVars == <<ctxDone, net, handler, stale, reconnects, jsFailed>>
vars == <<clients, created, lockVars, threadVars, connVars, crashed>>

PcStates == {"idle", "range", "start", "select", "refresh", "ensure", "locking", "closing", "done"}
InStart(t) == pc[t] \in {"select", "refresh", "ensure"}

\* The type invariant, with the exclusion that m.mu provides.
TypeOK ==
    /\ DOMAIN clients \subseteq Names /\ Range(clients) \subseteq created
    /\ created \subseteq Conns
    /\ readers \subseteq Threads /\ writer \subseteq Closers /\ queued \subseteq Closers
    /\ writer # {} => readers = {} /\ Cardinality(writer) = 1
    /\ pc \in [Threads -> PcStates]
    /\ cur \in [Threads -> {0} \cup Conns]
    /\ todo \in [Threads -> SUBSET Names]
    /\ token \in [Threads -> BOOLEAN]
    /\ ctxDone \in [Conns -> BOOLEAN]
    /\ net \in [Conns -> {"up", "down", "closed"}]
    /\ \A c \in Conns : handler[c] \subseteq Threads /\ Cardinality(handler[c]) <= 1
    /\ stale \in [Conns -> BOOLEAN]
    /\ reconnects \in [Conns -> 0 .. MaxReconnects]
    /\ jsFailed \subseteq Conns
    /\ crashed \in BOOLEAN

------------------------------------------------------------------------------
Init ==
    /\ clients = << >> /\ created = {}
    /\ readers = {} /\ writer = {} /\ queued = {}
    /\ pc = [t \in Threads |-> "idle"]
    /\ cur = [t \in Threads |-> 0]
    /\ todo = [t \in Threads |-> {}]
    /\ token = [t \in Threads |-> FALSE]
    /\ ctxDone = [c \in Conns |-> FALSE]
    /\ net = [c \in Conns |-> "up"]
    /\ handler = [c \in Conns |-> {}]
    /\ stale = [c \in Conns |-> FALSE]
    /\ reconnects = [c \in Conns |-> 0]
    /\ jsFailed = {}
    /\ crashed = FALSE

Goto(t, label) == pc' = [pc EXCEPT ![t] = label]

\* addClient connects only for a name that is not in the map.
First(n) == CHOOSE i \in Conns : Configs[i] = n /\ \A j \in 1 .. i - 1 : Configs[j] # n

\* GetNatsManager, the first time: everyone else waits for it.
GetNatsManager ==
    /\ created = {}
    /\ created' = {First(n) : n \in Names}
    /\ clients' = [n \in Names |-> First(n)]
    /\ UNCHANGED <<lockVars, threadVars, connVars, crashed>>

\* NewNatsConnect panics when it cannot connect.
ConnectFails ==
    /\ created = {}
    /\ crashed' = TRUE
    /\ UNCHANGED <<clients, created, lockVars, threadVars, connVars>>

CanRead == created # {} /\ writer = {} /\ queued = {}

------------------------------------------------------------------------------
(* Start of one connection.                                                *)

\* The stream is made if need be, and new channels and handlers installed.
StartLoop(t) ==
    /\ pc[t] = "start"
    /\ Goto(t, "select")
    /\ handler' = [handler EXCEPT ![cur[t]] = {t}]
    /\ token' = [token EXCEPT ![t] = FALSE]
    /\ UNCHANGED <<clients, created, lockVars, cur, todo, ctxDone, net, stale, reconnects, jsFailed, crashed>>

\* The stream cannot be made: panic.
StartPanics(t) ==
    /\ pc[t] = "start"
    /\ crashed' = TRUE
    /\ UNCHANGED <<clients, created, lockVars, threadVars, connVars>>

TakeReconnect(t) ==
    /\ pc[t] = "select"
    /\ token[t]
    /\ token' = [token EXCEPT ![t] = FALSE]
    /\ Goto(t, "refresh")
    /\ UNCHANGED <<clients, created, lockVars, cur, todo, connVars, crashed>>

\* s.js is made again, or JetStream() fails and the loop goes on with the old.
Refresh(t) ==
    /\ pc[t] = "refresh"
    /\ \/ stale' = [stale EXCEPT ![cur[t]] = FALSE] /\ Goto(t, "ensure") /\ UNCHANGED jsFailed
       \/ jsFailed' = jsFailed \cup {cur[t]} /\ Goto(t, "select") /\ UNCHANGED stale
    /\ UNCHANGED <<clients, created, lockVars, cur, todo, token, ctxDone, net, handler, reconnects, crashed>>

\* EnsureStream asks the server, and its error is only logged.
EnsureStream(t) ==
    /\ pc[t] = "ensure"
    /\ Goto(t, "select")
    /\ UNCHANGED <<clients, created, lockVars, cur, todo, token, connVars, crashed>>

\* case <-s.ctx.Done(): Start returns to StartAll or ends its goroutine.
StartReturns(t) ==
    /\ pc[t] = "select"
    /\ ctxDone[cur[t]]
    /\ Goto(t, IF t \in Starters THEN "range" ELSE "done")
    /\ UNCHANGED <<clients, created, lockVars, cur, todo, token, connVars, crashed>>

\* The disconnect handler's token only makes the loop log.
Disconnect(c) ==
    /\ c \in created
    /\ net[c] = "up"
    /\ net' = [net EXCEPT ![c] = "down"]
    /\ UNCHANGED <<clients, created, lockVars, threadVars, ctxDone, handler, stale, reconnects, jsFailed, crashed>>

\* Before a Start has installed its handlers nobody is told of a reconnect, and
\* s.js stays as it was made: stale does not count these.
Reconnected(c) ==
    /\ net[c] = "down"
    /\ reconnects[c] < MaxReconnects
    /\ reconnects' = [reconnects EXCEPT ![c] = @ + 1]
    /\ net' = [net EXCEPT ![c] = "up"]
    /\ stale' = [stale EXCEPT ![c] = handler[c] # {}]
    /\ UNCHANGED <<clients, created, lockVars, pc, cur, todo, ctxDone, handler, jsFailed, crashed>>

\* Mutant: reconnectChan has no buffer, and the handler does not wait.
ReconnectUnbuffered(c) ==
    /\ Reconnected(c)
    /\ token' = [t \in Threads |-> token[t] \/ (t \in handler[c] /\ pc[t] = "select")]

\* The reconnect handler: a full channel is left as it is.
Reconnect(c) ==
    /\ Reconnected(c)
    /\ token' = [t \in Threads |-> token[t] \/ t \in handler[c]]

\* The client library stops trying; the loop of Start is not told.
GiveUp(c) ==
    /\ net[c] = "down"
    /\ net' = [net EXCEPT ![c] = "closed"]
    /\ UNCHANGED <<clients, created, lockVars, threadVars, ctxDone, handler, stale, reconnects, jsFailed, crashed>>

\* The context is cancelled and the connection closed.
StopConn(c) ==
    /\ ctxDone' = [ctxDone EXCEPT ![c] = TRUE]
    /\ net' = [net EXCEPT ![c] = "closed"]
    /\ UNCHANGED <<handler, stale, reconnects, jsFailed>>

\* Whoever has the connection stops it.
Stop(c) ==
    /\ c \in created /\ ~ctxDone[c]
    /\ StopConn(c)
    /\ UNCHANGED <<clients, created, lockVars, threadVars, crashed>>

------------------------------------------------------------------------------
(* The manager's methods.                                                  *)

StartAll(t) ==
    /\ t \in Starters /\ pc[t] = "idle" /\ CanRead
    /\ readers' = readers \cup {t}
    /\ todo' = [todo EXCEPT ![t] = DOMAIN clients]
    /\ Goto(t, "range")
    /\ UNCHANGED <<clients, created, writer, queued, cur, token, connVars, crashed>>

StartNext(t) ==
    /\ t \in Starters /\ pc[t] = "range"
    /\ \E n \in todo[t] :
        /\ todo' = [todo EXCEPT ![t] = @ \ {n}]
        /\ cur' = [cur EXCEPT ![t] = clients[n]]
    /\ Goto(t, "start")
    /\ UNCHANGED <<clients, created, lockVars, token, connVars, crashed>>

\* Mutant: no deferred RUnlock.
StartAllKeepsLock(t) ==
    /\ t \in Starters /\ pc[t] = "range" /\ todo[t] = {}
    /\ Goto(t, "done")
    /\ UNCHANGED <<clients, created, lockVars, cur, todo, token, connVars, crashed>>

StartAllReturns(t) ==
    /\ t \in Starters /\ pc[t] = "range" /\ todo[t] = {}
    /\ readers' = readers \ {t}
    /\ Goto(t, "done")
    /\ UNCHANGED <<clients, created, writer, queued, cur, todo, token, connVars, crashed>>

\* GetClient locks, looks and unlocks; its caller then runs Start.
GetClient(t, n) ==
    /\ t \in Runners /\ pc[t] = "idle" /\ CanRead
    /\ \/ /\ n \in DOMAIN clients
          /\ cur' = [cur EXCEPT ![t] = clients[n]]
          /\ Goto(t, "start")
       \/ n \notin DOMAIN clients /\ Goto(t, "done") /\ UNCHANGED cur
    /\ UNCHANGED <<clients, created, lockVars, todo, token, connVars, crashed>>

\* CloseAll calls m.mu.Lock() ...
CloseAll(t) ==
    /\ t \in Closers /\ pc[t] = "idle" /\ CanRead
    /\ queued' = {t}
    /\ Goto(t, "locking")
    /\ UNCHANGED <<clients, created, readers, writer, cur, todo, token, connVars, crashed>>

\* ... and has the lock when the last reader is gone.
Lock(t) ==
    /\ pc[t] = "locking"
    /\ readers = {}
    /\ queued' = {} /\ writer' = {t}
    /\ todo' = [todo EXCEPT ![t] = DOMAIN clients]
    /\ Goto(t, "closing")
    /\ UNCHANGED <<clients, created, readers, cur, token, connVars, crashed>>

\* Mutant: the entry is deleted, the connection is not stopped.
CloseForgets(t) ==
    /\ pc[t] = "closing"
    /\ \E n \in todo[t] :
        /\ clients' = Restrict(clients, DOMAIN clients \ {n})
        /\ todo' = [todo EXCEPT ![t] = @ \ {n}]
    /\ UNCHANGED <<created, lockVars, pc, cur, token, connVars, crashed>>

CloseNext(t) ==
    /\ pc[t] = "closing"
    /\ \E n \in todo[t] :
        /\ StopConn(clients[n])
        /\ clients' = Restrict(clients, DOMAIN clients \ {n})
        /\ todo' = [todo EXCEPT ![t] = @ \ {n}]
    /\ UNCHANGED <<created, lockVars, pc, cur, token, crashed>>

CloseAllReturn(t) ==
    /\ pc[t] = "closing" /\ todo[t] = {}
    /\ writer' = {}
    /\ Goto(t, "done")
    /\ UNCHANGED <<clients, created, readers, queued, cur, todo, token, connVars, crashed>>

------------------------------------------------------------------------------
ThreadStep(t) ==
    \/ StartLoop(t) \/ TakeReconnect(t) \/ Refresh(t) \/ EnsureStream(t) \/ StartReturns(t)
    \/ StartNext(t) \/ StartAllReturns(t)
    \/ Lock(t) \/ CloseNext(t) \/ CloseAllReturn(t)

Next ==
    /\ ~crashed
    /\ \/ GetNatsManager \/ ConnectFails
       \/ \E c \in Conns : Disconnect(c) \/ Reconnect(c) \/ GiveUp(c) \/ Stop(c)
       \/ \E t \in Threads :
            \/ StartAll(t) \/ CloseAll(t) \/ StartPanics(t) \/ ThreadStep(t)
            \/ \E n \in Names : GetClient(t, n)

Spec == Init /\ [][Next]_vars

\* Goroutines that are not blocked run.  The loop of Start chooses at random
\* among its ready cases, so a cancelled context is noticed: strong fairness.
Fairness ==
    \A t \in Threads :
        /\ WF_vars(~crashed /\ ThreadStep(t))
        /\ SF_vars(~crashed /\ StartReturns(t))

FairSpec == Spec /\ Fairness

------------------------------------------------------------------------------
(* Properties.                                                             *)

\* A CloseAll that returned has stopped every connection there ever was.
ClosedMeansAll ==
    (\E t \in Closers : pc[t] = "done") => \A c \in created : ctxDone[c]

\* The reconnect handler never waits and its channel has one place, yet no
\* reconnect it is told of is missed: as long as s.js is stale, the token of a
\* running loop or the refresh it began is still to come, unless JetStream()
\* itself failed.  A reconnect before the handlers are installed is.
ReconnectNotLost ==
    \A c \in Conns :
        stale[c] /\ ~ctxDone[c] /\ c \notin jsFailed =>
            \E t \in Threads :
                cur[t] = c /\ (pc[t] = "refresh" \/ (InStart(t) /\ token[t]))

\* "CloseAll closes all active connections and empties the map": it returns,
\* unless StartAll, which holds the read lock, sits for ever in the Start of a
\* connection that nobody stops.  Starts by name never keep it waiting.
CloseAllReturns ==
    \A t \in Closers :
        pc[t] = "locking" ~>
            \/ pc[t] = "done" \/ crashed
            \/ [](\E s \in Starters : InStart(s) /\ ~ctxDone[cur[s]])

==============================================================================
