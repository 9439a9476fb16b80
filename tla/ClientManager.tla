---------------------------- MODULE ClientManager ----------------------------
(***************************************************************************)
(* libs/server/ws_client_manager.go and ws_client.go: a manager goroutine  *)
(* owns the registry of websocket clients and is reached over unbuffered   *)
(* channels (register, unregister, broadcast, stopChan).  Every client has *)
(* a reading goroutine, which answers into the client's send channel and   *)
(* unregisters when the read fails, and a writing goroutine.  The Kick     *)
(* calls, ClientKeepLive and Stop work on the registry from their caller's *)
(* goroutine, with no lock between them and the manager; UnregisterClient  *)
(* may be called by anybody, also while the client's reader runs.          *)
(*                                                                         *)
(* A rendezvous on an unbuffered channel is one step, enabled while the    *)
(* manager is in its select.  Finding a client, closing it, deleting it    *)
(* from each map and sending to it are steps of their own.  External:      *)
(* connections, codec and message handler.  The Go runtime may also abort  *)
(* on unsynchronised map accesses; what is modelled is what the calls do   *)
(* when it does not.                                                       *)
(***************************************************************************)
EXTENDS Naturals, FiniteSets, Functions

CONSTANTS
    Clients, Sessions, Users,
    SessionOf, UserOf,  \* the sessionId and userId of each client
    Cap,                \* capacity of a client's send channel (1024)
    Loop,               \* the goroutine that runs Start
    Admins,             \* callers of Kick..., ClientKeepLive, UnregisterClient and Stop, one call each
    MaxBroadcasts,      \* bound: calls of BroadcastMessage
    NoClient            \* nil

ASSUME ClientAssumption ==
    /\ SessionOf \in [Clients -> Sessions]
    /\ UserOf \in [Clients -> Users]
    /\ Cap \in Nat \ {0}
    /\ MaxBroadcasts \in Nat
    /\ NoClient \notin Clients
    /\ Loop \notin Admins

Callers == Admins \cup {Loop}

VARIABLES
    clients,    \* m.clients, a partial function from Sessions to Clients
    userIdMap,  \* m.userIdMap, a partial function from Users to Sessions
    job,        \* what the loop or the caller is executing
    pc,         \* where it is
    cur,        \* the client it has in hand
    user,       \* the user whose entry a Kick will delete
    todo,       \* sessions its range over m.clients has not reached
    broadcasts, \* calls of BroadcastMessage so far
    reader,     \* where each client's life and reading goroutine are
    writer,     \* where each client's writing goroutine is
    queue,      \* how many messages each send channel holds
    sendClosed, \* close(c.send), and right after it close(c.closed)
    connOpen,   \* the connection has not been closed on this side
    touched,    \* history: clients a call from outside, or Stop, has had in hand
    crashedOn   \* clients on whose send channel a goroutine panicked

regVars == <<clients, userIdMap>>
callVars == <<job, pc, cur, user, todo>>
connVars == <<reader, writer, queue, sendClosed, connOpen>>
managerVars == <<regVars, callVars, broadcasts, connVars, touched, crashedOn>>

Jobs == {"none", "unregister", "broadcast", "kick", "keepLive", "stop"}
CallStates == {"idle", "select", "lookup", "range", "send", "close", "delete", "forget", "sendStop", "done"}
ReaderStates == {"new", "registered", "reading", "replying", "unregistering", "leaving", "done"}
WriterStates == {"off", "select", "writing", "done"}

ManagerTypeOK ==
    /\ DOMAIN clients \subseteq Sessions /\ Range(clients) \subseteq Clients
    /\ DOMAIN userIdMap \subseteq Users /\ Range(userIdMap) \subseteq Sessions
    /\ job \in [Callers -> Jobs] /\ pc \in [Callers -> CallStates]
    /\ cur \in [Callers -> Clients \cup {NoClient}] /\ user \in [Callers -> Users \cup {NoClient}]
    /\ todo \in [Callers -> SUBSET Sessions] /\ broadcasts \in 0 .. MaxBroadcasts
    /\ reader \in [Clients -> ReaderStates] /\ writer \in [Clients -> WriterStates]
    /\ queue \in [Clients -> 0 .. Cap]
    /\ sendClosed \in [Clients -> BOOLEAN] /\ connOpen \in [Clients -> BOOLEAN]
    /\ touched \subseteq Clients /\ crashedOn \subseteq Clients

\* m[k] = v and delete(m, k).
Put(m, k, v) == [x \in DOMAIN m \cup {k} |-> IF x = k THEN v ELSE m[x]]
Delete(m, k) == Restrict(m, DOMAIN m \ {k})

------------------------------------------------------------------------------
(* NewClientManager, and Start up to its select.                           *)

ManagerInit ==
    /\ clients = << >> /\ userIdMap = << >>
    /\ job = [g \in Callers |-> "none"]
    /\ pc = [g \in Callers |-> IF g = Loop THEN "select" ELSE "idle"]
    /\ cur = [g \in Callers |-> NoClient]
    /\ user = [g \in Callers |-> NoClient]
    /\ todo = [g \in Callers |-> {}]
    /\ broadcasts = 0
    /\ reader = [c \in Clients |-> "new"]
    /\ writer = [c \in Clients |-> "off"]
    /\ queue = [c \in Clients |-> 0]
    /\ sendClosed = [c \in Clients |-> FALSE]
    /\ connOpen = [c \in Clients |-> TRUE]
    /\ touched = {} /\ crashedOn = {}

\* c.send <- message: blocks while the channel is full, panics when it is
\* closed, also when it is closed while the sender blocks.
Send(c) ==
    /\ sendClosed[c] \/ queue[c] < Cap
    /\ crashedOn' = IF sendClosed[c] THEN {c} ELSE {}
    /\ queue' = IF sendClosed[c] THEN queue ELSE [queue EXCEPT ![c] = @ + 1]

\* c.Close(): closing the send channel a second time panics.
Close(c) ==
    /\ crashedOn' = IF sendClosed[c] THEN {c} ELSE {}
    /\ sendClosed' = [sendClosed EXCEPT ![c] = TRUE]
    /\ connOpen' = [connOpen EXCEPT ![c] = FALSE]

Moves(g, to) == pc' = [pc EXCEPT ![g] = to]
StartsJob(g, j, to) == job' = [job EXCEPT ![g] = j] /\ Moves(g, to)
GoesOn(g, to) == Moves(g, to) /\ UNCHANGED <<job, cur, user>>

\* The call returns, or the loop is back at its select.
Rests(g) ==
    /\ StartsJob(g, "none", IF g = Loop THEN "select" ELSE "done")
    /\ cur' = [cur EXCEPT ![g] = NoClient]
    /\ user' = [user EXCEPT ![g] = NoClient]

------------------------------------------------------------------------------
(* The cases of the manager's select.                                      *)

\* A range of another goroutine may or may not meet an entry created meanwhile.
Register(c) ==
    /\ pc[Loop] = "select"
    /\ reader[c] = "new"
    /\ reader' = [reader EXCEPT ![c] = "registered"]
    /\ clients' = Put(clients, SessionOf[c], c)
    /\ userIdMap' = Put(userIdMap, UserOf[c], SessionOf[c])
    /\ \/ todo' = todo
       \/ /\ SessionOf[c] \notin DOMAIN clients
          /\ \E a \in Admins : /\ job[a] \in {"keepLive", "stop"} /\ pc[a] \in {"range", "send", "close", "delete", "forget"}
                               /\ todo' = [todo EXCEPT ![a] = @ \cup {SessionOf[c]}]
    /\ UNCHANGED <<job, pc, cur, user, broadcasts, writer, queue, sendClosed, connOpen, touched, crashedOn>>

\* case client := <-m.unregister
Unregistering(c) ==
    /\ pc[Loop] = "select"
    /\ cur' = [cur EXCEPT ![Loop] = c]
    /\ UNCHANGED <<regVars, user, todo, broadcasts, writer, queue, sendClosed, connOpen, crashedOn>>

\* Mutant: the reader unregisters and reads on.
UnregisterReadsOn(c) ==
    /\ Unregistering(c)
    /\ reader[c] = "unregistering"
    /\ reader' = [reader EXCEPT ![c] = "reading"]
    /\ StartsJob(Loop, "unregister", "lookup")
    /\ UNCHANGED touched

\* The deferred c.cm.UnregisterClient(c) of the client's reading goroutine ...
Unregister(c) ==
    /\ Unregistering(c)
    /\ reader[c] = "unregistering"
    /\ reader' = [reader EXCEPT ![c] = "leaving"]
    /\ StartsJob(Loop, "unregister", "lookup")
    /\ UNCHANGED touched

\* ... and the same call by any other goroutine that has a registered client.
UnregisterClient(a, c) ==
    /\ Unregistering(c)
    /\ pc[a] = "idle"
    /\ reader[c] # "new"
    /\ pc' = [pc EXCEPT ![a] = "done", ![Loop] = "lookup"]
    /\ job' = [job EXCEPT ![Loop] = "unregister"]
    /\ touched' = touched \cup {c}
    /\ UNCHANGED reader

\* if _, ok := m.clients[client.GetSessionID()]; ok
MgrLookup ==
    /\ pc[Loop] = "lookup"
    /\ IF SessionOf[cur[Loop]] \in DOMAIN clients THEN GoesOn(Loop, "close") ELSE Rests(Loop)
    /\ UNCHANGED <<regVars, todo, broadcasts, connVars, touched, crashedOn>>

\* A range over m.clients begins.
BeginRange(g, j) ==
    /\ StartsJob(g, j, "range")
    /\ todo' = [todo EXCEPT ![g] = DOMAIN clients]
    /\ UNCHANGED <<regVars, cur, user, connVars, touched, crashedOn>>

\* case message := <-m.broadcast
Broadcast ==
    /\ pc[Loop] = "select"
    /\ broadcasts < MaxBroadcasts
    /\ broadcasts' = broadcasts + 1
    /\ BeginRange(Loop, "broadcast")

------------------------------------------------------------------------------
(* What the loop and the callers do to the registry: the rounds of a range *)
(* and the statements that take a client out.                              *)

\* A range meets each entry once, in any order, unless it is deleted before it
\* is reached; then it has the client in hand, whatever becomes of the entry.
Takes(g, s) ==
    /\ pc[g] = "range"
    /\ s \in todo[g]
    /\ todo' = [todo EXCEPT ![g] = @ \ {s}]
    /\ \/ /\ s \in DOMAIN clients
          /\ cur' = [cur EXCEPT ![g] = clients[s]]
          /\ Moves(g, IF job[g] = "stop" THEN "close" ELSE "send")
          /\ touched' = IF job[g] = "broadcast" THEN touched ELSE touched \cup {clients[s]}
       \/ s \notin DOMAIN clients /\ UNCHANGED <<cur, pc, touched>>
    /\ UNCHANGED <<regVars, job, user, broadcasts, connVars, crashedOn>>

\* client.Send(message), of a broadcast or of ClientKeepLive.
Sends(g) ==
    /\ pc[g] = "send"
    /\ Send(cur[g])
    /\ GoesOn(g, "range")
    /\ UNCHANGED <<regVars, todo, broadcasts, reader, writer, sendClosed, connOpen, touched>>

\* The range is over; Stop then sends on stopChan.
RangeEnds(g) ==
    /\ pc[g] = "range"
    /\ todo[g] = {}
    /\ IF job[g] = "stop" THEN GoesOn(g, "sendStop") ELSE Rests(g)
    /\ UNCHANGED <<regVars, todo, broadcasts, connVars, touched, crashedOn>>

\* client.Close()
Closes(g) ==
    /\ pc[g] = "close"
    /\ Close(cur[g])
    /\ GoesOn(g, "delete")
    /\ UNCHANGED <<regVars, todo, broadcasts, reader, writer, queue, touched>>

\* Mutant: the entry stays in m.clients.
DeletesNothing(g) ==
    /\ pc[g] = "delete"
    /\ IF job[g] = "unregister" THEN Rests(g) ELSE GoesOn(g, "forget")
    /\ UNCHANGED <<regVars, todo, broadcasts, connVars, touched, crashedOn>>

\* delete(m.clients, sessionId): whichever client is under that id by now.
Deletes(g) ==
    /\ pc[g] = "delete"
    /\ clients' = Delete(clients, SessionOf[cur[g]])
    /\ IF job[g] = "unregister" THEN Rests(g) ELSE GoesOn(g, "forget")
    /\ UNCHANGED <<userIdMap, todo, broadcasts, connVars, touched, crashedOn>>

\* delete(m.userIdMap, userId), by Kick and Stop.
Forgets(g) ==
    /\ pc[g] = "forget"
    /\ userIdMap' = Delete(userIdMap, IF job[g] = "stop" THEN UserOf[cur[g]] ELSE user[g])
    /\ IF job[g] = "stop" THEN GoesOn(g, "range") ELSE Rests(g)
    /\ UNCHANGED <<clients, todo, broadcasts, connVars, touched, crashedOn>>

RegistryStep(g) ==
    \/ Sends(g) \/ RangeEnds(g) \/ Closes(g) \/ Deletes(g) \/ Forgets(g)
    \/ \E s \in Sessions : Takes(g, s)

------------------------------------------------------------------------------
(* Calls from other goroutines.                                            *)

\* A Kick found the client of session s and will delete the entry of user u.
Kicks(a, s, u) ==
    /\ StartsJob(a, "kick", "close")
    /\ cur' = [cur EXCEPT ![a] = clients[s]]
    /\ user' = [user EXCEPT ![a] = u]
    /\ touched' = touched \cup {clients[s]}

FindsNobody(a) == Moves(a, "done") /\ UNCHANGED <<job, cur, user, touched>>

KickClientBySessionId(a, s) ==
    /\ pc[a] = "idle"
    /\ \/ s \in DOMAIN clients /\ Kicks(a, s, UserOf[clients[s]])
       \/ s \notin DOMAIN clients /\ FindsNobody(a)
    /\ UNCHANGED <<regVars, todo, broadcasts, connVars, crashedOn>>

KickClientByUserId(a, u) ==
    /\ pc[a] = "idle"
    /\ LET found == u \in DOMAIN userIdMap /\ userIdMap[u] \in DOMAIN clients
       IN  (found /\ Kicks(a, userIdMap[u], u)) \/ (~found /\ FindsNobody(a))
    /\ UNCHANGED <<regVars, todo, broadcasts, connVars, crashedOn>>

ClientKeepLive(a) == pc[a] = "idle" /\ BeginRange(a, "keepLive") /\ UNCHANGED broadcasts
ManagerStop(a) == pc[a] = "idle" /\ BeginRange(a, "stop") /\ UNCHANGED broadcasts

\* m.stopChan <- struct{}{} meets the select, and the loop itself calls Stop.
\* The loop's own send on stopChan has no receiver: no step leaves it.
StopSend(a) ==
    /\ pc[a] = "sendStop"
    /\ pc[Loop] = "select"
    /\ pc' = [pc EXCEPT ![a] = "done", ![Loop] = "range"]
    /\ job' = [job EXCEPT ![Loop] = "stop"]
    /\ todo' = [todo EXCEPT ![Loop] = DOMAIN clients]
    /\ UNCHANGED <<regVars, cur, user, broadcasts, connVars, touched, crashedOn>>

AdminStep(a) ==
    \/ \E c \in Clients : UnregisterClient(a, c)
    \/ \E s \in Sessions : KickClientBySessionId(a, s)
    \/ \E u \in Users : KickClientByUserId(a, u)
    \/ ClientKeepLive(a) \/ ManagerStop(a) \/ StopSend(a)

------------------------------------------------------------------------------
(* A client: Listen, ReceivedMessage and SendMessage.                      *)

Listen(c) ==
    /\ reader[c] = "registered"
    /\ reader' = [reader EXCEPT ![c] = "reading"]
    /\ writer' = [writer EXCEPT ![c] = "select"]
    /\ UNCHANGED <<regVars, callVars, broadcasts, queue, sendClosed, connOpen, touched, crashedOn>>

\* A message came, was decoded and handled; one that was not is skipped.  What
\* the connection had buffered can still be read after it was closed.
ReaderGets(c) ==
    /\ reader[c] = "reading"
    /\ reader' = [reader EXCEPT ![c] = "replying"]
    /\ UNCHANGED <<regVars, callVars, broadcasts, writer, queue, sendClosed, connOpen, touched, crashedOn>>

ReaderReplies(c) ==
    /\ reader[c] = "replying"
    /\ Send(c)
    /\ reader' = [reader EXCEPT ![c] = "reading"]
    /\ UNCHANGED <<regVars, callVars, broadcasts, writer, sendClosed, connOpen, touched>>

ReaderFails(c) ==
    /\ reader[c] = "reading"
    /\ reader' = [reader EXCEPT ![c] = "unregistering"]
    /\ UNCHANGED <<regVars, callVars, broadcasts, writer, queue, sendClosed, connOpen, touched, crashedOn>>

ReaderEnds(c) ==
    /\ reader[c] = "leaving"
    /\ reader' = [reader EXCEPT ![c] = "done"]
    /\ connOpen' = [connOpen EXCEPT ![c] = FALSE]
    /\ UNCHANGED <<regVars, callVars, broadcasts, writer, queue, sendClosed, touched, crashedOn>>

WriterTakes(c) ==
    /\ writer[c] = "select"
    /\ queue[c] > 0
    /\ queue' = [queue EXCEPT ![c] = @ - 1]
    /\ writer' = [writer EXCEPT ![c] = "writing"]
    /\ UNCHANGED <<regVars, callVars, broadcasts, reader, sendClosed, connOpen, touched, crashedOn>>

WriterWrites(c) ==
    /\ writer[c] = "writing"
    /\ writer' = [writer EXCEPT ![c] = "select"]
    /\ UNCHANGED <<regVars, callVars, broadcasts, reader, queue, sendClosed, connOpen, touched, crashedOn>>

\* return, with the deferred c.conn.Close().
WriterReturns(c) ==
    /\ writer' = [writer EXCEPT ![c] = "done"]
    /\ connOpen' = [connOpen EXCEPT ![c] = FALSE]
    /\ UNCHANGED <<regVars, callVars, broadcasts, reader, queue, sendClosed, touched, crashedOn>>

\* A failed write or ping.
WriterFails(c) == writer[c] \in {"select", "writing"} /\ WriterReturns(c)

\* Mutant: the writer has no case for c.closed and does not test ok.
WriterIgnoresClose(c) == FALSE /\ WriterReturns(c)

\* The closed send channel, once drained, or c.closed: either ends the loop.
WriterSeesClose(c) == writer[c] = "select" /\ sendClosed[c] /\ WriterReturns(c)

WriterStep(c) == WriterTakes(c) \/ WriterWrites(c) \/ WriterSeesClose(c)

ClientStep(c) ==
    \/ Register(c) \/ Unregister(c) \/ Listen(c)
    \/ ReaderGets(c) \/ ReaderReplies(c) \/ ReaderFails(c) \/ ReaderEnds(c)
    \/ WriterStep(c) \/ WriterFails(c)

------------------------------------------------------------------------------
Crashed == crashedOn # {}

ManagerNext ==
    /\ ~Crashed
    /\ \/ MgrLookup
       \/ Broadcast
       \/ \E g \in Callers : RegistryStep(g)
       \/ \E c \in Clients : ClientStep(c)
       \/ \E a \in Admins : AdminStep(a)

ManagerSpec == ManagerInit /\ [][ManagerNext]_managerVars

(***************************************************************************)
(* A client's writing goroutine that can run does run, and its writes end  *)
(* at their deadline.  Nothing is assumed of the manager, the readers and  *)
(* the callers.                                                            *)
(***************************************************************************)
ManagerFairness == \A c \in Clients : WF_managerVars(~Crashed /\ WriterStep(c))

ManagerFairSpec == ManagerSpec /\ ManagerFairness

------------------------------------------------------------------------------
(* Properties.                                                             *)

\* A goroutine panics on a client's channel, answering, broadcasting or closing
\* it twice, only if that very client was touched by a Kick, a Stop,
\* ClientKeepLive or an UnregisterClient of another goroutine: clients that
\* come, answer, get broadcasts and leave do not panic, also while others are
\* kicked and when session ids are registered again.
OnlyTouchedPanic == crashedOn \subseteq touched

\* A closed client is found in m.clients only between the Close and the delete
\* of the goroutine that closed it: outside of that window no Kick, Stop or
\* broadcast gets hold of it to close it again or to send to it.
ClosedIsOnItsWayOut ==
    \A s \in DOMAIN clients :
        sendClosed[clients[s]] => \E g \in Callers : pc[g] = "delete" /\ cur[g] = clients[s]

\* A client that was closed, by whomever and at whatever moment, loses its
\* writing goroutine and its connection.
ClosedMeansGone ==
    \A c \in Clients :
        (sendClosed[c] /\ writer[c] # "off") ~> ((writer[c] = "done" /\ ~connOpen[c]) \/ Crashed)

\* "Mapping from user id to client": the client found through userIdMap is
\* one of that user.
UserIdMapSound ==
    \A u \in DOMAIN userIdMap :
        userIdMap[u] \in DOMAIN clients => UserOf[clients[userIdMap[u]]] = u

\* "Client manager stopped": a loop that was told to stop does not wait for ever
\* in the send on stopChan that only it could receive.
ManagerStops == pc[Loop] # "sendStop"

==============================================================================
