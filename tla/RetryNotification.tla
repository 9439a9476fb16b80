-------------------------- MODULE RetryNotification --------------------------
(***************************************************************************)
(* libs/redis/redis_notification.go: delayed retries on key expiry.  A     *)
(* payload is a Redis key with a time to live; when it expires, Redis      *)
(* publishes an event to every subscribed node.  The nodes compete for the *)
(* lock of the payload's value, the winner calls the handler and, if the   *)
(* handler asks for it, puts the payload back with the next delay.  The    *)
(* winner keeps the lock between two tries of a payload and deletes it     *)
(* after the last one; a lock never expires.                               *)
(*                                                                         *)
(* External: Redis (each command is atomic, may fail without effect or may *)
(* lose its answer; an event goes to the nodes that are connected, in the  *)
(* same order to each), the handler, and the crash and restart of a node.  *)
(***************************************************************************)
EXTENDS Integers, Sequences, SequencesExt, FiniteSets

CONSTANTS
    Nodes,      \* the names the nodes give to NewNotification
    Routines,   \* ids of the goroutine that runs a node's subscription
    Values,     \* payload values, as their parts between colons
    Policies,   \* len(n.policies)
    MaxPuts,    \* bound: calls of PutNotification by the application
    MaxFaults   \* bound: failed commands, lost events and crashes

ASSUME NotificationAssumption ==
    /\ Values # {} /\ Values \subseteq Seq(STRING) \ {<<>>}
    /\ \A v \in Values : <<Last(v)>> \in Values
    /\ Policies \in Nat \ {0} /\ MaxPuts \in Nat /\ MaxFaults \in Nat

VARIABLES
    timers,     \* the payload keys in Redis, as [value, count]
    lockOf,     \* the lock key of each value: {} or {its owner}
    inbox,      \* expiry events a node has not received yet
    pc,         \* where the node's subscription is
    cur,        \* the payload it works on
    routine,    \* the id of its goroutine
    puts, faults

redisVars == <<timers, lockOf>>
nodeVars == <<inbox, pc, cur, routine>>
retryVars == <<redisVars, nodeVars, puts, faults>>

\* A payload in Redis has a delay in policies; in a try its count is one more.
Timer == [value : Values, count : 0 .. Policies - 1]
Payload == [value : Values, count : 0 .. Policies]
PcStates == {"receive", "setNX", "get", "handler", "put", "unlock", "down"}

\* The value that lock writes: node name and goroutine id.
Owner(n) == <<n, routine[n]>>

Locks == {{}} \cup {{o} : o \in Nodes \X Routines}

\* The type invariant, with the range of the index of policies.
RetryTypeOK ==
    /\ timers \subseteq Timer
    /\ lockOf \in [Values -> Locks]
    /\ inbox \in [Nodes -> Seq(Timer)]
    /\ pc \in [Nodes -> PcStates]
    /\ cur \in [Nodes -> Payload]
    /\ routine \in [Nodes -> Routines]
    /\ puts \in 0 .. MaxPuts /\ faults \in 0 .. MaxFaults

------------------------------------------------------------------------------
(* Every node has subscribed and no notification has been put.             *)

RetryInit ==
    /\ timers = {} /\ lockOf = [v \in Values |-> {}]
    /\ inbox = [n \in Nodes |-> <<>>]
    /\ pc = [n \in Nodes |-> "receive"]
    /\ cur = [n \in Nodes |-> [value |-> CHOOSE v \in Values : TRUE, count |-> 0]]
    /\ routine \in [Nodes -> Routines]
    /\ puts = 0 /\ faults = 0

Goto(n, label) == pc' = [pc EXCEPT ![n] = label]

Fault ==
    /\ faults < MaxFaults
    /\ faults' = faults + 1

\* PutNotification: a key that exists is set again.  The error is ignored.
PutNotification(p) == timers' = timers \cup {p}

\* The application puts a fresh payload, whose count is 0.
PutFresh(v) ==
    /\ puts < MaxPuts
    /\ puts' = puts + 1
    /\ PutNotification([value |-> v, count |-> 0])
    /\ UNCHANGED <<lockOf, nodeVars, faults>>

ExpireTimer(p) ==
    /\ p \in timers
    /\ timers' = timers \ {p}
    /\ inbox' = [n \in Nodes |-> IF pc[n] = "down" THEN inbox[n] ELSE Append(inbox[n], p)]
    /\ UNCHANGED <<lockOf, pc, cur, routine, puts, faults>>

\* What encodePayload and decodePayload make of a value: the channel name is
\* split at its colons and the last part is kept.
Decoded(v) == <<Last(v)>>

Receive(n) ==
    /\ pc[n] = "receive" /\ inbox[n] # <<>>
    /\ LET p == Head(inbox[n]) IN
        cur' = [cur EXCEPT ![n] = [value |-> Decoded(p.value), count |-> p.count + 1]]
    /\ inbox' = [inbox EXCEPT ![n] = Tail(@)]
    /\ Goto(n, "setNX")
    /\ UNCHANGED <<redisVars, routine, puts, faults>>

\* Mutant: Set in place of SetNX.
LockSetNXOverwrites(n) ==
    /\ pc[n] = "setNX"
    /\ lockOf' = [lockOf EXCEPT ![cur[n].value] = {Owner(n)}]
    /\ Goto(n, "handler")
    /\ UNCHANGED <<timers, inbox, cur, routine, puts, faults>>

LockSetNX(n) ==
    /\ pc[n] = "setNX"
    /\ \/ /\ lockOf[cur[n].value] = {}
          /\ lockOf' = [lockOf EXCEPT ![cur[n].value] = {Owner(n)}]
          /\ Goto(n, "handler")
       \/ /\ lockOf[cur[n].value] # {}
          /\ Goto(n, "get")
          /\ UNCHANGED lockOf
    /\ UNCHANGED <<timers, inbox, cur, routine, puts, faults>>

\* SetNX returns an error, and Redis has or has not executed it.
LockSetNXFails(n) ==
    /\ pc[n] = "setNX"
    /\ Fault
    /\ Goto(n, "get")
    /\ \/ /\ lockOf[cur[n].value] = {}
          /\ lockOf' = [lockOf EXCEPT ![cur[n].value] = {Owner(n)}]
       \/ UNCHANGED lockOf
    /\ UNCHANGED <<timers, inbox, cur, routine, puts>>

\* Mutant: lock answers with SetNX alone.
LockGetNever(n) ==
    /\ pc[n] = "get"
    /\ Goto(n, "receive")
    /\ UNCHANGED <<redisVars, inbox, cur, routine, puts, faults>>

\* The lock may be the node's own, from the payload's previous try.
LockGet(n) ==
    /\ pc[n] = "get"
    /\ \/ lockOf[cur[n].value] = {Owner(n)} /\ Goto(n, "handler")
       \/ lockOf[cur[n].value] # {Owner(n)} /\ Goto(n, "receive")
    /\ UNCHANGED <<redisVars, inbox, cur, routine, puts, faults>>

LockGetFails(n) ==
    /\ pc[n] = "get"
    /\ Fault
    /\ Goto(n, "receive")
    /\ UNCHANGED <<redisVars, inbox, cur, routine, puts>>

\* The handler has returned putNext.
HandlerReturns(n) ==
    /\ pc[n] = "handler"
    /\ \E putNext \in BOOLEAN :
        Goto(n, IF putNext /\ cur[n].count < Policies THEN "put" ELSE "unlock")
    /\ UNCHANGED <<redisVars, inbox, cur, routine, puts, faults>>

PutNext(n) ==
    /\ pc[n] = "put"
    /\ \/ PutNotification(cur[n]) /\ UNCHANGED faults
       \/ Fault /\ UNCHANGED timers
    /\ Goto(n, "receive")
    /\ UNCHANGED <<lockOf, inbox, cur, routine, puts>>

\* Mutant: the key is deleted without its value, so every lock goes.
UnlockAll(n) ==
    /\ pc[n] = "unlock"
    /\ lockOf' = [v \in Values |-> {}]
    /\ Goto(n, "receive")
    /\ UNCHANGED <<timers, inbox, cur, routine, puts, faults>>

\* Del does not look at the owner; its error is ignored.
Unlock(n) ==
    /\ pc[n] = "unlock"
    /\ \/ lockOf' = [lockOf EXCEPT ![cur[n].value] = {}] /\ UNCHANGED faults
       \/ Fault /\ UNCHANGED lockOf
    /\ Goto(n, "receive")
    /\ UNCHANGED <<timers, inbox, cur, routine, puts>>

\* ReceiveMessage fails, is called again, and the event is lost.
LoseEvent(n) ==
    /\ pc[n] = "receive" /\ inbox[n] # <<>>
    /\ Fault
    /\ inbox' = [inbox EXCEPT ![n] = Tail(@)]
    /\ UNCHANGED <<redisVars, pc, cur, routine, puts>>

Crash(n) ==
    /\ pc[n] # "down"
    /\ Fault
    /\ Goto(n, "down")
    /\ inbox' = [inbox EXCEPT ![n] = <<>>]
    /\ UNCHANGED <<redisVars, cur, routine, puts>>

Restart(n) ==
    /\ pc[n] = "down"
    /\ Goto(n, "receive")
    /\ routine' \in {[routine EXCEPT ![n] = r] : r \in Routines}
    /\ UNCHANGED <<redisVars, inbox, cur, puts, faults>>

SubscribeStep(n) ==
    \/ Receive(n) \/ LockSetNX(n) \/ LockGet(n)
    \/ HandlerReturns(n) \/ PutNext(n) \/ Unlock(n)

RetryNext ==
    \/ \E v \in Values : PutFresh(v)
    \/ \E p \in timers : ExpireTimer(p)
    \/ \E n \in Nodes :
        \/ SubscribeStep(n)
        \/ LockSetNXFails(n) \/ LockGetFails(n) \/ LoseEvent(n)
        \/ Crash(n) \/ Restart(n)

RetrySpec == RetryInit /\ [][RetryNext]_retryVars

\* Every subscription goroutine runs, handlers return, and keys expire.
Fairness ==
    /\ \A n \in Nodes : WF_retryVars(SubscribeStep(n))
    /\ \A p \in Payload : WF_retryVars(ExpireTimer(p))

FairSpec == RetrySpec /\ Fairness

------------------------------------------------------------------------------
(* Properties.                                                             *)

InTry(n) == pc[n] \in {"handler", "put", "unlock"}

\* Handlers of one value never run on two nodes at a time, whatever fails and
\* whoever restarts, and however late a node is with its events.
OneHandlerPerValue ==
    \A m, n \in Nodes : m # n /\ InTry(m) /\ InTry(n) => cur[m].value # cur[n].value

\* Del does not compare owners, yet a lock goes only when its holder is
\* through with the payload: no node frees another one's lock.
OnlyHolderUnlocks ==
    [][\A v \in Values :
        lockOf[v] # {} /\ lockOf'[v] # lockOf[v] =>
            \E n \in Nodes : pc[n] = "unlock" /\ lockOf[v] = {Owner(n)}]_retryVars

\* A payload put to Redis reaches a handler: without faults also when the same
\* value is put again while its first payload is being retried, and with fewer
\* faults than nodes when it is the only one, because the events of the other
\* nodes remain.  The exception is a lock that is never free again, which a
\* node leaves that crashes or whose Del or Set failed.
PutIsHandled ==
    [](faults = 0) \/ [](puts <= 1 /\ faults < Cardinality(Nodes)) =>
        \A v \in Values :
            [value |-> v, count |-> 0] \in timers ~>
                \/ \E n \in Nodes : pc[n] = "handler" /\ cur[n].value = Decoded(v)
                \/ [](faults > 0 /\ lockOf[Decoded(v)] # {})

==============================================================================
