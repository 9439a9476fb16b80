------------------------ MODULE JetStreamSubscription ------------------------
(***************************************************************************)
(* libs/nats/subscribe.go with UseStream: every StartSubscription makes    *)
(* sure of a durable consumer, binds a pull subscription to it, and starts *)
(* a goroutine that fetches batches, calls the handler for each message    *)
(* and acknowledges it afterwards.  A panic of the handler ends that       *)
(* goroutine, and nothing else.                                            *)
(*                                                                         *)
(* External: the JetStream server.  A message is kept until it is          *)
(* acknowledged; one that was delivered and is not acknowledged within     *)
(* AckWait may be delivered again, to any subscription of the consumer; a  *)
(* request may fail, and an acknowledgement may be lost.  The calls are    *)
(* made by one owner; all subscriptions use the same durable name.         *)
(***************************************************************************)
EXTENDS Naturals, FiniteSets, SequencesExt

CONSTANTS
    Subs,           \* calls of StartSubscription
    SubjectOfSub,   \* the subject of each call
    Msgs,           \* messages that are published
    SubjectOf,      \* their subjects
    Subjects,       \* the subjects of the stream
    FetchMax        \* messages in a batch (10)

ASSUME SubscriptionAssumption ==
    /\ SubjectOfSub \in [Subs -> Subjects]
    /\ SubjectOf \in [Msgs -> Subjects]
    /\ FetchMax \in Nat \ {0}

VARIABLES
    status,     \* each message: "new", "stored" or "acked"
    pending,    \* messages delivered and neither acknowledged nor expired
    expired,    \* history: messages whose AckWait passed, or whose ack was lost
    handled,    \* history: times each message's handler returned, up to 2
    consumer,   \* the subjects the durable consumer is for; {} if there is none
    subject,    \* s.subject, the list of subscriptions
    active,     \* subscriptions that are not unsubscribed
    halfStopped,    \* history: unsubscribed by a StopAllSubscriptions that failed
    pc,         \* where each StartSubscription and its goroutine are
    batch,      \* the messages of the last Fetch still to be looked at
    ctxDone     \* s.ctx is cancelled

serverVars == <<status, pending, expired, consumer>>
listVars == <<subject, active, halfStopped>>
vars == <<serverVars, listVars, handled, pc, batch, ctxDone>>

PcStates == {"idle", "subscribe", "failed", "check", "fetch", "batch", "handler", "ack", "exited"}
InLoop(s) == pc[s] \in {"check", "fetch", "batch", "handler", "ack"}

TypeOK ==
    /\ status \in [Msgs -> {"new", "stored", "acked"}]
    /\ pending \subseteq {m \in Msgs : status[m] = "stored"}
    /\ expired \subseteq Msgs
    /\ handled \in [Msgs -> 0 .. 2]
    /\ consumer \subseteq Subjects
    /\ subject \in Seq(Subs) /\ IsInjective(subject)
    /\ active \subseteq Subs /\ halfStopped \subseteq Subs
    /\ pc \in [Subs -> PcStates]
    /\ \A s \in Subs : batch[s] \in Seq(Msgs) /\ Len(batch[s]) <= FetchMax
    /\ ctxDone \in BOOLEAN

------------------------------------------------------------------------------
Init ==
    /\ status = [m \in Msgs |-> "new"]
    /\ pending = {} /\ expired = {}
    /\ handled = [m \in Msgs |-> 0]
    /\ consumer = {}
    /\ subject = <<>> /\ active = {} /\ halfStopped = {}
    /\ pc = [s \in Subs |-> "idle"]
    /\ batch = [s \in Subs |-> <<>>]
    /\ ctxDone = FALSE

Goto(s, label) == pc' = [pc EXCEPT ![s] = label]

Publish(m) ==
    /\ status[m] = "new"
    /\ status' = [status EXCEPT ![m] = "stored"]
    /\ UNCHANGED <<pending, expired, consumer, listVars, handled, pc, batch, ctxDone>>

\* AddConsumer leaves a consumer that exists as it is, whatever its filter;
\* without subjects it makes one for all subjects of the stream.
AddConsumer(subjects) ==
    consumer' = IF consumer # {} THEN consumer
                ELSE IF subjects = {} THEN Subjects ELSE subjects

\* The application has made the consumer itself.
AppAddConsumer ==
    /\ consumer = {}
    /\ AddConsumer({})
    /\ UNCHANGED <<status, pending, expired, listVars, handled, pc, batch, ctxDone>>

\* StartSubscription up to the call of PullSubscribe.
StartSubscription(s) ==
    /\ pc[s] = "idle"
    /\ \/ AddConsumer({SubjectOfSub[s]}) /\ Goto(s, "subscribe")
       \/ UNCHANGED consumer /\ Goto(s, "failed")
    /\ UNCHANGED <<status, pending, expired, listVars, handled, batch, ctxDone>>

\* External: the client library refuses a consumer for one other subject.
PullSubscribe(s) ==
    /\ pc[s] = "subscribe"
    /\ \/ /\ Cardinality(consumer) > 1 \/ consumer = {SubjectOfSub[s]}
          /\ subject' = Append(subject, s)
          /\ active' = active \cup {s}
          /\ UNCHANGED halfStopped
          /\ Goto(s, "check")
       \/ UNCHANGED listVars /\ Goto(s, "failed")
    /\ UNCHANGED <<serverVars, handled, batch, ctxDone>>

------------------------------------------------------------------------------
(* The fetching goroutine.  Only the head of its loop looks at the context. *)

Check(s) ==
    /\ pc[s] = "check"
    /\ Goto(s, IF ctxDone THEN "exited" ELSE "fetch")
    /\ UNCHANGED <<serverVars, listVars, handled, batch, ctxDone>>

Available == {m \in Msgs \ pending : status[m] = "stored" /\ SubjectOf[m] \in consumer}

Fetch(s, S) ==
    /\ pc[s] = "fetch"
    /\ s \in active
    /\ S # {} /\ IsFiniteSet(S) /\ Cardinality(S) <= FetchMax
    /\ S \subseteq Available
    /\ \E q \in SetToSeqs(S) : batch' = [batch EXCEPT ![s] = q]
    /\ pending' = pending \cup S
    /\ Goto(s, "batch")
    /\ UNCHANGED <<status, expired, consumer, listVars, handled, ctxDone>>

\* A timeout or an error: after a pause, the loop starts over.
FetchFails(s) ==
    /\ pc[s] = "fetch"
    /\ Goto(s, "check")
    /\ UNCHANGED <<serverVars, listVars, handled, batch, ctxDone>>

\* Mutant: the subjects are compared the wrong way round.
NextMsgMismatch(s) ==
    /\ pc[s] = "batch"
    /\ \/ batch[s] = <<>> /\ Goto(s, "check") /\ UNCHANGED batch
       \/ /\ batch[s] # <<>>
          /\ SubjectOf[Head(batch[s])] = SubjectOfSub[s]
          /\ batch' = [batch EXCEPT ![s] = Tail(@)]
          /\ UNCHANGED pc
       \/ /\ batch[s] # <<>>
          /\ SubjectOf[Head(batch[s])] # SubjectOfSub[s]
          /\ Goto(s, "handler")
          /\ UNCHANGED batch
    /\ UNCHANGED <<serverVars, listVars, handled, ctxDone>>

\* The next message of the batch.  One of another subject is passed over and
\* not acknowledged.
NextMsg(s) ==
    /\ pc[s] = "batch"
    /\ \/ /\ batch[s] = <<>>
          /\ Goto(s, "check")
          /\ UNCHANGED batch
       \/ /\ batch[s] # <<>>
          /\ SubjectOf[Head(batch[s])] # SubjectOfSub[s]
          /\ batch' = [batch EXCEPT ![s] = Tail(@)]
          /\ UNCHANGED pc
       \/ /\ batch[s] # <<>>
          /\ SubjectOf[Head(batch[s])] = SubjectOfSub[s]
          /\ Goto(s, "handler")
          /\ UNCHANGED batch
    /\ UNCHANGED <<serverVars, listVars, handled, ctxDone>>

\* Mutant: the message is acknowledged before it is handled.
HandlerAfterAck(s) ==
    /\ pc[s] = "handler"
    /\ status' = [status EXCEPT ![Head(batch[s])] = "acked"]
    /\ pending' = pending \ {Head(batch[s])}
    /\ Goto(s, "ack")
    /\ UNCHANGED <<expired, consumer, listVars, handled, batch, ctxDone>>

HandlerReturns(s) ==
    /\ pc[s] = "handler"
    /\ handled' = [handled EXCEPT ![Head(batch[s])] = IF @ < 2 THEN @ + 1 ELSE @]
    /\ Goto(s, "ack")
    /\ UNCHANGED <<serverVars, listVars, batch, ctxDone>>

\* The panic is recovered outside the loop.
HandlerPanics(s) ==
    /\ pc[s] = "handler"
    /\ Goto(s, "exited")
    /\ batch' = [batch EXCEPT ![s] = <<>>]
    /\ UNCHANGED <<serverVars, listVars, handled, ctxDone>>

\* Mutant: a failed acknowledgement is tried again with the handler.
AckRetries(s) ==
    /\ pc[s] = "ack"
    /\ Goto(s, "handler")
    /\ UNCHANGED <<serverVars, listVars, handled, batch, ctxDone>>

\* Ack reaches the server, or an error is logged and the loop goes on.
Ack(s) ==
    /\ pc[s] = "ack"
    /\ LET m == Head(batch[s]) IN
        \/ /\ status' = [status EXCEPT ![m] = "acked"]
           /\ pending' = pending \ {m}
           /\ UNCHANGED expired
        \/ /\ expired' = expired \cup {m}
           /\ UNCHANGED <<status, pending>>
    /\ batch' = [batch EXCEPT ![s] = Tail(@)]
    /\ Goto(s, "batch")
    /\ UNCHANGED <<consumer, listVars, handled, ctxDone>>

\* AckWait has passed.
AckExpires(m) ==
    /\ m \in pending
    /\ pending' = pending \ {m}
    /\ expired' = expired \cup {m}
    /\ UNCHANGED <<status, consumer, listVars, handled, pc, batch, ctxDone>>

------------------------------------------------------------------------------
(* The owner's other calls.                                                *)

\* Mutant: the entry found is unsubscribed and stays in the list.
StopKeepsEntry(x) ==
    /\ \E i \in DOMAIN subject :
        /\ SubjectOfSub[subject[i]] = x
        /\ \A j \in 1 .. i - 1 : SubjectOfSub[subject[j]] # x
        /\ subject[i] \in active
        /\ active' = active \ {subject[i]}
    /\ UNCHANGED <<subject, halfStopped, serverVars, handled, pc, batch, ctxDone>>

\* Unsubscribe of sub fails if it was done before; it may fail otherwise.
StopSubscription(x) ==
    /\ \E i \in DOMAIN subject :
        /\ SubjectOfSub[subject[i]] = x
        /\ \A j \in 1 .. i - 1 : SubjectOfSub[subject[j]] # x
        /\ subject[i] \in active
        /\ active' = active \ {subject[i]}
        /\ subject' = RemoveAt(subject, i)
    /\ UNCHANGED <<halfStopped, serverVars, handled, pc, batch, ctxDone>>

\* The first k are unsubscribed.  At an error the call returns and the whole
\* list stays; only a call without an error empties it.
StopAllSubscriptions ==
    /\ subject # <<>>
    /\ \E k \in 1 .. Len(subject) :
        LET stopped == {subject[i] : i \in 1 .. k} IN
        /\ stopped \subseteq active
        /\ active' = active \ stopped
        /\ \/ k = Len(subject) /\ subject' = <<>> /\ UNCHANGED halfStopped
           \/ k < Len(subject) /\ UNCHANGED subject /\ halfStopped' = halfStopped \cup stopped
    /\ UNCHANGED <<serverVars, handled, pc, batch, ctxDone>>

Stop ==
    /\ ~ctxDone
    /\ ctxDone' = TRUE
    /\ UNCHANGED <<serverVars, listVars, handled, pc, batch>>

Loop(s) ==
    \/ Check(s) \/ FetchFails(s) \/ NextMsg(s) \/ HandlerReturns(s) \/ Ack(s)
    \/ \E S \in SUBSET Available : Fetch(s, S)

Next ==
    \/ \E m \in Msgs : Publish(m) \/ AckExpires(m)
    \/ AppAddConsumer
    \/ \E s \in Subs :
        \/ StartSubscription(s) \/ PullSubscribe(s)
        \/ Loop(s) \/ HandlerPanics(s)
    \/ \E x \in Subjects : StopSubscription(x)
    \/ StopAllSubscriptions
    \/ Stop

Spec == Init /\ [][Next]_vars

(***************************************************************************)
(* Goroutines run, handlers return (or panic), requests are answered or    *)
(* time out, and AckWait passes.  A message that is available again and    *)
(* again when a batch is fetched is fetched some time, because the server  *)
(* delivers in the order of the stream: strong fairness for each message.  *)
(* It is fetched by whichever request is the first to wait, so nothing says *)
(* that each subscription of the consumer gets it.                         *)
(***************************************************************************)
Fairness ==
    /\ \A s \in Subs : WF_vars(PullSubscribe(s)) /\ WF_vars(Loop(s))
    /\ \A m \in Msgs :
        /\ WF_vars(AckExpires(m))
        /\ SF_vars(\E s \in Subs : \E S \in SUBSET Available : m \in S /\ Fetch(s, S))

FairSpec == Spec /\ Fairness

------------------------------------------------------------------------------
(* Properties.                                                             *)

\* A message leaves the stream only after its handler has returned: neither a
\* panic nor a redelivery to another subscription loses it.
AckedWasHandled == \A m \in Msgs : status[m] = "acked" => handled[m] > 0

\* As long as every acknowledgement arrives within AckWait, a message is
\* handled once, however many subscriptions fetch from the consumer.
OnceIfTimely == \A m \in Msgs \ expired : handled[m] <= 1

\* StopSubscription(its subject), called as often as needed, gets to s: s is in
\* s.subject, and no entry of its subject before it fails to be unsubscribed.
Stoppable(s) ==
    \E i \in DOMAIN subject :
        /\ subject[i] = s
        /\ \A j \in 1 .. i : SubjectOfSub[subject[j]] = SubjectOfSub[s] => subject[j] \in active

\* Each subscription that still receives can be stopped, whatever was started
\* and stopped before it, except behind an entry of its subject that a
\* StopAllSubscriptions unsubscribed before it failed: that call keeps the
\* entry, and every later call for the subject finds it first and fails at it.
OnlyHalfStopsStick ==
    \A s \in active :
        Stoppable(s) \/ \E t \in halfStopped : SubjectOfSub[t] = SubjectOfSub[s]

\* As long as some goroutine for its subject stays subscribed and running, and
\* those for other subjects that shared the consumer are gone, a stored message
\* of that subject reaches a handler, although the others fetched it and passed
\* over it and goroutines that fetched it were ended by a panic.
StoredIsHandled ==
    \A m \in Msgs :
        <>[](/\ ~ctxDone
             /\ \E s \in active : SubjectOfSub[s] = SubjectOf[m] /\ InLoop(s)
             /\ \A s \in active : InLoop(s) => SubjectOfSub[s] = SubjectOf[m]) =>
            (status[m] = "stored" /\ SubjectOf[m] \in consumer ~> handled[m] > 0)

\* What the two above leave out, and what a caller would expect: a subscription
\* can be stopped after a stop that failed, and a subscription is served beside
\* one of another subject.
AlwaysStoppable == \A s \in active : Stoppable(s)

ServedBesideOthers ==
    \A m \in Msgs :
        <>[](~ctxDone /\ \E s \in active : SubjectOfSub[s] = SubjectOf[m] /\ InLoop(s)) =>
            (status[m] = "stored" /\ SubjectOf[m] \in consumer ~> handled[m] > 0)

\* "Work queue policy, to make sure that each message is consumed only once."
ConsumedOnce == \A m \in Msgs : handled[m] <= 1

\* "If the subject does not match, it must be acknowledged all the same, to
\* avoid that the message is delivered again."
MismatchAcked ==
    \A m \in Msgs, s \in Subs :
        (/\ pc[s] = "batch" /\ batch[s] # <<>> /\ Head(batch[s]) = m
         /\ SubjectOf[m] # SubjectOfSub[s]) ~> status[m] = "acked"

==============================================================================
