--------------------------- MODULE NatsSubscription ---------------------------
(***************************************************************************)
(* libs/nats/subscribe.go, both branches.  With UseStream a connection     *)
(* behaves as JetStreamSubscription says.  Without it StartSubscription    *)
(* joins a queue group; the callback it gives to the client library puts   *)
(* each message into a channel of the subscription, waiting while the      *)
(* channel is full, and a goroutine takes them out and calls the handler.  *)
(* A panic of the handler ends that goroutine and leaves the member in the *)
(* group.                                                                  *)
(*                                                                         *)
(* External: the server gives a message to one member of the group, or     *)
(* loses it; the client library calls the callback of a subscription for   *)
(* one message at a time, and Unsubscribe drops what it has not called it  *)
(* for.                                                                    *)
(***************************************************************************)
EXTENDS JetStreamSubscription

CONSTANTS
    ChanCap,        \* capacity of the channel (64)
    StreamMsgs      \* bound: the messages published when UseStream is set

ASSUME ChannelAssumption ==
    /\ ChanCap \in Nat \ {0}
    /\ StreamMsgs \subseteq Msgs

VARIABLES
    useStream,  \* s.useStream
    sent,       \* messages published without a stream
    inbox,      \* messages the library holds for each subscription
    held,       \* the message its callback was called for, until it is in ch
    ch          \* the channel of each subscription

coreVars == <<sent, inbox, held, ch>>
allVars == <<vars, useStream, coreVars>>

CoreTypeOK ==
    /\ useStream \in BOOLEAN
    /\ sent \subseteq Msgs
    /\ \A s \in Subs :
        /\ inbox[s] \in Seq(Msgs)
        /\ held[s] \in Seq(Msgs) /\ Len(held[s]) <= 1
        /\ ch[s] \in Seq(Msgs) /\ Len(ch[s]) <= ChanCap

NatsInit ==
    /\ Init
    /\ useStream \in BOOLEAN
    /\ sent = {}
    /\ inbox = [s \in Subs |-> <<>>]
    /\ held = [s \in Subs |-> <<>>]
    /\ ch = [s \in Subs |-> <<>>]

------------------------------------------------------------------------------
(* External: the server and the client library.                            *)

CorePublish(m) ==
    /\ m \notin sent
    /\ sent' = sent \cup {m}
    /\ \/ UNCHANGED inbox
       \/ \E s \in active :
            /\ SubjectOfSub[s] = SubjectOf[m] /\ ~ctxDone
            /\ inbox' = [inbox EXCEPT ![s] = Append(@, m)]
    /\ UNCHANGED <<vars, held, ch>>

Deliver(s) ==
    /\ held[s] = <<>> /\ inbox[s] # <<>>
    /\ held' = [held EXCEPT ![s] = <<Head(inbox[s])>>]
    /\ inbox' = [inbox EXCEPT ![s] = Tail(@)]
    /\ UNCHANGED <<vars, sent, ch>>

\* Messages the library drops when the subscriptions S are closed.
Drop(S) == inbox' = [s \in Subs |-> IF s \in S THEN <<>> ELSE inbox[s]]

------------------------------------------------------------------------------
(* StartSubscription without a stream, its callback and its goroutine.     *)

QueueSubscribe(s) ==
    /\ pc[s] = "idle"
    /\ \/ /\ subject' = Append(subject, s)
          /\ active' = active \cup {s}
          /\ UNCHANGED halfStopped
          /\ Goto(s, "select")
       \/ UNCHANGED listVars /\ Goto(s, "failed")
    /\ UNCHANGED <<serverVars, handled, batch, ctxDone, coreVars>>

\* Mutant: a select with a default, as in the reconnect handlers of Start.
CallbackDrops(s) ==
    /\ held[s] # <<>>
    /\ ch' = [ch EXCEPT ![s] = IF Len(@) < ChanCap THEN @ \o held[s] ELSE @]
    /\ held' = [held EXCEPT ![s] = <<>>]
    /\ UNCHANGED <<vars, sent, inbox>>

\* ch <- msg
Callback(s) ==
    /\ held[s] # <<>> /\ Len(ch[s]) < ChanCap
    /\ ch' = [ch EXCEPT ![s] = @ \o held[s]]
    /\ held' = [held EXCEPT ![s] = <<>>]
    /\ UNCHANGED <<vars, sent, inbox>>

\* The two cases of the select.
ContextDone(s) ==
    /\ pc[s] = "select" /\ ctxDone
    /\ Goto(s, "exited")
    /\ UNCHANGED <<serverVars, listVars, handled, batch, ctxDone, coreVars>>

Receive(s) ==
    /\ pc[s] = "select" /\ ch[s] # <<>>
    /\ batch' = [batch EXCEPT ![s] = <<Head(ch[s])>>]
    /\ ch' = [ch EXCEPT ![s] = Tail(@)]
    /\ Goto(s, "core handler")
    /\ UNCHANGED <<serverVars, listVars, handled, ctxDone, sent, inbox, held>>

CoreHandlerReturns(s) ==
    /\ pc[s] = "core handler"
    /\ handled' = [handled EXCEPT ![Head(batch[s])] = IF @ < 2 THEN @ + 1 ELSE @]
    /\ batch' = [batch EXCEPT ![s] = <<>>]
    /\ Goto(s, "select")
    /\ UNCHANGED <<serverVars, listVars, ctxDone, coreVars>>

CoreHandlerPanics(s) ==
    /\ pc[s] = "core handler"
    /\ batch' = [batch EXCEPT ![s] = <<>>]
    /\ Goto(s, "exited")
    /\ UNCHANGED <<serverVars, listVars, handled, ctxDone, coreVars>>

CoreLoop(s) == ContextDone(s) \/ Receive(s) \/ CoreHandlerReturns(s)

\* The owner's other calls are the same ones; closing a subscription, or the
\* connection, drops the library's messages.
CoreStop ==
    \/ /\ StopAllSubscriptions \/ \E x \in Subjects : StopSubscription(x)
       /\ Drop(active \ active')
    \/ Stop /\ Drop(Subs)

CoreNext ==
    \/ \E m \in Msgs : CorePublish(m)
    \/ \E s \in Subs :
        \/ Deliver(s) \/ Callback(s)
        \/ QueueSubscribe(s) \/ CoreLoop(s) \/ CoreHandlerPanics(s)
    \/ CoreStop /\ UNCHANGED <<sent, held, ch>>

NatsNext ==
    /\ UNCHANGED useStream
    /\ \/ /\ useStream /\ Next /\ UNCHANGED coreVars
          /\ \A m \in Msgs \ StreamMsgs : status'[m] = "new"
       \/ ~useStream /\ CoreNext

\* As in JetStreamSubscription; without a stream, the library delivers, a
\* channel operation that stays possible is done, and handlers return.  The
\* steps of one goroutine are never enabled together.
NatsFairness ==
    /\ \A s \in Subs :
        /\ WF_allVars(\/ (PullSubscribe(s) \/ Loop(s)) /\ UNCHANGED <<useStream, coreVars>>
                      \/ CoreLoop(s) /\ UNCHANGED useStream)
        /\ WF_allVars((Deliver(s) \/ Callback(s)) /\ UNCHANGED useStream)
    /\ \A m \in StreamMsgs :
        /\ WF_allVars(AckExpires(m) /\ UNCHANGED <<useStream, coreVars>>)
        /\ SF_allVars(/\ \E s \in Subs : \E S \in SUBSET Available : m \in S /\ Fetch(s, S)
                      /\ UNCHANGED <<useStream, coreVars>>)

NatsSpec == NatsInit /\ [][NatsNext]_allVars /\ NatsFairness

------------------------------------------------------------------------------
(* Properties.                                                             *)

\* Without a stream too, a full channel only delays: what the library holds
\* for a subscription is handled, unless the goroutine ends (a panic, or Stop)
\* or Unsubscribe drops it before its callback is called.
GivenIsHandled ==
    \A s \in Subs : \A m \in {n \in Msgs : SubjectOf[n] = SubjectOfSub[s]} :
        m \in Range(inbox[s] \o held[s] \o ch[s]) ~>
            \/ handled[m] > 0
            \/ pc[s] = "exited"
            \/ s \notin active /\ m \notin Range(held[s] \o ch[s])

==============================================================================
