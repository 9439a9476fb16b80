-------------------------- MODULE MCNatsSubscription --------------------------
(* Two subscriptions at a time: both of subject x, or, with a stream, one   *)
(* of x and one of y.  With a stream one message of x and one of y, without *)
(* it two of x, one more than the channel takes.                           *)
EXTENDS NatsSubscription, TLC

CONSTANTS s1, s2, s3, m1, m2, m3, x, y

SubjectOfSubs == s1 :> x @@ s2 :> x @@ s3 :> y
SubjectOfMsgs == m1 :> x @@ m2 :> y @@ m3 :> x

\* Bound: who takes part in a behaviour.  Without a stream these are two
\* subscriptions of x and all messages.  With a stream these are two
\* subscriptions, the second of x or of y, and either one message of x, or one
\* of each subject and no stop.
Started == {s \in Subs : pc[s] # "idle"}
Published == {m \in Msgs : status[m] # "new"}
NoStops == ~ctxDone /\ \A s \in Started \ active : pc[s] \in {"subscribe", "failed"}

Bound ==
    /\ Started \subseteq {s1, s2} \/ (Started \subseteq {s1, s3} /\ useStream)
    /\ Published \subseteq {m1} \/ NoStops

MCSpec ==
    /\ NatsInit
    /\ [][NatsNext /\ Bound']_allVars
    /\ NatsFairness

==============================================================================
