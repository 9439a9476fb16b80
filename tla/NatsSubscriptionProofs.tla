------------------------ MODULE NatsSubscriptionProofs ------------------------
(***************************************************************************)
(* Proofs about NatsSubscription, with and without a stream, for every set *)
(* of subscriptions and messages, every size of a batch and every capacity *)
(* of the channels.                                                        *)
(*                                                                         *)
(* That an acknowledged message was handled depends on the order of the    *)
(* steps of each goroutine (AckInv).  That it is handled once, as long as  *)
(* nothing expires, depends on all of them: a message is in one batch, and *)
(* counted as delivered while it is there (StreamInv); without a stream it *)
(* is in one place on the way from the library to one handler (CoreInv).   *)
(***************************************************************************)
EXTENDS NatsSubscription, SequenceTheorems, FiniteSetTheorems, TLAPS

CorePcs == {"idle", "failed", "select", "core handler", "exited"}

NatsTypeOK ==
    /\ status \in [Msgs -> {"new", "stored", "acked"}]
    /\ pending \subseteq {m \in Msgs : status[m] = "stored"}
    /\ expired \subseteq Msgs
    /\ handled \in [Msgs -> 0 .. 2]
    /\ subject \in Seq(Subs) /\ active \subseteq Subs /\ halfStopped \subseteq Subs
    /\ pc \in [Subs -> IF useStream THEN PcStates ELSE CorePcs]
    /\ batch \in [Subs -> Seq(Msgs)]
    /\ useStream \in BOOLEAN /\ sent \subseteq Msgs
    /\ inbox \in [Subs -> Seq(Msgs)]
    /\ held \in [Subs -> {<<>>} \cup {<<m>> : m \in Msgs}]
    /\ ch \in [Subs -> Seq(Msgs)]

\* A goroutine at its handler has a message, and one that acknowledges has
\* handled it.
AckInv ==
    /\ \A s \in Subs :
        /\ pc[s] \in {"handler", "ack", "core handler"} => batch[s] # <<>>
        /\ pc[s] = "ack" => handled[Head(batch[s])] > 0
    /\ AckedWasHandled

Acks(m) == \E s \in Subs : pc[s] = "ack" /\ Head(batch[s]) = m

\* With a stream.  No batch has a message twice, two batches share only expired
\* ones, and what is in a batch and not expired is pending; a message that was
\* handled and is not expired is acknowledged, or being acknowledged.
StreamInv ==
    useStream =>
        /\ \A s \in Subs : IsInjective(batch[s])
        /\ \A s \in Subs : Range(batch[s]) \subseteq pending \cup expired
        /\ \A s, t \in Subs : s # t => Range(batch[s]) \cap Range(batch[t]) \subseteq expired
        /\ \A m \in Msgs \ expired : handled[m] > 0 => status[m] = "acked" \/ Acks(m)

\* Without a stream: what is on its way to the handler of s.
Way(s) == Range(inbox[s]) \cup Range(held[s]) \cup Range(ch[s]) \cup Range(batch[s])

Disjoint(s) ==
    /\ Range(inbox[s]) \cap (Range(held[s]) \cup Range(ch[s]) \cup Range(batch[s])) = {}
    /\ Range(held[s]) \cap (Range(ch[s]) \cup Range(batch[s])) = {}
    /\ Range(ch[s]) \cap Range(batch[s]) = {}

\* It was sent, it is there once, on the way to nobody else, and not handled.
CoreInv ==
    ~useStream =>
        /\ expired = {} /\ \A m \in Msgs : status[m] = "new"
        /\ \A s \in Subs :
            /\ IsInjective(inbox[s]) /\ IsInjective(held[s]) /\ IsInjective(ch[s]) /\ IsInjective(batch[s])
            /\ pc[s] # "core handler" => batch[s] = <<>>
            /\ Disjoint(s)
            /\ \A m \in Way(s) : m \in sent /\ handled[m] = 0
        /\ \A s, t \in Subs : s # t => Way(s) \cap Way(t) = {}
        /\ \A m \in Msgs \ sent : handled[m] = 0

\* Each subscription is appended once, by its own call.
Called(s) == pc[s] \notin {"idle", "subscribe"}

\* An entry leaves the list when it is unsubscribed, unless a failed
\* StopAllSubscriptions keeps it.
ListInv ==
    /\ IsInjective(subject)
    /\ \A s \in Range(subject) : Called(s)
    /\ active \subseteq Range(subject)
    /\ Range(subject) \ active \subseteq halfStopped

Inv ==
    /\ NatsTypeOK /\ AckInv /\ StreamInv /\ CoreInv
    /\ OnceIfTimely /\ ListInv

------------------------------------------------------------------------------
(* Sequences.                                                              *)

\* What Head and Tail of a sequence contain.
LEMMA HeadAndTail ==
    ASSUME NEW S, NEW q \in Seq(S), q # <<>>
    PROVE  /\ Head(q) \in S /\ Tail(q) \in Seq(S)
           /\ Range(q) = {Head(q)} \cup Range(Tail(q))
           /\ IsInjective(q) => IsInjective(Tail(q)) /\ Head(q) \notin Range(Tail(q))
<1>1. /\ Head(q) \in S /\ Tail(q) \in Seq(S) /\ Head(q) = q[1]
      /\ Len(q) \in Nat \ {0} /\ Len(Tail(q)) = Len(q) - 1
      /\ \A i \in 1 .. Len(q) - 1 : Tail(q)[i] = q[i + 1]
      /\ DOMAIN q = 1 .. Len(q) /\ DOMAIN Tail(q) = 1 .. Len(q) - 1
  BY HeadTailProperties, EmptySeq
<1>2. Range(q) \subseteq {Head(q)} \cup Range(Tail(q))
  <2> SUFFICES ASSUME NEW i \in 1 .. Len(q), i # 1 PROVE q[i] \in Range(Tail(q))
    BY <1>1 DEF Range
  <2>1. i - 1 \in 1 .. Len(q) - 1 /\ Tail(q)[i - 1] = q[i]
    BY <1>1
  <2> QED
    BY <1>1, <2>1 DEF Range
<1>3. {Head(q)} \cup Range(Tail(q)) \subseteq Range(q)
  <2>1. \A i \in 1 .. Len(q) - 1 : i + 1 \in 1 .. Len(q)
    BY <1>1
  <2>2. 1 \in 1 .. Len(q)
    BY <1>1
  <2> QED
    BY <1>1, <2>1, <2>2 DEF Range
<1>4. ASSUME IsInjective(q) PROVE IsInjective(Tail(q)) /\ Head(q) \notin Range(Tail(q))
  <2>1. \A i \in 1 .. Len(q) - 1 : i + 1 \in 1 .. Len(q) /\ i + 1 # 1
    BY <1>1
  <2>2. \A i, j \in 1 .. Len(q) : q[i] = q[j] => i = j
    BY <1>1, <1>4 DEF IsInjective
  <2>3. Head(q) \notin Range(Tail(q))
    BY <1>1, <2>1, <2>2 DEF Range
  <2>4. \A i, j \in 1 .. Len(q) - 1 : i + 1 = j + 1 => i = j
    BY <1>1
  <2>5. IsInjective(Tail(q))
    BY <1>1, <2>1, <2>2, <2>4 DEF IsInjective
  <2> QED
    BY <2>3, <2>5
<1> QED
  BY <1>1, <1>2, <1>3, <1>4

\* What Append adds.
LEMMA AppendRange ==
    ASSUME NEW S, NEW q \in Seq(S), NEW x \in S
    PROVE  /\ Append(q, x) \in Seq(S)
           /\ Range(Append(q, x)) = Range(q) \cup {x}
           /\ IsInjective(q) /\ x \notin Range(q) => IsInjective(Append(q, x))
<1>1. /\ Append(q, x) \in Seq(S) /\ Len(q) \in Nat
      /\ DOMAIN q = 1 .. Len(q) /\ DOMAIN Append(q, x) = 1 .. Len(q) + 1
      /\ \A i \in 1 .. Len(q) : Append(q, x)[i] = q[i]
      /\ Append(q, x)[Len(q) + 1] = x
  BY AppendProperties
<1>2. /\ 1 .. Len(q) + 1 = (1 .. Len(q)) \cup {Len(q) + 1}
      /\ Len(q) + 1 \notin 1 .. Len(q)
  BY <1>1
<1> QED
  BY <1>1, <1>2 DEF Range, IsInjective

\* A sequence of one element.
LEMMA Single ==
    ASSUME NEW S, NEW x \in S
    PROVE  <<x>> \in Seq(S) /\ Range(<<x>>) = {x} /\ IsInjective(<<x>>) /\ <<x>> # <<>> /\ Head(<<x>>) = x
BY DEF Range, IsInjective

\* The empty sequence.
LEMMA Empty == Range(<<>>) = {} /\ IsInjective(<<>>) /\ \A S : <<>> \in Seq(S)
BY DEF Range, IsInjective

\* RemoveAt takes one element out and no other.
LEMMA RemoveAtRange ==
    ASSUME NEW S, NEW q \in Seq(S), NEW i \in DOMAIN q
    PROVE  /\ RemoveAt(q, i) \in Seq(S) /\ Range(q) \ {q[i]} \subseteq Range(RemoveAt(q, i))
           /\ IsInjective(q) => /\ IsInjective(RemoveAt(q, i))
                                /\ Range(RemoveAt(q, i)) = Range(q) \ {q[i]}
<1>0. DOMAIN q = 1 .. Len(q) /\ Len(q) \in Nat /\ i \in 1 .. Len(q)
  BY LenProperties
<1> DEFINE a == SubSeq(q, 1, i - 1)
           b == SubSeq(q, i + 1, Len(q))
<1>1. /\ a \in Seq(S) /\ Len(a) = i - 1
      /\ \A j \in 1 .. i - 1 : a[j] = q[j]
  BY <1>0, SubSeqProperties
<1>2. /\ b \in Seq(S) /\ Len(b) = Len(q) - i
      /\ \A j \in 1 .. Len(q) - i : b[j] = q[i + j]
  BY <1>0, SubSeqProperties
<1>3. RemoveAt(q, i) = a \o b
  BY DEF RemoveAt
<1> HIDE DEF a, b
<1>4. /\ a \o b \in Seq(S) /\ Len(a \o b) = Len(q) - 1 /\ DOMAIN (a \o b) = 1 .. Len(q) - 1
      /\ \A j \in 1 .. i - 1 : (a \o b)[j] = a[j]
      /\ \A j \in 1 .. Len(q) - i : (a \o b)[(i - 1) + j] = b[j]
  <2>1. a \o b \in Seq(S) /\ Len(a \o b) = Len(a) + Len(b)
    BY <1>1, <1>2, ConcatProperties
  <2>2. \A j \in 1 .. Len(a) + Len(b) : (a \o b)[j] = IF j <= Len(a) THEN a[j] ELSE b[j - Len(a)]
    BY <1>1, <1>2, ConcatProperties
  <2>3. Len(a \o b) = Len(q) - 1
    BY <1>0, <1>1, <1>2, <2>1
  <2>4. DOMAIN (a \o b) = 1 .. Len(q) - 1
    BY <2>1, <2>3, LenProperties
  <2>5. \A j \in 1 .. i - 1 : (a \o b)[j] = a[j]
    BY <1>0, <1>1, <1>2, <2>2
  <2>6. \A j \in 1 .. Len(q) - i : (a \o b)[(i - 1) + j] = b[j]
    <3> TAKE j \in 1 .. Len(q) - i
    <3>1. (i - 1) + j \in 1 .. Len(a) + Len(b) /\ ~((i - 1) + j <= Len(a)) /\ ((i - 1) + j) - Len(a) = j
      BY <1>0, <1>1, <1>2
    <3> QED
      BY <2>2, <3>1
  <2> QED
    BY <2>1, <2>3, <2>4, <2>5, <2>6
<1>5. ASSUME NEW j \in 1 .. Len(q), j # i PROVE q[j] \in Range(a \o b)
  <2>1. CASE j < i
    <3>1. j \in 1 .. i - 1 /\ j \in 1 .. Len(q) - 1
      BY <1>0, <2>1
    <3>2. (a \o b)[j] = q[j]
      BY <1>1, <1>4, <3>1
    <3> QED
      BY <1>4, <3>1, <3>2 DEF Range
  <2>2. CASE j > i
    <3>1. j - i \in 1 .. Len(q) - i /\ (i - 1) + (j - i) \in 1 .. Len(q) - 1 /\ i + (j - i) = j
      BY <1>0, <2>2
    <3>2. (a \o b)[(i - 1) + (j - i)] = q[j]
      BY <1>2, <1>4, <3>1
    <3> QED
      BY <1>4, <3>1, <3>2 DEF Range
  <2> QED
    BY <1>0, <1>5, <2>1, <2>2
<1> QED
  <2>1. ASSUME NEW x \in Range(q), x # q[i] PROVE x \in Range(a \o b)
    <3>1. PICK j \in 1 .. Len(q) : x = q[j]
      BY <1>0, <2>1 DEF Range
    <3> QED
      BY <1>5, <2>1, <3>1
  <2>2. ASSUME IsInjective(q)
        PROVE  IsInjective(a \o b) /\ Range(a \o b) \subseteq Range(q) \ {q[i]}
    <3> DEFINE from(j) == IF j < i THEN j ELSE j + 1
    <3>1. ASSUME NEW j \in 1 .. Len(q) - 1
          PROVE  from(j) \in 1 .. Len(q) /\ from(j) # i /\ (a \o b)[j] = q[from(j)]
      <4>1. from(j) \in 1 .. Len(q) /\ from(j) # i
        BY <1>0
      <4>2. CASE j < i
        <5>1. j \in 1 .. i - 1 /\ from(j) = j
          BY <1>0, <4>2
        <5> QED
          BY <1>1, <1>4, <4>1, <5>1
      <4>3. CASE ~(j < i)
        <5>1. (j + 1) - i \in 1 .. Len(q) - i /\ (i - 1) + ((j + 1) - i) = j
              /\ i + ((j + 1) - i) = j + 1 /\ from(j) = j + 1
          BY <1>0, <4>3
        <5>2. (a \o b)[j] = b[(j + 1) - i] /\ b[(j + 1) - i] = q[j + 1]
          BY <1>2, <1>4, <5>1
        <5> QED
          BY <4>1, <5>1, <5>2
      <4> QED
        BY <4>2, <4>3
    <3>2. \A j, k \in 1 .. Len(q) - 1 : from(j) = from(k) => j = k
      BY <1>0
    <3> HIDE DEF from
    <3>3. \A j, k \in 1 .. Len(q) : q[j] = q[k] => j = k
      BY <1>0, <2>2 DEF IsInjective
    <3>4. IsInjective(a \o b)
      <4>1. ASSUME NEW j \in 1 .. Len(q) - 1, NEW k \in 1 .. Len(q) - 1, (a \o b)[j] = (a \o b)[k]
            PROVE  j = k
        <5>1. q[from(j)] = q[from(k)] /\ from(j) \in 1 .. Len(q) /\ from(k) \in 1 .. Len(q)
          BY <3>1, <4>1
        <5> QED
          BY <3>2, <3>3, <5>1
      <4> QED
        BY <1>4, <4>1 DEF IsInjective
    <3>5. ASSUME NEW x \in Range(a \o b) PROVE x \in Range(q) /\ x # q[i]
      <4>1. PICK j \in 1 .. Len(q) - 1 : x = (a \o b)[j]
        BY <1>4 DEF Range
      <4>2. x = q[from(j)] /\ from(j) \in 1 .. Len(q) /\ from(j) # i
        BY <3>1, <4>1
      <4> QED
        BY <1>0, <3>3, <4>2 DEF Range
    <3> QED
      BY <3>4, <3>5
  <2> QED
    BY <1>3, <1>4, <2>1, <2>2

\* The sequences that Fetch may deliver a finite set in.
LEMMA Orders ==
    ASSUME NEW S, IsFiniteSet(S), NEW q \in SetToSeqs(S)
    PROVE  q \in Seq(S) /\ IsInjective(q) /\ Range(q) \subseteq S
<1>1. Cardinality(S) \in Nat
  BY FS_CardinalityType
<1>2. q \in [1 .. Cardinality(S) -> S] /\ \A i, j \in 1 .. Cardinality(S) : i # j => q[i] # q[j]
  BY DEF SetToSeqs
<1>3. q \in Seq(S)
  BY <1>1, <1>2
<1> QED
  BY <1>2, <1>3 DEF IsInjective, Range

------------------------------------------------------------------------------
(* The steps, by what they do to the messages.                             *)

LEMMA InvInit == NatsInit => Inv
<1> SUFFICES ASSUME NatsInit PROVE Inv
  OBVIOUS
<1>1. /\ status = [m \in Msgs |-> "new"] /\ handled = [m \in Msgs |-> 0]
      /\ pending = {} /\ expired = {} /\ subject = <<>> /\ active = {} /\ halfStopped = {} /\ sent = {}
      /\ pc = [s \in Subs |-> "idle"] /\ batch = [s \in Subs |-> <<>>]
      /\ inbox = [s \in Subs |-> <<>>] /\ held = [s \in Subs |-> <<>>] /\ ch = [s \in Subs |-> <<>>]
      /\ useStream \in BOOLEAN
  BY DEF NatsInit, Init
<1>2. \A S : <<>> \in Seq(S)
  BY Empty
<1>3. NatsTypeOK
  <2>1. pc \in [Subs -> IF useStream THEN PcStates ELSE CorePcs]
    BY <1>1 DEF PcStates, CorePcs
  <2>2. /\ batch \in [Subs -> Seq(Msgs)] /\ inbox \in [Subs -> Seq(Msgs)]
        /\ held \in [Subs -> {<<>>} \cup {<<m>> : m \in Msgs}] /\ ch \in [Subs -> Seq(Msgs)] /\ subject \in Seq(Subs)
    BY <1>1, <1>2
  <2> QED
    BY <1>1, <2>1, <2>2 DEF NatsTypeOK
<1>4. AckInv
  BY <1>1 DEF AckInv, AckedWasHandled
<1>5. StreamInv
  BY <1>1, Empty DEF StreamInv
<1>6. CoreInv
  BY <1>1, Empty DEF CoreInv, Way, Disjoint
<1>7. OnceIfTimely /\ ListInv
  BY <1>1, Empty DEF OnceIfTimely, ListInv
<1> QED
  BY <1>3, <1>4, <1>5, <1>6, <1>7 DEF Inv

\* No message is concerned.
Quiet ==
    /\ UNCHANGED <<status, pending, expired, handled, batch>>
    /\ pc' \in [Subs -> PcStates]
    /\ \A s \in Subs : pc'[s] # pc[s] =>
        pc[s] # "ack" /\ pc'[s] # "ack" /\ (pc'[s] = "handler" => batch[s] # <<>>)

\* The goroutine of s is done with a message without handling it.
Skip(s) ==
    /\ pc[s] = "batch" /\ batch[s] # <<>>
    /\ batch' = [batch EXCEPT ![s] = Tail(@)]
    /\ UNCHANGED <<status, pending, expired, handled, pc>>

LEMMA StreamKinds ==
    ASSUME NatsTypeOK, useStream, Next
    PROVE  \/ Quiet
           \/ \E m \in Msgs : Publish(m) \/ AckExpires(m)
           \/ \E s \in Subs :
                \/ Skip(s) \/ HandlerReturns(s) \/ HandlerPanics(s) \/ Ack(s)
                \/ \E S \in SUBSET Available : Fetch(s, S)
<1>1. pc \in [Subs -> PcStates]
  BY DEF NatsTypeOK
<1>2. CASE AppAddConsumer \/ Stop \/ StopAllSubscriptions \/ \E x \in Subjects : StopSubscription(x)
  BY <1>1, <1>2 DEF AppAddConsumer, Stop, StopAllSubscriptions, StopSubscription, Quiet, serverVars
<1>3. ASSUME NEW s \in Subs, StartSubscription(s) \/ PullSubscribe(s) \/ Check(s) \/ FetchFails(s)
      PROVE  Quiet
  <2>1. CASE StartSubscription(s)
    BY <1>1, <2>1 DEF StartSubscription, Goto, Quiet, PcStates
  <2>2. CASE PullSubscribe(s)
    BY <1>1, <2>2 DEF PullSubscribe, Goto, Quiet, PcStates, serverVars
  <2>3. CASE Check(s)
    BY <1>1, <2>3 DEF Check, Goto, Quiet, PcStates, serverVars
  <2>4. CASE FetchFails(s)
    BY <1>1, <2>4 DEF FetchFails, Goto, Quiet, PcStates, serverVars
  <2> QED
    BY <1>3, <2>1, <2>2, <2>3, <2>4
<1>4. ASSUME NEW s \in Subs, NextMsg(s) PROVE Quiet \/ Skip(s)
  BY <1>1, <1>4 DEF NextMsg, Goto, Quiet, Skip, PcStates, serverVars
<1> QED
  BY <1>2, <1>3, <1>4 DEF Next, Loop


MsgTypes ==
    /\ status \in [Msgs -> {"new", "stored", "acked"}]
    /\ pending \subseteq {m \in Msgs : status[m] = "stored"}
    /\ expired \subseteq Msgs
    /\ handled \in [Msgs -> 0 .. 2]
    /\ batch \in [Subs -> Seq(Msgs)]

\* With a stream, the parts about the messages: one step per kind, and under it
\* the parts of the invariant it can disturb.
LEMMA StreamStep ==
    ASSUME Inv, useStream, Next, UNCHANGED <<useStream, coreVars>>
    PROVE  MsgTypes' /\ pc' \in [Subs -> PcStates] /\ AckInv' /\ StreamInv' /\ OnceIfTimely'
<1> DEFINE Goal == MsgTypes' /\ pc' \in [Subs -> PcStates] /\ AckInv' /\ StreamInv' /\ OnceIfTimely'
<1>0. /\ MsgTypes /\ AckInv /\ OnceIfTimely /\ pc \in [Subs -> PcStates]
      /\ useStream' = useStream
  BY DEF Inv, NatsTypeOK, MsgTypes
<1>a. /\ \A s \in Subs : IsInjective(batch[s])
      /\ \A s \in Subs : Range(batch[s]) \subseteq pending \cup expired
      /\ \A s, t \in Subs : s # t => Range(batch[s]) \cap Range(batch[t]) \subseteq expired
      /\ \A m \in Msgs \ expired : handled[m] > 0 => status[m] = "acked" \/ Acks(m)
  BY DEF Inv, StreamInv
<1>1. CASE Quiet
  <2>1. MsgTypes' /\ pc' \in [Subs -> PcStates] /\ OnceIfTimely'
    BY <1>0, <1>1 DEF Quiet, MsgTypes, OnceIfTimely
  <2>2. AckInv'
    BY <1>0, <1>1 DEF Quiet, AckInv, AckedWasHandled, PcStates
  <2>3. \A m : Acks(m) => Acks(m)'
    BY <1>0, <1>1 DEF Quiet, Acks
  <2>4. StreamInv'
    BY <1>0, <1>a, <1>1, <2>3 DEF Quiet, StreamInv
  <2> QED
    BY <2>1, <2>2, <2>4
<1>2. ASSUME NEW m \in Msgs, Publish(m) PROVE Goal
  <2>1. /\ status[m] = "new" /\ status' = [status EXCEPT ![m] = "stored"]
        /\ UNCHANGED <<pending, expired, handled, pc, batch>>
    BY <1>2 DEF Publish
  <2>2. MsgTypes' /\ pc' \in [Subs -> PcStates] /\ OnceIfTimely'
    BY <1>0, <2>1 DEF MsgTypes, OnceIfTimely
  <2>3. AckInv'
    BY <1>0, <2>1 DEF AckInv, AckedWasHandled, MsgTypes
  <2>4. \A n : Acks(n) => Acks(n)'
    BY <2>1 DEF Acks
  <2>5. StreamInv'
    BY <1>0, <1>a, <2>1, <2>4 DEF StreamInv, MsgTypes
  <2> QED
    BY <2>2, <2>3, <2>5
<1>3. ASSUME NEW m \in Msgs, AckExpires(m) PROVE Goal
  <2>1. /\ pending' = pending \ {m} /\ expired' = expired \cup {m}
        /\ UNCHANGED <<status, handled, pc, batch>>
    BY <1>3 DEF AckExpires
  <2>2. MsgTypes' /\ pc' \in [Subs -> PcStates] /\ OnceIfTimely'
    BY <1>0, <2>1 DEF MsgTypes, OnceIfTimely
  <2>3. AckInv'
    BY <1>0, <2>1 DEF AckInv, AckedWasHandled
  <2>4. \A n : Acks(n) => Acks(n)'
    BY <2>1 DEF Acks
  <2>5. StreamInv'
    BY <1>0, <1>a, <2>1, <2>4 DEF StreamInv
  <2> QED
    BY <2>2, <2>3, <2>5
<1>4. ASSUME NEW s \in Subs, Skip(s) PROVE Goal
  <2>1. /\ pc[s] = "batch" /\ batch[s] \in Seq(Msgs) /\ batch[s] # <<>>
        /\ batch' = [batch EXCEPT ![s] = Tail(@)]
        /\ UNCHANGED <<status, pending, expired, handled, pc>>
    BY <1>0, <1>4 DEF Skip, MsgTypes
  <2>2. /\ Tail(batch[s]) \in Seq(Msgs)
        /\ Range(Tail(batch[s])) \subseteq Range(batch[s]) /\ IsInjective(Tail(batch[s]))
    BY <1>a, <2>1, HeadAndTail
  <2>3. MsgTypes' /\ pc' \in [Subs -> PcStates] /\ OnceIfTimely'
    BY <1>0, <2>1, <2>2 DEF MsgTypes, OnceIfTimely
  <2>4. AckInv'
    BY <1>0, <2>1 DEF AckInv, AckedWasHandled, MsgTypes
  <2>5. \A n : Acks(n) => Acks(n)'
    BY <1>0, <2>1 DEF Acks, MsgTypes
  <2>6. StreamInv'
    BY <1>0, <1>a, <2>1, <2>2, <2>5 DEF StreamInv, MsgTypes
  <2> QED
    BY <2>3, <2>4, <2>6
<1>5. ASSUME NEW s \in Subs, HandlerPanics(s) PROVE Goal
  <2>1. /\ pc[s] = "handler" /\ pc' = [pc EXCEPT ![s] = "exited"]
        /\ batch' = [batch EXCEPT ![s] = <<>>]
        /\ UNCHANGED <<status, pending, expired, handled>>
    BY <1>5 DEF HandlerPanics, Goto, serverVars
  <2>2. Range(<<>>) = {} /\ IsInjective(<<>>) /\ <<>> \in Seq(Msgs)
    BY Empty
  <2>3. MsgTypes' /\ pc' \in [Subs -> PcStates] /\ OnceIfTimely'
    BY <1>0, <2>1, <2>2 DEF MsgTypes, OnceIfTimely, PcStates
  <2>4. AckInv'
    BY <1>0, <2>1 DEF AckInv, AckedWasHandled, MsgTypes
  <2>5. \A n : Acks(n) => Acks(n)'
    BY <1>0, <2>1 DEF Acks, MsgTypes
  <2>6. StreamInv'
    BY <1>0, <1>a, <2>1, <2>2, <2>5 DEF StreamInv, MsgTypes
  <2> QED
    BY <2>3, <2>4, <2>6
<1>6. ASSUME NEW s \in Subs, NEW S \in SUBSET Available, Fetch(s, S) PROVE Goal
  <2>1. PICK q \in SetToSeqs(S) : batch' = [batch EXCEPT ![s] = q]
    BY <1>6 DEF Fetch
  <2>2. /\ pc[s] = "fetch" /\ pc' = [pc EXCEPT ![s] = "batch"]
        /\ pending' = pending \cup S
        /\ UNCHANGED <<status, expired, handled>>
    BY <1>6 DEF Fetch, Goto
  <2>3. S \subseteq {m \in Msgs \ pending : status[m] = "stored"}
    BY DEF Available
  <2>4. q \in Seq(S) /\ IsInjective(q) /\ Range(q) \subseteq S
    BY <1>6, Orders DEF Fetch
  <2>5. q \in Seq(Msgs)
    BY <2>3, <2>4
  <2>6. MsgTypes' /\ pc' \in [Subs -> PcStates] /\ OnceIfTimely'
    BY <1>0, <2>1, <2>2, <2>3, <2>5 DEF MsgTypes, OnceIfTimely, PcStates
  <2>7. AckInv'
    BY <1>0, <2>1, <2>2 DEF AckInv, AckedWasHandled, MsgTypes
  <2>8. \A n : Acks(n) => Acks(n)'
    BY <1>0, <2>1, <2>2 DEF Acks, MsgTypes
  <2>9. StreamInv'
    <3>1. /\ \A t \in Subs : batch'[t] = IF t = s THEN q ELSE batch[t]
      BY <1>0, <2>1 DEF MsgTypes
    <3>2. \A t \in Subs : IsInjective(batch[t])' /\ Range(batch'[t]) \subseteq pending' \cup expired'
      BY <1>a, <2>2, <2>4, <3>1
    <3>3. \A t \in Subs : S \cap Range(batch[t]) \subseteq expired
      BY <1>a, <2>3
    <3>4. \A t, u \in Subs : t # u => Range(batch'[t]) \cap Range(batch'[u]) \subseteq expired'
      BY <1>a, <2>2, <2>4, <3>1, <3>3
    <3> QED
      BY <1>0, <1>a, <2>2, <2>8, <3>2, <3>4 DEF StreamInv
  <2> QED
    BY <2>6, <2>7, <2>9
<1>7. ASSUME NEW s \in Subs, HandlerReturns(s) PROVE Goal
  <2> DEFINE m == Head(batch[s])
  <2>1. /\ pc[s] = "handler" /\ pc' = [pc EXCEPT ![s] = "ack"]
        /\ handled' = [handled EXCEPT ![m] = IF @ < 2 THEN @ + 1 ELSE @]
        /\ UNCHANGED <<status, pending, expired, batch>>
    BY <1>7 DEF HandlerReturns, Goto, serverVars
  <2>2. batch[s] # <<>> /\ batch[s] \in Seq(Msgs)
    BY <1>0, <2>1 DEF AckInv, MsgTypes
  <2>3. m \in Msgs /\ m \in Range(batch[s])
    BY <2>2, HeadAndTail
  <2>4. m \notin expired => handled[m] = 0
    <3>0. handled[m] \in 0 .. 2
      BY <1>0, <2>3 DEF MsgTypes
    <3> HIDE DEF m
    <3>1. SUFFICES ASSUME m \notin expired, handled[m] > 0 PROVE FALSE
      BY <3>0
    <3>2. m \in pending /\ status[m] = "stored"
      BY <1>0, <1>a, <2>3, <3>1 DEF MsgTypes
    <3>3. PICK t \in Subs : pc[t] = "ack" /\ Head(batch[t]) = m
      BY <1>a, <2>3, <3>1, <3>2 DEF Acks
    <3>4. t # s /\ m \in Range(batch[t])
      <4>1. t # s /\ batch[t] \in Seq(Msgs) /\ batch[t] # <<>>
        BY <1>0, <2>1, <3>3 DEF AckInv, MsgTypes
      <4> QED
        BY <3>3, <4>1, HeadAndTail
    <3> QED
      BY <1>a, <2>3, <3>1, <3>4
  <2> HIDE DEF m
  <2>5. /\ handled' \in [Msgs -> 0 .. 2] /\ handled'[m] > 0
        /\ \A n \in Msgs \ {m} : handled'[n] = handled[n]
        /\ handled[m] = 0 => handled'[m] = 1
    BY <1>0, <2>1, <2>3 DEF MsgTypes
  <2>6. MsgTypes' /\ pc' \in [Subs -> PcStates]
    BY <1>0, <2>1, <2>5 DEF MsgTypes, PcStates
  <2>7. \A n \in Msgs : handled[n] > 0 => handled'[n] > 0
    BY <2>5
  <2>8. AckInv'
    <3>1. \A t \in Subs : pc'[t] = IF t = s THEN "ack" ELSE pc[t]
      BY <1>0, <2>1
    <3>2. \A t \in Subs : batch[t] # <<>> => Head(batch[t]) \in Msgs
      BY <1>0, HeadAndTail DEF MsgTypes
    <3>3. \A t \in Subs : (pc[t] \in {"handler", "ack", "core handler"} => batch[t] # <<>>)'
      BY <1>0, <2>1, <2>2, <3>1 DEF AckInv
    <3>4. ASSUME NEW t \in Subs, pc'[t] = "ack" PROVE handled'[Head(batch[t])] > 0
      <4>1. CASE t = s
        BY <2>5, <4>1 DEF m
      <4>2. CASE t # s
        BY <1>0, <2>7, <3>1, <3>2, <3>4, <4>2 DEF AckInv
      <4> QED
        BY <4>1, <4>2
    <3>5. AckedWasHandled'
      BY <1>0, <2>1, <2>7 DEF AckInv, AckedWasHandled
    <3> QED
      BY <2>1, <3>3, <3>4, <3>5 DEF AckInv
  <2>9. \A n : n = m \/ Acks(n) => Acks(n)'
    BY <1>0, <2>1 DEF Acks, m
  <2>10. StreamInv'
    <3>1. \A n \in Msgs \ expired : handled'[n] > 0 => status[n] = "acked" \/ Acks(n)'
      <4> TAKE n \in Msgs \ expired
      <4>1. n = m => Acks(n)'
        BY <2>9
      <4>2. n # m => handled'[n] = handled[n]
        BY <2>5
      <4> QED
        BY <1>a, <2>9, <4>1, <4>2
    <3> QED
      BY <1>a, <2>1, <3>1 DEF StreamInv
  <2>11. OnceIfTimely'
    BY <1>0, <2>1, <2>4, <2>5 DEF OnceIfTimely
  <2> QED
    BY <2>6, <2>8, <2>10, <2>11
<1>8. ASSUME NEW s \in Subs, Ack(s) PROVE Goal
  <2> DEFINE m == Head(batch[s])
             r == Tail(batch[s])
  <2>1. /\ pc[s] = "ack" /\ pc' = [pc EXCEPT ![s] = "batch"]
        /\ batch' = [batch EXCEPT ![s] = r]
        /\ UNCHANGED handled
        /\ \/ /\ status' = [status EXCEPT ![m] = "acked"] /\ pending' = pending \ {m} /\ expired' = expired
           \/ /\ expired' = expired \cup {m} /\ status' = status /\ pending' = pending
    BY <1>8 DEF Ack, Goto
  <2>2. /\ batch[s] \in Seq(Msgs) /\ batch[s] # <<>> /\ handled[m] > 0
    BY <1>0, <2>1 DEF AckInv, MsgTypes
  <2>3. /\ m \in Msgs /\ r \in Seq(Msgs) /\ IsInjective(r) /\ m \notin Range(r)
        /\ Range(batch[s]) = {m} \cup Range(r)
    BY <1>a, <2>2, HeadAndTail
  <2>4. \A n : n # m /\ Acks(n) => Acks(n)'
    BY <1>0, <2>1 DEF Acks, MsgTypes
  <2>5. \A n \in Msgs \ {m} : status[n] = "acked" => status'[n] = "acked"
    BY <1>0, <2>1 DEF MsgTypes
  <2>6. status'[m] = "acked" \/ m \in expired'
    BY <1>0, <2>1, <2>3 DEF MsgTypes
  <2>7. AckInv'
    <3>1. \A t \in Subs : (pc[t] \in {"handler", "ack", "core handler"} => t # s /\ pc[t] = pc[t])'
      BY <1>0, <2>1
    <3>2. \A t \in Subs : t # s => batch'[t] = batch[t] /\ pc'[t] = pc[t]
      BY <1>0, <2>1 DEF MsgTypes
    <3>3. AckedWasHandled'
      BY <1>0, <2>1, <2>2 DEF AckInv, AckedWasHandled, MsgTypes
    <3> QED
      BY <1>0, <2>1, <3>1, <3>2, <3>3 DEF AckInv
  <2> HIDE DEF m, r
  <2>8. MsgTypes' /\ pc' \in [Subs -> PcStates]
    BY <1>0, <2>1, <2>3 DEF MsgTypes, PcStates
  <2>9. OnceIfTimely'
    BY <1>0, <2>1 DEF OnceIfTimely
  <2>10. StreamInv'
    <3>1. \A t \in Subs : batch'[t] = IF t = s THEN r ELSE batch[t]
      BY <1>0, <2>1 DEF MsgTypes
    <3>2. \A t \in Subs : IsInjective(batch'[t])
      BY <1>a, <2>3, <3>1
    <3>3. \A t, u \in Subs : t # u => Range(batch'[t]) \cap Range(batch'[u]) \subseteq expired'
      BY <1>a, <2>1, <2>3, <3>1
    <3>4. \A t \in Subs : Range(batch'[t]) \subseteq pending' \cup expired'
      BY <1>a, <2>1, <2>3, <3>1
    <3>5. \A n \in Msgs \ expired' : handled'[n] > 0 => status'[n] = "acked" \/ Acks(n)'
      BY <1>a, <2>1, <2>4, <2>5, <2>6
    <3> QED
      BY <3>2, <3>3, <3>4, <3>5 DEF StreamInv
  <2> QED
    BY <2>7, <2>8, <2>9, <2>10
<1> QED
  <2>1. NatsTypeOK
    BY DEF Inv
  <2> QED
    BY <1>1, <1>2, <1>3, <1>4, <1>5, <1>6, <1>7, <1>8, <2>1, StreamKinds

------------------------------------------------------------------------------
(* The list of subscriptions.                                              *)

\* What a call may do to the list, in both modes.
ListKinds ==
    /\ \A s \in Subs : Called(s) => Called(s)'
    /\ \/ UNCHANGED listVars
       \/ \E s \in Subs : /\ subject' = Append(subject, s) /\ active' = active \cup {s}
                          /\ UNCHANGED halfStopped
                          /\ ~Called(s) /\ Called(s)'
       \/ \E i \in DOMAIN subject : /\ active' = active \ {subject[i]} /\ subject' = RemoveAt(subject, i)
                                    /\ UNCHANGED halfStopped
       \/ \E k \in 1 .. Len(subject) :
            LET stopped == {subject[i] : i \in 1 .. k} IN
            /\ active' = active \ stopped
            /\ \/ k = Len(subject) /\ subject' = <<>> /\ UNCHANGED halfStopped
               \/ UNCHANGED subject /\ halfStopped' = halfStopped \cup stopped

ListTypes == subject \in Seq(Subs) /\ active \subseteq Subs /\ halfStopped \subseteq Subs

\* An element leaves the list with its subscription, except in a StopAll that
\* fails, which notes it.
LEMMA ListStep ==
    ASSUME ListTypes, ListInv, ListKinds
    PROVE  ListTypes' /\ ListInv'
<1> DEFINE Goal == ListTypes' /\ ListInv'
<1> USE DEF ListTypes, ListInv
<1>0. /\ Range(subject) = {subject[i] : i \in 1 .. Len(subject)} /\ Range(subject) \subseteq Subs
      /\ \A s \in Subs : Called(s) => Called(s)'
  <2>1. Len(subject) \in Nat /\ DOMAIN subject = 1 .. Len(subject) /\ \A i \in 1 .. Len(subject) : subject[i] \in Subs
    BY LenProperties, ElementOfSeq
  <2> QED
    BY <2>1 DEF Range, ListKinds
<1>1. CASE UNCHANGED listVars
  BY <1>0, <1>1 DEF listVars
<1>2. ASSUME NEW s \in Subs, subject' = Append(subject, s), active' = active \cup {s},
             UNCHANGED halfStopped, ~Called(s), Called(s)'
      PROVE  Goal
  <2>1. /\ subject' \in Seq(Subs) /\ Range(subject') = Range(subject) \cup {s}
        /\ IsInjective(subject) /\ s \notin Range(subject) => IsInjective(subject')
    BY <1>2, AppendRange
  <2> QED
    BY <1>0, <1>2, <2>1
<1>3. ASSUME NEW i \in DOMAIN subject, active' = active \ {subject[i]},
             subject' = RemoveAt(subject, i), UNCHANGED halfStopped
      PROVE  Goal
  <2>1. subject' \in Seq(Subs) /\ IsInjective(subject') /\ Range(subject') = Range(subject) \ {subject[i]}
    BY <1>3, RemoveAtRange
  <2> QED
    BY <1>0, <1>3, <2>1
<1>4. ASSUME NEW k \in 1 .. Len(subject), active' = active \ {subject[i] : i \in 1 .. k},
             \/ k = Len(subject) /\ subject' = <<>> /\ UNCHANGED halfStopped
             \/ UNCHANGED subject /\ halfStopped' = halfStopped \cup {subject[i] : i \in 1 .. k}
      PROVE  Goal
  <2>1. {subject[i] : i \in 1 .. k} \subseteq Range(subject)
    BY <1>0, LenProperties
  <2>2. CASE k = Len(subject) /\ subject' = <<>> /\ UNCHANGED halfStopped
    BY <1>0, <1>4, <2>2, Empty
  <2>3. CASE UNCHANGED subject /\ halfStopped' = halfStopped \cup {subject[i] : i \in 1 .. k}
    BY <1>0, <1>4, <2>1, <2>3
  <2> QED
    BY <1>4, <2>2, <2>3
<1> QED
  BY <1>1, <1>2, <1>3, <1>4 DEF ListKinds

LEMMA StreamList ==
    ASSUME pc \in [Subs -> PcStates], Next
    PROVE  ListKinds
<1> USE DEF Called
<1>1. ASSUME NEW m \in Msgs, Publish(m) \/ AckExpires(m) PROVE UNCHANGED <<listVars, pc>>
  BY <1>1 DEF Publish, AckExpires
<1>2. CASE AppAddConsumer \/ Stop
  BY <1>2 DEF AppAddConsumer, Stop, ListKinds
<1>3. CASE StopAllSubscriptions
  BY <1>3 DEF StopAllSubscriptions, ListKinds
<1>4. ASSUME NEW x \in Subjects, StopSubscription(x) PROVE ListKinds
  BY <1>4 DEF StopSubscription, ListKinds
<1>5. ASSUME NEW s \in Subs, StartSubscription(s) PROVE ListKinds
  BY <1>5 DEF StartSubscription, Goto, ListKinds, listVars
<1>6. ASSUME NEW s \in Subs, PullSubscribe(s) PROVE ListKinds
  BY <1>6 DEF PullSubscribe, Goto, ListKinds
<1>7. ASSUME NEW s \in Subs, Loop(s) \/ HandlerPanics(s) PROVE ListKinds
  <2>1. UNCHANGED listVars
    BY <1>7 DEF Loop, HandlerPanics, Check, FetchFails, NextMsg, HandlerReturns, Ack, Fetch
  <2>2. \/ UNCHANGED pc
        \/ \E l \in PcStates \ {"idle", "subscribe"} : pc' = [pc EXCEPT ![s] = l]
    BY <1>7 DEF Loop, HandlerPanics, Check, FetchFails, NextMsg, HandlerReturns, Ack, Fetch, Goto, PcStates
  <2> QED
    BY <2>1, <2>2 DEF ListKinds
<1> QED
  BY <1>1, <1>2, <1>3, <1>4, <1>5, <1>6, <1>7 DEF Next, ListKinds

------------------------------------------------------------------------------
(* Without a stream.                                                       *)

LEMMA CoreList ==
    ASSUME pc \in [Subs -> CorePcs], CoreNext
    PROVE  ListKinds
<1> USE DEF Called
<1>1. ASSUME NEW m \in Msgs, CorePublish(m) PROVE UNCHANGED <<listVars, pc>>
  BY <1>1 DEF CorePublish, vars
<1>2. ASSUME NEW s \in Subs, Deliver(s) \/ Callback(s) PROVE UNCHANGED <<listVars, pc>>
  BY <1>2 DEF Deliver, Callback, vars
<1>3. ASSUME NEW s \in Subs, QueueSubscribe(s) PROVE ListKinds
  BY <1>3 DEF QueueSubscribe, Goto, ListKinds
<1>4. ASSUME NEW s \in Subs, CoreLoop(s) \/ CoreHandlerPanics(s) PROVE ListKinds
  <2>1. UNCHANGED listVars
    BY <1>4 DEF CoreLoop, CoreHandlerPanics, ContextDone, Receive, CoreHandlerReturns
  <2>2. \E l \in CorePcs \ {"idle", "subscribe"} : pc' = [pc EXCEPT ![s] = l]
    BY <1>4 DEF CoreLoop, CoreHandlerPanics, ContextDone, Receive, CoreHandlerReturns, Goto, CorePcs
  <2> QED
    BY <2>1, <2>2 DEF ListKinds
<1>5. CASE CoreStop
  <2>1. CASE StopAllSubscriptions
    BY <2>1 DEF StopAllSubscriptions, ListKinds
  <2>2. ASSUME NEW x \in Subjects, StopSubscription(x) PROVE ListKinds
    BY <2>2 DEF StopSubscription, ListKinds
  <2>3. CASE Stop
    BY <2>3 DEF Stop, ListKinds
  <2> QED
    BY <1>5, <2>1, <2>2, <2>3 DEF CoreStop
<1> QED
  BY <1>1, <1>2, <1>3, <1>4, <1>5 DEF CoreNext, ListKinds

\* Nothing is received or handled: at most the library drops messages, and a
\* goroutine that has none goes on or ends.
CoreQuiet ==
    /\ pc' \in [Subs -> CorePcs]
    /\ \A s \in Subs : pc'[s] = pc[s] \/ (pc[s] # "core handler" /\ pc'[s] # "core handler")
    /\ UNCHANGED <<handled, batch, sent, held, ch>>
    /\ inbox' \in [Subs -> Seq(Msgs)]
    /\ \A s \in Subs : inbox'[s] = inbox[s] \/ inbox'[s] = <<>>

LEMMA CoreKinds ==
    ASSUME NatsTypeOK, ~useStream, CoreNext
    PROVE  /\ UNCHANGED <<status, pending, expired>>
           /\ \/ CoreQuiet
              \/ \E m \in Msgs : CorePublish(m)
              \/ \E s \in Subs :
                    \/ Deliver(s) \/ Callback(s) \/ Receive(s)
                    \/ CoreHandlerReturns(s) \/ CoreHandlerPanics(s)
<1>1. pc \in [Subs -> CorePcs] /\ inbox \in [Subs -> Seq(Msgs)]
  BY DEF NatsTypeOK
<1>2. ASSUME NEW S, Drop(S)
      PROVE  /\ inbox' \in [Subs -> Seq(Msgs)]
             /\ \A s \in Subs : inbox'[s] = inbox[s] \/ inbox'[s] = <<>>
  BY <1>1, <1>2, Empty DEF Drop
<1>3. CASE CoreStop /\ UNCHANGED <<sent, held, ch>>
  <2>1. UNCHANGED <<status, pending, expired, handled, batch, pc>>
    BY <1>3 DEF CoreStop, StopAllSubscriptions, StopSubscription, Stop, serverVars
  <2>2. \E S : Drop(S)
    BY <1>3 DEF CoreStop
  <2> QED
    <3>1. /\ inbox' \in [Subs -> Seq(Msgs)]
          /\ \A s \in Subs : inbox'[s] = inbox[s] \/ inbox'[s] = <<>>
      BY <1>2, <2>2
    <3>2. pc' \in [Subs -> CorePcs] /\ \A s \in Subs : pc'[s] = pc[s]
      BY <1>1, <2>1
    <3>3. CoreQuiet
      BY <1>3, <2>1, <3>1, <3>2 DEF CoreQuiet
    <3> QED
      BY <2>1, <3>3
<1>4. ASSUME NEW s \in Subs, QueueSubscribe(s) \/ ContextDone(s)
      PROVE  CoreQuiet /\ UNCHANGED <<status, pending, expired>>
  <2>1. /\ UNCHANGED <<status, pending, expired, handled, batch, sent, inbox, held, ch>>
        /\ pc[s] \in {"idle", "select"}
        /\ \E l \in {"select", "failed", "exited"} : pc' = [pc EXCEPT ![s] = l]
    BY <1>4 DEF QueueSubscribe, ContextDone, Goto, serverVars, coreVars
  <2>2. pc' \in [Subs -> CorePcs]
    BY <1>1, <2>1 DEF CorePcs
  <2>3. \A t \in Subs : pc'[t] = pc[t] \/ (pc[t] # "core handler" /\ pc'[t] # "core handler")
    BY <1>1, <2>1
  <2>4. inbox' \in [Subs -> Seq(Msgs)] /\ \A t \in Subs : inbox'[t] = inbox[t]
    BY <1>1, <2>1
  <2> QED
    BY <2>1, <2>2, <2>3, <2>4 DEF CoreQuiet
<1>5. ASSUME NEW m \in Msgs, CorePublish(m) PROVE UNCHANGED <<status, pending, expired>>
  BY <1>5 DEF CorePublish, vars, serverVars
<1>6. ASSUME NEW s \in Subs, Deliver(s) \/ Callback(s) \/ Receive(s) \/ CoreHandlerReturns(s) \/ CoreHandlerPanics(s)
      PROVE  UNCHANGED <<status, pending, expired>>
  BY <1>6 DEF Deliver, Callback, Receive, CoreHandlerReturns, CoreHandlerPanics, vars, serverVars
<1> QED
  BY <1>3, <1>4, <1>5, <1>6 DEF CoreNext, CoreLoop

CoreTypes ==
    /\ handled \in [Msgs -> 0 .. 2] /\ sent \subseteq Msgs
    /\ pc \in [Subs -> CorePcs]
    /\ batch \in [Subs -> Seq(Msgs)]
    /\ inbox \in [Subs -> Seq(Msgs)]
    /\ held \in [Subs -> {<<>>} \cup {<<m>> : m \in Msgs}]
    /\ ch \in [Subs -> Seq(Msgs)]

\* What is on its way to s, and the handler of s, are in order.
Orderly(s) ==
    /\ IsInjective(inbox[s]) /\ IsInjective(held[s]) /\ IsInjective(ch[s]) /\ IsInjective(batch[s])
    /\ pc[s] # "core handler" => batch[s] = <<>>
    /\ pc[s] = "core handler" => batch[s] # <<>>
    /\ Disjoint(s)

\* From the parts to the invariant: a step concerns the messages of one
\* subscription at most, and takes none from elsewhere that was not unsent.
LEMMA CoreParts ==
    ASSUME Inv, ~useStream, UNCHANGED <<useStream, status, pending, expired>>, CoreTypes',
           \A s \in Subs : Orderly(s)',
           \A s \in Subs : Way(s)' \subseteq Way(s) \cup (sent' \ sent),
           \A s, t \in Subs : s # t => (Way(s) \cap Way(t))' \cap (sent' \ sent) = {},
           sent \subseteq sent',
           \A m \in Msgs : handled'[m] # handled[m] => handled'[m] = 1 /\ m \in sent /\ \A s \in Subs : m \notin Way(s)'
    PROVE  AckInv' /\ CoreInv' /\ StreamInv' /\ OnceIfTimely'
<1>1. /\ expired = {} /\ \A m \in Msgs : status[m] = "new"
      /\ \A s \in Subs : \A m \in Way(s) : m \in sent /\ handled[m] = 0
      /\ \A s, t \in Subs : s # t => Way(s) \cap Way(t) = {}
      /\ \A m \in Msgs \ sent : handled[m] = 0
  BY DEF Inv, CoreInv
<1>2. /\ sent \subseteq Msgs /\ handled \in [Msgs -> 0 .. 2] /\ sent' \subseteq Msgs
      /\ OnceIfTimely
  BY DEF Inv, NatsTypeOK, CoreTypes
<1>3. \A s \in Subs : \A m \in Way(s)' : m \in sent' /\ handled'[m] = 0
  BY <1>1, <1>2
<1>4. \A s, t \in Subs : s # t => Way(s)' \cap Way(t)' = {}
  BY <1>1
<1>5. \A m \in Msgs \ sent' : handled'[m] = 0
  BY <1>1
<1>6. CoreInv'
  BY <1>1, <1>3, <1>4, <1>5 DEF CoreInv, Orderly
<1>7. AckInv'
  BY <1>1 DEF AckInv, AckedWasHandled, CoreTypes, CorePcs, Orderly
<1>8. OnceIfTimely'
  BY <1>2 DEF OnceIfTimely
<1> QED
  BY <1>6, <1>7, <1>8 DEF StreamInv

LEMMA CoreStep ==
    ASSUME Inv, ~useStream, CoreNext, UNCHANGED useStream
    PROVE  /\ UNCHANGED <<status, pending, expired>>
           /\ CoreTypes' /\ AckInv' /\ CoreInv' /\ StreamInv' /\ OnceIfTimely'
<1> DEFINE Goal == CoreTypes' /\ AckInv' /\ CoreInv' /\ StreamInv' /\ OnceIfTimely'
<1>0. CoreTypes /\ NatsTypeOK /\ UNCHANGED <<useStream, status, pending, expired>>
  BY CoreKinds DEF Inv, NatsTypeOK, CoreTypes
<1>a. /\ \A s \in Subs : Orderly(s)
      /\ \A s \in Subs : \A m \in Way(s) : m \in sent /\ handled[m] = 0
      /\ \A s, t \in Subs : s # t => Way(s) \cap Way(t) = {}
  BY DEF Inv, CoreInv, AckInv, Orderly
<1>b. Range(<<>>) = {} /\ IsInjective(<<>>) /\ <<>> \in Seq(Msgs)
  BY Empty
\* A step that sends nothing and handles nothing.
<1>c. ASSUME CoreTypes', UNCHANGED <<sent, handled>>,
             \A s \in Subs : Orderly(s)' /\ Way(s)' \subseteq Way(s)
      PROVE  Goal
  BY <1>0, <1>c, CoreParts
<1>1. CASE CoreQuiet
  <2>1. CoreTypes'
    BY <1>0, <1>1 DEF CoreQuiet, CoreTypes
  <2>2. \A s \in Subs : Orderly(s)' /\ Way(s)' \subseteq Way(s)
    <3> TAKE s \in Subs
    <3>1. /\ held'[s] = held[s] /\ ch'[s] = ch[s] /\ batch'[s] = batch[s]
          /\ inbox'[s] = inbox[s] \/ inbox'[s] = <<>>
          /\ pc'[s] = pc[s] \/ (pc[s] # "core handler" /\ pc'[s] # "core handler")
      BY <1>1 DEF CoreQuiet
    <3>2. Orderly(s)
      BY <1>a
    <3> QED
      BY <1>b, <3>1, <3>2 DEF Orderly, Way, Disjoint
  <2> QED
    <3>1. UNCHANGED <<sent, handled>>
      BY <1>1 DEF CoreQuiet
    <3> QED
      BY <1>0, <1>c, <2>1, <2>2, <3>1
<1>2. ASSUME NEW s \in Subs, Deliver(s) PROVE Goal
  <2>1. /\ inbox[s] \in Seq(Msgs) /\ inbox[s] # <<>> /\ held[s] = <<>>
        /\ held' = [held EXCEPT ![s] = <<Head(inbox[s])>>]
        /\ inbox' = [inbox EXCEPT ![s] = Tail(@)]
        /\ UNCHANGED <<handled, pc, batch, sent, ch>>
    BY <1>0, <1>2 DEF Deliver, CoreTypes, vars
  <2> DEFINE h == Head(inbox[s])
             r == Tail(inbox[s])
  <2>2. /\ h \in Msgs /\ r \in Seq(Msgs) /\ Range(inbox[s]) = {h} \cup Range(r)
        /\ Orderly(s) => IsInjective(r) /\ h \notin Range(r)
        /\ Range(<<h>>) = {h} /\ IsInjective(<<h>>)
    BY <2>1, HeadAndTail, Single DEF Orderly
  <2> HIDE DEF h, r
  <2>3. CoreTypes'
    BY <1>0, <2>1, <2>2 DEF CoreTypes, h, r
  <2>4. ASSUME NEW t \in Subs PROVE Orderly(t)' /\ Way(t)' \subseteq Way(t)
    <3>1. /\ held'[t] = IF t = s THEN <<h>> ELSE held[t]
          /\ inbox'[t] = IF t = s THEN r ELSE inbox[t]
          /\ ch'[t] = ch[t] /\ batch'[t] = batch[t] /\ pc'[t] = pc[t]
      BY <1>0, <2>1 DEF CoreTypes, h, r
    <3>2. Orderly(t)
      BY <1>a
    <3> QED
      BY <1>b, <2>1, <2>2, <3>1, <3>2 DEF Orderly, Way, Disjoint
  <2> QED
    BY <1>c, <2>1, <2>3, <2>4
<1>3. ASSUME NEW s \in Subs, Callback(s) PROVE Goal
  <2>1. PICK m \in Msgs : held[s] = <<m>>
    BY <1>0, <1>3 DEF Callback, CoreTypes
  <2>2. /\ held' = [held EXCEPT ![s] = <<>>] /\ ch' = [ch EXCEPT ![s] = @ \o <<m>>]
        /\ ch[s] \in Seq(Msgs)
        /\ UNCHANGED <<handled, pc, batch, sent, inbox>>
    BY <1>0, <1>3, <2>1 DEF Callback, CoreTypes, vars
  <2> DEFINE c == Append(ch[s], m)
  <2>3. /\ c = ch[s] \o <<m>> /\ c \in Seq(Msgs) /\ Range(c) = Range(ch[s]) \cup {m}
        /\ Range(<<m>>) = {m}
        /\ Orderly(s) => IsInjective(c)
    <3>1. c = ch[s] \o <<m>>
      BY <2>2, AppendIsConcat
    <3>2. Range(<<m>>) = {m}
      BY Single
    <3>3. Orderly(s) => IsInjective(ch[s]) /\ m \notin Range(ch[s])
      BY <2>1, <3>2 DEF Orderly, Disjoint
    <3>4. /\ c \in Seq(Msgs) /\ Range(c) = Range(ch[s]) \cup {m}
          /\ IsInjective(ch[s]) /\ m \notin Range(ch[s]) => IsInjective(c)
      BY <2>2, AppendRange
    <3> QED
      BY <3>1, <3>2, <3>3, <3>4
  <2> HIDE DEF c
  <2>4. CoreTypes'
    BY <1>0, <2>2, <2>3 DEF CoreTypes
  <2>5. ASSUME NEW t \in Subs PROVE Orderly(t)' /\ Way(t)' \subseteq Way(t)
    <3>1. /\ held'[t] = IF t = s THEN <<>> ELSE held[t]
          /\ ch'[t] = IF t = s THEN c ELSE ch[t]
          /\ inbox'[t] = inbox[t] /\ batch'[t] = batch[t] /\ pc'[t] = pc[t]
      BY <1>0, <2>2, <2>3 DEF CoreTypes
    <3>2. Orderly(t)
      BY <1>a
    <3> QED
      BY <1>b, <2>1, <2>3, <3>1, <3>2 DEF Orderly, Way, Disjoint
  <2> QED
    BY <1>c, <2>2, <2>4, <2>5
<1>4. ASSUME NEW s \in Subs, Receive(s) PROVE Goal
  <2>1. /\ pc[s] = "select" /\ ch[s] \in Seq(Msgs) /\ ch[s] # <<>>
        /\ batch' = [batch EXCEPT ![s] = <<Head(ch[s])>>]
        /\ ch' = [ch EXCEPT ![s] = Tail(@)]
        /\ pc' = [pc EXCEPT ![s] = "core handler"]
        /\ UNCHANGED <<handled, sent, inbox, held>>
    BY <1>0, <1>4 DEF Receive, Goto, CoreTypes
  <2> DEFINE h == Head(ch[s])
             r == Tail(ch[s])
  <2>2. /\ h \in Msgs /\ r \in Seq(Msgs) /\ Range(ch[s]) = {h} \cup Range(r)
        /\ Orderly(s) => IsInjective(r) /\ h \notin Range(r)
        /\ Range(<<h>>) = {h} /\ IsInjective(<<h>>) /\ <<h>> \in Seq(Msgs) /\ <<h>> # <<>>
    BY <2>1, HeadAndTail, Single DEF Orderly
  <2> HIDE DEF h, r
  <2>3. CoreTypes'
    BY <1>0, <2>1, <2>2 DEF CoreTypes, h, r, CorePcs
  <2>4. ASSUME NEW t \in Subs PROVE Orderly(t)' /\ Way(t)' \subseteq Way(t)
    <3>1. /\ batch'[t] = IF t = s THEN <<h>> ELSE batch[t]
          /\ ch'[t] = IF t = s THEN r ELSE ch[t]
          /\ pc'[t] = IF t = s THEN "core handler" ELSE pc[t]
          /\ inbox'[t] = inbox[t] /\ held'[t] = held[t]
      BY <1>0, <2>1 DEF CoreTypes, h, r
    <3>2. Orderly(t)
      BY <1>a
    <3> QED
      BY <1>b, <2>1, <2>2, <3>1, <3>2 DEF Orderly, Way, Disjoint
  <2> QED
    BY <1>c, <2>1, <2>3, <2>4
\* The goroutine of s lets go of its message.
<1>d. ASSUME NEW s \in Subs, NEW l \in {"select", "exited"},
             pc[s] = "core handler", pc' = [pc EXCEPT ![s] = l],
             batch' = [batch EXCEPT ![s] = <<>>], UNCHANGED <<inbox, held, ch>>
      PROVE  /\ pc' \in [Subs -> CorePcs] /\ batch' \in [Subs -> Seq(Msgs)]
             /\ \A t \in Subs : Orderly(t)' /\ Way(t)' \subseteq Way(t)
             /\ Way(s)' \cap Range(batch[s]) = {}
  <2>1. pc' \in [Subs -> CorePcs] /\ batch' \in [Subs -> Seq(Msgs)]
    BY <1>0, <1>b, <1>d DEF CoreTypes, CorePcs
  <2>2. ASSUME NEW t \in Subs
        PROVE  /\ Orderly(t)' /\ Way(t)' \subseteq Way(t)
               /\ t = s => Way(t)' \cap Range(batch[t]) = {}
    <3>1. /\ batch'[t] = IF t = s THEN <<>> ELSE batch[t]
          /\ pc'[t] = IF t = s THEN l ELSE pc[t]
          /\ inbox'[t] = inbox[t] /\ held'[t] = held[t] /\ ch'[t] = ch[t]
      BY <1>0, <1>d DEF CoreTypes
    <3>2. Orderly(t)
      BY <1>a
    <3> QED
      BY <1>b, <1>d, <3>1, <3>2 DEF Orderly, Way, Disjoint
  <2> QED
    BY <2>1, <2>2
<1>5. ASSUME NEW s \in Subs, CoreHandlerPanics(s) PROVE Goal
  <2>1. /\ pc[s] = "core handler" /\ pc' = [pc EXCEPT ![s] = "exited"]
        /\ batch' = [batch EXCEPT ![s] = <<>>]
        /\ UNCHANGED <<handled, sent, inbox, held, ch>>
    BY <1>5 DEF CoreHandlerPanics, Goto, coreVars
  <2>2. /\ pc' \in [Subs -> CorePcs] /\ batch' \in [Subs -> Seq(Msgs)]
        /\ \A t \in Subs : Orderly(t)' /\ Way(t)' \subseteq Way(t)
    BY <1>d, <2>1
  <2>3. CoreTypes'
    BY <1>0, <2>1, <2>2 DEF CoreTypes
  <2> QED
    BY <1>c, <2>1, <2>2, <2>3
<1>6. ASSUME NEW s \in Subs, CoreHandlerReturns(s) PROVE Goal
  <2>1. /\ pc[s] = "core handler" /\ pc' = [pc EXCEPT ![s] = "select"]
        /\ batch' = [batch EXCEPT ![s] = <<>>]
        /\ handled' = [handled EXCEPT ![Head(batch[s])] = IF @ < 2 THEN @ + 1 ELSE @]
        /\ UNCHANGED <<sent, inbox, held, ch>>
    BY <1>6 DEF CoreHandlerReturns, Goto, coreVars
  <2>2. /\ pc' \in [Subs -> CorePcs] /\ batch' \in [Subs -> Seq(Msgs)]
        /\ \A t \in Subs : Orderly(t)' /\ Way(t)' \subseteq Way(t)
        /\ Way(s)' \cap Range(batch[s]) = {}
    BY <1>d, <2>1
  <2>3. PICK m \in Msgs : m = Head(batch[s]) /\ m \in Range(batch[s])
    <3>1. batch[s] # <<>> /\ batch[s] \in Seq(Msgs)
      BY <1>0, <1>a, <2>1 DEF Orderly, CoreTypes
    <3> QED
      BY <3>1, HeadAndTail
  <2>4. m \in Way(s) /\ m \in sent /\ handled[m] = 0
    BY <1>a, <2>3 DEF Way
  <2>5. /\ handled' \in [Msgs -> 0 .. 2] /\ handled'[m] = 1
        /\ \A n \in Msgs \ {m} : handled'[n] = handled[n]
    <3>1. handled' = [handled EXCEPT ![m] = IF handled[m] < 2 THEN handled[m] + 1 ELSE handled[m]]
      BY <2>1, <2>3
    <3>2. handled' = [handled EXCEPT ![m] = 1]
      BY <2>4, <3>1
    <3> QED
      BY <1>0, <3>2 DEF CoreTypes
  <2>6. \A t \in Subs : m \notin Way(t)'
    BY <1>a, <2>2, <2>3, <2>4
  <2>7. CoreTypes'
    BY <1>0, <2>1, <2>2, <2>5 DEF CoreTypes
  <2>8. \A n \in Msgs : handled'[n] # handled[n] =>
            handled'[n] = 1 /\ n \in sent /\ \A t \in Subs : n \notin Way(t)'
    BY <2>4, <2>5, <2>6
  <2> QED
    <3>1. \A t, u \in Subs : t # u => (Way(t) \cap Way(u))' \cap (sent' \ sent) = {}
      BY <2>1
    <3>2. \A t \in Subs : Way(t)' \subseteq Way(t) \cup (sent' \ sent)
      BY <2>2
    <3> QED
      BY <1>0, <2>1, <2>2, <2>7, <2>8, <3>1, <3>2, CoreParts
<1>7. ASSUME NEW m \in Msgs, CorePublish(m) PROVE Goal
  <2>1. m \notin sent /\ sent' = sent \cup {m} /\ UNCHANGED <<handled, pc, batch, held, ch>>
    BY <1>7 DEF CorePublish, vars
  <2>2. \A t \in Subs : m \notin Way(t)
    BY <1>a, <2>1
  <2>3. CASE UNCHANGED inbox
    <3>1. CoreTypes' /\ \A t \in Subs : Orderly(t)' /\ Way(t)' = Way(t)
      BY <1>0, <1>a, <2>1, <2>3 DEF CoreTypes, Orderly, Way, Disjoint
    <3> QED
      BY <1>0, <1>a, <2>1, <2>2, <3>1, CoreParts
  <2>4. ASSUME NEW s \in active, inbox' = [inbox EXCEPT ![s] = Append(@, m)] PROVE Goal
    <3> DEFINE i == Append(inbox[s], m)
    <3>0. s \in Subs /\ inbox[s] \in Seq(Msgs)
      BY <1>0 DEF NatsTypeOK
    <3>1. /\ i \in Seq(Msgs) /\ Range(i) = Range(inbox[s]) \cup {m}
          /\ IsInjective(inbox[s]) /\ m \notin Range(inbox[s]) => IsInjective(i)
      BY <3>0, AppendRange
    <3> HIDE DEF i
    <3>2. CoreTypes'
      BY <1>0, <2>1, <2>4, <3>0, <3>1 DEF CoreTypes, i
    <3>3. ASSUME NEW t \in Subs
          PROVE  Orderly(t)' /\ Way(t)' = Way(t) \cup (IF t = s THEN {m} ELSE {})
      <4>1. /\ inbox'[t] = IF t = s THEN i ELSE inbox[t]
            /\ batch'[t] = batch[t] /\ held'[t] = held[t] /\ ch'[t] = ch[t] /\ pc'[t] = pc[t]
        BY <1>0, <2>1, <2>4 DEF CoreTypes, i
      <4>2. Orderly(t) /\ m \notin Way(t)
        BY <1>a, <2>2
      <4> QED
        BY <3>1, <4>1, <4>2 DEF Orderly, Way, Disjoint
    <3>4. sent' \ sent = {m}
      BY <2>1
    <3>5. \A t, u \in Subs : t # u => (Way(t) \cap Way(u))' \cap (sent' \ sent) = {}
      BY <2>2, <3>3, <3>4
    <3> QED
      BY <1>0, <2>1, <3>2, <3>3, <3>4, <3>5, CoreParts
  <2> QED
    BY <1>7, <2>3, <2>4 DEF CorePublish
<1> QED
  BY <1>0, <1>1, <1>2, <1>3, <1>4, <1>5, <1>6, <1>7, CoreKinds

------------------------------------------------------------------------------
LEMMA InvStep == Inv /\ [NatsNext]_allVars => Inv'
<1> SUFFICES ASSUME Inv, [NatsNext]_allVars PROVE Inv'
  OBVIOUS
<1>0. NatsTypeOK /\ ListInv
  BY DEF Inv
<1>1. CASE useStream /\ Next /\ UNCHANGED <<useStream, coreVars>>
  <2>1. MsgTypes' /\ pc' \in [Subs -> PcStates] /\ AckInv' /\ StreamInv' /\ OnceIfTimely'
    BY <1>1, StreamStep
  <2>2. ListTypes' /\ ListInv'
    BY <1>0, <1>1, ListStep, StreamList DEF NatsTypeOK, ListTypes
  <2>3. NatsTypeOK'
    BY <1>0, <1>1, <2>1, <2>2 DEF NatsTypeOK, ListTypes, MsgTypes, coreVars
  <2>4. CoreInv'
    BY <1>1 DEF CoreInv
  <2> QED
    BY <2>1, <2>2, <2>3, <2>4 DEF Inv
<1>2. CASE ~useStream /\ CoreNext /\ UNCHANGED useStream
  <2>1. /\ UNCHANGED <<status, pending, expired>>
        /\ CoreTypes' /\ AckInv' /\ CoreInv' /\ StreamInv' /\ OnceIfTimely'
    BY <1>2, CoreStep
  <2>2. ListTypes' /\ ListInv'
    BY <1>0, <1>2, ListStep, CoreList DEF NatsTypeOK, ListTypes
  <2>3. NatsTypeOK'
    BY <1>0, <1>2, <2>1, <2>2 DEF NatsTypeOK, ListTypes, CoreTypes
  <2> QED
    BY <2>1, <2>2, <2>3 DEF Inv
<1>3. CASE UNCHANGED allVars
  <2>1. UNCHANGED <<status, pending, expired, handled, listVars, pc, batch,
                    useStream, sent, inbox, held, ch>>
    BY <1>3 DEF allVars, vars, serverVars, listVars, coreVars
  <2>2. NatsTypeOK' /\ AckInv' /\ OnceIfTimely' /\ ListInv'
    BY <2>1 DEF Inv, NatsTypeOK, AckInv, AckedWasHandled, OnceIfTimely, ListInv, Called, listVars
  <2>3. StreamInv'
    BY <2>1 DEF Inv, StreamInv, Acks
  <2>4. CoreInv'
    BY <2>1 DEF Inv, CoreInv, Way, Disjoint
  <2> QED
    BY <2>2, <2>3, <2>4 DEF Inv
<1> QED
  BY <1>1, <1>2, <1>3 DEF NatsNext

\* Inv is an invariant of subscribe.go, in both modes.
THEOREM Invariance == NatsSpec => []Inv
<1>1. NatsInit => Inv
  BY InvInit
<1>2. Inv /\ [NatsNext]_allVars => Inv'
  BY InvStep
<1> QED
  BY <1>1, <1>2, PTL DEF NatsSpec

\* A message leaves the stream only after its handler has returned, whatever
\* panics, expires or is fetched by another subscription.
THEOREM AckedAreHandled == NatsSpec => []AckedWasHandled
<1>1. Inv => AckedWasHandled
  BY DEF Inv, AckInv
<1> QED
  BY <1>1, Invariance, PTL

\* In both modes a message is handled once, if no acknowledgement of it is late
\* or lost, however many subscriptions share the consumer or the queue group.
THEOREM HandledOnce == NatsSpec => []OnceIfTimely
<1>1. Inv => OnceIfTimely
  BY DEF Inv
<1> QED
  BY <1>1, Invariance, PTL

\* Whatever subset of the Unsubscribe calls succeeds, StopSubscription gets to a
\* subscription that still receives, except behind an entry of its subject that a
\* StopAllSubscriptions unsubscribed before it failed.
THEOREM HalfStopsStick == NatsSpec => []OnlyHalfStopsStick
<1>1. Inv => OnlyHalfStopsStick
  <2> SUFFICES ASSUME Inv, NEW s \in active, ~Stoppable(s)
               PROVE  \E t \in halfStopped : SubjectOfSub[t] = SubjectOfSub[s]
    BY DEF OnlyHalfStopsStick
  <2>1. PICK i \in DOMAIN subject : subject[i] = s
    BY DEF Inv, ListInv, Range
  <2>2. PICK j \in 1 .. i : SubjectOfSub[subject[j]] = SubjectOfSub[s] /\ subject[j] \notin active
    BY <2>1 DEF Stoppable
  <2>3. j \in DOMAIN subject
    <3>1. DOMAIN subject = 1 .. Len(subject) /\ Len(subject) \in Nat
      BY LenProperties DEF Inv, NatsTypeOK
    <3> QED
      BY <3>1
  <2>4. subject[j] \in halfStopped
    BY <2>2, <2>3 DEF Inv, ListInv, Range
  <2> QED
    BY <2>2, <2>4
<1> QED
  BY <1>1, Invariance, PTL

==============================================================================
