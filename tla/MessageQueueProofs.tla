-------------------------- MODULE MessageQueueProofs --------------------------
(***************************************************************************)
(* Proofs about MessageQueue, for every set of frames and all capacities.  *)
(*                                                                         *)
(* Each half of the composition behaves as it does alone: what the other   *)
(* half does to it are steps that its own specification allows.  So what   *)
(* is proved of the sender alone holds of a sender that is driven by the   *)
(* goroutines of a receiver.                                               *)
(*                                                                         *)
(* The receiver.  Messages are queued in order because a frame in hand is  *)
(* the last one read, and all queued ones were read before it (OrderInv).  *)
(* Its pump does not meet a closed messageChan because Stop waits for it   *)
(* (PumpInv).                                                              *)
(*                                                                         *)
(* Both.  Each frame is answered once at most, because the sender accepts  *)
(* a call once and a goroutine calls it for a frame that was read          *)
(* (AnswerInv).                                                            *)
(***************************************************************************)
EXTENDS MessageQueue, SequenceTheorems, TLAPS

SP == INSTANCE MessageSenderProofs WITH Calls <- Frames

------------------------------------------------------------------------------
(* The two halves.                                                         *)

\* What the composition does to the sender is a step of the sender.
LEMMA SenderStep == Next => S!Next \/ UNCHANGED sVars
<1> SUFFICES ASSUME Next PROVE S!Next \/ UNCHANGED sVars
  OBVIOUS
<1>1. CASE Terminated
  BY <1>1 DEF Terminated, vars
<1>2. ASSUME ~S!Crashed, SenderOnly PROVE S!Next
  BY <1>2 DEF SenderOnly, S!Next, S!Step
<1>3. CASE ReceiverOnly
  BY <1>3 DEF ReceiverOnly
<1>4. ASSUME ~S!Crashed, NEW f \in Frames, Reply(f) PROVE S!Next \/ UNCHANGED sVars
  <2>1. CASE ReplySend(f)
    BY <1>4, <2>1 DEF ReplySend, S!Next, S!Step, S!SendMessage
  <2>2. CASE ReplyCheck(f) \/ ReplyReturns(f)
    BY <2>2 DEF ReplyCheck, ReplyReturns
  <2> QED
    BY <1>4, <2>1, <2>2 DEF Reply
<1> QED
  BY <1>1, <1>2, <1>3, <1>4 DEF Next, ProcessGone

\* The goroutines of the receiver drive the sender only as it allows.
LEMMA ImplementsSender == Spec => SenderBehaves
<1>1. Init => S!Init
  BY DEF Init
<1>2. [Next]_vars => [S!Next]_S!vars
  <2>1. UNCHANGED sVars => UNCHANGED S!vars
    BY DEF sVars, S!vars, S!chanVars, S!pumpVars, S!stopVars
  <2> QED
    BY <2>1, SenderStep DEF vars
<1> QED
  BY <1>1, <1>2, PTL DEF Spec, SenderBehaves, S!Spec

\* The sender the composition drives and the one the sender's proofs are about
\* take the same steps.
LEMMA SameSenderStep == [S!Next]_S!vars => [SP!Next]_SP!vars
<1> USE DEF S!vars, S!chanVars, S!pumpVars, S!stopVars,
            SP!vars, SP!chanVars, SP!pumpVars, SP!stopVars
<1>1. S!Crashed = SP!Crashed
  BY DEF S!Crashed, SP!Crashed
<1>2. S!Start => SP!Start
  BY DEF S!Start, SP!Start
<1>3. ASSUME NEW c \in Frames PROVE S!SendMessage(c) => SP!SendMessage(c)
  BY DEF S!SendMessage, S!EncodeFails, S!SendRawBytes, S!Enqueue, S!SendOnClosed,
         S!Cancelled, S!Park, SP!SendMessage, SP!EncodeFails, SP!SendRawBytes,
         SP!Enqueue, SP!SendOnClosed, SP!Cancelled, SP!Park
<1>4. ASSUME NEW c \in Frames PROVE S!SendTimeout(c) => SP!SendTimeout(c)
  BY DEF S!SendTimeout, SP!SendTimeout
<1>5. S!PumpReceive => SP!PumpReceive
  BY DEF S!PumpReceive, SP!PumpReceive, S!Parked, SP!Parked
<1>6. S!PumpStep => SP!PumpStep
  BY <1>5 DEF S!PumpStep, S!PumpReceiveClosed, S!PumpTick, S!PumpCancelled, S!WriteOk,
         S!WriteErr, S!PingOk, S!PingErr, S!WriteClose, S!PumpReturns,
         SP!PumpStep, SP!PumpReceiveClosed, SP!PumpTick, SP!PumpCancelled, SP!WriteOk,
         SP!WriteErr, SP!PingOk, SP!PingErr, SP!WriteClose, SP!PumpReturns
<1>7. S!StopCancel => SP!StopCancel
  BY DEF S!StopCancel, SP!StopCancel
<1>8. S!StopStep => SP!StopStep
  BY DEF S!StopStep, S!StopTicker, S!StopCloseChan, S!StopWaited,
         SP!StopStep, SP!StopTicker, SP!StopCloseChan, SP!StopWaited
<1>9. S!Terminated => SP!Terminated
  BY <1>1 DEF S!Terminated, SP!Terminated
<1>10. UNCHANGED S!vars => UNCHANGED SP!vars
  OBVIOUS
<1> HIDE DEF S!vars, S!chanVars, S!pumpVars, S!stopVars,
             SP!vars, SP!chanVars, SP!pumpVars, SP!stopVars
<1> QED
  BY <1>1, <1>2, <1>3, <1>4, <1>6, <1>7, <1>8, <1>9, <1>10
  DEF S!Next, S!Step, SP!Next, SP!Step

\* The sender's theorems apply.
LEMMA SenderAlone == Spec => SP!Spec
<1>1. S!Init => SP!Init
  BY DEF S!Init, SP!Init
<1> QED
  BY <1>1, ImplementsSender, SameSenderStep, PTL DEF SenderBehaves, S!Spec, SP!Spec

\* A sender that the goroutines of a receiver call loses, repeats and reorders
\* no reply, keeps the close frame back until every accepted one is written,
\* and accepts none whose goroutine was given an error.
THEOREM RepliesConserved ==
    Spec => [](S!Conservation /\ S!NoGhostSend /\ S!CloseMeansDrained)
<1>1. SP!Spec => []SP!Conservation
  BY SP!QueueConserved, QueueAssumption
<1>2. SP!Spec => []SP!NoGhostSend
  BY SP!ResultsAreTrue, QueueAssumption
<1>3. SP!Spec => []SP!CloseMeansDrained
  BY SP!ClosedAfterDrain, QueueAssumption
<1>4. /\ SP!Conservation => S!Conservation
      /\ SP!NoGhostSend => S!NoGhostSend
      /\ SP!CloseMeansDrained => S!CloseMeansDrained
  BY DEF SP!Conservation, S!Conservation, SP!NoGhostSend, S!NoGhostSend,
         SP!CloseMeansDrained, S!CloseMeansDrained, SP!Range, S!Range
<1> QED
  BY SenderAlone, <1>1, <1>2, <1>3, <1>4, PTL

------------------------------------------------------------------------------
(* The receiver.                                                           *)

\* What the composition does to the receiver is a step of the receiver.
LEMMA ReceiverStep == Next => R!Next \/ UNCHANGED rVars
<1> SUFFICES ASSUME Next PROVE R!Next \/ UNCHANGED rVars
  OBVIOUS
<1>1. CASE Terminated
  BY <1>1 DEF Terminated, vars
<1>2. CASE SenderOnly
  BY <1>2 DEF SenderOnly
<1>3. ASSUME ~R!RCrashed, ReceiverOnly PROVE R!Next
  BY <1>3 DEF ReceiverOnly, R!Next
<1>4. ASSUME ~R!RCrashed, NEW f \in Frames, Reply(f) PROVE R!Next
  <2>1. (~ctxDone) \in BOOLEAN
    OBVIOUS
  <2>2. CASE ReplyCheck(f)
    BY <1>4, <2>1, <2>2 DEF ReplyCheck, R!Next, R!SenderStep, S!IsRunning
  <2>3. CASE ReplySend(f)
    BY <1>4, <2>3 DEF ReplySend, R!Next, R!SenderStep
  <2>4. CASE ReplyReturns(f)
    BY <1>4, <2>4 DEF ReplyReturns, R!Next, R!SenderStep
  <2> QED
    BY <1>4, <2>2, <2>3, <2>4 DEF Reply
<1> QED
  BY <1>1, <1>2, <1>3, <1>4 DEF Next, ProcessGone

\* The receiver sees of the sender only answers that any sender could give.
LEMMA ImplementsReceiver == Spec => R!Spec
<1>1. Init => R!Init
  BY DEF Init
<1>2. [Next]_vars => [R!Next]_R!vars
  <2>1. UNCHANGED rVars => UNCHANGED R!vars
    BY DEF rVars, R!vars, R!chanVars, R!pumpVars, R!stopVars, R!setVars
  <2> QED
    BY <2>1, ReceiverStep DEF vars
<1> QED
  BY <1>1, <1>2, PTL DEF Spec, R!Spec

\* Stop closes messageChan after the pump has returned, so the pump never
\* offers a message to a closed channel.
PumpInv ==
    /\ rpump \in R!RPumpStates \ {"panicked"}
    /\ rwg = IF rpump \in {"check", "reading", "handling"} THEN 1 ELSE 0
    /\ msgClosed => rstopPc = "returned"
    /\ rstopPc = "returned" => rpump \in {"notStarted", "exited"}

LEMMA PumpInvStep == PumpInv /\ [R!Next]_R!vars => PumpInv'
<1> SUFFICES ASSUME PumpInv, [R!Next]_R!vars PROVE PumpInv'
  OBVIOUS
<1> USE DEF PumpInv, R!RPumpStates, R!pumpVars, R!stopVars
<1>1. CASE UNCHANGED R!vars
  BY <1>1 DEF R!vars
<1>2. CASE R!SetProcessor \/ R!SetSender \/ R!Take
  BY <1>2 DEF R!SetProcessor, R!SetSender, R!Take
<1>3. CASE R!Start
  BY <1>3 DEF R!Start
<1>4. CASE R!PumpCheck
  BY <1>4 DEF R!PumpCheck, R!PumpReturns
<1>5. CASE R!ReadErr
  BY <1>5 DEF R!ReadErr, R!PumpReturns
<1>6. CASE R!handleRawMessage
  BY <1>6 DEF R!handleRawMessage, R!Ignore, R!Offer, R!OfferCancelled, R!Drop, R!Handled
<1>7. ASSUME NEW f \in Frames, R!ReadFrame(f) PROVE PumpInv'
  BY <1>7 DEF R!ReadFrame
<1>8. ASSUME NEW f \in Frames, R!processMessage(f) \/ R!SenderStep(f) PROVE PumpInv'
  BY <1>8 DEF R!processMessage, R!JobStarts, R!HandlerReturns, R!JobResumes,
              R!SenderStep, R!ReplyCheck, R!ReplySend, R!ReplyReturns, R!Job
<1>9. CASE R!StopCancel
  BY <1>9 DEF R!StopCancel
<1>10. CASE R!StopWaited
  BY <1>10 DEF R!StopWaited
<1> QED
  BY <1>1, <1>2, <1>3, <1>4, <1>5, <1>6, <1>7, <1>8, <1>9, <1>10
  DEF R!Next, R!OwnStep

LEMMA PumpInvInit == R!Init => PumpInv
BY DEF R!Init, PumpInv, R!RPumpStates

\* The elements of s are among the first n of r, in the order of r.
Placed(s, r, n) ==
    \E place \in [1..Len(s) -> 1..n] :
        /\ \A i \in 1..Len(s) : s[i] = r[place[i]]
        /\ \A i, j \in 1..Len(s) : i < j => place[i] < place[j]

\* More of r leaves the places as they are.
LEMMA PlacedGrows ==
    ASSUME NEW F, NEW s \in Seq(F), NEW r \in Seq(F), NEW n \in Nat, NEW m \in Nat,
           NEW q \in Seq(F), n <= m, n <= Len(r),
           Len(r) <= Len(q), \A i \in 1..Len(r) : q[i] = r[i],
           Placed(s, r, n)
    PROVE  Placed(s, q, m)
<1>1. PICK place \in [1..Len(s) -> 1..n] :
            /\ \A i \in 1..Len(s) : s[i] = r[place[i]]
            /\ \A i, j \in 1..Len(s) : i < j => place[i] < place[j]
  BY DEF Placed
<1>2. 1..n \subseteq 1..m
  OBVIOUS
<1>3. place \in [1..Len(s) -> 1..m]
  BY <1>1, <1>2
<1>4. \A i \in 1..Len(s) : place[i] \in 1..Len(r)
  OBVIOUS
<1>5. \A i \in 1..Len(s) : s[i] = q[place[i]]
  BY <1>1, <1>4
<1> QED
  BY <1>1, <1>3, <1>5 DEF Placed

\* The next element of r finds its place behind those that have one.
LEMMA PlacedNext ==
    ASSUME NEW F, NEW s \in Seq(F), NEW r \in Seq(F), NEW n \in Nat, n < Len(r),
           Placed(s, r, n)
    PROVE  Placed(Append(s, r[n + 1]), r, n + 1)
<1>1. PICK place \in [1..Len(s) -> 1..n] :
            /\ \A i \in 1..Len(s) : s[i] = r[place[i]]
            /\ \A i, j \in 1..Len(s) : i < j => place[i] < place[j]
  BY DEF Placed
<1> DEFINE t == Append(s, r[n + 1])
           next == [i \in 1..Len(s) + 1 |-> IF i = Len(s) + 1 THEN n + 1 ELSE place[i]]
<1>2. r[n + 1] \in F
  BY ElementOfSeq
<1>3. /\ t \in Seq(F)
      /\ Len(t) = Len(s) + 1
      /\ \A i \in 1..Len(s) : t[i] = s[i]
      /\ t[Len(s) + 1] = r[n + 1]
  BY <1>2, AppendProperties
<1>4. Len(s) \in Nat
  BY LenProperties
<1>5. \A i \in 1..Len(s) : place[i] \in 1..n
  OBVIOUS
<1>6. next \in [1..Len(t) -> 1..n + 1]
  <2>1. \A i \in 1..Len(s) + 1 : i # Len(s) + 1 => i \in 1..Len(s)
    BY <1>4
  <2>2. \A i \in 1..Len(s) + 1 :
            (IF i = Len(s) + 1 THEN n + 1 ELSE place[i]) \in 1..n + 1
    BY <1>5, <2>1
  <2> QED
    BY <1>3, <2>2
<1>7. \A i \in 1..Len(t) : t[i] = r[next[i]]
  <2> SUFFICES ASSUME NEW i \in 1..Len(t) PROVE t[i] = r[next[i]]
    OBVIOUS
  <2>1. CASE i = Len(s) + 1
    BY <1>3, <1>4, <2>1
  <2>2. CASE i # Len(s) + 1
    <3>1. i \in 1..Len(s)
      BY <1>3, <1>4, <2>2
    <3> QED
      BY <1>1, <1>3, <1>4, <2>2, <3>1
  <2> QED
    BY <2>1, <2>2
<1>8. \A i, j \in 1..Len(t) : i < j => next[i] < next[j]
  <2> SUFFICES ASSUME NEW i \in 1..Len(t), NEW j \in 1..Len(t), i < j
               PROVE  next[i] < next[j]
    OBVIOUS
  <2>1. i \in 1..Len(s) /\ next[i] = place[i]
    BY <1>3, <1>4
  <2>2. CASE j = Len(s) + 1
    <3>1. next[j] = n + 1
      BY <1>4, <2>2
    <3> QED
      BY <1>5, <2>1, <3>1
  <2>3. CASE j # Len(s) + 1
    <3>1. j \in 1..Len(s) /\ next[j] = place[j]
      BY <1>3, <1>4, <2>3
    <3> QED
      BY <1>1, <2>1, <3>1
  <2> QED
    BY <2>2, <2>3
<1> QED
  BY <1>6, <1>7, <1>8 DEF Placed

\* The frames among which the queued messages are: all that were read but the
\* one in hand.
Judged == IF rpump = "handling" THEN Len(read) - 1 ELSE Len(read)

OrderInv ==
    /\ rhand \in Seq(Frames) /\ msgChan \in Seq(Frames) /\ read \in Seq(Frames)
    /\ queued \in Seq(Frames) /\ taken \in Seq(Frames)
    /\ rpump = "handling" => Len(read) > 0 /\ rhand = <<read[Len(read)]>>
    /\ queued = taken \o msgChan
    /\ Placed(queued, read, Judged)

LEMMA OrderInvInit == R!Init => OrderInv
<1> SUFFICES ASSUME R!Init PROVE OrderInv
  OBVIOUS
<1>1. /\ rhand = <<>> /\ msgChan = <<>> /\ read = <<>> /\ queued = <<>> /\ taken = <<>>
      /\ rpump = "notStarted"
  BY DEF R!Init
<1>2. Judged = 0
  BY <1>1 DEF Judged
<1>3. Placed(<<>>, <<>>, 0)
  <2>1. [i \in 1..0 |-> i] \in [1..Len(<<>>) -> 1..0]
    OBVIOUS
  <2> QED
    BY <2>1 DEF Placed
<1> QED
  BY <1>1, <1>2, <1>3 DEF OrderInv

\* Behind the whole is behind its last part, and in front of its first.
LEMMA Split ==
    ASSUME NEW F, NEW s \in Seq(F), NEW t \in Seq(F), NEW e \in F
    PROVE  /\ Append(s \o t, e) = s \o Append(t, e)
           /\ Append(s, e) \o t = s \o (<<e>> \o t)
<1>1. <<e>> \in Seq(F) /\ s \o t \in Seq(F)
  BY ConcatProperties
<1>2. /\ Append(s \o t, e) = (s \o t) \o <<e>>
      /\ Append(t, e) = t \o <<e>>
      /\ Append(s, e) = s \o <<e>>
  BY <1>1, AppendIsConcat, Zenon
<1> DEFINE u == <<e>>
<1> HIDE DEF u
<1>3. u \in Seq(F)
  BY <1>1 DEF u
<1>4. (s \o t) \o u = s \o (t \o u)
  BY <1>3, ConcatAssociative
<1>5. (s \o u) \o t = s \o (u \o t)
  BY <1>3, ConcatAssociative
<1> QED
  BY <1>2, <1>4, <1>5, Zenon DEF u

\* A message enters messageChan behind the ones that are there.
LEMMA OfferInOrder == ASSUME OrderInv, PumpInv, R!Offer PROVE OrderInv'
<1>1. /\ rpump = "handling" /\ ~msgClosed
      /\ rpump' = "check" /\ rhand' = <<>> /\ read' = read /\ taken' = taken
      /\ msgChan' = Append(msgChan, Head(rhand))
      /\ queued' = Append(queued, Head(rhand))
  BY DEF R!Offer, R!Handled, PumpInv
<1>2. read \in Seq(Frames) /\ Len(read) \in Nat /\ Len(read) > 0 /\ Head(rhand) = read[Len(read)]
  BY <1>1 DEF OrderInv
<1>3. Head(rhand) \in Frames
  BY <1>2, ElementOfSeq
<1>4. queued' = taken' \o msgChan'
  <2>1. taken \in Seq(Frames) /\ msgChan \in Seq(Frames) /\ queued = taken \o msgChan
    BY DEF OrderInv
  <2>2. ASSUME NEW m \in Frames PROVE Append(taken \o msgChan, m) = taken \o Append(msgChan, m)
    BY <2>1, Split
  <2>3. Append(taken \o msgChan, Head(rhand)) = taken \o Append(msgChan, Head(rhand))
    BY <1>3, <2>2, Zenon
  <2> QED
    BY <1>1, <2>1, <2>3, Zenon
<1>5. Placed(queued', read', Judged')
  <2>1. Judged = Len(read) - 1 /\ Judged' = Len(read)
    BY <1>1 DEF Judged
  <2>2. Placed(queued, read, Len(read) - 1)
    BY <2>1 DEF OrderInv
  <2>3. /\ Len(read) - 1 \in Nat /\ Len(read) - 1 < Len(read)
        /\ (Len(read) - 1) + 1 = Len(read)
    BY <1>2
  <2>4. queued \in Seq(Frames)
    BY DEF OrderInv
  <2>5. Placed(Append(queued, read[(Len(read) - 1) + 1]), read, (Len(read) - 1) + 1)
    BY <1>2, <2>2, <2>3, <2>4, PlacedNext
  <2>6. queued' = Append(queued, read[Len(read)]) /\ read' = read
    BY <1>1, <1>2
  <2> QED
    BY <2>1, <2>3, <2>5, <2>6
<1>6. /\ rhand' \in Seq(Frames) /\ msgChan' \in Seq(Frames) /\ read' \in Seq(Frames)
      /\ queued' \in Seq(Frames) /\ taken' \in Seq(Frames)
  BY <1>1, <1>3 DEF OrderInv
<1> QED
  BY <1>1, <1>4, <1>5, <1>6 DEF OrderInv

\* The frame in hand is skipped, for whatever reason.
LEMMA SkipInOrder ==
    ASSUME OrderInv, rpump = "handling", rpump' = "check", rhand' = <<>>,
           read' = read, taken' = taken, msgChan' = msgChan, queued' = queued
    PROVE  OrderInv'
<1>1. read \in Seq(Frames) /\ queued \in Seq(Frames) /\ Len(read) \in Nat /\ Len(read) > 0
  BY DEF OrderInv
<1>2. Judged = Len(read) - 1 /\ Judged' = Len(read)
  BY DEF Judged
<1>3. Placed(queued, read, Len(read) - 1)
  BY <1>2 DEF OrderInv
<1>4. Len(read) - 1 \in Nat /\ Len(read) - 1 <= Len(read)
  BY <1>1
<1>5. Placed(queued, read, Len(read))
  BY <1>1, <1>3, <1>4, PlacedGrows
<1>6. Placed(queued', read', Judged')
  BY <1>2, <1>5
<1> QED
  BY <1>6 DEF OrderInv

LEMMA ReadInOrder ==
    ASSUME OrderInv, NEW f \in Frames, R!ReadFrame(f) PROVE OrderInv'
<1>1. /\ rpump = "reading" /\ rpump' = "handling" /\ rhand' = <<f>>
      /\ read' = Append(read, f)
      /\ taken' = taken /\ msgChan' = msgChan /\ queued' = queued
  BY DEF R!ReadFrame, R!chanVars
<1>2. read \in Seq(Frames) /\ queued \in Seq(Frames) /\ Len(read) \in Nat
  BY DEF OrderInv
<1>3. /\ read' \in Seq(Frames) /\ Len(read') = Len(read) + 1
      /\ \A i \in 1..Len(read) : read'[i] = read[i]
      /\ read'[Len(read')] = f
  BY <1>1, <1>2, AppendProperties
<1>4. Judged = Len(read) /\ Judged' = Len(read)
  BY <1>1, <1>2, <1>3 DEF Judged
<1>5. Placed(queued, read, Len(read))
  BY <1>4 DEF OrderInv
<1>6. Placed(queued, read', Len(read))
  BY <1>2, <1>3, <1>5, PlacedGrows
<1>7. Placed(queued', read', Judged')
  BY <1>1, <1>4, <1>6
<1> QED
  BY <1>1, <1>2, <1>3, <1>7 DEF OrderInv

\* The consumer takes the oldest message.
LEMMA TakeInOrder == ASSUME OrderInv, R!Take PROVE OrderInv'
<1>1. /\ msgChan # <<>>
      /\ taken' = Append(taken, Head(msgChan)) /\ msgChan' = Tail(msgChan)
      /\ rpump' = rpump /\ rhand' = rhand /\ read' = read /\ queued' = queued
  BY DEF R!Take, R!pumpVars
<1>2. msgChan \in Seq(Frames) /\ taken \in Seq(Frames)
  BY DEF OrderInv
<1>3. Head(msgChan) \in Frames /\ Tail(msgChan) \in Seq(Frames)
  BY <1>1, <1>2, HeadTailProperties
<1>4. Append(taken, Head(msgChan)) \o Tail(msgChan) = taken \o msgChan
  <2>1. Append(taken, Head(msgChan)) \o Tail(msgChan) = taken \o (<<Head(msgChan)>> \o Tail(msgChan))
    BY <1>2, <1>3, Split
  <2>2. <<Head(msgChan)>> \o Tail(msgChan) = msgChan
    BY <1>1, <1>2
  <2> QED
    BY <2>1, <2>2, Zenon
<1>5. Judged' = Judged
  BY <1>1 DEF Judged
<1> QED
  BY <1>1, <1>2, <1>3, <1>4, <1>5 DEF OrderInv

\* Everything else leaves the frames alone and moves the pump elsewhere.
LEMMA RestInOrder ==
    ASSUME OrderInv, rhand' = rhand, read' = read, taken' = taken, msgChan' = msgChan,
           queued' = queued, rpump' = rpump \/ "handling" \notin {rpump, rpump'}
    PROVE  OrderInv'
<1>1. Judged' = Judged
  BY DEF Judged
<1> QED
  BY <1>1 DEF OrderInv

LEMMA OrderInvStep == PumpInv /\ OrderInv /\ [R!Next]_R!vars => OrderInv'
<1> SUFFICES ASSUME PumpInv, OrderInv, [R!Next]_R!vars PROVE OrderInv'
  OBVIOUS
<1> USE DEF R!pumpVars, R!chanVars
<1>1. CASE UNCHANGED R!vars
  BY <1>1, RestInOrder DEF R!vars
<1>2. CASE R!SetProcessor \/ R!SetSender \/ R!StopCancel \/ R!StopWaited
  BY <1>2, RestInOrder DEF R!SetProcessor, R!SetSender, R!StopCancel, R!StopWaited
<1>3. CASE R!Start \/ R!PumpCheck \/ R!ReadErr
  BY <1>3, RestInOrder DEF R!Start, R!PumpCheck, R!ReadErr, R!PumpReturns
<1>4. CASE R!Ignore \/ R!OfferCancelled \/ R!Drop
  BY <1>4, SkipInOrder DEF R!Ignore, R!OfferCancelled, R!Drop, R!Handled
<1>5. CASE R!Offer
  BY <1>5, OfferInOrder
<1>6. ASSUME NEW f \in Frames, R!ReadFrame(f) PROVE OrderInv'
  BY <1>6, ReadInOrder
<1>7. ASSUME NEW f \in Frames, R!processMessage(f) \/ R!SenderStep(f) PROVE OrderInv'
  BY <1>7, RestInOrder DEF R!processMessage, R!JobStarts, R!HandlerReturns,
     R!JobResumes, R!SenderStep, R!ReplyCheck, R!ReplySend, R!ReplyReturns, R!Job
<1>8. CASE R!Take
  BY <1>8, TakeInOrder
<1> QED
  BY <1>1, <1>2, <1>3, <1>4, <1>5, <1>6, <1>7, <1>8
  DEF R!Next, R!OwnStep, R!handleRawMessage

\* A goroutine calls the sender only for a frame that was read.
AnswerInv ==
    /\ call \in [Frames -> S!CallStates]
    /\ job \in [Frames -> R!JobStates]
    /\ \A f \in Frames : call[f] # "idle" => job[f] # "none"
    /\ \A f \in Frames : job[f] # "none" => f \in Range(read)

\* A frame that was read stays in read.
LEMMA ReadGrows ==
    ASSUME NEW F, NEW r \in Seq(F), NEW f \in F
    PROVE  Range(r) \subseteq Range(Append(r, f))
<1>1. DOMAIN r \subseteq DOMAIN Append(r, f) /\ \A i \in DOMAIN r : Append(r, f)[i] = r[i]
  BY AppendProperties
<1> QED
  BY <1>1 DEF Range

\* A goroutine is started for the frame in hand, which is the last one read.
LEMMA ReceiverAnswers ==
    ASSUME AnswerInv, OrderInv, R!Next, call' = call
    PROVE  AnswerInv'
<1>1. /\ read' = read \/ \E f \in Frames : read' = Append(read, f)
      /\ \/ job' = job
         \/ rpump = "handling" /\ job' = [job EXCEPT ![Head(rhand)] = "spawned"]
         \/ \E f \in Frames, s \in R!JobStates \ {"none"} :
                job[f] # "none" /\ job' = [job EXCEPT ![f] = s]
  <2> USE DEF R!pumpVars, R!JobStates
  <2>1. CASE R!SetProcessor \/ R!SetSender \/ R!Take \/ R!Start \/ R!PumpCheck \/ R!ReadErr
             \/ R!StopCancel \/ R!StopWaited
    BY <2>1 DEF R!SetProcessor, R!SetSender, R!Take, R!Start, R!PumpCheck, R!ReadErr,
       R!StopCancel, R!StopWaited
  <2>2. CASE R!handleRawMessage
    BY <2>2 DEF R!handleRawMessage, R!Ignore, R!Offer, R!OfferCancelled, R!Drop, R!Handled, R!Spawn
  <2>3. ASSUME NEW f \in Frames, R!ReadFrame(f) PROVE <1>1!1 /\ <1>1!2
    BY <2>3 DEF R!ReadFrame
  <2>4. ASSUME NEW f \in Frames, R!processMessage(f) \/ R!SenderStep(f) PROVE <1>1!1 /\ <1>1!2
    BY <2>4 DEF R!processMessage, R!JobStarts, R!HandlerReturns, R!JobResumes,
       R!SenderStep, R!ReplyCheck, R!ReplySend, R!ReplyReturns, R!Job
  <2> QED
    BY <2>1, <2>2, <2>3, <2>4 DEF R!Next, R!OwnStep
<1>2. Range(read) \subseteq Range(read')
  BY <1>1, ReadGrows DEF OrderInv
<1>3. rpump = "handling" => Head(rhand) \in Frames /\ Head(rhand) \in Range(read)
  BY ElementOfSeq DEF OrderInv, Range
<1>4. /\ job' \in [Frames -> R!JobStates]
      /\ \A f \in Frames : job[f] # "none" => job'[f] # "none"
      /\ \A f \in Frames : job'[f] # "none" => job[f] # "none" \/ f \in Range(read)
  BY <1>1, <1>3 DEF AnswerInv, R!JobStates
<1> QED
  BY <1>2, <1>4 DEF AnswerInv

\* The sender's own steps make no call.
LEMMA SenderAnswers ==
    ASSUME AnswerInv, SenderOnly
    PROVE  AnswerInv'
<1>1. job' = job /\ read' = read
  BY DEF SenderOnly, rVars
<1>2. /\ call' \in [Frames -> S!CallStates]
      /\ \A f \in Frames : call[f] = "idle" => call'[f] = "idle"
  BY DEF AnswerInv, SenderOnly, S!CallStates, S!Start, S!SendTimeout, S!PumpStep,
     S!PumpReceive, S!Parked, S!PumpReceiveClosed, S!PumpTick, S!PumpCancelled, S!WriteOk,
     S!WriteErr, S!PingOk, S!PingErr, S!WriteClose, S!StopCancel, S!StopStep,
     S!StopTicker, S!StopCloseChan, S!StopWaited
<1> QED
  BY <1>1, <1>2 DEF AnswerInv

LEMMA AnswerInvInit == Init => AnswerInv
BY DEF Init, S!Init, R!Init, AnswerInv, S!CallStates, R!JobStates

LEMMA AnswerInvStep == AnswerInv /\ OrderInv /\ [Next]_vars => AnswerInv'
<1> SUFFICES ASSUME AnswerInv, OrderInv, [Next]_vars PROVE AnswerInv'
  OBVIOUS
<1>1. CASE UNCHANGED vars
  BY <1>1 DEF vars, sVars, rVars, AnswerInv
<1>2. CASE Terminated
  BY <1>1, <1>2 DEF Terminated
<1>3. CASE SenderOnly
  BY <1>3, SenderAnswers
<1>4. ASSUME ~R!RCrashed, ReceiverOnly PROVE AnswerInv'
  BY <1>4, ReceiverAnswers DEF ReceiverOnly, sVars, R!Next
<1>5. ASSUME NEW f \in Frames, ReplySend(f) PROVE AnswerInv'
  <2>1. /\ job[f] = "sending" /\ job' = [job EXCEPT ![f] = "inCall"] /\ read' = read
        /\ \E r \in S!CallStates : call' = [call EXCEPT ![f] = r]
    BY <1>5 DEF ReplySend, R!ReplySend, R!Job, R!pumpVars, S!SendRawBytes, S!Enqueue,
       S!SendOnClosed, S!Cancelled, S!Park, S!CallStates
  <2> QED
    BY <2>1 DEF AnswerInv, R!JobStates
<1>6. ASSUME ~R!RCrashed, NEW f \in Frames, ReplyCheck(f) \/ ReplyReturns(f) PROVE AnswerInv'
  <2>1. (~ctxDone) \in BOOLEAN
    OBVIOUS
  <2>2. R!Next /\ call' = call
    BY <1>6, <2>1 DEF ReplyCheck, ReplyReturns, sVars, R!Next, R!SenderStep, S!IsRunning
  <2> QED
    BY <2>2, ReceiverAnswers
<1> QED
  BY <1>1, <1>2, <1>3, <1>4, <1>5, <1>6 DEF Next, Reply, ProcessGone

\* receivePump never offers a message to a closed messageChan, which would end
\* the process: Stop closes the channel when the pump is gone.
THEOREM PumpNeverPanics == Spec => [](rpump # "panicked" /\ (msgClosed => rwg = 0))
<1>1. PumpInv => rpump # "panicked" /\ (msgClosed => rwg = 0)
  BY DEF PumpInv
<1> QED
  BY <1>1, ImplementsReceiver, PumpInvInit, PumpInvStep, PTL DEF R!Spec

\* A consumer of messageChan gets messages in the order in which their frames
\* were read, each at most once, although a full channel drops some.
THEOREM MessagesInOrder == Spec => []ArrivalOrder
<1>1. OrderInv => ArrivalOrder
  <2> SUFFICES ASSUME OrderInv PROVE ArrivalOrder
    OBVIOUS
  <2>1. /\ read \in Seq(Frames) /\ queued \in Seq(Frames)
        /\ queued = taken \o msgChan
        /\ Len(read) \in Nat
        /\ rpump = "handling" => Len(read) > 0
        /\ Placed(queued, read, Judged)
    BY DEF OrderInv
  <2>2. Judged \in Nat /\ Judged <= Len(read)
    BY <2>1 DEF Judged
  <2>3. Placed(queued, read, Len(read))
    <3>1. PICK n \in Nat : n <= Len(read) /\ Placed(queued, read, n)
      BY <2>1, <2>2
    <3>2. read \in Seq(Frames) /\ queued \in Seq(Frames) /\ Len(read) \in Nat
      BY <2>1
    <3> QED
      BY <3>1, <3>2, PlacedGrows
  <2>4. DOMAIN queued = 1..Len(queued) /\ DOMAIN read = 1..Len(read)
    BY <2>1, LenProperties
  <2>5. R!Subsequence(queued, read)
    BY <2>3, <2>4 DEF Placed, R!Subsequence
  <2> QED
    BY <2>1, <2>5 DEF ArrivalOrder, R!ArrivalOrder
<1> QED
  BY <1>1, ImplementsReceiver, PumpInvInit, PumpInvStep, OrderInvInit, OrderInvStep, PTL
  DEF R!Spec

\* Each frame the peer sent is answered once at most, and nothing else is
\* written: the sender keeps the replies of the goroutines apart, and a
\* goroutine exists for a frame that was read.
THEOREM RepliesAnswer == Spec => []AnsweredOnce
<1>1. Spec => []AnswerInv
  <2>1. Spec => [](PumpInv /\ OrderInv)
    BY ImplementsReceiver, PumpInvInit, PumpInvStep, OrderInvInit, OrderInvStep, PTL DEF R!Spec
  <2> QED
    BY <2>1, AnswerInvInit, AnswerInvStep, PTL DEF Spec
<1>2. Spec => [](SP!TypeOK /\ SP!WrittenOnce)
  BY SenderAlone, SP!TypeCorrect, SP!FramesOnce, QueueAssumption, PTL
<1>3. ASSUME AnswerInv, SP!TypeOK, SP!WrittenOnce, S!Conservation, S!NoGhostSend
      PROVE  AnsweredOnce
  <2>0. wire \in Seq(Frames) /\ hand \in Seq(Frames) /\ sendChan \in Seq(Frames)
    BY <1>3 DEF SP!TypeOK
  <2>1. /\ hand \o sendChan \in Seq(Frames)
        /\ accepted = wire \o (hand \o sendChan)
    <3>1. accepted = (wire \o hand) \o sendChan
      BY <1>3 DEF S!Conservation
    <3>2. (wire \o hand) \o sendChan = wire \o (hand \o sendChan)
      BY <2>0, ConcatAssociative
    <3>3. hand \o sendChan \in Seq(Frames)
      BY <2>0, ConcatProperties, Zenon
    <3> QED
      BY <3>1, <3>2, <3>3, Zenon
  <2>2. Range(wire) \subseteq Range(accepted)
    <3>1. DOMAIN wire \subseteq DOMAIN accepted /\ \A i \in DOMAIN wire : accepted[i] = wire[i]
      <4> DEFINE rest == hand \o sendChan
      <4> HIDE DEF rest
      <4>1. rest \in Seq(Frames) /\ accepted = wire \o rest
        BY <2>1 DEF rest
      <4>2. /\ accepted \in Seq(Frames) /\ Len(accepted) = Len(wire) + Len(rest)
            /\ \A i \in 1 .. Len(wire) + Len(rest) :
                    accepted[i] = IF i <= Len(wire) THEN wire[i] ELSE rest[i - Len(wire)]
        BY <2>0, <4>1, ConcatProperties
      <4>3. /\ DOMAIN wire = 1 .. Len(wire) /\ DOMAIN accepted = 1 .. Len(accepted)
            /\ Len(wire) \in Nat /\ Len(rest) \in Nat
        BY <2>0, <4>1, <4>2, LenProperties
      <4> QED
        BY <4>2, <4>3
    <3> QED
      BY <3>1 DEF Range
  <2>3. ASSUME NEW f \in Range(wire) PROVE f \in Range(read)
    <3>1. f \in Frames
      BY <2>0, ElementOfSeq DEF Range
    <3>2. call[f] = "ok"
      BY <1>3, <2>2, <3>1 DEF S!NoGhostSend, S!Range, Range
    <3> QED
      BY <1>3, <3>1, <3>2 DEF AnswerInv
  <2> QED
    BY <1>3, <2>3 DEF AnsweredOnce, SP!WrittenOnce, S!WrittenOnce
<1> QED
  BY <1>1, <1>2, <1>3, RepliesConserved, PTL

\* Who can be blocked in the sender: nobody once it was cancelled, and it is
\* cancelled before its channel is closed.
WaitInv == AnswerInv /\ OrderInv /\ SP!ParkedInv /\ SP!StopInv

LEMMA Waiting == Spec => []WaitInv
<1>1. Spec => [](PumpInv /\ OrderInv)
  BY ImplementsReceiver, PumpInvInit, PumpInvStep, OrderInvInit, OrderInvStep, PTL DEF R!Spec
<1>2. SP!Inv => SP!ParkedInv /\ SP!StopInv
  BY DEF SP!Inv
<1> QED
  BY <1>1, <1>2, SenderAlone, SP!Invariance, QueueAssumption, AnswerInvInit, AnswerInvStep, PTL
  DEF Spec, WaitInv

LEMMA PanicStep ==
    ASSUME NEW f \in Frames, WaitInv, [Next]_vars
    PROVE  /\ call'[f] = "panicked" => call[f] = "panicked" \/ job[f] = "sending"
           /\ ctxDone /\ job'[f] = "sending" => job[f] = "sending"
           /\ ctxDone => ctxDone'
<1> DEFINE Goal == /\ call'[f] = "panicked" => call[f] = "panicked" \/ job[f] = "sending"
                   /\ ctxDone /\ job'[f] = "sending" => job[f] = "sending"
                   /\ ctxDone => ctxDone'
<1> SUFFICES Goal
  OBVIOUS
<1>0. call \in [Frames -> S!CallStates] /\ job \in [Frames -> R!JobStates]
  BY DEF WaitInv, AnswerInv
<1>1. CASE UNCHANGED vars
  BY <1>1 DEF vars, sVars, rVars
<1>2. CASE Terminated
  BY <1>1, <1>2 DEF Terminated
<1>3. CASE SenderOnly
  <2>1. job' = job
    BY <1>3 DEF SenderOnly, rVars
  <2>2. CASE S!StopStep
    <3>1. call[f] # "parked"
      BY <2>2 DEF WaitInv, SP!ParkedInv, SP!StopInv, S!StopStep, S!StopTicker,
         S!StopCloseChan, S!StopWaited
    <3> QED
      BY <1>0, <2>1, <2>2, <3>1 DEF S!StopStep, S!StopTicker, S!StopCloseChan, S!StopWaited
  <2>3. CASE ~S!StopStep
    BY <1>0, <1>3, <2>1, <2>3 DEF SenderOnly, S!Start, S!SendTimeout, S!PumpStep,
       S!PumpReceive, S!Parked, S!PumpReceiveClosed, S!PumpTick, S!PumpCancelled, S!WriteOk,
       S!WriteErr, S!PingOk, S!PingErr, S!WriteClose, S!StopCancel, S!stopVars
  <2> QED
    BY <2>2, <2>3
<1>4. CASE ReceiverOnly
  <2>1. ctxDone' = ctxDone /\ call' = call
    BY <1>4 DEF ReceiverOnly, sVars
  <2>2. \/ job' = job
        \/ rpump = "handling" /\ job' = [job EXCEPT ![Head(rhand)] = "spawned"]
        \/ \E g \in Frames, s \in R!JobStates \ {"sending"} : job' = [job EXCEPT ![g] = s]
    BY <1>4 DEF ReceiverOnly, R!OwnStep, R!JobStates,
       R!SetProcessor, R!SetSender, R!Take, R!Start, R!PumpCheck, R!ReadErr,
       R!StopCancel, R!StopWaited, R!handleRawMessage, R!Ignore, R!Offer,
       R!OfferCancelled, R!Drop, R!Handled, R!Spawn, R!ReadFrame, R!processMessage,
       R!JobStarts, R!HandlerReturns, R!JobResumes, R!Job
  <2> QED
    BY <1>0, <2>1, <2>2
<1>5. ASSUME NEW g \in Frames, ReplyCheck(g) PROVE Goal
  BY <1>0, <1>5 DEF ReplyCheck, S!IsRunning, R!ReplyCheck, R!Job, sVars
<1>6. ASSUME NEW g \in Frames, ReplySend(g) PROVE Goal
  <2>1. job[g] = "sending" /\ job' = [job EXCEPT ![g] = "inCall"] /\ ctxDone' = ctxDone
    BY <1>6 DEF ReplySend, R!ReplySend, R!Job, S!SendRawBytes, S!Enqueue, S!SendOnClosed,
       S!Cancelled, S!Park, S!stopVars
  <2>2. f # g => call'[f] = call[f]
    BY <1>0, <1>6 DEF ReplySend, S!SendRawBytes, S!Enqueue, S!SendOnClosed, S!Cancelled, S!Park
  <2> QED
    BY <1>0, <2>1, <2>2
<1>7. ASSUME NEW g \in Frames, ReplyReturns(g) PROVE Goal
  BY <1>0, <1>7 DEF ReplyReturns, R!ReplyReturns, R!Job, sVars
<1> HIDE DEF Goal
<1> QED
  BY <1>1, <1>2, <1>3, <1>4, <1>5, <1>6, <1>7 DEF Next, Reply

\* A goroutine can meet the sender's closed channel only if it asked IsRunning
\* before the sender was cancelled and had not yet sent by then; one that is
\* blocked in the sender never does.
THEOREM LateRepliesSafe == Spec => OnlyCheckedRepliesPanic
<1>1. WaitInv /\ [Next]_vars =>
        [\A f \in Frames :
            /\ call'[f] = "panicked" => call[f] = "panicked" \/ job[f] = "sending"
            /\ ctxDone /\ job'[f] = "sending" => job[f] = "sending"]_vars
  BY PanicStep
<1> QED
  BY <1>1, Waiting, PTL DEF Spec, OnlyCheckedRepliesPanic

\* The same seen from one moment on: once the sender is cancelled, the reply of a
\* goroutine that is not between its check and its send never panics.
THEOREM LateNeverPanics ==
    ASSUME NEW f \in Frames
    PROVE  Spec => [](ctxDone /\ job[f] # "sending" /\ call[f] # "panicked"
                        => [](call[f] # "panicked"))
<1> DEFINE Late == ctxDone /\ job[f] # "sending" /\ call[f] # "panicked"
<1>1. Late => call[f] # "panicked"
  OBVIOUS
<1>2. WaitInv /\ Late /\ [Next]_vars => Late'
  BY PanicStep
<1> HIDE DEF Late
<1>3. Spec => [](Late => [](call[f] # "panicked"))
  BY <1>1, <1>2, Waiting, PTL DEF Spec
<1> QED
  BY <1>3 DEF Late

================================================================================
