------------------------- MODULE MessageSenderProofs -------------------------
(***************************************************************************)
(* Proofs about MessageSender, for every set of calls and every capacity.  *)
(*                                                                         *)
(* The safety properties are consequences of one inductive invariant, Inv. *)
(* Conservation alone is not inductive: WriteOk preserves it only if the   *)
(* pump holds one frame while it writes and none elsewhere (HandInv), and  *)
(* CloseMeansDrained needs to know that nothing enters the channel after   *)
(* the pump saw it closed (ClosingInv, CloseInv), which in turn needs that *)
(* no caller is parked once the context is cancelled (ParkedInv).          *)
(***************************************************************************)
EXTENDS MessageSender, SequenceTheorems, TLAPS

\* The pump holds a frame exactly while it writes, or when a write failed.
HandInv ==
    /\ pump = "writing" => Len(hand) = 1
    /\ pump \notin {"writing", "exited"} => hand = <<>>

\* s.wg counts the pump.
WgInv == wg = IF PumpRuns THEN 1 ELSE 0

\* Stop works through its statements in order.
StopInv ==
    /\ ctxDone <=> stopPc # "idle"
    /\ chanClosed <=> stopPc \in {"waiting", "returned"}
    /\ stopPc = "returned" => ~PumpRuns

\* A cancelled context leaves nobody waiting, and only a full channel does.
ParkedInv == \A c \in Calls : call[c] = "parked" => ~ctxDone

\* The pump is about to write the close frame: the channel is drained.
ClosingInv == pump = "closing" => chanClosed /\ sendChan = <<>>

\* The close frame is the last thing the pump writes.
CloseInv == closeSent => /\ pump = "exited"
                         /\ chanClosed
                         /\ sendChan = <<>>
                         /\ hand = <<>>

Inv ==
    /\ TypeOK
    /\ HandInv
    /\ WgInv
    /\ StopInv
    /\ ParkedInv
    /\ ClosingInv
    /\ CloseInv
    /\ Conservation
    /\ NoGhostSend

------------------------------------------------------------------------------
(* Facts about sequences.                                                  *)

\* Appending adds one element to the range.
LEMMA RangeAppend ==
    ASSUME NEW S, NEW s \in Seq(S), NEW e \in S
    PROVE  Range(Append(s, e)) = Range(s) \cup {e}
<1>1. DOMAIN Append(s, e) = DOMAIN s \cup {Len(s) + 1}
  OBVIOUS
<1>2. \A i \in DOMAIN s : Append(s, e)[i] = s[i]
  OBVIOUS
<1>3. Append(s, e)[Len(s) + 1] = e
  OBVIOUS
<1> QED
  BY <1>1, <1>2, <1>3 DEF Range

\* What is between the callers and the peer: wire, hand and channel.
Queue(w, h, b) == w \o h \o b

\* The whole grows at its end when its last part does.
LEMMA GrowQueue ==
    ASSUME NEW S, NEW w \in Seq(S), NEW h \in Seq(S), NEW b \in Seq(S), NEW e \in S
    PROVE  Append(Queue(w, h, b), e) = Queue(w, h, Append(b, e))
<1> DEFINE L == Append(w \o h \o b, e)
           R == w \o h \o Append(b, e)
<1>1. L \in Seq(S) /\ R \in Seq(S) /\ Len(L) = Len(R)
  OBVIOUS
<1>2. ASSUME NEW i \in 1 .. Len(L) PROVE L[i] = R[i]
  OBVIOUS
<1> HIDE DEF L, R
<1>3. L = R
  BY <1>1, <1>2, SeqEqual
<1> QED
  BY <1>3 DEF L, R, Queue

\* Taking the head of the buffer into an empty hand changes nothing overall.
LEMMA TakeHead ==
    ASSUME NEW S, NEW w \in Seq(S), NEW b \in Seq(S), b # <<>>
    PROVE  /\ Head(b) \in S /\ Tail(b) \in Seq(S) /\ Len(Tail(b)) = Len(b) - 1
           /\ <<Head(b)>> \in Seq(S) /\ Len(<<Head(b)>>) = 1
           /\ Queue(w, <<Head(b)>>, Tail(b)) = Queue(w, <<>>, b)
BY DEF Queue

\* Neither does moving the hand's content to the wire.
LEMMA EmptyHand ==
    ASSUME NEW S, NEW w \in Seq(S), NEW h \in Seq(S), NEW b \in Seq(S)
    PROVE  Queue(w \o h, <<>>, b) = Queue(w, h, b)
BY DEF Queue

\* Concatenation, kept folded so that the provers see one term at a time.
Cat(x, y) == x \o y

\* Length and elements of a concatenation.
LEMMA CatProps ==
    ASSUME NEW S, NEW x \in Seq(S), NEW y \in Seq(S)
    PROVE  /\ Cat(x, y) \in Seq(S)
           /\ Len(Cat(x, y)) = Len(x) + Len(y)
           /\ \A i \in 1 .. Len(x) : Cat(x, y)[i] = x[i]
           /\ \A i \in 1 .. Len(y) : Cat(x, y)[Len(x) + i] = y[i]
<1>1. Cat(x, y) \in Seq(S)
  BY DEF Cat
<1>2. Len(Cat(x, y)) = Len(x) + Len(y)
  BY DEF Cat
<1>3. \A i \in 1 .. Len(x) : Cat(x, y)[i] = x[i]
  BY DEF Cat
<1>4. \A i \in 1 .. Len(y) : Cat(x, y)[Len(x) + i] = y[i]
  BY DEF Cat
<1> QED
  BY <1>1, <1>2, <1>3, <1>4

\* The frame in hand is the one after those on the wire.
LEMMA NextFrame ==
    ASSUME NEW S, NEW w \in Seq(S), NEW h \in Seq(S), NEW b \in Seq(S)
    PROVE  Len(h) = 1 =>
           /\ Len(w) < Len(Queue(w, h, b))
           /\ w \o h = Append(w, Queue(w, h, b)[Len(w) + 1])
<1>0. /\ Cat(w, h) \in Seq(S)
      /\ Len(Cat(w, h)) = Len(w) + Len(h)
      /\ \A i \in 1 .. Len(h) : Cat(w, h)[Len(w) + i] = h[i]
  BY CatProps
<1> HAVE Len(h) = 1
<1>1. Len(w) \in Nat /\ Len(b) \in Nat
  BY LenProperties
<1>2. /\ Cat(w, h) \in Seq(S)
      /\ Len(Cat(w, h)) = Len(w) + 1
      /\ Cat(w, h)[Len(w) + 1] = h[1]
  BY <1>0
<1>3. /\ Len(Cat(Cat(w, h), b)) = Len(w) + 1 + Len(b)
      /\ Cat(Cat(w, h), b)[Len(w) + 1] = h[1]
  <2>1. PICK u \in Seq(S) : u = Cat(w, h)
    BY <1>2
  <2>2. /\ Len(Cat(u, b)) = Len(u) + Len(b)
        /\ \A i \in 1 .. Len(u) : Cat(u, b)[i] = u[i]
    BY ONLY CatProps
  <2> QED
    BY <1>1, <1>2, <2>1, <2>2
<1>4. PICK e \in S : e = h[1]
  BY ElementOfSeq
<1>5. h = <<e>>
  <2>1. <<e>> \in Seq(S) /\ Len(<<e>>) = 1 /\ <<e>>[1] = e
    OBVIOUS
  <2> QED
    BY <1>4, <2>1, SeqEqual
<1>6. w \o <<e>> = Append(w, e)
  BY AppendIsConcat
<1>7. Cat(w, h) = Append(w, e)
  BY <1>5, <1>6 DEF Cat
<1>8. Queue(w, h, b) = Cat(Cat(w, h), b) /\ w \o h = Cat(w, h)
  BY DEF Queue, Cat
<1>9. Len(w) < Len(Cat(Cat(w, h), b))
  BY <1>1, <1>3
<1> QED
  BY <1>3, <1>4, <1>7, <1>8, <1>9, Zenon

------------------------------------------------------------------------------
(* The invariant is inductive.                                             *)

\* A new sender, not yet started, satisfies it.
LEMMA InvInit == Init => Inv
<1> SUFFICES ASSUME Init PROVE Inv
  OBVIOUS
<1>1. TypeOK
  <2>1. call \in [Calls -> CallStates]
    BY DEF Init, CallStates
  <2>2. <<>> \in Seq(Calls) /\ Len(<<>>) = 0
    OBVIOUS
  <2>3. Len(sendChan) <= Cap /\ Len(hand) <= 1 /\ wg \in {0, 1}
    BY <2>2, CapAssumption DEF Init
  <2> QED
    BY <2>1, <2>2, <2>3 DEF Init, TypeOK, PumpStates, StopStates
<1>2. HandInv /\ WgInv /\ StopInv /\ ParkedInv /\ ClosingInv /\ CloseInv
  BY DEF Init, HandInv, WgInv, StopInv, ParkedInv, ClosingInv, CloseInv, PumpRuns
<1>3. Conservation
  BY DEF Init, Conservation
<1>4. NoGhostSend
  <2>1. Range(accepted) = {}
    BY DEF Init, Range
  <2> QED
    BY <2>1 DEF Init, NoGhostSend
<1> QED
  BY <1>1, <1>2, <1>3, <1>4 DEF Inv

\* An action that only moves call c, out of a state in which it is not
\* accepted and into another such state, keeps the invariant.
LEMMA CallMoves ==
    ASSUME Inv, NEW c \in Calls, NEW to \in CallStates \ {"ok"},
           call[c] \in {"idle", "parked"},
           to = "parked" => ~ctxDone,
           call' = [call EXCEPT ![c] = to],
           UNCHANGED <<chanVars, pumpVars, stopVars>>
    PROVE  Inv'
<1> USE DEF Inv, chanVars, pumpVars, stopVars
<1>1. TypeOK'
  BY DEF TypeOK
<1>2. /\ HandInv' /\ WgInv' /\ StopInv' /\ ClosingInv' /\ CloseInv'
      /\ Conservation'
  BY DEF HandInv, WgInv, StopInv, ClosingInv, CloseInv, Conservation, PumpRuns
<1>3. ParkedInv'
  BY DEF ParkedInv, TypeOK
<1>4. NoGhostSend'
  BY DEF NoGhostSend, TypeOK
<1> QED
  BY <1>1, <1>2, <1>3, <1>4

\* So does one that puts call p's frame at the end of the queue.
LEMMA FrameEnters ==
    ASSUME Inv, NEW p \in Calls, call[p] \in {"idle", "parked"},
           accepted' = Append(accepted, p),
           call' = [call EXCEPT ![p] = "ok"]
    PROVE  /\ accepted' \in Seq(Calls)
           /\ call' \in [Calls -> CallStates]
           /\ NoGhostSend'
           /\ \A c \in Calls : call'[c] = "parked" => call[c] = "parked"
<1>1. accepted' \in Seq(Calls) /\ call' \in [Calls -> CallStates]
  BY DEF Inv, TypeOK, CallStates
<1>2. Range(accepted') = Range(accepted) \cup {p}
  BY RangeAppend DEF Inv, TypeOK
<1>3. NoGhostSend'
  BY <1>2 DEF Inv, TypeOK, NoGhostSend
<1>4. \A c \in Calls : call'[c] = "parked" => call[c] = "parked"
  BY DEF Inv, TypeOK
<1> QED
  BY <1>1, <1>3, <1>4

\* Every step of a sender keeps the invariant.
LEMMA InvStep == Inv /\ [Next]_vars => Inv'
<1> SUFFICES ASSUME Inv, [Next]_vars
             PROVE  Inv'
  OBVIOUS
<1>1. CASE Start
  BY <1>1 DEF Start, Inv, TypeOK, HandInv, WgInv, StopInv, ParkedInv, ClosingInv, CloseInv,
     Conservation, NoGhostSend, PumpRuns, PumpStates, chanVars, stopVars
<1>2. ASSUME NEW c \in Calls, call[c] = "idle", EncodeFails(c)
      PROVE  Inv'
  BY <1>2, CallMoves DEF EncodeFails, CallStates
<1>3. ASSUME NEW c \in Calls, call[c] = "idle", Enqueue(c)
      PROVE  Inv'
  <2> USE DEF Inv, TypeOK
  <2>1. /\ accepted' \in Seq(Calls) /\ call' \in [Calls -> CallStates]
        /\ NoGhostSend'
        /\ \A k \in Calls : call'[k] = "parked" => call[k] = "parked"
    BY <1>3, FrameEnters DEF Enqueue
  <2>2. sendChan' \in Seq(Calls) /\ Len(sendChan') <= Cap
    BY <1>3, CapAssumption DEF Enqueue
  <2>3. TypeOK'
    BY <1>3, <2>1, <2>2 DEF Enqueue, pumpVars, stopVars
  <2>4. HandInv' /\ WgInv' /\ StopInv' /\ ParkedInv'
    BY <1>3, <2>1 DEF Enqueue, pumpVars, stopVars, HandInv, WgInv, StopInv, ParkedInv, PumpRuns
  <2>5. ClosingInv' /\ CloseInv'
    BY <1>3 DEF Enqueue, pumpVars, stopVars, ClosingInv, CloseInv
  <2>6. Conservation'
    <3>1. Append(Queue(wire, hand, sendChan), c) = Queue(wire, hand, Append(sendChan, c))
      BY GrowQueue
    <3> QED
      BY <1>3, <3>1 DEF Enqueue, pumpVars, Conservation, Queue
  <2> QED
    BY <2>1, <2>3, <2>4, <2>5, <2>6
<1>4. ASSUME NEW c \in Calls, call[c] = "idle", SendOnClosed(c)
      PROVE  Inv'
  BY <1>4, CallMoves DEF SendOnClosed, CallStates
<1>5. ASSUME NEW c \in Calls, call[c] = "idle", Cancelled(c)
      PROVE  Inv'
  BY <1>5, CallMoves DEF Cancelled, CallStates
<1>6. ASSUME NEW c \in Calls, call[c] = "idle", Park(c)
      PROVE  Inv'
  BY <1>6, CallMoves DEF Park, CallStates
<1>7. ASSUME NEW c \in Calls, SendTimeout(c)
      PROVE  Inv'
  BY <1>7, CallMoves DEF SendTimeout, CallStates
<1>8. CASE PumpReceive
  <2> USE DEF Inv, TypeOK
  <2>1. /\ hand = <<>> /\ hand' = <<Head(sendChan)>> /\ sendChan # <<>>
        /\ pump = "select" /\ pump' = "writing"
        /\ UNCHANGED <<wg, wire, closeSent, stopVars>>
    BY <1>8 DEF PumpReceive, HandInv
  <2>2. /\ Head(sendChan) \in Calls /\ Tail(sendChan) \in Seq(Calls)
        /\ Len(Tail(sendChan)) = Len(sendChan) - 1
        /\ hand' \in Seq(Calls) /\ Len(hand') = 1
        /\ accepted = Queue(wire, hand', Tail(sendChan))
    <3>1. accepted = Queue(wire, <<>>, sendChan)
      BY <2>1 DEF Conservation, Queue
    <3> QED
      BY <2>1, <3>1, TakeHead
  <2>3. HandInv' /\ WgInv' /\ StopInv' /\ ClosingInv' /\ CloseInv'
    BY <2>1, <2>2 DEF HandInv, WgInv, StopInv, ClosingInv, CloseInv, PumpRuns, stopVars
  <2>4. CASE Parked = {} /\ sendChan' = Tail(sendChan) /\ UNCHANGED <<accepted, call>>
    <3>1. TypeOK'
      BY <2>1, <2>2, <2>4, CapAssumption DEF stopVars, PumpStates
    <3>2. ParkedInv' /\ NoGhostSend' /\ Conservation'
      BY <2>1, <2>2, <2>4 DEF ParkedInv, NoGhostSend, Conservation, Queue, stopVars
    <3> QED
      BY <2>3, <3>1, <3>2
  <2>5. ASSUME NEW p \in Parked,
               sendChan' = Append(Tail(sendChan), p),
               accepted' = Append(accepted, p),
               call' = [call EXCEPT ![p] = "ok"]
        PROVE  Inv'
    <3>1. p \in Calls /\ call[p] = "parked"
      BY DEF Parked
    <3>2. /\ accepted' \in Seq(Calls) /\ call' \in [Calls -> CallStates]
          /\ NoGhostSend'
          /\ \A k \in Calls : call'[k] = "parked" => call[k] = "parked"
      BY <2>5, <3>1, FrameEnters
    <3>3. sendChan' \in Seq(Calls) /\ Len(sendChan') <= Cap
      BY <2>2, <2>5, <3>1, CapAssumption
    <3>4. TypeOK'
      BY <2>1, <2>2, <3>2, <3>3 DEF stopVars, PumpStates
    <3>5. ParkedInv'
      BY <2>1, <3>2 DEF ParkedInv, stopVars
    <3>6. Conservation'
      <4>1. PICK w \in Seq(Calls), g \in Seq(Calls), rest \in Seq(Calls), e \in Calls :
              w = wire /\ g = hand' /\ rest = Tail(sendChan) /\ e = p
        BY <2>2, <3>1
      <4>2. Append(Queue(w, g, rest), e) = Queue(w, g, Append(rest, e))
        BY ONLY GrowQueue
      <4>3. accepted' = Queue(wire', hand', sendChan')
        BY <2>1, <2>2, <2>5, <4>1, <4>2
      <4> QED
        BY <4>3 DEF Conservation, Queue
    <3> QED
      BY <2>3, <3>2, <3>4, <3>5, <3>6
  <2> QED
    BY <1>8, <2>4, <2>5 DEF PumpReceive
<1>9. CASE PumpReceiveClosed \/ PumpTick \/ PingOk
  <2>1. CASE PumpReceiveClosed
    BY <2>1 DEF PumpReceiveClosed, Inv, TypeOK, HandInv, WgInv, StopInv, ParkedInv, ClosingInv,
       CloseInv, Conservation, NoGhostSend, PumpRuns, PumpStates, chanVars, stopVars
  <2>2. CASE PumpTick
    BY <2>2 DEF PumpTick, Inv, TypeOK, HandInv, WgInv, StopInv, ParkedInv, ClosingInv,
       CloseInv, Conservation, NoGhostSend, PumpRuns, PumpStates, chanVars, stopVars
  <2>3. CASE PingOk
    BY <2>3 DEF PingOk, Inv, TypeOK, HandInv, WgInv, StopInv, ParkedInv, ClosingInv,
       CloseInv, Conservation, NoGhostSend, PumpRuns, PumpStates, chanVars, stopVars
  <2> QED
    BY <1>9, <2>1, <2>2, <2>3
<1>10. CASE PumpCancelled \/ WriteErr \/ PingErr
  <2>1. /\ PumpRuns /\ pump \in {"select", "writing", "pinging"} /\ PumpReturns
        /\ UNCHANGED <<hand, wire, closeSent, chanVars, stopVars, call>>
    BY <1>10 DEF PumpCancelled, WriteErr, PingErr, PumpRuns
  <2>2. wg = 1 /\ wg' = 0 /\ pump' = "exited"
    BY <2>1 DEF Inv, WgInv, PumpReturns
  <2> QED
    BY <2>1, <2>2 DEF Inv, TypeOK, HandInv, WgInv, StopInv, ParkedInv, ClosingInv,
       CloseInv, Conservation, NoGhostSend, PumpRuns, PumpStates, chanVars, stopVars
<1>11. CASE WriteOk
  <2>1. wire' \in Seq(Calls) /\ hand' \in Seq(Calls) /\ Len(hand') = 0
    BY <1>11 DEF WriteOk, Inv, TypeOK
  <2>2. TypeOK'
    BY <1>11, <2>1 DEF WriteOk, Inv, TypeOK, PumpStates, chanVars, stopVars
  <2>3. Conservation'
    <3>1. Queue(wire \o hand, <<>>, sendChan) = Queue(wire, hand, sendChan)
      BY EmptyHand DEF Inv, TypeOK
    <3> QED
      BY <1>11, <3>1 DEF WriteOk, Inv, Conservation, Queue, chanVars
  <2>4. /\ HandInv' /\ WgInv' /\ StopInv' /\ ParkedInv' /\ ClosingInv' /\ CloseInv'
        /\ NoGhostSend'
    BY <1>11 DEF WriteOk, Inv, HandInv, WgInv, StopInv, ParkedInv, ClosingInv, CloseInv,
       NoGhostSend, PumpRuns, chanVars, stopVars
  <2> QED
    BY <2>2, <2>3, <2>4 DEF Inv
<1>12. CASE WriteClose
  <2>1. wg = 1 /\ wg' = 0 /\ pump' = "exited"
    BY <1>12 DEF WriteClose, Inv, WgInv, PumpRuns, PumpReturns
  <2> QED
    BY <1>12, <2>1 DEF WriteClose, Inv, TypeOK, HandInv, WgInv, StopInv, ParkedInv, ClosingInv,
       CloseInv, Conservation, NoGhostSend, PumpRuns, PumpStates, chanVars, stopVars
<1>13. CASE StopCancel
  <2>1. call' \in [Calls -> CallStates]
    BY <1>13 DEF StopCancel, Inv, TypeOK, CallStates
  <2>2. \A c \in Calls : call'[c] # "parked" /\ (call'[c] = "ok" <=> call[c] = "ok")
    BY <1>13 DEF StopCancel, Inv, TypeOK
  <2> QED
    BY <1>13, <2>1, <2>2 DEF StopCancel, Inv, TypeOK, HandInv, WgInv, StopInv, ParkedInv,
       ClosingInv, CloseInv, Conservation, NoGhostSend, PumpRuns, StopStates, chanVars, pumpVars
<1>14. CASE StopTicker
  BY <1>14 DEF StopTicker, Inv, TypeOK, HandInv, WgInv, StopInv, ParkedInv,
     ClosingInv, CloseInv, Conservation, NoGhostSend, PumpRuns, StopStates, chanVars, pumpVars
<1>15. CASE StopCloseChan
  <2>1. call' \in [Calls -> CallStates]
    BY <1>15 DEF StopCloseChan, Inv, TypeOK, CallStates
  <2>2. \A c \in Calls : call'[c] # "parked" /\ (call'[c] = "ok" <=> call[c] = "ok")
    BY <1>15 DEF StopCloseChan, Inv, TypeOK
  <2> QED
    BY <1>15, <2>1, <2>2 DEF StopCloseChan, Inv, TypeOK, HandInv, WgInv, StopInv, ParkedInv,
       ClosingInv, CloseInv, Conservation, NoGhostSend, PumpRuns, StopStates, chanVars, pumpVars
<1>16. CASE StopWaited
  BY <1>16 DEF StopWaited, Inv, TypeOK, HandInv, WgInv, StopInv, ParkedInv,
     ClosingInv, CloseInv, Conservation, NoGhostSend, PumpRuns, StopStates, chanVars, pumpVars
<1>17. CASE UNCHANGED vars
  BY <1>17 DEF vars, chanVars, pumpVars, stopVars, Inv, TypeOK, HandInv, WgInv, StopInv,
     ParkedInv, ClosingInv, CloseInv, Conservation, NoGhostSend, PumpRuns
<1> QED
  BY <1>1, <1>2, <1>3, <1>4, <1>5, <1>6, <1>7, <1>8, <1>9, <1>10, <1>11, <1>12, <1>13,
     <1>14, <1>15, <1>16, <1>17
     DEF Next, Step, Terminated, SendMessage, SendRawBytes, PumpStep, StopStep

------------------------------------------------------------------------------
(* What follows for every behaviour of the sender.                         *)

\* Inv holds throughout every behaviour.
THEOREM Invariance == Spec => []Inv
BY InvInit, InvStep, PTL DEF Spec

\* The types of all variables are kept, and with them the bound on sendChan.
THEOREM TypeCorrect == Spec => []TypeOK
<1>1. Inv => TypeOK
  BY DEF Inv
<1> QED
  BY <1>1, Invariance, PTL

\* No frame is lost, repeated or reordered between the caller and the wire.
THEOREM QueueConserved == Spec => []Conservation
<1>1. Inv => Conservation
  BY DEF Inv
<1> QED
  BY <1>1, Invariance, PTL

\* A call returned nil exactly when its frame entered the queue.
THEOREM ResultsAreTrue == Spec => []NoGhostSend
<1>1. Inv => NoGhostSend
  BY DEF Inv
<1> QED
  BY <1>1, Invariance, PTL

\* A call enters the queue once: when it does it has not returned nil, so it is
\* not there yet.
AcceptedOnce == \A i, j \in DOMAIN accepted : accepted[i] = accepted[j] => i = j

LEMMA AcceptedOnceStep == Inv /\ AcceptedOnce /\ [Next]_vars => AcceptedOnce'
<1> SUFFICES ASSUME Inv, AcceptedOnce, [Next]_vars PROVE AcceptedOnce'
  OBVIOUS
<1>1. accepted \in Seq(Calls)
  BY DEF Inv, TypeOK
<1>2. ASSUME NEW c \in Calls, call[c] # "ok", accepted' = Append(accepted, c)
      PROVE  AcceptedOnce'
  <2>1. \A i \in DOMAIN accepted : accepted[i] # c
    BY <1>2 DEF Inv, NoGhostSend, Range
  <2>2. /\ DOMAIN accepted = 1..Len(accepted) /\ Len(accepted) \in Nat
        /\ DOMAIN accepted' = 1..Len(accepted) + 1
        /\ \A i \in 1..Len(accepted) : accepted'[i] = accepted[i]
        /\ accepted'[Len(accepted) + 1] = c
    BY <1>1, <1>2, AppendProperties
  <2> QED
    BY <2>1, <2>2 DEF AcceptedOnce
<1>3. CASE accepted' = accepted
  BY <1>3 DEF AcceptedOnce
<1>4. CASE UNCHANGED vars
  BY <1>3, <1>4 DEF vars, chanVars
<1>5. ASSUME NEW c \in Calls, SendMessage(c) PROVE AcceptedOnce'
  <2>1. CASE call[c] = "idle" /\ Enqueue(c)
    BY <1>2, <2>1 DEF Enqueue
  <2> QED
    BY <1>3, <1>5, <2>1 DEF SendMessage, SendRawBytes, EncodeFails, SendOnClosed,
       Cancelled, Park, chanVars
<1>6. CASE PumpReceive
  BY <1>2, <1>3, <1>6 DEF PumpReceive, Parked
<1> QED
  BY <1>3, <1>4, <1>5, <1>6 DEF Next, Step, Terminated, Start, SendTimeout, PumpStep,
     PumpReceiveClosed, PumpTick, PumpCancelled, WriteOk, WriteErr, PingOk, PingErr,
     WriteClose, StopCancel, StopStep, StopTicker, StopCloseChan, StopWaited, chanVars

\* A frame is written once at most.
THEOREM FramesOnce == Spec => []WrittenOnce
<1>1. Init => AcceptedOnce
  BY DEF Init, AcceptedOnce
<1>2. Inv /\ AcceptedOnce => WrittenOnce
  <2> SUFFICES ASSUME Inv, AcceptedOnce PROVE WrittenOnce
    OBVIOUS
  <2>0. wire \in Seq(Calls) /\ hand \in Seq(Calls) /\ sendChan \in Seq(Calls)
    BY DEF Inv, TypeOK
  <2>1. /\ Cat(wire, hand) \in Seq(Calls)
        /\ accepted = Cat(Cat(wire, hand), sendChan)
    BY <2>0, CatProps DEF Inv, Conservation, Cat
  <2>2. /\ accepted \in Seq(Calls)
        /\ Len(wire) <= Len(accepted)
        /\ \A i \in 1 .. Len(wire) : accepted[i] = wire[i]
    <3> DEFINE taken == Cat(wire, hand)
    <3>1. /\ taken \in Seq(Calls) /\ Len(taken) = Len(wire) + Len(hand)
          /\ \A i \in 1 .. Len(wire) : taken[i] = wire[i]
      BY <2>0, CatProps
    <3> HIDE DEF taken
    <3>2. /\ Cat(taken, sendChan) \in Seq(Calls)
          /\ Len(Cat(taken, sendChan)) = Len(taken) + Len(sendChan)
          /\ \A i \in 1 .. Len(taken) : Cat(taken, sendChan)[i] = taken[i]
      BY <2>0, <3>1, CatProps
    <3>3. accepted = Cat(taken, sendChan)
      BY <2>1 DEF taken
    <3>4. Len(wire) \in Nat /\ Len(hand) \in Nat /\ Len(sendChan) \in Nat
      BY <2>0
    <3> QED
      BY <3>1, <3>2, <3>3, <3>4
  <2>3. /\ DOMAIN wire \subseteq DOMAIN accepted
        /\ \A i \in DOMAIN wire : accepted[i] = wire[i]
    <3>1. /\ DOMAIN wire = 1 .. Len(wire) /\ DOMAIN accepted = 1 .. Len(accepted)
          /\ Len(wire) \in Nat /\ Len(accepted) \in Nat
      BY <2>0, <2>2, LenProperties
    <3> QED
      BY <2>2, <3>1
  <2> QED
    BY <2>3 DEF AcceptedOnce, WrittenOnce
<1> QED
  BY <1>1, <1>2, AcceptedOnceStep, Invariance, PTL DEF Spec

\* The close frame follows every accepted frame.
THEOREM ClosedAfterDrain == Spec => []CloseMeansDrained
<1>1. Inv => CloseMeansDrained
  BY DEF Inv, TypeOK, CloseInv, Conservation, CloseMeansDrained
<1> QED
  BY <1>1, Invariance, PTL

\* A returned Stop has waited for the pump.
THEOREM QuietAfterStop == Spec => []StopQuiesces
<1>1. Inv => StopQuiesces
  BY DEF Inv, StopInv, StopQuiesces
<1> QED
  BY <1>1, Invariance, PTL

\* A caller blocked in SendRawBytes is never made to panic.
THEOREM BlockedCallersSafe == Spec => ParkedNeverPanics
<1>1. Inv /\ [Next]_vars =>
        [\A c \in Calls : call[c] = "parked" => call'[c] # "panicked"]_vars
  <2> SUFFICES ASSUME Inv, [Next]_vars, NEW c \in Calls, call[c] = "parked"
               PROVE  call'[c] # "panicked"
    OBVIOUS
  <2>1. ASSUME NEW d \in Calls, SendMessage(d) \/ SendTimeout(d)
        PROVE  call'[c] # "panicked"
    BY <2>1 DEF SendMessage, SendRawBytes, EncodeFails, Enqueue, SendOnClosed, Cancelled, Park,
       SendTimeout, Inv, TypeOK
  <2>2. CASE PumpStep
    BY <2>2 DEF PumpStep, PumpReceive, PumpReceiveClosed, PumpTick, PumpCancelled, WriteOk,
       WriteErr, PingOk, PingErr, WriteClose, Parked, Inv, TypeOK
  <2>3. CASE Start \/ StopCancel \/ StopTicker \/ StopWaited
    BY <2>3 DEF Start, StopCancel, StopTicker, StopWaited
  <2>4. ~StopCloseChan
    BY DEF StopCloseChan, Inv, StopInv, ParkedInv
  <2>5. CASE UNCHANGED vars
    BY <2>5 DEF vars
  <2> QED
    BY <2>1, <2>2, <2>3, <2>4, <2>5 DEF Next, Step, StopStep, Terminated
<1> QED
  BY <1>1, Invariance, PTL DEF Spec, ParkedNeverPanics

------------------------------------------------------------------------------
(* The sender implements the abstract outbound queue.                      *)

\* The abstract values of the refinement mapping.
rejectedBar == {c \in Calls : call[c] \in Failed}
phaseBar == IF closeSent \/ stopPc = "returned" THEN "done"
            ELSE IF chanClosed THEN "shut" ELSE "open"

\* A step that leaves queue, results and phase alone is a stuttering step.
LEMMA Stutters ==
    ASSUME UNCHANGED <<accepted, wire, call, closeSent, stopPc, chanClosed>>
    PROVE  UNCHANGED OQ!oqVars
BY DEF OQ!oqVars

\* A step that turns waiting or idle calls into failed ones is a Reject.
LEMMA Rejects ==
    ASSUME TypeOK, NoGhostSend, NEW S \in SUBSET Calls, S # {},
           \A c \in S : call[c] \in {"idle", "parked"} /\ call'[c] \in Failed,
           \A c \in Calls \ S : call'[c] \in Failed <=> call[c] \in Failed,
           phaseBar' = phaseBar, UNCHANGED <<accepted, wire>>
    PROVE  OQ!Next
<1>0. OQ!Range(accepted) = Range(accepted)
  BY DEF OQ!Range, Range
<1>1. S \subseteq OQ!Undecided
  BY <1>0 DEF OQ!Undecided, NoGhostSend, Failed
<1>2. rejectedBar' = rejectedBar \cup S
  BY DEF rejectedBar, Failed
<1>3. OQ!Reject(S)
  BY <1>1, <1>2 DEF OQ!Reject, rejectedBar, phaseBar
<1> QED
  BY <1>3 DEF OQ!Next

\* A step that lets one idle or parked call's frame in is an Accept.
LEMMA Accepts ==
    ASSUME TypeOK, NoGhostSend, NEW c \in Calls, call[c] \in {"idle", "parked"},
           accepted' = Append(accepted, c), call' = [call EXCEPT ![c] = "ok"],
           phaseBar = "open", phaseBar' = "open", UNCHANGED wire
    PROVE  OQ!Next
<1>0. OQ!Range(accepted) = Range(accepted)
  BY DEF OQ!Range, Range
<1>1. c \in OQ!Undecided
  BY <1>0 DEF OQ!Undecided, NoGhostSend, Failed
<1>2. rejectedBar' = rejectedBar
  BY DEF rejectedBar, TypeOK, Failed
<1>3. OQ!Accept(c)
  BY <1>1, <1>2 DEF OQ!Accept, rejectedBar, phaseBar
<1> QED
  BY <1>3 DEF OQ!Next

\* Every initial state and every step of the sender, seen through the
\* mapping, is one of the abstract queue.
THEOREM Refinement == Spec => ImplementsOutboundQueue
<1>1. Init => OQ!Init
  <2> SUFFICES ASSUME Init PROVE OQ!Init
    OBVIOUS
  <2>1. {c \in Calls : call[c] \in Failed} = {}
    BY DEF Init, Failed
  <2> QED
    BY <2>1 DEF Init, OQ!Init
<1>2. Inv /\ [Next]_vars => [OQ!Next]_OQ!oqVars
  <2> SUFFICES ASSUME Inv, [Next]_vars
               PROVE  OQ!Next \/ UNCHANGED OQ!oqVars
    OBVIOUS
  <2>1. CASE Start \/ PumpReceiveClosed \/ PumpTick \/ PumpCancelled \/ WriteErr \/ PingOk \/ PingErr
    BY <2>1, Stutters DEF Start, PumpReceiveClosed, PumpTick, PumpCancelled, WriteErr, PingOk,
       PingErr, chanVars, stopVars
  <2>2. ASSUME NEW c \in Calls, SendMessage(c)
        PROVE  OQ!Next \/ UNCHANGED OQ!oqVars
    <3>1. CASE EncodeFails(c) /\ call[c] = "idle"
      <4>1. {c} \in SUBSET Calls /\ {c} # {}
        OBVIOUS
      <4>2. /\ \A k \in {c} : call[k] \in {"idle", "parked"} /\ call'[k] \in Failed
            /\ \A k \in Calls \ {c} : call'[k] \in Failed <=> call[k] \in Failed
            /\ phaseBar' = phaseBar /\ UNCHANGED <<accepted, wire>>
        BY <3>1 DEF EncodeFails, Failed, Inv, TypeOK, phaseBar, chanVars, pumpVars, stopVars
      <4> QED
        BY <4>1, <4>2, Rejects DEF Inv
    <3>2. CASE Cancelled(c) /\ call[c] = "idle"
      <4>1. {c} \in SUBSET Calls /\ {c} # {}
        OBVIOUS
      <4>2. /\ \A k \in {c} : call[k] \in {"idle", "parked"} /\ call'[k] \in Failed
            /\ \A k \in Calls \ {c} : call'[k] \in Failed <=> call[k] \in Failed
            /\ phaseBar' = phaseBar /\ UNCHANGED <<accepted, wire>>
        BY <3>2 DEF Cancelled, Failed, Inv, TypeOK, phaseBar, chanVars, pumpVars, stopVars
      <4> QED
        BY <4>1, <4>2, Rejects DEF Inv
    <3>3. CASE (SendOnClosed(c) \/ Park(c)) /\ call[c] = "idle"
      <4>1. rejectedBar' = rejectedBar
        BY <3>3 DEF SendOnClosed, Park, rejectedBar, Failed, Inv, TypeOK
      <4> QED
        BY <3>3, <4>1 DEF SendOnClosed, Park, rejectedBar, chanVars, pumpVars, stopVars, OQ!oqVars
    <3>4. CASE Enqueue(c) /\ call[c] = "idle"
      <4>1. phaseBar = "open" /\ phaseBar' = "open"
        BY <3>4 DEF Enqueue, phaseBar, Inv, StopInv, CloseInv, pumpVars, stopVars
      <4> QED
        BY <3>4, <4>1, Accepts DEF Enqueue, Inv, pumpVars
    <3> QED
      BY <2>2, <3>1, <3>2, <3>3, <3>4 DEF SendMessage, SendRawBytes
  <2>3. ASSUME NEW c \in Calls, SendTimeout(c)
        PROVE  OQ!Next
    <3>1. {c} \in SUBSET Calls /\ {c} # {}
      OBVIOUS
    <3>2. /\ \A k \in {c} : call[k] \in {"idle", "parked"} /\ call'[k] \in Failed
          /\ \A k \in Calls \ {c} : call'[k] \in Failed <=> call[k] \in Failed
          /\ phaseBar' = phaseBar /\ UNCHANGED <<accepted, wire>>
      BY <2>3 DEF SendTimeout, Failed, Inv, TypeOK, phaseBar, chanVars, pumpVars, stopVars
    <3> QED
      BY <3>1, <3>2, Rejects DEF Inv
  <2>4. CASE PumpReceive
    <3>1. CASE UNCHANGED <<accepted, call>>
      BY <2>4, <3>1, Stutters DEF PumpReceive, stopVars
    <3>2. ASSUME NEW p \in Parked, accepted' = Append(accepted, p),
                 call' = [call EXCEPT ![p] = "ok"]
          PROVE  OQ!Next
      <4>1. p \in Calls /\ call[p] = "parked"
        BY DEF Parked
      <4>2. phaseBar = "open" /\ phaseBar' = "open" /\ UNCHANGED wire
        BY <2>4, <4>1 DEF PumpReceive, phaseBar, Inv, StopInv, ParkedInv, CloseInv, stopVars
      <4> QED
        BY <3>2, <4>1, <4>2, Accepts DEF Inv
    <3> QED
      BY <2>4, <3>1, <3>2 DEF PumpReceive
  <2>5. CASE WriteOk
    <3>1. /\ hand \in Seq(Calls) /\ Len(hand) = 1
          /\ wire \in Seq(Calls) /\ sendChan \in Seq(Calls)
          /\ accepted = Queue(wire, hand, sendChan)
      BY <2>5 DEF WriteOk, Inv, TypeOK, HandInv, Conservation, Queue
    <3>2. /\ Len(wire) < Len(accepted)
          /\ wire \o hand = Append(wire, accepted[Len(wire) + 1])
      <4>1. PICK w \in Seq(Calls), h \in Seq(Calls), b \in Seq(Calls) :
              w = wire /\ h = hand /\ b = sendChan
        BY <3>1
      <4>2. Len(h) = 1 =>
              /\ Len(w) < Len(Queue(w, h, b))
              /\ w \o h = Append(w, Queue(w, h, b)[Len(w) + 1])
        BY ONLY NextFrame
      <4> QED
        BY <3>1, <4>1, <4>2
    <3>3. phaseBar # "done"
      BY <2>5 DEF WriteOk, phaseBar, Inv, StopInv, CloseInv, PumpRuns
    <3>4. UNCHANGED <<accepted, call, closeSent, stopPc, chanClosed>> /\ wire' = wire \o hand
      BY <2>5 DEF WriteOk, chanVars, stopVars
    <3>5. OQ!Deliver
      BY <3>2, <3>3, <3>4 DEF OQ!Deliver, phaseBar
    <3> QED
      BY <3>5 DEF OQ!Next
  <2>6. CASE WriteClose
    <3>1. phaseBar = "shut"
      BY <2>6 DEF WriteClose, phaseBar, Inv, StopInv, ClosingInv, CloseInv, PumpRuns
    <3>2. phaseBar' \in {"shut", "done"}
      BY <2>6, <3>1 DEF WriteClose, phaseBar, stopVars
    <3>3. UNCHANGED <<accepted, wire, call>>
      BY <2>6 DEF WriteClose, chanVars
    <3> QED
      BY <3>1, <3>2, <3>3 DEF phaseBar, OQ!Next, OQ!Finish, OQ!oqVars
  <2>7. CASE StopCancel
    <3>1. phaseBar' = phaseBar /\ UNCHANGED <<accepted, wire>>
      BY <2>7 DEF StopCancel, phaseBar, chanVars, pumpVars
    <3>2. CASE Parked = {}
      <4>1. rejectedBar' = rejectedBar
        BY <2>7, <3>2 DEF StopCancel, rejectedBar, Parked
      <4> QED
        BY <3>1, <4>1 DEF rejectedBar, phaseBar, OQ!oqVars
    <3>3. CASE Parked # {}
      <4>1. /\ Parked \in SUBSET Calls
            /\ \A c \in Parked : call[c] \in {"idle", "parked"} /\ call'[c] \in Failed
            /\ \A c \in Calls \ Parked : call'[c] \in Failed <=> call[c] \in Failed
        BY <2>7 DEF StopCancel, Parked, Failed
      <4> QED
        BY <3>1, <3>3, <4>1, Rejects DEF Inv
    <3> QED
      BY <3>2, <3>3
  <2>8. CASE StopTicker
    <3>1. phaseBar' = phaseBar /\ UNCHANGED <<accepted, wire, call>>
      BY <2>8 DEF StopTicker, phaseBar, chanVars, pumpVars
    <3> QED
      BY <3>1 DEF phaseBar, OQ!oqVars
  <2>9. CASE StopCloseChan
    <3>1. Parked = {}
      BY <2>9 DEF StopCloseChan, Parked, Inv, StopInv, ParkedInv
    <3>2. rejectedBar' = rejectedBar /\ UNCHANGED <<accepted, wire>>
      BY <2>9, <3>1 DEF StopCloseChan, rejectedBar, Parked, chanVars, pumpVars
    <3>3. phaseBar = "open" /\ phaseBar' = "shut"
      BY <2>9 DEF StopCloseChan, phaseBar, Inv, StopInv, CloseInv, pumpVars
    <3>4. OQ!Shut
      BY <3>2, <3>3 DEF rejectedBar, phaseBar, OQ!Shut
    <3> QED
      BY <3>4 DEF OQ!Next
  <2>10. CASE StopWaited
    <3>1. phaseBar \in {"shut", "done"} /\ phaseBar' = "done"
      BY <2>10 DEF StopWaited, phaseBar, Inv, StopInv
    <3>2. UNCHANGED <<accepted, wire, call>>
      BY <2>10 DEF StopWaited, chanVars, pumpVars
    <3> QED
      BY <3>1, <3>2 DEF phaseBar, OQ!Next, OQ!Finish, OQ!oqVars
  <2>11. CASE UNCHANGED vars
    BY <2>11, Stutters DEF vars, chanVars, pumpVars, stopVars
  <2> QED
    BY <2>1, <2>2, <2>3, <2>4, <2>5, <2>6, <2>7, <2>8, <2>9, <2>10, <2>11
       DEF Next, Step, PumpStep, StopStep, Terminated
<1> QED
  BY <1>1, <1>2, Invariance, PTL DEF Spec, OQ!Spec, ImplementsOutboundQueue

==============================================================================
