--------------------------- MODULE MessageReceiver ---------------------------
(***************************************************************************)
(* queue/message_revice.go: one goroutine (receivePump) reads frames from  *)
(* the websocket connection, offers each decoded message to messageChan    *)
(* without blocking, and starts one goroutine (processMessage) per message *)
(* that runs the processor and sends its reply through a MessageSender.    *)
(*                                                                         *)
(* The sender is an interface here: IsRunning answers what it likes and    *)
(* SendRawBytes returns when it likes.  MessageQueue puts the real one in. *)
(* External: the connection (a read yields a frame or an error), the       *)
(* codec, the processor and whoever reads GetMessageChan.                  *)
(***************************************************************************)
EXTENDS Naturals, Sequences, Functions

CONSTANTS
    Frames,     \* the frames the peer may send; a message is its frame
    MsgCap      \* capacity of messageChan (100 in the code)

VARIABLES
    rpump,      \* where receivePump is
    rhand,      \* the frame receivePump has read and not disposed of
    msgChan,    \* messages buffered in messageChan
    msgClosed,  \* close(r.messageChan) was executed
    rctxDone,   \* r.ctx is cancelled
    rwg,        \* counter of r.wg
    rstopPc,    \* where the owner's call of Stop is
    processor,  \* r.processor is not nil
    sender,     \* r.sender is not nil
    job,        \* where the processMessage goroutine of each frame is
    read,       \* history: frames read from the connection, in order
    queued,     \* history: messages that entered messageChan, in order
    taken       \* history: messages the consumer took, in order

pumpVars == <<rpump, rhand, rwg, read>>
chanVars == <<msgChan, queued>>
stopVars == <<msgClosed, rctxDone, rstopPc>>
setVars == <<processor, sender>>
vars == <<pumpVars, chanVars, stopVars, setVars, job, taken>>

RPumpStates == {"notStarted", "check", "reading", "handling", "exited", "panicked"}
RStopStates == {"idle", "waiting", "returned"}
JobStates == {"none", "spawned", "handling", "handled", "checking", "sending",
              "inCall", "noReply", "skipped", "replied"}
JobOver == {"noReply", "skipped", "replied"}

RCrashed == rpump = "panicked"

TypeOK ==
    /\ rpump \in RPumpStates
    /\ rhand \in Seq(Frames) /\ Len(rhand) <= 1
    /\ msgChan \in Seq(Frames) /\ Len(msgChan) <= MsgCap
    /\ msgClosed \in BOOLEAN /\ rctxDone \in BOOLEAN
    /\ rwg \in {0, 1}
    /\ rstopPc \in RStopStates
    /\ processor \in BOOLEAN /\ sender \in BOOLEAN
    /\ job \in [Frames -> JobStates]
    /\ read \in Seq(Frames) /\ queued \in Seq(Frames) /\ taken \in Seq(Frames)

------------------------------------------------------------------------------
(* NewMessageReceiver, the setters and Start.  The owner configures the    *)
(* receiver before it starts it: the two fields are not guarded.           *)

Init ==
    /\ rpump = "notStarted" /\ rhand = <<>> /\ rwg = 0
    /\ msgChan = <<>> /\ msgClosed = FALSE
    /\ rctxDone = FALSE /\ rstopPc = "idle"
    /\ processor \in BOOLEAN
    /\ sender = FALSE
    /\ job = [f \in Frames |-> "none"]
    /\ read = <<>> /\ queued = <<>> /\ taken = <<>>

SetProcessor ==
    /\ rpump = "notStarted"
    /\ processor' = TRUE
    /\ UNCHANGED <<sender, pumpVars, chanVars, stopVars, job, taken>>

SetSender ==
    /\ rpump = "notStarted"
    /\ sender' = TRUE
    /\ UNCHANGED <<processor, pumpVars, chanVars, stopVars, job, taken>>

Start ==
    /\ rpump = "notStarted"
    /\ rstopPc = "idle"
    /\ rwg' = rwg + 1
    /\ rpump' = "check"
    /\ UNCHANGED <<rhand, read, chanVars, stopVars, setVars, job, taken>>

\* The answer of IsRunning.
IsRunning == ~rctxDone

------------------------------------------------------------------------------
(* receivePump.                                                            *)

\* Mutant: the deferred r.wg.Done() is forgotten.
PumpForgetsDone == rpump' = "exited" /\ UNCHANGED rwg

\* return, with the deferred r.wg.Done().
PumpReturns ==
    /\ rpump' = "exited"
    /\ rwg' = rwg - 1

\* select { case <-r.ctx.Done(): return; default: ... }: a cancelled context
\* is always noticed here, and only here.
PumpCheck ==
    /\ rpump = "check"
    /\ \/ rctxDone /\ PumpReturns
       \/ ~rctxDone /\ rpump' = "reading" /\ UNCHANGED rwg
    /\ UNCHANGED <<rhand, read, chanVars, stopVars, setVars, job, taken>>

ReadFrame(f) ==
    /\ rpump = "reading"
    /\ f \notin Range(read)
    /\ read' = Append(read, f)
    /\ rhand' = <<f>>
    /\ rpump' = "handling"
    /\ UNCHANGED <<rwg, chanVars, stopVars, setVars, job, taken>>

\* ReadMessage fails: the peer is gone, the frame exceeds the read limit of
\* 512 bytes, or no pong came within 60 s.
ReadErr ==
    /\ rpump = "reading"
    /\ PumpReturns
    /\ UNCHANGED <<rhand, read, chanVars, stopVars, setVars, job, taken>>

------------------------------------------------------------------------------
(* handleRawMessage.                                                       *)

\* The frame in hand is disposed of; next is where that leaves the pump.
Handled(next) ==
    /\ rpump = "handling"
    /\ rpump' = next
    /\ rhand' = <<>>
    /\ UNCHANGED <<rwg, read, stopVars, setVars, taken>>

\* if r.processor != nil { go r.processMessage(msg) }
Spawn(f) ==
    job' = IF processor THEN [job EXCEPT ![f] = "spawned"] ELSE job

\* Mutant: a newer message overtakes the ones that wait.
OfferInFront ==
    /\ Handled("check")
    /\ ~msgClosed
    /\ Len(msgChan) < MsgCap
    /\ msgChan' = rhand \o msgChan
    /\ queued' = rhand \o queued
    /\ Spawn(Head(rhand))

\* An empty frame, one that does not decode, or no IMessage.
Ignore ==
    /\ Handled("check")
    /\ UNCHANGED <<chanVars, job>>

\* The send case of the select; on a closed channel it is ready and panics.
Offer ==
    /\ Handled(IF msgClosed THEN "panicked" ELSE "check")
    /\ \/ msgClosed /\ UNCHANGED <<chanVars, job>>
       \/ /\ ~msgClosed
          /\ Len(msgChan) < MsgCap
          /\ msgChan' = Append(msgChan, Head(rhand))
          /\ queued' = Append(queued, Head(rhand))
          /\ Spawn(Head(rhand))

OfferCancelled ==
    /\ Handled("check")
    /\ rctxDone
    /\ UNCHANGED <<chanVars, job>>

\* The default case: the consumer does not get the message, the processor does.
Drop ==
    /\ Handled("check")
    /\ ~msgClosed /\ ~rctxDone
    /\ Len(msgChan) = MsgCap
    /\ UNCHANGED chanVars
    /\ Spawn(Head(rhand))

handleRawMessage == Ignore \/ Offer \/ OfferCancelled \/ Drop

\* Whoever reads GetMessageChan() takes a message.
Take ==
    /\ msgChan # <<>>
    /\ taken' = Append(taken, Head(msgChan))
    /\ msgChan' = Tail(msgChan)
    /\ UNCHANGED <<queued, pumpVars, stopVars, setVars, job>>

------------------------------------------------------------------------------
(* processMessage.  The context and the sender are looked at, and acted    *)
(* on a step later.                                                        *)

Job(f, from, to) ==
    /\ job[f] = from
    /\ job' = [job EXCEPT ![f] = to]
    /\ UNCHANGED <<pumpVars, chanVars, stopVars, setVars, taken>>

JobStarts(f) ==
    \/ rctxDone /\ Job(f, "spawned", "skipped")
    \/ ~rctxDone /\ Job(f, "spawned", "handling")

\* HandlerMessage returns an error, or a result.
HandlerReturns(f) ==
    \/ Job(f, "handling", "noReply")
    \/ Job(f, "handling", "handled")

\* The second look at the context; then, if there is a sender and the result
\* is not empty, on to the reply.
JobResumes(f) ==
    \/ rctxDone /\ Job(f, "handled", "skipped")
    \/ ~rctxDone /\ Job(f, "handled", "noReply")
    \/ ~rctxDone /\ sender /\ Job(f, "handled", "checking")

\* if !r.sender.IsRunning() { return }
ReplyCheck(f, senderRunning) ==
    \/ ~senderRunning /\ Job(f, "checking", "skipped")
    \/ senderRunning /\ Job(f, "checking", "sending")

ReplySend(f) == Job(f, "sending", "inCall")

\* SendRawBytes returned; an error is only logged.
ReplyReturns(f) == Job(f, "inCall", "replied")

processMessage(f) ==
    \/ JobStarts(f)
    \/ HandlerReturns(f)
    \/ JobResumes(f)

------------------------------------------------------------------------------
(* Stop.                                                                   *)

StopCancel ==
    /\ rstopPc = "idle"
    /\ rstopPc' = "waiting"
    /\ rctxDone' = TRUE
    /\ UNCHANGED <<msgClosed, pumpVars, chanVars, setVars, job, taken>>

StopWaited ==
    /\ rstopPc = "waiting"
    /\ rwg = 0
    /\ rstopPc' = "returned"
    /\ msgClosed' = TRUE
    /\ UNCHANGED <<rctxDone, pumpVars, chanVars, setVars, job, taken>>

------------------------------------------------------------------------------
\* Everything of a receiver but the calls of its sender's methods.
OwnStep ==
    \/ SetProcessor \/ SetSender \/ Start
    \/ PumpCheck \/ ReadErr \/ handleRawMessage
    \/ \E f \in Frames : ReadFrame(f) \/ processMessage(f)
    \/ Take
    \/ StopCancel \/ StopWaited

SenderStep(f) ==
    \/ \E running \in BOOLEAN : ReplyCheck(f, running)
    \/ ReplySend(f)
    \/ ReplyReturns(f)

Next == ~RCrashed /\ (OwnStep \/ \E f \in Frames : SenderStep(f))

Spec == Init /\ [][Next]_vars

------------------------------------------------------------------------------
(* Properties.                                                             *)

\* s is r with elements left out.
Subsequence(s, r) ==
    \E place \in [DOMAIN s -> DOMAIN r] :
        /\ \A i \in DOMAIN s : s[i] = r[place[i]]
        /\ \A i, j \in DOMAIN s : i < j => place[i] < place[j]

\* The consumer of GetMessageChan sees the messages in the order in which
\* receivePump read the frames, each at most once, with gaps where messages
\* were dropped.
ArrivalOrder ==
    /\ queued = taken \o msgChan
    /\ Subsequence(queued, read)

==============================================================================
