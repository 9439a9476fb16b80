---------------------------- MODULE MessageQueue ----------------------------
(***************************************************************************)
(* The two halves of package queue on one connection, wired as the owner   *)
(* wires them: receiver.SetSender(sender), both started, then stopped.     *)
(* A reply is a call of the sender by a processMessage goroutine, so there *)
(* is one call of the sender per received frame.  The application's own    *)
(* calls behave like those of other frames and are left to MessageSender.  *)
(* A panic in either half ends the process, and with it both halves.       *)
(***************************************************************************)
EXTENDS Naturals, Sequences, Functions

CONSTANTS
    Frames,         \* frames of the peer; frame f's reply is the call f
    Cap, MsgCap     \* capacities of sendChan and messageChan

ASSUME QueueAssumption ==
    Cap \in Nat \ {0} /\ MsgCap \in Nat \ {0}

VARIABLES
    sendChan, chanClosed, ctxDone, tickerOn, call, pump, hand, wg, stopPc,
    closed, wire, closeSent, accepted,
    rpump, rhand, msgChan, msgClosed, rctxDone, rwg, rstopPc, processor,
    sender, job, read, queued, taken

S == INSTANCE MessageSender WITH Calls <- Frames
R == INSTANCE MessageReceiver

sVars == <<sendChan, chanClosed, ctxDone, tickerOn, call, pump, hand, wg, stopPc,
           closed, wire, closeSent, accepted>>
rVars == <<rpump, rhand, msgChan, msgClosed, rctxDone, rwg, rstopPc, processor,
           sender, job, read, queued, taken>>
vars == <<sVars, rVars>>

ProcessGone == S!Crashed \/ R!RCrashed

------------------------------------------------------------------------------
Init == S!Init /\ R!Init

SenderOnly ==
    /\ \/ S!Start
       \/ \E c \in Frames : S!SendTimeout(c)
       \/ S!PumpStep
       \/ S!StopCancel
       \/ S!StopStep
    /\ UNCHANGED rVars

\* The owner wires the sender in before it starts the receiver.
ReceiverOnly ==
    /\ R!OwnStep
    /\ (rpump = "notStarted" /\ rpump' = "check") => sender
    /\ UNCHANGED sVars

\* Mutant: the sender is not asked whether it runs.
ReplyUnchecked(f) == R!ReplyCheck(f, TRUE) /\ UNCHANGED sVars

ReplyCheck(f) == R!ReplyCheck(f, S!IsRunning) /\ UNCHANGED sVars

ReplySend(f) == R!ReplySend(f) /\ S!SendRawBytes(f)

ReplyReturns(f) ==
    /\ call[f] \notin {"idle", "parked"}
    /\ R!ReplyReturns(f)
    /\ UNCHANGED sVars

Reply(f) == ReplyCheck(f) \/ ReplySend(f) \/ ReplyReturns(f)

\* Both halves are stopped and no goroutine is left, or the process is gone.
Terminated ==
    /\ \/ ProcessGone
       \/ /\ stopPc = "returned" /\ rstopPc = "returned"
          /\ \A f \in Frames : job[f] \in {"none"} \cup R!JobOver
    /\ UNCHANGED vars

Next ==
    \/ ~ProcessGone /\ (SenderOnly \/ ReceiverOnly \/ \E f \in Frames : Reply(f))
    \/ Terminated

Spec == Init /\ [][Next]_vars

(***************************************************************************)
(* As in MessageSender; in addition the receive pump and the processing    *)
(* goroutines are scheduled, handlers return, and a read fails when its    *)
(* deadline passes.  Only a pong moves the 60 s deadline and a pong is the *)
(* answer to a ping of sendPump: once that pump is gone the deadline must  *)
(* pass, while it runs a healthy peer keeps the read alive.                *)
(***************************************************************************)
Fairness ==
    /\ WF_vars(~ProcessGone /\ S!PumpStep /\ UNCHANGED rVars)
    /\ WF_vars(~ProcessGone /\ S!StopStep /\ UNCHANGED rVars)
    /\ \A c \in Frames :
            WF_vars(~ProcessGone /\ S!SendTimeout(c) /\ UNCHANGED rVars)
    /\ WF_vars(~ProcessGone /\ (R!PumpCheck \/ R!handleRawMessage) /\ UNCHANGED sVars)
    /\ WF_vars(~ProcessGone /\ ~S!PumpRuns /\ R!ReadErr /\ UNCHANGED sVars)
    /\ WF_vars(~ProcessGone /\ R!StopWaited /\ UNCHANGED sVars)
    /\ \A f \in Frames :
            /\ WF_vars(~ProcessGone /\ R!processMessage(f) /\ UNCHANGED sVars)
            /\ WF_vars(~ProcessGone /\ Reply(f))

FairSpec == Spec /\ Fairness

------------------------------------------------------------------------------
(* Properties.                                                             *)

\* The composition runs the sender of MessageSender, so what is shown of it
\* alone, its proofs included, holds here.
SenderBehaves == S!Spec

\* A consumer of messageChan gets messages in the order in which their frames
\* were read, each at most once, although a full channel drops some.
ArrivalOrder == R!ArrivalOrder

\* The peer gets answers to frames it sent and that were read, one each at most,
\* however the processing goroutines overtake each other.
AnsweredOnce == Range(wire) \subseteq Range(read) /\ S!WrittenOnce

\* A processMessage goroutine, for which no Stop waits, comes to its end: one
\* that blocks in the sender is let go, also after the pump it waits for died of
\* a failed write, and after either half was stopped.
GoroutinesEnd ==
    \A f \in Frames : (job[f] # "none") ~> (job[f] \in R!JobOver \/ ProcessGone)

\* Once the sender is stopped, a Stop of the receiver returns: no more pongs
\* come, so the read that receivePump is blocked in runs into its deadline.
ReceiverStopReturns ==
    (rstopPc # "idle" /\ stopPc = "returned") ~> (rstopPc = "returned" \/ ProcessGone)

\* A reply panics only when it is given to the sender, never while it is blocked
\* in there, and nobody sets out to give one after the sender was cancelled: the
\* only goroutines that can meet the closed channel are those that asked IsRunning
\* before the cancellation and had not sent by then.
OnlyCheckedRepliesPanic ==
    [][\A f \in Frames :
        /\ call'[f] = "panicked" => call[f] = "panicked" \/ job[f] = "sending"
        /\ ctxDone /\ job'[f] = "sending" => job[f] = "sending"]_vars

\* "Check whether the sender is still running", before a reply: the check is
\* there so that a reply is never given to a sender whose channel is closed.
ReplyNeverPanics == \A f \in Frames : call[f] # "panicked"

==============================================================================
