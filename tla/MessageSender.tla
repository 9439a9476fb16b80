---------------------------- MODULE MessageSender ----------------------------
(***************************************************************************)
(* queue/message_sender.go: callers of SendMessage and SendRawBytes hand   *)
(* frames to a buffered channel, one goroutine (sendPump) writes them to a *)
(* websocket connection and pings the peer, and Stop tears both down.      *)
(*                                                                         *)
(* Go's rules are kept exactly.  A select that finds several cases ready   *)
(* takes any of them; a send on a closed channel is ready, and panics; a   *)
(* closed channel still yields what it buffers; a receive from a full      *)
(* channel lets one blocked sender in; cancelling a context wakes everyone *)
(* who waits for it.  Go does not say which of several blocked senders     *)
(* goes first, so any of them may.  A panic ends the process.              *)
(*                                                                         *)
(* External: the connection (a write succeeds or returns an error within   *)
(* the deadline set for it) and the codec (encoding succeeds or fails).    *)
(***************************************************************************)
EXTENDS Naturals, Sequences, Functions

CONSTANTS
    Calls,      \* calls of SendMessage/SendRawBytes; a call is its own frame
    Cap         \* capacity of sendChan (256 in the code)

ASSUME CapAssumption == Cap \in Nat \ {0}

VARIABLES
    sendChan,   \* frames buffered in the channel
    chanClosed, \* close(s.sendChan) was executed
    ctxDone,    \* s.ctx is cancelled
    tickerOn,   \* s.pingTicker has not been stopped
    call,       \* where each call is, and what it returned
    pump,       \* where sendPump is
    hand,       \* the frame sendPump received last and has not written
    wg,         \* counter of s.wg
    stopPc,     \* where the owner's call of Stop is
    closed,     \* close(s.closed) was executed
    wire,       \* text frames written to the connection, in order
    closeSent,  \* the close frame was written
    accepted    \* history: frames that entered the channel, in order

chanVars == <<sendChan, accepted>>
pumpVars == <<pump, hand, wg, wire, closeSent>>
stopVars == <<chanClosed, ctxDone, tickerOn, stopPc, closed>>
vars == <<chanVars, pumpVars, stopVars, call>>

CallStates == {"idle", "parked", "ok", "ctxErr", "timeout", "encodeErr", "panicked"}
PumpStates == {"notStarted", "select", "writing", "pinging", "closing", "exited"}
StopStates == {"idle", "cancelled", "tickerStopped", "waiting", "returned"}

Failed == {"ctxErr", "timeout", "encodeErr"}        \* what an error return looks like

PumpRuns == pump \notin {"notStarted", "exited"}
Parked == {c \in Calls : call[c] = "parked"}
Crashed == \E c \in Calls : call[c] = "panicked"

TypeOK ==
    /\ sendChan \in Seq(Calls) /\ Len(sendChan) <= Cap
    /\ accepted \in Seq(Calls)
    /\ wire \in Seq(Calls)
    /\ hand \in Seq(Calls) /\ Len(hand) <= 1
    /\ chanClosed \in BOOLEAN /\ ctxDone \in BOOLEAN /\ tickerOn \in BOOLEAN
    /\ closed \in BOOLEAN /\ closeSent \in BOOLEAN
    /\ call \in [Calls -> CallStates]
    /\ pump \in PumpStates
    /\ stopPc \in StopStates
    /\ wg \in {0, 1}

------------------------------------------------------------------------------
(* NewMessageSender: the ticker already runs, the pump does not.           *)

Init ==
    /\ sendChan = <<>> /\ accepted = <<>>
    /\ chanClosed = FALSE /\ ctxDone = FALSE
    /\ tickerOn = TRUE
    /\ call = [c \in Calls |-> "idle"]
    /\ pump = "notStarted" /\ hand = <<>> /\ wg = 0
    /\ stopPc = "idle" /\ closed = FALSE
    /\ wire = <<>> /\ closeSent = FALSE

\* The owner starts the sender once, before it stops it.
Start ==
    /\ pump = "notStarted"
    /\ stopPc = "idle"
    /\ wg' = wg + 1
    /\ pump' = "select"
    /\ UNCHANGED <<hand, wire, closeSent, chanVars, stopVars, call>>

\* The answer of IsRunning: the context alone is asked.
IsRunning == ~ctxDone

------------------------------------------------------------------------------
(* SendMessage and SendRawBytes.  One action per outcome of the select.    *)

EncodeFails(c) ==
    /\ call' = [call EXCEPT ![c] = "encodeErr"]
    /\ UNCHANGED <<chanVars, pumpVars, stopVars>>

Enqueue(c) ==
    /\ ~chanClosed
    /\ Len(sendChan) < Cap
    /\ sendChan' = Append(sendChan, c)
    /\ accepted' = Append(accepted, c)
    /\ call' = [call EXCEPT ![c] = "ok"]
    /\ UNCHANGED <<pumpVars, stopVars>>

\* The send case is not guarded by chanClosed in Go: it is ready and panics.
SendOnClosed(c) ==
    /\ chanClosed
    /\ call' = [call EXCEPT ![c] = "panicked"]
    /\ UNCHANGED <<chanVars, pumpVars, stopVars>>

Cancelled(c) ==
    /\ ctxDone
    /\ call' = [call EXCEPT ![c] = "ctxErr"]
    /\ UNCHANGED <<chanVars, pumpVars, stopVars>>

\* No case is ready: the caller blocks until one is, or for five seconds.
Park(c) ==
    /\ ~chanClosed /\ ~ctxDone
    /\ Len(sendChan) = Cap
    /\ call' = [call EXCEPT ![c] = "parked"]
    /\ UNCHANGED <<chanVars, pumpVars, stopVars>>

SendRawBytes(c) ==
    /\ call[c] = "idle"
    /\ \/ Enqueue(c)
       \/ SendOnClosed(c)
       \/ Cancelled(c)
       \/ Park(c)

SendMessage(c) ==
    \/ call[c] = "idle" /\ EncodeFails(c)
    \/ SendRawBytes(c)

\* Mutant: no case <-time.After(5 * time.Second).
SendTimeoutNever(c) == FALSE /\ UNCHANGED vars

SendTimeout(c) ==
    /\ call[c] = "parked"
    /\ call' = [call EXCEPT ![c] = "timeout"]
    /\ UNCHANGED <<chanVars, pumpVars, stopVars>>

------------------------------------------------------------------------------
(* sendPump.  In "select" it waits for one of three cases; the write that  *)
(* follows is a step of its own, because everyone else may move meanwhile. *)

\* Mutant: the frame is copied out and stays at the head of the queue.
PumpReceiveKeepsHead ==
    /\ pump = "select"
    /\ sendChan # <<>>
    /\ hand' = <<Head(sendChan)>>
    /\ pump' = "writing"
    /\ UNCHANGED <<wg, wire, closeSent, chanVars, stopVars, call>>

\* Mutant: frames are taken in full batches only.
PumpReceiveBatch ==
    /\ pump = "select"
    /\ sendChan # <<>>
    /\ Len(sendChan) = Cap
    /\ hand' = <<Head(sendChan)>>
    /\ pump' = "writing"
    /\ sendChan' = Tail(sendChan)
    /\ UNCHANGED <<wg, wire, closeSent, accepted, stopVars, call>>

\* case message, ok := <-s.sendChan with a message: the oldest frame leaves
\* the buffer and one blocked sender, if there is any, takes the free slot.
PumpReceive ==
    /\ pump = "select"
    /\ sendChan # <<>>
    /\ hand' = <<Head(sendChan)>>
    /\ pump' = "writing"
    /\ \/ /\ Parked = {}
          /\ sendChan' = Tail(sendChan)
          /\ UNCHANGED <<accepted, call>>
       \/ \E p \in Parked :
            /\ sendChan' = Append(Tail(sendChan), p)
            /\ accepted' = Append(accepted, p)
            /\ call' = [call EXCEPT ![p] = "ok"]
    /\ UNCHANGED <<wg, wire, closeSent, stopVars>>

\* ... with !ok: the channel is closed and drained.
PumpReceiveClosed ==
    /\ pump = "select"
    /\ chanClosed
    /\ sendChan = <<>>
    /\ pump' = "closing"
    /\ UNCHANGED <<hand, wg, wire, closeSent, chanVars, stopVars, call>>

PumpTick ==
    /\ pump = "select"
    /\ tickerOn
    /\ pump' = "pinging"
    /\ UNCHANGED <<hand, wg, wire, closeSent, chanVars, stopVars, call>>

\* Mutant: the deferred s.wg.Done() is forgotten.
PumpReturnsUncounted ==
    /\ pump' = "exited"
    /\ wg' = wg

\* return, with the deferred s.wg.Done().
PumpReturns ==
    /\ pump' = "exited"
    /\ wg' = wg - 1

PumpCancelled ==
    /\ pump = "select"
    /\ ctxDone
    /\ PumpReturns
    /\ UNCHANGED <<hand, wire, closeSent, chanVars, stopVars, call>>

\* Mutant: the frame is written again before the next select.
WriteOkTwice ==
    /\ pump = "writing"
    /\ wire' = wire \o hand \o hand
    /\ hand' = <<>>
    /\ pump' = "select"
    /\ UNCHANGED <<wg, closeSent, chanVars, stopVars, call>>

WriteOk ==
    /\ pump = "writing"
    /\ wire' = wire \o hand
    /\ hand' = <<>>
    /\ pump' = "select"
    /\ UNCHANGED <<wg, closeSent, chanVars, stopVars, call>>

\* A failed or late write ends the pump; the frame in hand is lost.
WriteErr ==
    /\ pump = "writing"
    /\ PumpReturns
    /\ UNCHANGED <<hand, wire, closeSent, chanVars, stopVars, call>>

PingOk ==
    /\ pump = "pinging"
    /\ pump' = "select"
    /\ UNCHANGED <<hand, wg, wire, closeSent, chanVars, stopVars, call>>

PingErr ==
    /\ pump = "pinging"
    /\ PumpReturns
    /\ UNCHANGED <<hand, wire, closeSent, chanVars, stopVars, call>>

\* The result of writing the close frame is ignored.
WriteClose ==
    /\ pump = "closing"
    /\ closeSent' \in BOOLEAN
    /\ PumpReturns
    /\ UNCHANGED <<hand, wire, chanVars, stopVars, call>>

PumpStep ==
    \/ PumpReceive \/ PumpReceiveClosed \/ PumpTick \/ PumpCancelled
    \/ WriteOk \/ WriteErr \/ PingOk \/ PingErr \/ WriteClose

------------------------------------------------------------------------------
(* Stop, one action per statement.                                         *)

\* Mutant: s.cancel() is forgotten, so nobody who waits is woken.
StopWithoutCancel ==
    /\ stopPc = "idle"
    /\ stopPc' = "cancelled"
    /\ UNCHANGED <<chanClosed, ctxDone, tickerOn, closed, chanVars, pumpVars, call>>

StopCancel ==
    /\ stopPc = "idle"
    /\ stopPc' = "cancelled"
    /\ ctxDone' = TRUE
    /\ call' = [c \in Calls |-> IF call[c] = "parked" THEN "ctxErr" ELSE call[c]]
    /\ UNCHANGED <<chanClosed, tickerOn, closed, chanVars, pumpVars>>

StopTicker ==
    /\ stopPc = "cancelled"
    /\ stopPc' = "tickerStopped"
    /\ tickerOn' = FALSE
    /\ UNCHANGED <<chanClosed, ctxDone, closed, chanVars, pumpVars, call>>

\* Closing a channel makes every sender still blocked on it panic.
StopCloseChan ==
    /\ stopPc = "tickerStopped"
    /\ stopPc' = "waiting"
    /\ chanClosed' = TRUE
    /\ call' = [c \in Calls |-> IF call[c] = "parked" THEN "panicked" ELSE call[c]]
    /\ UNCHANGED <<ctxDone, tickerOn, closed, chanVars, pumpVars>>

StopWaited ==
    /\ stopPc = "waiting"
    /\ wg = 0
    /\ stopPc' = "returned"
    /\ closed' = TRUE
    /\ UNCHANGED <<chanClosed, ctxDone, tickerOn, chanVars, pumpVars, call>>

StopStep == StopTicker \/ StopCloseChan \/ StopWaited

------------------------------------------------------------------------------
\* The process is gone, or the owner and every caller are through.
Terminated ==
    /\ \/ Crashed
       \/ stopPc = "returned" /\ \A c \in Calls : call[c] \notin {"idle", "parked"}
    /\ UNCHANGED vars

Step ==
    \/ Start
    \/ \E c \in Calls : SendMessage(c) \/ SendTimeout(c)
    \/ PumpStep
    \/ StopCancel
    \/ StopStep

Next ==
    \/ ~Crashed /\ Step
    \/ Terminated

Spec == Init /\ [][Next]_vars

(***************************************************************************)
(* The scheduler runs every goroutine that can run, each write ends at its *)
(* deadline and each timer fires: weak fairness.  A select that finds the  *)
(* channel ready again and again takes it some time (it chooses at random, *)
(* and a tick comes only every 54 s): strong fairness of PumpReceive.      *)
(* Nothing makes the owner start or stop the sender, or anyone call it.    *)
(***************************************************************************)
Fairness ==
    /\ WF_vars(~Crashed /\ PumpStep)
    /\ SF_vars(~Crashed /\ PumpReceive)
    /\ WF_vars(~Crashed /\ StopStep)
    /\ \A c \in Calls : WF_vars(~Crashed /\ SendTimeout(c))

FairSpec == Spec /\ Fairness

------------------------------------------------------------------------------
(* Properties.                                                             *)

\* Every frame whose caller was told nil is, in the order in which the calls
\* were accepted, on the wire, in the pump's hand or in sendChan: sendPump
\* and the channel lose, repeat and reorder nothing, even across a Stop.
Conservation == accepted = wire \o hand \o sendChan

\* A caller that was given an error (context, five-second timeout, codec) has
\* sent nothing: its frame is not accepted later, and a caller told nil has
\* been accepted.  A retry after an error therefore never duplicates a frame.
NoGhostSend == \A c \in Calls : (call[c] = "ok") <=> (c \in Range(accepted))

\* A frame is written once at most: a call that gave up is not accepted late, and
\* what the pump has taken does not come back.
WrittenOnce == \A i, j \in DOMAIN wire : wire[i] = wire[j] => i = j

\* The peer sees the close frame only after every accepted frame: sendPump
\* reaches its !ok branch when the closed channel is drained.
CloseMeansDrained == closeSent => wire = accepted

\* When Stop has returned, sendPump touches the connection no more.
StopQuiesces == stopPc = "returned" => ~PumpRuns

\* Stop cancels before it closes, so a caller already blocked in SendRawBytes
\* is let go with an error and never panics on the closed channel.
ParkedNeverPanics ==
    [][\A c \in Calls : call[c] = "parked" => call'[c] # "panicked"]_vars

\* Once Stop is called it returns (unless the process panics): no order of
\* writes, pings, cancellation and close leaves wg.Wait waiting for ever.
StopReturns == stopPc # "idle" ~> (stopPc = "returned" \/ Crashed)

\* An accepted frame of a started sender is written, or the pump has exited:
\* pings never starve the queue.
AcceptedIsWritten ==
    \A c \in Calls :
        (call[c] = "ok" /\ PumpRuns) ~> (c \in Range(wire) \/ ~PumpRuns \/ Crashed)

\* What the comment on IsRunning promises: while it answers true the sender,
\* once started, is running.  (A write error ends the pump and nothing else.)
RunningMeansPumpAlive == IsRunning => pump # "exited"

------------------------------------------------------------------------------
(* The abstract queue this sender implements.                              *)

OQ == INSTANCE OutboundQueue WITH
        Messages <- Calls,
        delivered <- wire,
        rejected <- {c \in Calls : call[c] \in Failed},
        phase <- IF closeSent \/ stopPc = "returned" THEN "done"
                 ELSE IF chanClosed THEN "shut" ELSE "open"

\* Every behaviour of the sender is one of the abstract outbound queue.
ImplementsOutboundQueue == OQ!Spec

==============================================================================
