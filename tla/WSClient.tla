------------------------------- MODULE WSClient -------------------------------
(***************************************************************************)
(* libs/ws_client/ws_client.go: the client side of a websocket connection. *)
(* SendMessage puts frames into sendChan; three goroutines share the       *)
(* connection: readPump, writePump, and pingPump, which writes pings       *)
(* beside writePump with nothing to keep the two apart.  Close cancels the *)
(* context, closes sendChan and then the connection.                       *)
(*                                                                         *)
(* External: the websocket library.  A failed write makes every later one  *)
(* fail.  It allows one writer at a time: when two overlap, a frame may be *)
(* cut short unnoticed, or the library panics, or all goes well.           *)
(***************************************************************************)
EXTENDS Naturals, Sequences, FiniteSets, Functions

CONSTANTS
    Frames,     \* the frames to send, one call of SendMessage each
    SendCap         \* capacity of sendChan (256)

ASSUME SocketAssumption == SendCap \in Nat \ {0}

VARIABLES
    call,       \* of each SendMessage: where it is, or how it returned
    sendChan, chanClosed,
    ctxDone,
    connClosed, \* the connection is closed at this end
    broken,     \* a write failed: the library refuses all later ones
    rpump, wpump, ppump,    \* the three goroutines
    hand,       \* the frame writePump is writing, if any
    overlapped, \* the write in progress met another one
    closePc,    \* where Close is
    done,       \* the channel done is closed
    accepted, wire, lost,   \* history: frames queued, written, lost in writePump
    everOverlapped,         \* history: two writes met
    panicked                \* some goroutine did: the process is gone

calls == <<call, sendChan, chanClosed, accepted>>
conn == <<connClosed, broken>>
writes == <<hand, overlapped, wire, lost, everOverlapped>>
pumps == <<rpump, wpump, ppump>>
socketVars == <<calls, conn, writes, pumps, ctxDone, closePc, done, panicked>>

WWriting == wpump \in {"writing", "pinging", "closeFrame"}
PWriting == ppump = "pinging"

\* The type invariant; writePump holds a frame exactly while it writes one.
SocketTypeOK ==
    /\ call \in [Frames -> {"new", "parked", "ok", "closed", "panicked"}]
    /\ sendChan \in Seq(Frames) /\ Len(sendChan) <= SendCap
    /\ \A b \in {chanClosed, ctxDone, connClosed, broken, overlapped, done, everOverlapped, panicked} :
            b \in BOOLEAN
    /\ rpump \in {"off", "check", "read", "handle", "end", "done"}
    /\ wpump \in {"off", "select", "writing", "pinging", "closeFrame", "end", "done"}
    /\ ppump \in {"off", "select", "pinging", "done"}
    /\ hand \in Seq(Frames) /\ Len(hand) = IF wpump = "writing" THEN 1 ELSE 0
    /\ closePc \in {"idle", "cancelled", "chanClosed", "returned"}
    /\ accepted \in Seq(Frames) /\ wire \in Seq(Frames)
    /\ lost \subseteq Frames

------------------------------------------------------------------------------
SocketInit ==
    /\ call = [f \in Frames |-> "new"]
    /\ sendChan = << >> /\ chanClosed = FALSE
    /\ ctxDone = FALSE
    /\ connClosed = FALSE /\ broken = FALSE
    /\ rpump = "off" /\ wpump = "off" /\ ppump = "off"
    /\ hand = << >> /\ overlapped = FALSE
    /\ closePc = "idle" /\ done = FALSE
    /\ accepted = << >> /\ wire = << >> /\ lost = {}
    /\ everOverlapped = FALSE
    /\ panicked = FALSE

Start ==
    /\ rpump = "off"
    /\ rpump' = "check" /\ wpump' = "select" /\ ppump' = "select"
    /\ UNCHANGED <<calls, conn, writes, ctxDone, closePc, done, panicked>>

------------------------------------------------------------------------------
(* SendMessage: a select between the channel and the context.              *)

Enqueue(f) ==
    /\ call[f] \in {"new", "parked"}
    /\ ~chanClosed /\ Len(sendChan) < SendCap
    /\ sendChan' = Append(sendChan, f)
    /\ accepted' = Append(accepted, f)
    /\ call' = [call EXCEPT ![f] = "ok"]
    /\ UNCHANGED <<chanClosed, conn, writes, pumps, ctxDone, closePc, done, panicked>>

Park(f) ==
    /\ call[f] = "new"
    /\ ~chanClosed /\ Len(sendChan) = SendCap /\ ~ctxDone
    /\ call' = [call EXCEPT ![f] = "parked"]
    /\ UNCHANGED <<sendChan, chanClosed, accepted, conn, writes, pumps, ctxDone, closePc, done, panicked>>

\* "client is closed"
Cancelled(f) ==
    /\ call[f] = "new"
    /\ ctxDone
    /\ call' = [call EXCEPT ![f] = "closed"]
    /\ UNCHANGED <<sendChan, chanClosed, accepted, conn, writes, pumps, ctxDone, closePc, done, panicked>>

\* With both cases ready the select may as well pick the closed channel.
SendOnClosed(f) ==
    /\ call[f] = "new"
    /\ chanClosed
    /\ call' = [call EXCEPT ![f] = "panicked"]
    /\ panicked' = TRUE
    /\ UNCHANGED <<sendChan, chanClosed, accepted, conn, writes, pumps, ctxDone, closePc, done>>

SendMessage(f) == Enqueue(f) \/ Park(f) \/ Cancelled(f) \/ SendOnClosed(f)

------------------------------------------------------------------------------
(* readPump.                                                               *)

ReadCheck ==
    /\ rpump = "check"
    /\ rpump' = IF ctxDone THEN "end" ELSE "read"
    /\ UNCHANGED <<calls, conn, writes, wpump, ppump, ctxDone, closePc, done, panicked>>

ReadMessage ==
    /\ rpump = "read" /\ ~connClosed
    /\ rpump' = "handle"
    /\ UNCHANGED <<calls, conn, writes, wpump, ppump, ctxDone, closePc, done, panicked>>

\* A message that cannot be decoded, or that the handler refuses, is logged and
\* dropped: readPump goes on whatever came of it.
handleMessage ==
    /\ rpump = "handle"
    /\ rpump' = "check"
    /\ UNCHANGED <<calls, conn, writes, wpump, ppump, ctxDone, closePc, done, panicked>>

\* The peer is gone or silent, or the connection is closed at this end.
ReadErr ==
    /\ rpump = "read"
    /\ rpump' = "end"
    /\ UNCHANGED <<calls, conn, writes, wpump, ppump, ctxDone, closePc, done, panicked>>

\* Mutant: the deferred function leaves the connection open.
ReadEndKeepsConn ==
    /\ rpump = "end"
    /\ rpump' = "done"
    /\ done' = TRUE
    /\ UNCHANGED <<calls, conn, writes, wpump, ppump, ctxDone, closePc, panicked>>

\* Mutant: done is never closed.
ReadEndNoSignal ==
    /\ rpump = "end"
    /\ rpump' = "done"
    /\ connClosed' = TRUE
    /\ UNCHANGED <<calls, broken, writes, wpump, ppump, ctxDone, closePc, done, panicked>>

ReadEnd ==
    /\ rpump = "end"
    /\ rpump' = "done"
    /\ connClosed' = TRUE
    /\ done' = TRUE
    /\ UNCHANGED <<calls, broken, writes, wpump, ppump, ctxDone, closePc, panicked>>

------------------------------------------------------------------------------
(* Writes.  One begins, may meet another, and ends.                        *)

Begins(otherWriting) ==
    /\ overlapped' = otherWriting
    /\ everOverlapped' = (everOverlapped \/ otherWriting)

CanFail == broken' = TRUE
CanSucceed == ~connClosed /\ ~broken /\ UNCHANGED broken

Frame == /\ sendChan # << >>
         /\ sendChan' = Tail(sendChan)
         /\ UNCHANGED <<call, chanClosed, accepted>>

\* NextWriter succeeds unless an earlier write failed.
WriteNext ==
    /\ wpump = "select"
    /\ Frame
    /\ ~broken
    /\ wpump' = "writing"
    /\ hand' = <<Head(sendChan)>>
    /\ Begins(PWriting)
    /\ UNCHANGED <<conn, wire, lost, rpump, ppump, ctxDone, closePc, done, panicked>>

\* Mutant: an error of NextWriter is only logged.
NextWriterErrIgnored ==
    /\ wpump = "select"
    /\ Frame
    /\ broken
    /\ lost' = lost \cup {Head(sendChan)}
    /\ UNCHANGED <<conn, pumps, hand, overlapped, wire, everOverlapped, ctxDone, closePc, done, panicked>>

NextWriterErr ==
    /\ wpump = "select"
    /\ Frame
    /\ broken
    /\ lost' = lost \cup {Head(sendChan)}
    /\ wpump' = "end"
    /\ UNCHANGED <<conn, hand, overlapped, wire, everOverlapped, rpump, ppump, ctxDone, closePc, done, panicked>>

\* w.Write and w.Close: their errors are not looked at.
WriteEnds ==
    /\ wpump = "writing"
    /\ wpump' = "select"
    /\ hand' = << >>
    /\ \/ CanSucceed /\ wire' = wire \o hand /\ UNCHANGED lost
       \/ overlapped /\ CanSucceed /\ lost' = lost \cup Range(hand) /\ UNCHANGED wire
       \/ CanFail /\ lost' = lost \cup Range(hand) /\ UNCHANGED wire
    /\ UNCHANGED <<calls, connClosed, overlapped, everOverlapped, rpump, ppump, ctxDone, closePc, done, panicked>>

WriteTick ==
    /\ wpump = "select"
    /\ wpump' = "pinging"
    /\ Begins(PWriting)
    /\ UNCHANGED <<calls, conn, hand, wire, lost, rpump, ppump, ctxDone, closePc, done, panicked>>

WritePinged ==
    /\ wpump = "pinging"
    /\ \/ CanSucceed /\ wpump' = "select"
       \/ CanFail /\ wpump' = "end"
    /\ UNCHANGED <<calls, connClosed, writes, rpump, ppump, ctxDone, closePc, done, panicked>>

\* sendChan is closed and empty: the close frame, whose error is ignored.
WriteClosed ==
    /\ wpump = "select"
    /\ chanClosed /\ sendChan = << >>
    /\ wpump' = "closeFrame"
    /\ Begins(PWriting)
    /\ UNCHANGED <<calls, conn, hand, wire, lost, rpump, ppump, ctxDone, closePc, done, panicked>>

CloseFrameEnds ==
    /\ wpump = "closeFrame"
    /\ wpump' = "end"
    /\ CanSucceed \/ CanFail
    /\ UNCHANGED <<calls, connClosed, writes, rpump, ppump, ctxDone, closePc, done, panicked>>

WriteCancelled ==
    /\ wpump = "select" /\ ctxDone
    /\ wpump' = "end"
    /\ UNCHANGED <<calls, conn, writes, rpump, ppump, ctxDone, closePc, done, panicked>>

WriteEnd ==
    /\ wpump = "end"
    /\ wpump' = "done"
    /\ connClosed' = TRUE
    /\ UNCHANGED <<calls, broken, writes, rpump, ppump, ctxDone, closePc, done, panicked>>

PingTick ==
    /\ ppump = "select"
    /\ ppump' = "pinging"
    /\ Begins(WWriting)
    /\ UNCHANGED <<calls, conn, hand, wire, lost, rpump, wpump, ctxDone, closePc, done, panicked>>

Pinged ==
    /\ ppump = "pinging"
    /\ \/ CanSucceed /\ ppump' = "select"
       \/ CanFail /\ ppump' = "done"
    /\ UNCHANGED <<calls, connClosed, writes, rpump, wpump, ctxDone, closePc, done, panicked>>

PingCancelled ==
    /\ ppump = "select" /\ ctxDone
    /\ ppump' = "done"
    /\ UNCHANGED <<calls, conn, writes, rpump, wpump, ctxDone, closePc, done, panicked>>

\* "concurrent write to websocket connection"
OverlapPanics ==
    /\ overlapped /\ WWriting /\ PWriting
    /\ panicked' = TRUE
    /\ UNCHANGED <<calls, conn, writes, pumps, ctxDone, closePc, done>>

------------------------------------------------------------------------------
(* Close.                                                                  *)

\* Closing a channel makes every caller blocked on it panic.
CloseTheChan ==
    /\ chanClosed' = TRUE
    /\ call' = [f \in Frames |-> IF call[f] = "parked" THEN "panicked" ELSE call[f]]
    /\ panicked' = \E f \in Frames : call[f] = "parked"

\* Cancelling wakes the blocked callers with the context's case.
CloseCancel ==
    /\ closePc = "idle"
    /\ closePc' = "cancelled"
    /\ ctxDone' = TRUE
    /\ call' = [f \in Frames |-> IF call[f] = "parked" THEN "closed" ELSE call[f]]
    /\ UNCHANGED <<sendChan, chanClosed, accepted, conn, writes, pumps, done, panicked>>

CloseChan ==
    /\ closePc = "cancelled"
    /\ closePc' = "chanClosed"
    /\ CloseTheChan
    /\ UNCHANGED <<sendChan, accepted, conn, writes, pumps, ctxDone, done>>

CloseConn ==
    /\ closePc = "chanClosed"
    /\ closePc' = "returned"
    /\ connClosed' = TRUE
    /\ UNCHANGED <<calls, broken, writes, pumps, ctxDone, done, panicked>>

------------------------------------------------------------------------------
ReadStep == ReadCheck \/ ReadMessage \/ handleMessage \/ ReadErr \/ ReadEnd
WriteSelect == WriteNext \/ NextWriterErr \/ WriteTick \/ WriteClosed \/ WriteCancelled
WriteStep == WriteSelect \/ WriteEnds \/ WritePinged \/ CloseFrameEnds \/ WriteEnd
PingStep == PingTick \/ Pinged \/ PingCancelled
CloseStep == CloseChan \/ CloseConn

SocketNext ==
    /\ ~panicked
    /\ \/ Start
       \/ \E f \in Frames : SendMessage(f)
       \/ ReadStep \/ WriteStep \/ PingStep \/ OverlapPanics
       \/ CloseCancel \/ CloseStep

SocketSpec == SocketInit /\ [][SocketNext]_socketVars

\* Goroutines run, handlers return, tickers fire, and a read or a write on a
\* closed connection fails.  A select picks at random, so a case that stays
\* ready is taken.
Fairness ==
    /\ WF_socketVars(~panicked /\ (ReadCheck \/ handleMessage \/ ReadEnd))
    /\ WF_socketVars(~panicked /\ connClosed /\ ReadErr)
    /\ WF_socketVars(~panicked /\ WriteStep) /\ WF_socketVars(~panicked /\ PingStep)
    /\ SF_socketVars(~panicked /\ WriteTick)
    /\ SF_socketVars(~panicked /\ WriteCancelled) /\ SF_socketVars(~panicked /\ PingCancelled)
    /\ WF_socketVars(~panicked /\ CloseStep)

FairSpec == SocketSpec /\ Fairness

------------------------------------------------------------------------------
(* Properties.                                                             *)

\* While the two writing goroutines do not meet, writePump notices a dead
\* connection in time: the frame whose write failed and the next are lost.
LossIsNoticed == ~everOverlapped => Cardinality(lost) <= IF broken THEN 2 ELSE 0

\* A frame whose SendMessage returned nil is written, waits for writePump, is
\* being written, or counts as lost: nothing else becomes of it.
NothingVanishes ==
    \A f \in Frames : call[f] = "ok" =>
        f \in Range(wire) \cup Range(hand) \cup Range(sendChan) \cup lost

\* Close cancels before it closes sendChan: a blocked SendMessage is woken and
\* never panics.
ParkedNeverPanics == [][\A f \in Frames : call[f] = "parked" => call'[f] # "panicked"]_socketVars

\* Close ends the three goroutines and every blocked call, and signals done.
CloseEndsAll ==
    (closePc # "idle" /\ rpump # "off") ~>
        \/ panicked
        \/ /\ rpump = "done" /\ wpump = "done" /\ ppump = "done" /\ done
           /\ \A f \in Frames : call[f] # "parked"

\* When the peer goes away, the two writing goroutines find out and end,
\* although readPump cancels nothing.
PeerLossEndsPumps == rpump = "done" ~> (panicked \/ (wpump = "done" /\ ppump = "done"))

==============================================================================
