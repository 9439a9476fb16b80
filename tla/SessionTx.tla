------------------------------ MODULE SessionTx ------------------------------
(***************************************************************************)
(* libs/databases/common.go: the two ways to run a transaction.            *)
(* WarpSession begins, calls a handler and commits or rolls back as the    *)
(* handler says, with the session closed by a deferred call.  A            *)
(* SessionWrapper carries the first error along a chain of Execute calls   *)
(* and commits at its end, or not.                                         *)
(*                                                                         *)
(* A unit of work makes N writes.  External: the session of the database   *)
(* library.  Outside a transaction its writes are durable at once, Commit  *)
(* and Rollback do nothing there, and Close rolls back what is open.       *)
(***************************************************************************)
EXTENDS Naturals, FiniteSets

CONSTANTS
    Warps,      \* units of work that use WarpSession
    Wrappers,   \* units of work that use a SessionWrapper
    N           \* writes of a unit

ASSUME TxAssumption == Warps \cap Wrappers = {} /\ N \in Nat \ {0}

Units == Warps \cup Wrappers
Writes == 1 .. N

VARIABLES
    pc, k,      \* place of each unit, and the next write
    tx,         \* its session is in a transaction
    closed,     \* its session is closed
    wrote,      \* writes in the open transaction
    durable,    \* writes that are in the database
    err,        \* sw.err, or what WarpSession will return
    result,     \* how the unit ended
    unsure      \* history: the answer to a Commit was lost

vars == <<pc, k, tx, closed, wrote, durable, err, result, unsure>>

\* The type invariant; writes are pending only in an open transaction.
TypeOK ==
    /\ pc \in [Units -> {"begin", "work", "decide", "close", "ended"}]
    /\ k \in [Units -> 1 .. N + 1]
    /\ tx \in [Units -> BOOLEAN] /\ closed \in [Units -> BOOLEAN]
    /\ wrote \in [Units -> SUBSET Writes] /\ durable \in [Units -> SUBSET Writes]
    /\ \A u \in Units : ~tx[u] => wrote[u] = {}
    /\ err \in [Units -> BOOLEAN]
    /\ result \in [Units -> {"none", "committed", "rolledBack", "err", "panic"}]
    /\ unsure \subseteq Units

Init ==
    /\ pc = [u \in Units |-> "begin"]
    /\ k = [u \in Units |-> 1]
    /\ tx = [u \in Units |-> FALSE] /\ closed = [u \in Units |-> FALSE]
    /\ wrote = [u \in Units |-> {}] /\ durable = [u \in Units |-> {}]
    /\ err = [u \in Units |-> FALSE]
    /\ result = [u \in Units |-> "none"]
    /\ unsure = {}

------------------------------------------------------------------------------
(* The session.                                                            *)

Goto(u, label) == pc' = [pc EXCEPT ![u] = label]

Write(u) ==
    IF tx[u] THEN wrote' = [wrote EXCEPT ![u] = @ \cup {k[u]}] /\ UNCHANGED durable
             ELSE durable' = [durable EXCEPT ![u] = @ \cup {k[u]}] /\ UNCHANGED wrote

EndTx(u) == tx' = [tx EXCEPT ![u] = FALSE] /\ wrote' = [wrote EXCEPT ![u] = {}]

SessionCommits(u) ==
    /\ durable' = [durable EXCEPT ![u] = @ \cup wrote[u]]
    /\ EndTx(u)

\* Commit returns an error: it was not done, or done and the answer lost.
SessionCommitErr(u) ==
    \/ EndTx(u) /\ UNCHANGED <<durable, unsure>>
    \/ SessionCommits(u) /\ unsure' = unsure \cup {u}

SessionClose(u) == EndTx(u) /\ closed' = [closed EXCEPT ![u] = TRUE]

------------------------------------------------------------------------------
(* WarpSession.                                                            *)

Begin(u) ==
    /\ pc[u] = "begin"
    /\ tx' = [tx EXCEPT ![u] = TRUE]
    /\ Goto(u, "work")
    /\ UNCHANGED <<k, closed, wrote, durable, err, result, unsure>>

\* WarpSession returns the error; a SessionWrapper keeps it.
BeginErr(u) ==
    /\ pc[u] = "begin"
    /\ err' = [err EXCEPT ![u] = TRUE]
    /\ Goto(u, IF u \in Warps THEN "close" ELSE "work")
    /\ UNCHANGED <<k, tx, closed, wrote, durable, result, unsure>>

HandlerWrites(u) ==
    /\ u \in Warps /\ pc[u] = "work" /\ k[u] <= N
    /\ Write(u)
    /\ k' = [k EXCEPT ![u] = @ + 1]
    /\ UNCHANGED <<pc, tx, closed, err, result, unsure>>

\* The handler returns an error, or panics; the deferred Close follows.
HandlerErr(u) ==
    /\ u \in Warps /\ pc[u] = "work"
    /\ err' = [err EXCEPT ![u] = TRUE]
    /\ Goto(u, "close")
    /\ UNCHANGED <<k, tx, closed, wrote, durable, result, unsure>>

HandlerPanics(u) ==
    /\ u \in Warps /\ pc[u] = "work"
    /\ result' = [result EXCEPT ![u] = "panic"]
    /\ Goto(u, "close")
    /\ UNCHANGED <<k, tx, closed, wrote, durable, err, unsure>>

\* Mutant: the error of Commit is dropped.
WarpCommitsBlindly(u) ==
    /\ u \in Warps /\ pc[u] = "work" /\ k[u] > N
    /\ Goto(u, "close")
    /\ \/ SessionCommits(u) /\ UNCHANGED unsure
       \/ SessionCommitErr(u)
    /\ result' = [result EXCEPT ![u] = "committed"]
    /\ UNCHANGED <<k, closed, err>>

\* SessionDoctorCommit, when the handler is through.
WarpCommits(u) ==
    /\ u \in Warps /\ pc[u] = "work" /\ k[u] > N
    /\ Goto(u, "close")
    /\ \/ SessionCommits(u) /\ result' = [result EXCEPT ![u] = "committed"] /\ UNCHANGED <<err, unsure>>
       \/ SessionCommitErr(u) /\ err' = [err EXCEPT ![u] = TRUE] /\ UNCHANGED result
    /\ UNCHANGED <<k, closed>>

\* SessionDoctorRollback; the error of Rollback, too, is returned.
WarpRollsBack(u) ==
    /\ u \in Warps /\ pc[u] = "work"
    /\ EndTx(u)
    /\ Goto(u, "close")
    /\ \/ result' = [result EXCEPT ![u] = "rolledBack"] /\ UNCHANGED err
       \/ err' = [err EXCEPT ![u] = TRUE] /\ UNCHANGED result
    /\ UNCHANGED <<k, closed, durable, unsure>>

Result(u) == result' = [result EXCEPT ![u] = IF err[u] THEN "err" ELSE @]

\* Mutant: the session is not closed on the way out.
WarpLeaks(u) ==
    /\ u \in Warps /\ pc[u] = "close"
    /\ Result(u)
    /\ Goto(u, "ended")
    /\ UNCHANGED <<k, tx, closed, wrote, durable, err, unsure>>

WarpCloses(u) ==
    /\ u \in Warps /\ pc[u] = "close"
    /\ SessionClose(u)
    /\ Result(u)
    /\ Goto(u, "ended")
    /\ UNCHANGED <<k, durable, err, unsure>>

------------------------------------------------------------------------------
(* SessionWrapper, chained: the value each call returns is the next one's. *)

NextCall(u) == k' = [k EXCEPT ![u] = @ + 1]
InChain(u) == u \in Wrappers /\ pc[u] = "work" /\ k[u] <= N

ExecuteSkipped(u) ==
    /\ InChain(u) /\ err[u]
    /\ NextCall(u)
    /\ UNCHANGED <<pc, tx, closed, wrote, durable, err, result, unsure>>

Execute(u) ==
    /\ InChain(u) /\ ~err[u]
    /\ Write(u)
    /\ NextCall(u)
    /\ UNCHANGED <<pc, tx, closed, err, result, unsure>>

\* Mutant: the error is not carried on.
ExecuteErrForgets(u) ==
    /\ InChain(u) /\ ~err[u]
    /\ EndTx(u)
    /\ NextCall(u)
    /\ UNCHANGED <<pc, closed, durable, err, result, unsure>>

\* The call returns an error: roll back.
ExecuteErr(u) ==
    /\ InChain(u) /\ ~err[u]
    /\ err' = [err EXCEPT ![u] = TRUE]
    /\ EndTx(u)
    /\ NextCall(u)
    /\ UNCHANGED <<pc, closed, durable, result, unsure>>

\* The call panics: nothing is deferred, the session stays as it is.
ExecutePanics(u) ==
    /\ InChain(u) /\ ~err[u]
    /\ result' = [result EXCEPT ![u] = "panic"]
    /\ Goto(u, "ended")
    /\ UNCHANGED <<k, tx, closed, wrote, durable, err, unsure>>

\* Commit: with an error in the chain it rolls back and returns it.
Commit(u) ==
    /\ u \in Wrappers /\ pc[u] = "work" /\ k[u] > N
    /\ Goto(u, "decide")
    /\ \/ err[u] /\ EndTx(u) /\ UNCHANGED <<durable, err, result, unsure>>
       \/ ~err[u] /\ SessionCommits(u) /\ result' = [result EXCEPT ![u] = "committed"] /\ UNCHANGED <<err, unsure>>
       \/ ~err[u] /\ SessionCommitErr(u) /\ err' = [err EXCEPT ![u] = TRUE] /\ UNCHANGED result
    /\ UNCHANGED <<k, closed>>

\* Close, after Commit, as the second half of CommitAndClose, or without a
\* Commit, at any place of the chain.
Close(u) ==
    /\ u \in Wrappers /\ pc[u] \in {"work", "decide"}
    /\ SessionClose(u)
    /\ result' = [result EXCEPT ![u] =
            IF err[u] THEN "err" ELSE IF pc[u] = "work" THEN "rolledBack" ELSE @]
    /\ Goto(u, "ended")
    /\ UNCHANGED <<k, durable, err, unsure>>

Next ==
    \E u \in Units :
        \/ Begin(u) \/ BeginErr(u)
        \/ HandlerWrites(u) \/ HandlerErr(u) \/ HandlerPanics(u)
        \/ WarpCommits(u) \/ WarpRollsBack(u) \/ WarpCloses(u)
        \/ ExecuteSkipped(u) \/ Execute(u) \/ ExecuteErr(u) \/ ExecutePanics(u)
        \/ Commit(u) \/ Close(u)

Spec == Init /\ [][Next]_vars

------------------------------------------------------------------------------
(* Properties.                                                             *)

Ended(u) == pc[u] = "ended"

\* A unit of work is in the database as a whole or not at all, whatever step
\* of it failed: in particular no write of a failed chain slips out of the
\* transaction that was rolled back under it.
AllOrNothing == \A u \in Units : durable[u] \in {{}, Writes}

\* The result is true: success means that all is durable, an error that
\* nothing is, unless the answer to the commit itself was lost.
ResultIsTrue ==
    \A u \in Units :
        Ended(u) =>
            /\ result[u] = "committed" => durable[u] = Writes
            /\ result[u] \in {"err", "rolledBack"} /\ u \notin unsure => durable[u] = {}

\* A unit that ended leaves no transaction open and no session behind; only a
\* panic in a call given to Execute may.
NothingLeftOpen ==
    \A u \in Units :
        Ended(u) /\ (u \in Warps \/ result[u] # "panic") => ~tx[u] /\ closed[u]

==============================================================================
