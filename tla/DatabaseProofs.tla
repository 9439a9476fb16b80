---------------------------- MODULE DatabaseProofs ----------------------------
(***************************************************************************)
(* Proofs about Database, for every set of units, workers, sharers and     *)
(* keys and for every number of writes.                                    *)
(*                                                                         *)
(* Units of work.  That a unit is in the database as a whole or not at all *)
(* depends on what is pending when it commits, and on nothing being        *)
(* written outside a transaction.  The inductive invariant says so of each *)
(* unit by itself: an open transaction holds all the writes made so far    *)
(* and none of them is durable (OpenInv), a unit at work is in a           *)
(* transaction unless it carries an error (WorkInv), and its outcome is    *)
(* known (OutcomeInv).  Database implements SessionTx, so what is proved   *)
(* of SessionTx holds among the workers that share the table.              *)
(*                                                                         *)
(* The table.  A key that is not blamed has at most one claim, by a        *)
(* unit or a worker that looked in vain, and then no row (FreeInv); one    *)
(* with a unique index has no row while a transaction inserts it           *)
(* (UniqueInv).                                                            *)
(*                                                                         *)
(* The entity.  As long as nobody replaced its session, the owner is the   *)
(* only one who begins and ends a transaction (EntityInv).                 *)
(***************************************************************************)
EXTENDS Database, FiniteSetTheorems, SequenceTheorems, TLAPS

------------------------------------------------------------------------------
(* The units of work, by themselves.                                       *)

\* What is pending is all that was written, and nothing of it is durable.
OpenInv(u) == tx[u] => durable[u] = {} /\ wrote[u] = 1 .. k[u] - 1

\* Before the outcome nothing is durable; a unit at work without a
\* transaction is a chain with an error.
WorkInv(u) ==
    /\ pc[u] \in {"begin", "work"} => durable[u] = {} /\ result[u] = "none"
    /\ pc[u] = "begin" => ~tx[u] /\ ~err[u] /\ k[u] = 1
    /\ pc[u] = "work" => (tx[u] <=> ~err[u])
    /\ pc[u] = "work" /\ u \in Warps => tx[u]

\* The outcome as the session and the caller see it.
OutcomeInv(u) ==
    /\ durable[u] \in {{}, Writes}
    /\ result[u] = "committed" => durable[u] = Writes /\ ~err[u]
    /\ (err[u] \/ result[u] = "rolledBack") /\ u \notin unsure => durable[u] = {}
    /\ result[u] = "err" => err[u]
    /\ pc[u] = "decide" => (err[u] \/ result[u] = "committed") /\ ~tx[u]
    /\ Ended(u) /\ (u \in Warps \/ result[u] # "panic") => ~tx[u] /\ closed[u]

UnitInv(u) == OpenInv(u) /\ WorkInv(u) /\ OutcomeInv(u)

Inv == TypeOK /\ \A u \in Units : UnitInv(u)

------------------------------------------------------------------------------
\* The writes made before the k-th are 1 .. k - 1, and all when k is past N.
LEMMA WritesSoFar ==
    ASSUME NEW j \in 1 .. N + 1
    PROVE  /\ j <= N => (1 .. j - 1) \cup {j} = 1 .. (j + 1) - 1
           /\ j <= N => j \in Writes /\ j + 1 \in 1 .. N + 1
           /\ j > N => 1 .. j - 1 = Writes
BY TxAssumption DEF Writes

\* No unit has begun.
LEMMA InvInit == Init => Inv
<1> SUFFICES ASSUME Init PROVE Inv
  OBVIOUS
<1>1. TypeOK
  BY TxAssumption DEF Init, TypeOK
<1>2. ASSUME NEW u \in Units PROVE UnitInv(u)
  BY DEF Init, UnitInv, OpenInv, WorkInv, OutcomeInv, Ended
<1> QED
  BY <1>1, <1>2 DEF Inv

\* The sets of writes keep their type over a write.
LEMMA WriteTypes ==
    ASSUME TypeOK, NEW u \in Units, k[u] \in Writes, Write(u)
    PROVE  /\ wrote' \in [Units -> SUBSET Writes] /\ durable' \in [Units -> SUBSET Writes]
           /\ \A v \in Units : ~tx[v] => wrote'[v] = {}
<1>1. wrote[u] \cup {k[u]} \in SUBSET Writes /\ durable[u] \cup {k[u]} \in SUBSET Writes
  BY DEF TypeOK
<1>2. CASE tx[u]
  BY <1>1, <1>2 DEF Write, TypeOK
<1>3. CASE ~tx[u]
  BY <1>1, <1>3 DEF Write, TypeOK
<1> QED
  BY <1>2, <1>3

\* So do they when the session commits.
LEMMA CommitTypes ==
    ASSUME TypeOK, NEW u \in Units, SessionCommits(u)
    PROVE  /\ wrote' \in [Units -> SUBSET Writes] /\ durable' \in [Units -> SUBSET Writes]
           /\ tx' \in [Units -> BOOLEAN]
           /\ \A v \in Units : ~tx'[v] => wrote'[v] = {}
<1>1. durable[u] \cup wrote[u] \in SUBSET Writes
  BY DEF TypeOK
<1> QED
  BY <1>1 DEF SessionCommits, EndTx, TypeOK

\* A step of one unit leaves the others as they are.
LEMMA OthersKeep ==
    ASSUME Inv, NEW u \in Units, NEW v \in Units \ {u},
           pc'[v] = pc[v], k'[v] = k[v], tx'[v] = tx[v], closed'[v] = closed[v],
           wrote'[v] = wrote[v], durable'[v] = durable[v], err'[v] = err[v],
           result'[v] = result[v], v \in unsure' <=> v \in unsure
    PROVE  UnitInv(v)'
BY DEF Inv, UnitInv, OpenInv, WorkInv, OutcomeInv, Ended, Writes

\* The steps of WarpSession keep the invariant.
LEMMA WarpStep ==
    ASSUME Inv, NEW u \in Units,
           \/ Begin(u)
           \/ BeginErr(u)
           \/ HandlerWrites(u)
           \/ HandlerErr(u)
           \/ HandlerPanics(u)
           \/ WarpCommits(u)
           \/ WarpRollsBack(u)
           \/ WarpCloses(u)
    PROVE  Inv'
<1> USE DEF Goto
<1>t. TypeOK /\ UnitInv(u) /\ k[u] \in 1 .. N + 1
  BY DEF Inv, TypeOK
<1>w. /\ k[u] <= N => (1 .. k[u] - 1) \cup {k[u]} = 1 .. (k[u] + 1) - 1
      /\ k[u] <= N => k[u] \in Writes /\ k[u] + 1 \in 1 .. N + 1
      /\ k[u] > N => 1 .. k[u] - 1 = Writes
  BY <1>t, WritesSoFar
<1>1. CASE Begin(u)
  <2>1. TypeOK'
    BY <1>1, <1>t, <1>w DEF Begin, TypeOK
  <2>2. UnitInv(u)'
    BY <1>1, <1>t, <1>w DEF Begin, TypeOK, UnitInv, OpenInv, WorkInv, OutcomeInv, Ended
  <2>3. ASSUME NEW v \in Units \ {u} PROVE UnitInv(v)'
    BY <1>1, <1>t, OthersKeep DEF Begin, TypeOK
  <2> QED
    BY <2>1, <2>2, <2>3 DEF Inv
<1>2. CASE BeginErr(u)
  <2>1. TypeOK'
    BY <1>2, <1>t, <1>w DEF BeginErr, TypeOK
  <2>2. UnitInv(u)'
    BY <1>2, <1>t, <1>w DEF BeginErr, TypeOK, UnitInv, OpenInv, WorkInv, OutcomeInv, Ended
  <2>3. ASSUME NEW v \in Units \ {u} PROVE UnitInv(v)'
    BY <1>2, <1>t, OthersKeep DEF BeginErr, TypeOK
  <2> QED
    BY <2>1, <2>2, <2>3 DEF Inv
<1>3. CASE HandlerWrites(u)
  <2>1. TypeOK'
    BY <1>3, <1>t, <1>w, WriteTypes DEF HandlerWrites, TypeOK
  <2>2. UnitInv(u)'
    BY <1>3, <1>t, <1>w
       DEF HandlerWrites, Write, TypeOK, UnitInv, OpenInv, WorkInv, OutcomeInv, Ended
  <2>3. ASSUME NEW v \in Units \ {u} PROVE UnitInv(v)'
    BY <1>3, <1>t, OthersKeep DEF HandlerWrites, Write, TypeOK
  <2> QED
    BY <2>1, <2>2, <2>3 DEF Inv
<1>4. CASE HandlerErr(u)
  <2>1. TypeOK'
    BY <1>4, <1>t, <1>w DEF HandlerErr, TypeOK
  <2>2. UnitInv(u)'
    BY <1>4, <1>t, <1>w DEF HandlerErr, TypeOK, UnitInv, OpenInv, WorkInv, OutcomeInv, Ended
  <2>3. ASSUME NEW v \in Units \ {u} PROVE UnitInv(v)'
    BY <1>4, <1>t, OthersKeep DEF HandlerErr, TypeOK
  <2> QED
    BY <2>1, <2>2, <2>3 DEF Inv
<1>5. CASE HandlerPanics(u)
  <2>1. TypeOK'
    BY <1>5, <1>t, <1>w DEF HandlerPanics, TypeOK
  <2>2. UnitInv(u)'
    BY <1>5, <1>t, <1>w DEF HandlerPanics, TypeOK, UnitInv, OpenInv, WorkInv, OutcomeInv, Ended
  <2>3. ASSUME NEW v \in Units \ {u} PROVE UnitInv(v)'
    BY <1>5, <1>t, OthersKeep DEF HandlerPanics, TypeOK
  <2> QED
    BY <2>1, <2>2, <2>3 DEF Inv
<1>6. CASE WarpCommits(u)
  <2>1. TypeOK'
    <3>1. CASE SessionCommits(u)
      BY <1>6, <3>1, <1>t, CommitTypes DEF WarpCommits, SessionCommitErr, TypeOK
    <3>2. CASE EndTx(u) /\ UNCHANGED durable
      BY <1>6, <3>2, <1>t DEF WarpCommits, SessionCommitErr, EndTx, TypeOK
    <3> QED
      BY <1>6, <3>1, <3>2 DEF WarpCommits, SessionCommitErr
  <2>2. UnitInv(u)'
    <3>1. CASE ~err[u] /\ SessionCommits(u)
      <4>1. ~err[u] /\ tx[u] /\ durable[u] = {} /\ wrote[u] = Writes
        BY <1>6, <3>1, <1>t, <1>w DEF WarpCommits, TypeOK, UnitInv, OpenInv, WorkInv
      <4>2. ~tx'[u] /\ durable'[u] = Writes
        BY <4>1, <3>1, <1>t DEF SessionCommits, EndTx, TypeOK
      <4> QED
        BY <1>6, <4>1, <4>2, <1>t, TxAssumption
           DEF WarpCommits, SessionCommitErr, TypeOK, UnitInv, OpenInv, WorkInv, OutcomeInv, Ended
    <3>2. CASE EndTx(u) /\ UNCHANGED <<durable, result, unsure>> /\ err'[u]
      BY <1>6, <3>2, <1>t
         DEF WarpCommits, SessionCommitErr, EndTx, TypeOK, UnitInv, OpenInv, WorkInv, OutcomeInv, Ended
    <3> QED
      BY <1>6, <3>1, <3>2, <1>t, TxAssumption
         DEF WarpCommits, SessionCommitErr, TypeOK, UnitInv, WorkInv
  <2>3. ASSUME NEW v \in Units \ {u} PROVE UnitInv(v)'
    BY <1>6, <1>t, OthersKeep DEF WarpCommits, SessionCommits, SessionCommitErr, EndTx, TypeOK
  <2> QED
    BY <2>1, <2>2, <2>3 DEF Inv
<1>7. CASE WarpRollsBack(u)
  <2>1. TypeOK'
    BY <1>7, <1>t, <1>w DEF WarpRollsBack, EndTx, TypeOK
  <2>2. UnitInv(u)'
    BY <1>7, <1>t, <1>w
       DEF WarpRollsBack, EndTx, TypeOK, UnitInv, OpenInv, WorkInv, OutcomeInv, Ended
  <2>3. ASSUME NEW v \in Units \ {u} PROVE UnitInv(v)'
    BY <1>7, <1>t, OthersKeep DEF WarpRollsBack, EndTx, TypeOK
  <2> QED
    BY <2>1, <2>2, <2>3 DEF Inv
<1>8. CASE WarpCloses(u)
  <2>1. TypeOK'
    BY <1>8, <1>t, <1>w DEF WarpCloses, SessionClose, EndTx, Result, TypeOK
  <2>2. UnitInv(u)'
    BY <1>8, <1>t, <1>w
       DEF WarpCloses, SessionClose, EndTx, Result, TypeOK, UnitInv, OpenInv, WorkInv, OutcomeInv, Ended
  <2>3. ASSUME NEW v \in Units \ {u} PROVE UnitInv(v)'
    BY <1>8, <1>t, OthersKeep DEF WarpCloses, SessionClose, EndTx, Result, TypeOK
  <2> QED
    BY <2>1, <2>2, <2>3 DEF Inv
<1> QED
  BY <1>1, <1>2, <1>3, <1>4, <1>5, <1>6, <1>7, <1>8

\* So do those of a SessionWrapper.
LEMMA WrapperStep ==
    ASSUME Inv, NEW u \in Units,
           \/ ExecuteSkipped(u)
           \/ Execute(u)
           \/ ExecuteErr(u)
           \/ ExecutePanics(u)
           \/ Commit(u)
           \/ Close(u)
    PROVE  Inv'
<1> USE DEF Goto
<1>t. TypeOK /\ UnitInv(u) /\ k[u] \in 1 .. N + 1
  BY DEF Inv, TypeOK
<1>w. /\ k[u] <= N => (1 .. k[u] - 1) \cup {k[u]} = 1 .. (k[u] + 1) - 1
      /\ k[u] <= N => k[u] \in Writes /\ k[u] + 1 \in 1 .. N + 1
      /\ k[u] > N => 1 .. k[u] - 1 = Writes
  BY <1>t, WritesSoFar
<1>1. CASE ExecuteSkipped(u)
  <2>1. TypeOK'
    BY <1>1, <1>t, <1>w DEF ExecuteSkipped, InChain, NextCall, TypeOK
  <2>2. UnitInv(u)'
    BY <1>1, <1>t, <1>w
       DEF ExecuteSkipped, InChain, NextCall, TypeOK, UnitInv, OpenInv, WorkInv, OutcomeInv, Ended
  <2>3. ASSUME NEW v \in Units \ {u} PROVE UnitInv(v)'
    BY <1>1, <1>t, OthersKeep DEF ExecuteSkipped, InChain, NextCall, TypeOK
  <2> QED
    BY <2>1, <2>2, <2>3 DEF Inv
<1>2. CASE Execute(u)
  <2>1. TypeOK'
    BY <1>2, <1>t, <1>w, WriteTypes DEF Execute, InChain, NextCall, TypeOK
  <2>2. UnitInv(u)'
    BY <1>2, <1>t, <1>w
       DEF Execute, InChain, NextCall, Write, TypeOK, UnitInv, OpenInv, WorkInv, OutcomeInv, Ended
  <2>3. ASSUME NEW v \in Units \ {u} PROVE UnitInv(v)'
    BY <1>2, <1>t, OthersKeep DEF Execute, InChain, NextCall, Write, TypeOK
  <2> QED
    BY <2>1, <2>2, <2>3 DEF Inv
<1>3. CASE ExecuteErr(u)
  <2>1. TypeOK'
    BY <1>3, <1>t, <1>w DEF ExecuteErr, InChain, NextCall, EndTx, TypeOK
  <2>2. UnitInv(u)'
    BY <1>3, <1>t, <1>w, TxAssumption
       DEF ExecuteErr, InChain, NextCall, EndTx, TypeOK, UnitInv, OpenInv, WorkInv, OutcomeInv, Ended
  <2>3. ASSUME NEW v \in Units \ {u} PROVE UnitInv(v)'
    BY <1>3, <1>t, OthersKeep DEF ExecuteErr, InChain, NextCall, EndTx, TypeOK
  <2> QED
    BY <2>1, <2>2, <2>3 DEF Inv
<1>4. CASE ExecutePanics(u)
  <2>1. TypeOK'
    BY <1>4, <1>t, <1>w DEF ExecutePanics, InChain, TypeOK
  <2>2. UnitInv(u)'
    BY <1>4, <1>t, <1>w, TxAssumption
       DEF ExecutePanics, InChain, TypeOK, UnitInv, OpenInv, WorkInv, OutcomeInv, Ended
  <2>3. ASSUME NEW v \in Units \ {u} PROVE UnitInv(v)'
    BY <1>4, <1>t, OthersKeep DEF ExecutePanics, InChain, TypeOK
  <2> QED
    BY <2>1, <2>2, <2>3 DEF Inv
<1>5. CASE Commit(u)
  <2>1. TypeOK'
    <3>1. CASE SessionCommits(u)
      BY <1>5, <3>1, <1>t, CommitTypes DEF Commit, SessionCommitErr, TypeOK
    <3>2. CASE EndTx(u) /\ UNCHANGED durable
      BY <1>5, <3>2, <1>t DEF Commit, SessionCommitErr, EndTx, TypeOK
    <3> QED
      BY <1>5, <3>1, <3>2 DEF Commit, SessionCommitErr
  <2>2. UnitInv(u)'
    <3>1. CASE ~err[u] /\ SessionCommits(u)
      <4>1. ~err[u] /\ tx[u] /\ durable[u] = {} /\ wrote[u] = Writes
        BY <1>5, <3>1, <1>t, <1>w DEF Commit, TypeOK, UnitInv, OpenInv, WorkInv
      <4>2. ~tx'[u] /\ durable'[u] = Writes
        BY <4>1, <3>1, <1>t DEF SessionCommits, EndTx, TypeOK
      <4> QED
        BY <1>5, <4>1, <4>2, <1>t, TxAssumption
           DEF Commit, SessionCommitErr, TypeOK, UnitInv, OpenInv, WorkInv, OutcomeInv, Ended
    <3>2. CASE EndTx(u) /\ UNCHANGED <<durable, result, unsure>> /\ err'[u]
      BY <1>5, <3>2, <1>t
         DEF Commit, SessionCommitErr, EndTx, TypeOK, UnitInv, OpenInv, WorkInv, OutcomeInv, Ended
    <3> QED
      BY <1>5, <3>1, <3>2, <1>t, TxAssumption
         DEF Commit, SessionCommitErr, TypeOK, UnitInv, WorkInv
  <2>3. ASSUME NEW v \in Units \ {u} PROVE UnitInv(v)'
    BY <1>5, <1>t, OthersKeep DEF Commit, SessionCommits, SessionCommitErr, EndTx, TypeOK
  <2> QED
    BY <2>1, <2>2, <2>3 DEF Inv
<1>6. CASE Close(u)
  <2>1. TypeOK'
    BY <1>6, <1>t, <1>w DEF Close, SessionClose, EndTx, TypeOK
  <2>2. UnitInv(u)'
    BY <1>6, <1>t, <1>w
       DEF Close, SessionClose, EndTx, TypeOK, UnitInv, OpenInv, WorkInv, OutcomeInv, Ended
  <2>3. ASSUME NEW v \in Units \ {u} PROVE UnitInv(v)'
    BY <1>6, <1>t, OthersKeep DEF Close, SessionClose, EndTx, TypeOK
  <2> QED
    BY <2>1, <2>2, <2>3 DEF Inv
<1> QED
  BY <1>1, <1>2, <1>3, <1>4, <1>5, <1>6

------------------------------------------------------------------------------
\* The invariant holds in every state of every behaviour.
THEOREM Invariance == Spec => []Inv
<1>1. Inv /\ [Next]_vars => Inv'
  <2> SUFFICES ASSUME Inv, [Next]_vars PROVE Inv'
    OBVIOUS
  <2>1. CASE UNCHANGED vars
    BY <2>1 DEF Inv, TypeOK, UnitInv, OpenInv, WorkInv, OutcomeInv, Ended, vars
  <2>2. ASSUME NEW u \in Units,
               \/ Begin(u) \/ BeginErr(u)
               \/ HandlerWrites(u) \/ HandlerErr(u) \/ HandlerPanics(u)
               \/ WarpCommits(u) \/ WarpRollsBack(u) \/ WarpCloses(u)
        PROVE  Inv'
    BY <2>2, WarpStep
  <2>3. ASSUME NEW u \in Units,
               \/ ExecuteSkipped(u) \/ Execute(u) \/ ExecuteErr(u) \/ ExecutePanics(u)
               \/ Commit(u) \/ Close(u)
        PROVE  Inv'
    BY <2>3, WrapperStep
  <2> QED
    BY <2>1, <2>2, <2>3 DEF Next
<1> QED
  BY InvInit, <1>1, PTL DEF Spec

\* The variables keep their types, and writes are pending only in a
\* transaction, whatever fails in WarpSession or in a chain of Execute calls.
THEOREM TypeCorrect == Spec => []TypeOK
<1>1. Inv => TypeOK
  BY DEF Inv
<1> QED
  BY Invariance, <1>1, PTL

\* A unit of work of any length is durable as a whole or not at all: no
\* Execute writes outside the transaction that a failed one rolled back.
THEOREM Atomic == Spec => []AllOrNothing
<1>1. Inv => AllOrNothing
  BY DEF Inv, UnitInv, OutcomeInv, AllOrNothing
<1> QED
  BY Invariance, <1>1, PTL

\* What WarpSession and the wrapper return is true of the database, except
\* after a Commit whose answer was lost.
THEOREM Truthful == Spec => []ResultIsTrue
<1>1. Inv => ResultIsTrue
  BY DEF Inv, UnitInv, OutcomeInv, ResultIsTrue
<1> QED
  BY Invariance, <1>1, PTL

\* The deferred Close of WarpSession, and Close of the wrapper, leave neither
\* a transaction nor a session behind, after a panic of the handler too.
THEOREM Closed == Spec => []NothingLeftOpen
<1>1. Inv => NothingLeftOpen
  BY DEF Inv, UnitInv, OutcomeInv, NothingLeftOpen
<1> QED
  BY Invariance, <1>1, PTL


------------------------------------------------------------------------------
(* The units of work, in the database.                                     *)

\* Among the workers and with a table, the units do what SessionTx says.
THEOREM Implements == DatabaseSpec => Spec
<1>1. DatabaseInit => Init
  BY DEF DatabaseInit
<1>2. [DatabaseNext]_databaseVars => [Next]_vars
  <2>1. ASSUME NEW u \in Units, UnitLooks(u) PROVE UNCHANGED vars
    BY <2>1 DEF UnitLooks
  <2>2. ASSUME NEW u \in Units, UnitWrites(u) PROVE Next
    BY <2>2 DEF UnitWrites, Next
  <2>3. ASSUME NEW u \in Units, UnitGoesOn(u) PROVE Next
    BY <2>3 DEF UnitGoesOn, Next
  <2>4. ASSUME NEW w, WorkerStep(w) PROVE UNCHANGED vars
    BY <2>4 DEF WorkerStep, unitVars
  <2> QED
    BY <2>1, <2>2, <2>3, <2>4 DEF DatabaseNext, databaseVars, unitVars
<1> QED
  BY <1>1, <1>2, PTL DEF DatabaseSpec, Spec

\* WarpSession and the wrapper keep their promises on a table that others use.
THEOREM UnitsKeepPromises == DatabaseSpec => [](AllOrNothing /\ ResultIsTrue /\ NothingLeftOpen)
BY Implements, Atomic, Truthful, Closed, PTL

------------------------------------------------------------------------------
(* The entity.                                                             *)

EntityInv ==
    /\ replaced \in BOOLEAN
    /\ ~replaced =>
        /\ owner \in [place : {"new", "begin", "work", "close", "ended"}, k : 1 .. M + 1]
        /\ DOMAIN pending = Sessions
        /\ owner.place = "new" => opened = 0 /\ sessionDao = 0
        /\ owner.place # "new" => sessionDao = 1
        /\ owner.place \in {"new", "begin"} => owner.k = 1 /\ pending[1] \cap OwnerWrites = {}
        /\ owner.place = "work" => inTx = {1} /\ pending[1] \cap OwnerWrites = 1 .. owner.k - 1
        /\ owner.place # "work" => inTx = {}
        /\ owner.place \in {"new", "begin", "work"} => saved \cap OwnerWrites = {}
        /\ saved \cap OwnerWrites \in {{}, OwnerWrites}

LEMMA EntityStart == EntityInit => EntityInv
<1> SUFFICES ASSUME EntityInit PROVE EntityInv
  OBVIOUS
<1>1. Cardinality(Sharers) \in Nat
  BY EntityAssumption, FS_CardinalityType
<1>2. 1 \in Sessions
  BY <1>1 DEF Sessions
<1>3. DOMAIN pending = Sessions /\ pending[1] = {}
  BY <1>2 DEF EntityInit
<1>4. /\ owner.place = "new" /\ owner.k = 1
      /\ owner \in [place : {"new", "begin", "work", "close", "ended"}, k : 1 .. M + 1]
  BY EntityAssumption DEF EntityInit
<1>5. replaced = FALSE /\ inTx = {} /\ saved = {} /\ sessionDao = 0 /\ opened = 0
  BY DEF EntityInit
<1> QED
  BY <1>3, <1>4, <1>5 DEF EntityInv

LEMMA EntityStep == EntityInv /\ EntityNext => EntityInv'
<1> SUFFICES ASSUME EntityInv, EntityNext PROVE EntityInv'
  OBVIOUS
<1>1. CASE replaced'
  BY <1>1 DEF EntityInv
<1>2. CASE ~replaced'
  <2>1. ~replaced
    BY <1>2 DEF EntityInv, EntityNext, OwnerOpens, Begins, OwnerMakesWrite, OwnerEnds, OwnerCloses, SharerWrites,
              SharerOpens
  <2>2. 1 \in Sessions
    <3>1. Cardinality(Sharers) \in Nat
      BY EntityAssumption, FS_CardinalityType
    <3> QED
      BY <3>1 DEF Sessions
  <2>3. CASE OwnerOpens
    BY <1>2, <2>1, <2>3 DEF EntityInv, OwnerOpens, NewSession, OwnerGoto
  <2>4. CASE Begins
    BY <1>2, <2>1, <2>4, EntityAssumption DEF EntityInv, Begins, OwnerGoto
  <2>5. CASE OwnerMakesWrite
    <3>1. /\ owner.place = "work" /\ owner.k <= M /\ owner.k \in 1 .. M /\ sessionDao = 1 /\ inTx = {1}
          /\ pending[1] \cap OwnerWrites = 1 .. owner.k - 1 /\ saved \cap OwnerWrites = {}
      BY <2>1, <2>5, EntityAssumption DEF OwnerMakesWrite, EntityInv
    <3>2. pending' = [pending EXCEPT ![1] = @ \cup {owner.k}] /\ saved' = saved
      BY <2>5, <3>1 DEF OwnerMakesWrite, Forward
    <3>3. owner' = [owner EXCEPT !.k = @ + 1] /\ UNCHANGED <<sessionDao, opened, inTx, replaced>>
      BY <2>5 DEF OwnerMakesWrite
    <3>4. DOMAIN pending' = Sessions /\ pending'[1] = pending[1] \cup {owner.k}
      BY <2>1, <2>2, <3>2 DEF EntityInv
    <3>5. owner'.place = "work" /\ owner'.k = owner.k + 1
          /\ owner' \in [place : {"new", "begin", "work", "close", "ended"}, k : 1 .. M + 1]
      BY <2>1, <3>1, <3>3, EntityAssumption DEF EntityInv
    <3>6. pending'[1] \cap OwnerWrites = 1 .. owner'.k - 1
      BY <3>1, <3>4, <3>5, EntityAssumption DEF OwnerWrites
    <3> QED
      BY <2>1, <3>1, <3>2, <3>3, <3>4, <3>5, <3>6 DEF EntityInv
  <2>6. CASE OwnerEnds
    <3>1. /\ owner.place = "work" /\ sessionDao = 1 /\ inTx = {1} /\ owner.k \in 1 .. M + 1
          /\ pending[1] \cap OwnerWrites = 1 .. owner.k - 1 /\ saved \cap OwnerWrites = {}
      BY <2>1, <2>6 DEF OwnerEnds, EntityInv
    <3>2. /\ saved' = saved \/ (owner.k > M /\ saved' = saved \cup pending[1])
          /\ inTx' = {} /\ pending' = [pending EXCEPT ![1] = {}]
          /\ owner' = [owner EXCEPT !.place = "close"] /\ UNCHANGED <<sessionDao, opened, replaced>>
      BY <2>6, <3>1 DEF OwnerEnds, EndSession, OwnerGoto
    <3>3. owner.k > M => pending[1] \cap OwnerWrites = OwnerWrites
      BY <3>1, EntityAssumption DEF OwnerWrites
    <3>4. saved' \cap OwnerWrites \in {{}, OwnerWrites}
      BY <3>1, <3>2, <3>3
    <3>5. /\ owner'.place = "close"
          /\ owner' \in [place : {"new", "begin", "work", "close", "ended"}, k : 1 .. M + 1]
      BY <2>1, <3>2 DEF EntityInv
    <3>6. DOMAIN pending' = Sessions
      BY <2>1, <3>2 DEF EntityInv
    <3> QED
      BY <2>1, <3>1, <3>2, <3>4, <3>5, <3>6 DEF EntityInv
  <2>7. CASE OwnerCloses
    BY <1>2, <2>1, <2>7 DEF EntityInv, OwnerCloses, EndSession, OwnerGoto
  <2>8. ASSUME NEW g \in Sharers, SharerWrites(g) PROVE EntityInv'
    <3>1. g \notin OwnerWrites
      BY EntityAssumption DEF OwnerWrites
    <3>2. UNCHANGED <<sessionDao, opened, inTx, owner, replaced>>
      BY <2>8 DEF SharerWrites
    <3>3. CASE sessionDao \in inTx
      <4>1. owner.place = "work" /\ sessionDao = 1
        BY <2>1, <3>3 DEF EntityInv
      <4>2. pending' = [pending EXCEPT ![1] = @ \cup {g}] /\ saved' = saved
        BY <2>8, <3>3, <4>1 DEF SharerWrites, Forward
      <4>3. pending'[1] \cap OwnerWrites = pending[1] \cap OwnerWrites /\ DOMAIN pending' = Sessions
        BY <2>1, <2>2, <3>1, <4>2 DEF EntityInv
      <4> QED
        BY <2>1, <3>2, <4>1, <4>2, <4>3 DEF EntityInv
    <3>4. CASE sessionDao \notin inTx
      <4>1. saved' = saved \cup {g} /\ pending' = pending
        BY <2>8, <3>4 DEF SharerWrites, Forward
      <4>2. saved' \cap OwnerWrites = saved \cap OwnerWrites
        BY <3>1, <4>1
      <4> QED
        BY <2>1, <3>2, <4>1, <4>2 DEF EntityInv
    <3> QED
      BY <3>3, <3>4
  <2>9. ASSUME NEW g \in Sharers, SharerOpens(g) PROVE EntityInv'
    BY <1>2, <2>9 DEF SharerOpens
  <2> QED
    BY <2>3, <2>4, <2>5, <2>6, <2>7, <2>8, <2>9 DEF EntityNext
<1> QED
  BY <1>1, <1>2 DEF EntityInv

\* The writes of an entity's owner are in the database as a whole or not at
\* all, however many goroutines write through the entity, while none of them
\* calls NewSession on it; and no transaction outlives the owner.
THEOREM EntityIsAtomic == DatabaseSpec => []EntityAtomic
<1>1. DatabaseInit => EntityInv
  BY EntityStart DEF DatabaseInit
<1>2. EntityInv /\ [DatabaseNext]_databaseVars => EntityInv'
  <2>1. EntityInv /\ UNCHANGED entityVars => EntityInv'
    BY DEF EntityInv, entityVars
  <2>2. [DatabaseNext]_databaseVars => EntityNext \/ UNCHANGED entityVars
    BY DEF DatabaseNext, databaseVars
  <2> QED
    BY <2>1, <2>2, EntityStep
<1>3. EntityInv => EntityAtomic
  BY DEF EntityInv, EntityAtomic
<1> QED
  BY <1>1, <1>2, <1>3, PTL DEF DatabaseSpec

------------------------------------------------------------------------------
(* The table.                                                              *)

Beans == Units \cup D!Workers \cup {Old}
Statements == {"insert", "update"} \X Keys

TableTypes ==
    /\ rows \in [Keys -> Seq(Beans)]
    /\ plan \in [Units -> {"none", "insert", "update"}]
    /\ mine \in [Units -> Seq(Statements)]
    /\ place \in [D!Workers -> {"look", "update", "insert", "ended"}]
    /\ index \in [D!Workers -> Nat]

\* What a unit will write, and what it has written in its transaction: of a
\* key it inserts once, and only what it did not find.
PlanInv(u) ==
    /\ plan[u] # "none" => InWork(u)
    /\ plan[u] = "insert" => ~Inserted(u, UnitKey(u))
    /\ ~tx[u] => mine[u] = << >>
    /\ \A key \in Keys : \A j, l \in Inserts(u, key) : j = l

\* Units and workers that will insert the key or have done so in a transaction.
Claims(who, key) ==
    \/ who \in Units /\ (Inserted(who, key) \/ (plan[who] = "insert" /\ UnitKey(who) = key))
    \/ who \in D!Workers /\ place[who] = "insert" /\ D!Key(who) = key

\* Keys that may have two rows, if they have no unique index.
Blamed == raced \cup overlooked

FreeInv(key) ==
    key \notin Blamed =>
        /\ Len(rows[key]) <= 1
        /\ \A v, w : Claims(v, key) /\ Claims(w, key) => v = w
        /\ \A v : Claims(v, key) => rows[key] = << >>

UniqueInv(key) ==
    key \in Unique =>
        /\ Len(rows[key]) <= 1
        /\ \A u \in Units : Inserted(u, key) => rows[key] = << >> /\ ~LockedFor(Units \ {u}, key)

TableInv ==
    /\ TableTypes
    /\ \A u \in Units : PlanInv(u)
    /\ \A key \in Keys : FreeInv(key) /\ UniqueInv(key)

Holds(u, key) == \E write \in Range(mine[u]) : write[2] = key

LEMMA Apart == \A u \in Units : u \notin D!Workers
BY DatabaseAssumption DEF D!Workers

LEMMA Locked == \A S, key : LockedFor(S, key) <=> \E v \in S : Holds(v, key)
BY DEF LockedFor, Holds

\* What holds of a key when it loses claims, and has not more rows.
LEMMA FreeLess ==
    ASSUME TableTypes, TableTypes', NEW key \in Keys, FreeInv(key), Blamed \subseteq Blamed',
           \A v : Claims(v, key)' => Claims(v, key),
           Len(rows'[key]) <= Len(rows[key])
    PROVE  FreeInv(key)'
<1>1. rows[key] \in Seq(Beans) /\ rows'[key] \in Seq(Beans)
  BY DEF TableTypes, Beans
<1>2. Len(rows[key]) \in Nat /\ Len(rows'[key]) \in Nat
  BY <1>1
<1>3. rows[key] = << >> => rows'[key] = << >>
  BY <1>1, <1>2, EmptySeq
<1> QED
  BY <1>2, <1>3 DEF FreeInv

\* What holds of the keys when someone looked for one in vain.
LEMMA FreeNew ==
    ASSUME TableTypes, TableTypes', NEW who, NEW it, NEW key \in Keys, FreeInv(key),
           LookedInVain(who, it), rows' = rows,
           \A v : v # who => (Claims(v, key)' <=> Claims(v, key)),
           Claims(who, key)' => Claims(who, key) \/ key = it
    PROVE  FreeInv(key)'
<1>1. Blamed \subseteq Blamed'
  BY DEF LookedInVain, Blamed
<1>2. CASE key # it
  BY <1>1, <1>2, FreeLess
<1>3. CASE key = it /\ key \notin Blamed'
  <2>1. ~Inserting(who, key) /\ rows[key] = << >> /\ key \notin Blamed
    BY <1>1, <1>3 DEF LookedInVain, Blamed
  <2>2. \A v : v # who => ~Claims(v, key)
    BY <2>1 DEF Inserting, Claims
  <2>3. rows'[key] = << >> /\ Len(rows'[key]) = 0
    BY <2>1
  <2> QED
    BY <2>2, <2>3 DEF FreeInv
<1>4. CASE key \in Blamed'
  BY <1>4 DEF FreeInv
<1> QED
  BY <1>2, <1>3, <1>4

\* What holds of a key when one that claimed it has inserted it for all to see.
LEMMA FreeInsert ==
    ASSUME TableTypes, TableTypes', NEW key \in Keys, NEW who, FreeInv(key), Blamed \subseteq Blamed',
           Claims(who, key), ~Claims(who, key)',
           \A v : v # who /\ Claims(v, key)' => Claims(v, key),
           Len(rows'[key]) = Len(rows[key]) + 1
    PROVE  FreeInv(key)'
<1>1. SUFFICES ASSUME key \notin Blamed' PROVE Len(rows'[key]) <= 1 /\ \A v : ~Claims(v, key)'
  BY DEF FreeInv
<1>2. rows[key] = << >> /\ \A v : Claims(v, key) => v = who
  BY <1>1 DEF FreeInv
<1>3. Len(rows[key]) = 0
  BY <1>2
<1> QED
  BY <1>2, <1>3

LEMMA UniqueLess ==
    ASSUME TableTypes, TableTypes', NEW key \in Keys, UniqueInv(key),
           \A u \in Units : Inserted(u, key)' => Inserted(u, key),
           \A u \in Units : Holds(u, key)' => Holds(u, key),
           Len(rows'[key]) <= Len(rows[key])
    PROVE  UniqueInv(key)'
<1>1. rows[key] \in Seq(Beans) /\ rows'[key] \in Seq(Beans)
  BY DEF TableTypes, Beans
<1>2. Len(rows[key]) \in Nat /\ Len(rows'[key]) \in Nat
  BY <1>1
<1>3. rows[key] = << >> => rows'[key] = << >>
  BY <1>1, <1>2, EmptySeq
<1>4. \A S : LockedFor(S, key)' <=> \E v \in S : Holds(v, key)'
  BY DEF LockedFor, Holds
<1>5. ASSUME NEW u \in Units, LockedFor(Units \ {u}, key)' PROVE LockedFor(Units \ {u}, key)
  BY <1>4, <1>5, Locked
<1> QED
  BY <1>2, <1>3, <1>5 DEF UniqueInv

\* What a commit makes of a key.
LEMMA AppliedLen ==
    ASSUME TableTypes, NEW u \in Units, PlanInv(u), NEW key \in Keys
    PROVE  /\ AppliedAll(u)[key] \in Seq(Beans)
           /\ Inserted(u, key) => Len(AppliedAll(u)[key]) = Len(rows[key]) + 1
           /\ ~Inserted(u, key) => Len(AppliedAll(u)[key]) = Len(rows[key])
<1> DEFINE old == IF Updates(u, key) THEN [j \in DOMAIN rows[key] |-> u] ELSE rows[key]
           n == Cardinality(Inserts(u, key))
           new == [j \in 1 .. n |-> u]
<1>1. rows[key] \in Seq(Beans) /\ DOMAIN rows[key] = 1 .. Len(rows[key]) /\ Len(rows[key]) \in Nat /\ u \in Beans
  BY DEF TableTypes, Beans
<1>2. old \in Seq(Beans) /\ Len(old) = Len(rows[key])
  <2>1. [j \in 1 .. Len(rows[key]) |-> u] \in Seq(Beans) /\ Len([j \in 1 .. Len(rows[key]) |-> u]) = Len(rows[key])
    BY <1>1
  <2> QED
    BY <1>1, <2>1
<1>3. Inserted(u, key) <=> Inserts(u, key) # {}
  BY DEF Inserted, Inserts, Range
<1>4. n = IF Inserted(u, key) THEN 1 ELSE 0
  <2>1. CASE Inserted(u, key)
    <3>1. PICK j \in Inserts(u, key) : Inserts(u, key) = {j}
      BY <1>3, <2>1 DEF PlanInv
    <3> QED
      BY <2>1, <3>1, FS_Singleton
  <2>2. CASE ~Inserted(u, key)
    BY <1>3, <2>2, FS_EmptySet
  <2> QED
    BY <2>1, <2>2
<1>5. new \in Seq(Beans) /\ Len(new) = n /\ n \in Nat
  BY <1>1, <1>4
<1>6. AppliedAll(u)[key] = old \o new
  BY DEF AppliedAll
<1> HIDE DEF old, new, n
<1>7. old \o new \in Seq(Beans) /\ Len(old \o new) = Len(old) + Len(new)
  BY <1>2, <1>5, ConcatProperties
<1>8. AppliedAll(u)[key] \in Seq(Beans)
  BY <1>6, <1>7
<1>9. Len(AppliedAll(u)[key]) = Len(rows[key]) + n
  BY <1>2, <1>5, <1>6, <1>7
<1>10. CASE Inserted(u, key)
  BY <1>4, <1>8, <1>9, <1>10
<1>11. CASE ~Inserted(u, key)
  <2>1. Len(AppliedAll(u)[key]) = Len(rows[key])
    BY <1>1, <1>4, <1>9, <1>11
  <2> QED
    BY <1>8, <1>11, <2>1
<1> QED
  BY <1>10, <1>11

LEMMA TableStart == DatabaseInit => TableInv
<1> SUFFICES ASSUME DatabaseInit PROVE TableInv
  OBVIOUS
<1>1. /\ rows \in [Keys -> {<< >>, <<Old>>} \cup {<<w>> : w \in ById}]
      /\ place = [w \in D!Workers |-> "look"] /\ index = [w \in D!Workers |-> 1]
      /\ plan = [u \in Units |-> "none"] /\ mine = [u \in Units |-> << >>]
  BY DEF DatabaseInit, D!Init
<1>2. ASSUME NEW key \in Keys PROVE rows[key] \in Seq(Beans) /\ Len(rows[key]) <= 1
  <2>1. ById \subseteq Beans /\ Old \in Beans
    BY DEF Beans, D!Workers
  <2>2. rows[key] = << >> \/ \E b \in Beans : rows[key] = <<b>>
    BY <1>1, <2>1
  <2>3. ASSUME NEW b \in Beans PROVE <<b>> \in Seq(Beans) /\ Len(<<b>>) = 1
    OBVIOUS
  <2>4. << >> \in Seq(Beans) /\ Len(<< >>) = 0
    OBVIOUS
  <2>5. CASE rows[key] = << >>
    BY <2>4, <2>5
  <2>6. ASSUME NEW b \in Beans, rows[key] = <<b>> PROVE rows[key] \in Seq(Beans) /\ Len(rows[key]) <= 1
    <3>1. rows[key] \in Seq(Beans) /\ Len(rows[key]) = 1
      BY <2>3, <2>6
    <3> QED
      BY <3>1
  <2> QED
    BY <2>2, <2>5, <2>6
<1>3. TableTypes
  <2>1. rows \in [Keys -> Seq(Beans)]
    BY <1>1, <1>2
  <2>2. << >> \in Seq(Statements)
    OBVIOUS
  <2> QED
    BY <1>1, <2>1, <2>2 DEF TableTypes
<1>4. ASSUME NEW u \in Units PROVE plan[u] = "none" /\ mine[u] = << >> /\ Range(mine[u]) = {} /\ DOMAIN mine[u] = {}
  BY <1>1 DEF Range
<1>5. ASSUME NEW u \in Units PROVE PlanInv(u)
  BY <1>4, <1>5 DEF PlanInv, Inserts
<1>6. \A v, key : ~Claims(v, key)
  BY <1>1, <1>4 DEF Claims, Inserted
<1>7. ASSUME NEW key \in Keys PROVE FreeInv(key) /\ UniqueInv(key)
  BY <1>2, <1>4, <1>6, <1>7 DEF FreeInv, UniqueInv, Inserted
<1> QED
  BY <1>3, <1>5, <1>7 DEF TableInv

\* A unit looks for its key.
LEMMA LooksStep ==
    ASSUME TableInv, NEW u \in Units, UnitLooks(u)
    PROVE  TableInv'
<1>1. /\ InWork(u) /\ plan[u] = "none" /\ UNCHANGED <<pc, k, err, tx, mine, rows, place, index>>
  BY DEF UnitLooks, vars, workerVars
<1>2. \/ plan' = [plan EXCEPT ![u] = "update"] /\ Blamed' = Blamed
      \/ /\ plan' = [plan EXCEPT ![u] = "insert"] /\ LookedInVain(u, UnitKey(u))
         /\ ~Inserted(u, UnitKey(u))
  BY DEF UnitLooks, Blamed, historyVars
<1>3. TableTypes
  BY DEF TableInv
<1>4. plan' \in [Units -> {"none", "insert", "update"}] /\ \A v \in Units : v # u => plan'[v] = plan[v]
  BY <1>2, <1>3 DEF TableTypes
<1>5. TableTypes'
  BY <1>1, <1>3, <1>4 DEF TableTypes
<1>6. /\ \A v \in Units : InWork(v)' <=> InWork(v)
      /\ \A v \in Units : UnitKey(v)' = UnitKey(v)
      /\ \A key : \A v \in Units : Inserted(v, key)' <=> Inserted(v, key)
      /\ \A key : \A v \in Units : Inserts(v, key)' = Inserts(v, key)
      /\ \A key : \A v \in Units : Holds(v, key)' <=> Holds(v, key)
      /\ \A w \in D!Workers : D!Key(w)' = D!Key(w)
  BY <1>1 DEF InWork, UnitKey, Inserted, Inserts, Holds, D!Key
<1>7. ASSUME NEW v \in Units PROVE PlanInv(v)'
  <2>0. PlanInv(v)
    BY DEF TableInv
  <2>1. CASE v = u
    <3>1. plan'[u] = "update" \/ (plan'[u] = "insert" /\ ~Inserted(u, UnitKey(u)))
      BY <1>2, <1>3 DEF TableTypes
    <3> QED
      BY <1>1, <1>6, <2>0, <2>1, <3>1 DEF PlanInv
  <2>2. CASE v # u
    BY <1>1, <1>4, <1>6, <2>0, <2>2 DEF PlanInv
  <2> QED
    BY <2>1, <2>2
<1>8. ASSUME NEW key \in Keys PROVE FreeInv(key)' /\ UniqueInv(key)'
  <2>0. FreeInv(key) /\ UniqueInv(key)
    BY DEF TableInv
  <2>1. \A v : v # u => (Claims(v, key)' <=> Claims(v, key))
    BY <1>1, <1>4, <1>6 DEF Claims
  <2>2. Len(rows'[key]) <= Len(rows[key])
    <3>1. rows'[key] = rows[key] /\ Len(rows[key]) \in Nat
      BY <1>1, <1>3 DEF TableTypes
    <3> QED
      BY <3>1
  <2>3. UniqueInv(key)'
    BY <1>3, <1>5, <1>6, <2>0, <2>2, UniqueLess
  <2>4. CASE plan' = [plan EXCEPT ![u] = "update"] /\ Blamed' = Blamed
    <3>1. plan'[u] = "update"
      BY <1>3, <2>4 DEF TableTypes
    <3>2. Claims(u, key)' => Claims(u, key)
      BY <1>1, <1>6, <3>1, Apart DEF Claims
    <3> QED
      BY <1>3, <1>5, <2>0, <2>1, <2>2, <2>3, <2>4, <3>2, FreeLess
  <2>5. CASE LookedInVain(u, UnitKey(u))
    <3>1. Claims(u, key)' => Claims(u, key) \/ key = UnitKey(u)
      BY <1>1, <1>6, Apart DEF Claims
    <3>2. rows' = rows
      BY <1>1
    <3>3. FreeInv(key)'
      BY <1>3, <1>5, <2>0, <2>1, <2>5, <3>1, <3>2, FreeNew
    <3> QED
      BY <2>3, <3>3
  <2> QED
    BY <1>2, <2>4, <2>5
<1> QED
  BY <1>5, <1>7, <1>8 DEF TableInv

LEMMA RangeAppend ==
    ASSUME NEW S, NEW s \in Seq(S), NEW e \in S
    PROVE  \A x : x \in Range(Append(s, e)) <=> x \in Range(s) \/ x = e
<1>1. /\ DOMAIN Append(s, e) = 1 .. Len(s) + 1 /\ Len(s) \in Nat /\ DOMAIN s = 1 .. Len(s)
      /\ Append(s, e)[Len(s) + 1] = e /\ \A j \in 1 .. Len(s) : Append(s, e)[j] = s[j]
  BY AppendProperties, LenProperties
<1>2. ASSUME NEW x, x \in Range(Append(s, e)) PROVE x \in Range(s) \/ x = e
  <2>1. PICK j \in 1 .. Len(s) + 1 : x = Append(s, e)[j]
    BY <1>1, <1>2 DEF Range
  <2>2. j = Len(s) + 1 \/ j \in 1 .. Len(s)
    BY <1>1, <2>1
  <2> QED
    BY <1>1, <2>1, <2>2 DEF Range
<1>3. ASSUME NEW x \in Range(s) PROVE x \in Range(Append(s, e))
  <2>1. PICK j \in 1 .. Len(s) : x = s[j]
    BY <1>1, <1>3 DEF Range
  <2>2. j \in 1 .. Len(s) + 1 /\ x = Append(s, e)[j]
    BY <1>1, <2>1
  <2> QED
    BY <1>1, <2>2 DEF Range
<1>4. e \in Range(Append(s, e))
  <2>1. Len(s) + 1 \in 1 .. Len(s) + 1
    BY <1>1
  <2> QED
    BY <1>1, <2>1 DEF Range
<1> QED
  BY <1>2, <1>3, <1>4

\* A unit's statement: its transaction has one write more.
LEMMA WritesStep ==
    ASSUME TableInv, Inv, NEW u \in Units, UnitWrites(u)
    PROVE  TableInv'
<1> DEFINE it == UnitKey(u)
           p == plan[u]
<1>1. /\ plan[u] # "none" /\ Free(u) /\ Blamed' = Blamed /\ UNCHANGED <<place, index, tx, err, pc>>
      /\ k' = [k EXCEPT ![u] = @ + 1] /\ plan' = [plan EXCEPT ![u] = "none"]
  BY DEF UnitWrites, HandlerWrites, Execute, NextCall, workerVars, Blamed, historyVars
<1>2. TableTypes /\ PlanInv(u) /\ UnitInv(u) /\ TypeOK
  BY DEF TableInv, Inv
<1>3. InWork(u) /\ tx[u]
  BY <1>1, <1>2 DEF PlanInv, InWork, UnitInv, WorkInv
<1>4. mine' = [mine EXCEPT ![u] = Append(@, <<p, it>>)] /\ rows' = rows
  BY <1>3 DEF UnitWrites
<1>5. p \in {"insert", "update"} /\ it \in Keys
  <2>1. k[u] \in Writes
    BY <1>2, <1>3 DEF InWork, TypeOK, Writes
  <2>2. it \in Keys
    BY <2>1, DatabaseAssumption DEF UnitKey
  <2> QED
    BY <1>1, <1>2, <2>2 DEF TableTypes
<1>f. p = "insert" => ~Inserted(u, it)
  BY <1>2 DEF PlanInv
<1>g. /\ it \in Unique \/ p = "update" => ~LockedFor(Units \ {u}, it)
      /\ it \in Unique /\ p = "insert" => rows[it] = << >>
  BY <1>1, <1>5 DEF Free
<1>h. Claims(u, it) \/ p # "insert"
  BY DEF Claims
<1> HIDE DEF it, p
<1>6. mine[u] \in Seq(Statements) /\ <<p, it>> \in Statements
  BY <1>2, <1>5 DEF TableTypes, Statements
<1>7. /\ mine'[u] = Append(mine[u], <<p, it>>) /\ \A v \in Units : v # u => mine'[v] = mine[v]
      /\ plan'[u] = "none" /\ \A v \in Units : v # u => plan'[v] = plan[v]
      /\ \A v \in Units : v # u => k'[v] = k[v]
  BY <1>1, <1>2, <1>4 DEF TableTypes, TypeOK
<1>8. /\ mine'[u] \in Seq(Statements) /\ DOMAIN mine'[u] = 1 .. Len(mine[u]) + 1 /\ Len(mine[u]) \in Nat
      /\ DOMAIN mine[u] = 1 .. Len(mine[u])
      /\ mine'[u][Len(mine[u]) + 1] = <<p, it>> /\ \A j \in 1 .. Len(mine[u]) : mine'[u][j] = mine[u][j]
  BY <1>6, <1>7, AppendProperties, LenProperties
<1>9. TableTypes'
  <2>1. mine' \in [Units -> Seq(Statements)]
    BY <1>2, <1>4, <1>7, <1>8 DEF TableTypes
  <2>2. plan' \in [Units -> {"none", "insert", "update"}]
    BY <1>1, <1>2 DEF TableTypes
  <2> QED
    BY <1>1, <1>2, <1>4, <2>1, <2>2 DEF TableTypes
<1>10. \A write : write \in Range(mine'[u]) <=> write \in Range(mine[u]) \/ write = <<p, it>>
  BY <1>6, <1>7, RangeAppend
<1>11. ASSUME NEW key
       PROVE  /\ Inserted(u, key)' <=> Inserted(u, key) \/ (p = "insert" /\ key = it)
              /\ Holds(u, key)' <=> Holds(u, key) \/ key = it
              /\ \A v \in Units : v # u => (Inserted(v, key)' <=> Inserted(v, key))
              /\ \A v \in Units : v # u => (Holds(v, key)' <=> Holds(v, key))
  BY <1>7, <1>10 DEF Inserted, Holds
<1>12. ASSUME NEW v \in Units PROVE PlanInv(v)'
  <2>1. CASE v = u
    <3>1. ASSUME NEW key \in Keys, NEW j \in Inserts(u, key)', NEW l \in Inserts(u, key)' PROVE j = l
      <4>1. /\ j \in 1 .. Len(mine[u]) + 1 /\ l \in 1 .. Len(mine[u]) + 1
            /\ mine'[u][j] = <<"insert", key>> /\ mine'[u][l] = <<"insert", key>>
        BY <1>8, <3>1 DEF Inserts
      <4>2. ASSUME NEW i \in 1 .. Len(mine[u]) + 1, mine'[u][i] = <<"insert", key>>
            PROVE  \/ i \in Inserts(u, key)
                   \/ i = Len(mine[u]) + 1 /\ p = "insert" /\ key = it
        BY <1>8, <4>2 DEF Inserts
      <4>3. p = "insert" /\ key = it => Inserts(u, key) = {}
        BY <1>f DEF Inserted, Inserts, Range
      <4> QED
        BY <1>2, <4>1, <4>2, <4>3 DEF PlanInv
    <3> QED
      BY <1>1, <1>3, <1>7, <2>1, <3>1 DEF PlanInv
  <2>2. CASE v # u
    <3>1. PlanInv(v)
      BY DEF TableInv
    <3>2. /\ (InWork(v)' <=> InWork(v)) /\ UnitKey(v)' = UnitKey(v)
          /\ \A key : Inserts(v, key)' = Inserts(v, key)
      BY <1>1, <1>7, <2>2 DEF InWork, UnitKey, Inserts
    <3>3. plan'[v] = plan[v] /\ mine'[v] = mine[v] /\ tx' = tx
      BY <1>1, <1>7, <2>2
    <3>4. \A key : Inserted(v, key)' <=> Inserted(v, key)
      BY <3>3 DEF Inserted
    <3> QED
      BY <3>1, <3>2, <3>3, <3>4 DEF PlanInv
  <2> QED
    BY <2>1, <2>2
<1>13. ASSUME NEW key \in Keys PROVE FreeInv(key)'
  <2>0. FreeInv(key)
    BY DEF TableInv
  <2>1. ASSUME NEW v, Claims(v, key)' PROVE Claims(v, key)
    <3>1. CASE v = u
      BY <1>7, <1>11, <1>h, <2>1, <3>1, Apart DEF Claims
    <3>2. CASE v # u
      <4>1. v \in Units => UnitKey(v)' = UnitKey(v)
        BY <1>7, <3>2 DEF UnitKey
      <4>2. v \in D!Workers => D!Key(v)' = D!Key(v)
        BY <1>1 DEF D!Key
      <4> QED
        BY <1>1, <1>7, <1>11, <2>1, <3>2, <4>1, <4>2 DEF Claims
    <3> QED
      BY <3>1, <3>2
  <2>2. Len(rows'[key]) <= Len(rows[key]) /\ Blamed \subseteq Blamed'
    <3>1. rows'[key] = rows[key] /\ Len(rows[key]) \in Nat /\ Blamed' = Blamed
      BY <1>1, <1>2, <1>4 DEF TableTypes
    <3> QED
      BY <3>1
  <2> QED
    BY <1>2, <1>9, <2>0, <2>1, <2>2, FreeLess
<1>14. ASSUME NEW key \in Keys PROVE UniqueInv(key)'
  <2>0. UniqueInv(key)
    BY DEF TableInv
  <2>1. SUFFICES ASSUME key \in Unique
                 PROVE  /\ Len(rows'[key]) <= 1
                        /\ \A v \in Units : Inserted(v, key)' => rows'[key] = << >> /\ ~LockedFor(Units \ {v}, key)'
    BY DEF UniqueInv
  <2>2. Len(rows[key]) <= 1 /\ rows' = rows
    BY <1>4, <2>0, <2>1 DEF UniqueInv
  <2>3. \A v : LockedFor(Units \ {v}, key)' => \E x \in Units \ {v} : Holds(x, key)'
    BY DEF LockedFor, Holds
  <2>4. ASSUME NEW v \in Units, Inserted(v, key)' PROVE rows[key] = << >>
    BY <1>11, <1>g, <2>0, <2>1, <2>4 DEF UniqueInv
  <2>5. ASSUME NEW v \in Units, Inserted(v, key)', NEW x \in Units \ {v}, Holds(x, key)' PROVE FALSE
    <3>1. \A y \in Units : Inserted(y, key) => Holds(y, key)
      BY DEF Inserted, Holds
    <3>2. ~Holds(x, key) \/ ~Inserted(v, key)
      BY <2>0, <2>1, Locked DEF UniqueInv
    <3>3. key = it => \A y \in Units \ {u} : ~Holds(y, key)
      BY <1>g, <2>1, Locked
    <3>4. CASE v = u
      <4>1. x # u /\ Holds(x, key)
        BY <1>11, <2>5, <3>4
      <4> QED
        BY <1>11, <2>5, <3>2, <3>3, <3>4, <4>1
    <3>5. CASE v # u
      <4>1. Inserted(v, key) /\ Holds(v, key)
        BY <1>11, <2>5, <3>1, <3>5
      <4> QED
        BY <1>11, <2>5, <3>2, <3>3, <3>5, <4>1
    <3> QED
      BY <3>4, <3>5
  <2> QED
    BY <2>2, <2>3, <2>4, <2>5
<1> QED
  BY <1>9, <1>12, <1>13, <1>14 DEF TableInv

\* The step of SessionTx in UnitGoesOn.
Goes(u) ==
    \/ Begin(u) \/ BeginErr(u)
    \/ HandlerErr(u) \/ HandlerPanics(u)
    \/ WarpCommits(u) \/ WarpRollsBack(u) \/ WarpCloses(u)
    \/ ExecuteSkipped(u) \/ ExecuteErr(u) \/ ExecutePanics(u)
    \/ Commit(u) \/ Close(u)

\* A unit's step is about that unit, and it ends the transaction it commits.
LEMMA GoesAlone ==
    ASSUME TypeOK, NEW u \in Units, Goes(u)
    PROVE  /\ \A v \in Units : v # u => pc'[v] = pc[v] /\ k'[v] = k[v] /\ err'[v] = err[v] /\ tx'[v] = tx[v]
           /\ durable'[u] # durable[u] => ~tx'[u]
<1> USE DEF TypeOK, Goto
<1>1. CASE Begin(u) \/ BeginErr(u) \/ HandlerErr(u) \/ HandlerPanics(u)
  BY <1>1 DEF Begin, BeginErr, HandlerErr, HandlerPanics
<1>2. CASE WarpCommits(u)
  BY <1>2 DEF WarpCommits, SessionCommits, SessionCommitErr, EndTx
<1>3. CASE WarpRollsBack(u) \/ WarpCloses(u)
  BY <1>3 DEF WarpRollsBack, WarpCloses, SessionClose, EndTx
<1>4. CASE ExecuteSkipped(u) \/ ExecuteErr(u) \/ ExecutePanics(u)
  BY <1>4 DEF ExecuteSkipped, ExecuteErr, ExecutePanics, NextCall, EndTx
<1>5. CASE Commit(u)
  BY <1>5 DEF Commit, SessionCommits, SessionCommitErr, EndTx
<1>6. CASE Close(u)
  BY <1>6 DEF Close, SessionClose, EndTx
<1> QED
  BY <1>1, <1>2, <1>3, <1>4, <1>5, <1>6 DEF Goes

\* A commit, or another step without a statement.
LEMMA GoesOnStep ==
    ASSUME TableInv, Inv, NEW u \in Units, UnitGoesOn(u)
    PROVE  TableInv'
<1>1. /\ Goes(u) /\ Blamed' = Blamed /\ UNCHANGED <<place, index>>
      /\ rows' = IF durable'[u] # durable[u] THEN AppliedAll(u) ELSE rows
      /\ mine' = IF tx'[u] THEN mine ELSE [mine EXCEPT ![u] = << >>]
      /\ plan' = [plan EXCEPT ![u] = "none"]
  BY DEF UnitGoesOn, Goes, workerVars, Blamed, historyVars
<1>2. TableTypes /\ PlanInv(u) /\ TypeOK
  BY DEF TableInv, Inv
<1>3. /\ \A v \in Units : v # u => pc'[v] = pc[v] /\ k'[v] = k[v] /\ err'[v] = err[v] /\ tx'[v] = tx[v]
      /\ durable'[u] # durable[u] => ~tx'[u]
  BY <1>1, <1>2, GoesAlone
<1>4. /\ plan' \in [Units -> {"none", "insert", "update"}]
      /\ plan'[u] = "none" /\ \A v \in Units : v # u => plan'[v] = plan[v]
  BY <1>1, <1>2 DEF TableTypes
<1>5. /\ mine' \in [Units -> Seq(Statements)]
      /\ mine'[u] = (IF tx'[u] THEN mine[u] ELSE << >>) /\ \A v \in Units : v # u => mine'[v] = mine[v]
  <2>1. << >> \in Seq(Statements)
    OBVIOUS
  <2> QED
    BY <1>1, <1>2, <2>1 DEF TableTypes
<1>6. rows' \in [Keys -> Seq(Beans)]
  <2>1. \A key \in Keys : AppliedAll(u)[key] \in Seq(Beans)
    BY <1>2, AppliedLen
  <2>2. AppliedAll(u) \in [Keys -> Seq(Beans)]
    BY <2>1 DEF AppliedAll
  <2> QED
    BY <1>1, <1>2, <2>2 DEF TableTypes
<1>7. TableTypes'
  BY <1>1, <1>2, <1>4, <1>5, <1>6 DEF TableTypes
<1>8. /\ \A key : Inserted(u, key)' => tx'[u] /\ Inserted(u, key)
      /\ \A key : Holds(u, key)' => Holds(u, key)
      /\ \A key : \A v \in Units : v # u => (Inserted(v, key)' <=> Inserted(v, key))
      /\ \A key : \A v \in Units : v # u => (Holds(v, key)' <=> Holds(v, key))
  <2>1. Range(<< >>) = {}
    BY DEF Range
  <2> QED
    BY <1>5, <2>1 DEF Inserted, Holds
<1>9. ASSUME NEW v \in Units PROVE PlanInv(v)'
  <2>0. PlanInv(v)
    BY DEF TableInv
  <2>1. CASE v = u
    <3>1. CASE tx'[u]
      <4>1. \A key : Inserts(u, key)' = Inserts(u, key)
        BY <1>5, <3>1 DEF Inserts
      <4> QED
        BY <1>4, <2>0, <2>1, <3>1, <4>1 DEF PlanInv
    <3>2. CASE ~tx'[u]
      <4>1. mine'[u] = << >> /\ \A key : Inserts(u, key)' = {}
        BY <1>5, <3>2 DEF Inserts
      <4> QED
        BY <1>4, <2>1, <3>2, <4>1 DEF PlanInv
    <3> QED
      BY <3>1, <3>2
  <2>2. CASE v # u
    <3>1. /\ (InWork(v)' <=> InWork(v)) /\ UnitKey(v)' = UnitKey(v)
          /\ \A key : Inserts(v, key)' = Inserts(v, key)
      BY <1>3, <1>5, <2>2 DEF InWork, UnitKey, Inserts
    <3>2. plan'[v] = plan[v] /\ mine'[v] = mine[v] /\ (tx'[v] <=> tx[v])
      BY <1>3, <1>4, <1>5, <2>2
    <3>3. \A key : Inserted(v, key)' <=> Inserted(v, key)
      BY <3>2 DEF Inserted
    <3> QED
      BY <2>0, <3>1, <3>2, <3>3 DEF PlanInv
  <2> QED
    BY <2>1, <2>2
<1>10. ASSUME NEW key \in Keys
       PROVE  /\ \A v : v # u => (Claims(v, key)' <=> Claims(v, key))
              /\ Claims(u, key)' => tx'[u] /\ Inserted(u, key)
  <2>1. \A v \in Units : v # u => UnitKey(v)' = UnitKey(v)
    BY <1>3 DEF UnitKey
  <2>2. \A w \in D!Workers : D!Key(w)' = D!Key(w)
    BY <1>1 DEF D!Key
  <2>3. \A v : v # u => (Claims(v, key)' <=> Claims(v, key))
    BY <1>1, <1>4, <1>8, <2>1, <2>2 DEF Claims
  <2>4. Claims(u, key)' => tx'[u] /\ Inserted(u, key)
    BY <1>4, <1>8, Apart DEF Claims
  <2> QED
    BY <2>3, <2>4
<1>11. ASSUME NEW key \in Keys, durable'[u] = durable[u] \/ ~Inserted(u, key) PROVE FreeInv(key)' /\ UniqueInv(key)'
  <2>0. FreeInv(key) /\ UniqueInv(key)
    BY DEF TableInv
  <2>1. Len(rows'[key]) = Len(rows[key]) /\ Len(rows[key]) \in Nat /\ Blamed' = Blamed
    BY <1>1, <1>2, <1>11, AppliedLen DEF TableTypes
  <2>2. Len(rows'[key]) <= Len(rows[key]) /\ Blamed \subseteq Blamed'
    BY <2>1
  <2>3. \A v : Claims(v, key)' => Claims(v, key)
    BY <1>10 DEF Claims
  <2>4. FreeInv(key)'
    BY <1>2, <1>7, <2>0, <2>2, <2>3, FreeLess
  <2>5. UniqueInv(key)'
    BY <1>2, <1>7, <1>8, <2>0, <2>2, UniqueLess
  <2> QED
    BY <2>4, <2>5
<1>12. ASSUME NEW key \in Keys, durable'[u] # durable[u], Inserted(u, key) PROVE FreeInv(key)' /\ UniqueInv(key)'
  <2>0. FreeInv(key) /\ UniqueInv(key)
    BY DEF TableInv
  <2>1. rows' = AppliedAll(u) /\ ~tx'[u] /\ Blamed' = Blamed
    BY <1>1, <1>3, <1>12
  <2>2. Len(rows'[key]) = Len(rows[key]) + 1 /\ Len(rows[key]) \in Nat
    BY <1>2, <1>12, <2>1, AppliedLen DEF TableTypes
  <2>3. FreeInv(key)'
    <3>1. Claims(u, key) /\ ~Claims(u, key)'
      BY <1>10, <1>12, <2>1 DEF Claims
    <3>2. \A v : v # u /\ Claims(v, key)' => Claims(v, key)
      BY <1>10
    <3>3. Blamed \subseteq Blamed'
      BY <2>1
    <3> QED
      BY <1>2, <1>7, <2>0, <2>2, <3>1, <3>2, <3>3, FreeInsert
  <2>4. UniqueInv(key)'
    <3>1. SUFFICES ASSUME key \in Unique
                   PROVE  Len(rows'[key]) <= 1 /\ \A v \in Units : ~Inserted(v, key)'
      BY DEF UniqueInv
    <3>2. rows[key] = << >> /\ \A v \in Units : v # u => ~Holds(v, key)
      BY <1>12, <2>0, <3>1, Locked DEF UniqueInv
    <3>3. Len(rows[key]) = 0
      BY <3>2
    <3>4. \A v \in Units : Inserted(v, key) => Holds(v, key)
      BY DEF Inserted, Holds
    <3>5. \A v \in Units : ~Inserted(v, key)'
      BY <1>8, <2>1, <3>2, <3>4
    <3> QED
      BY <2>2, <3>3, <3>5
  <2> QED
    BY <2>3, <2>4
<1> QED
  BY <1>7, <1>9, <1>11, <1>12 DEF TableInv

\* What a statement of a worker does to the table: it inserts what the worker
\* claimed, or it has looked in vain, or it adds no row.
Adds(w) ==
    /\ place[w] = "insert" /\ Blamed' = Blamed
    /\ rows' = [rows EXCEPT ![D!Key(w)] = Append(@, w)]
    /\ D!Key(w) \in Unique => rows[D!Key(w)] = << >> /\ ~LockedFor(Units, D!Key(w))
    /\ \E l \in {"look", "ended"} : place' = [place EXCEPT ![w] = l]

LooksInVain(w) ==
    /\ place' = [place EXCEPT ![w] = "insert"]
    /\ LookedInVain(w, D!Key(w)) /\ rows' = rows /\ index' = index

AddsNothing(w) ==
    /\ Blamed' = Blamed
    /\ \/ rows' = rows
       \/ rows' = [rows EXCEPT ![D!Key(w)] = [j \in DOMAIN @ |-> w]]
       \/ rows' = [rows EXCEPT ![D!Key(w)] = << >>]
    /\ \E l \in {"look", "update", "ended"} : place' = [place EXCEPT ![w] = l]

LEMMA WorkerKinds ==
    ASSUME TableTypes, NEW w \in D!Workers, WorkerStep(w)
    PROVE  /\ UNCHANGED <<pc, k, err, tx, mine, plan>>
           /\ index' = index \/ index' = [index EXCEPT ![w] = @ + 1]
           /\ Adds(w) \/ LooksInVain(w) \/ AddsNothing(w)
<1>0. UNCHANGED <<pc, k, err, tx, mine, plan>>
  BY DEF WorkerStep, unitVars, vars
<1>b. UNCHANGED historyVars => Blamed' = Blamed
  BY DEF Blamed, historyVars
<1>1. CASE D!StatementErr(w) /\ UNCHANGED historyVars
  BY <1>0, <1>b, <1>1 DEF D!StatementErr, D!Returns, D!Goto, AddsNothing
<1>2. CASE /\ D!Exists(w) \/ D!FindById(w)
           /\ IF place'[w] = "insert" THEN LookedInVain(w, D!Key(w)) ELSE UNCHANGED historyVars
  <2>1. /\ rows' = rows /\ index' = index
        /\ \/ place' = [place EXCEPT ![w] = "update"] \/ place' = [place EXCEPT ![w] = "insert"]
    BY <1>2 DEF D!Exists, D!FindById, D!Look, D!Goto
  <2>2. CASE place' = [place EXCEPT ![w] = "update"]
    <3>1. place'[w] = "update"
      BY <2>2 DEF TableTypes
    <3> QED
      BY <1>0, <1>b, <1>2, <2>1, <2>2, <3>1 DEF AddsNothing
  <2>3. CASE place' = [place EXCEPT ![w] = "insert"]
    <3>1. place'[w] = "insert"
      BY <2>3 DEF TableTypes
    <3> QED
      BY <1>0, <1>b, <1>2, <2>1, <2>3, <3>1 DEF LooksInVain
  <2> QED
    BY <2>1, <2>2, <2>3
<1>3. CASE D!Update(w) /\ UNCHANGED historyVars
  <2>1. /\ rows' = [rows EXCEPT ![D!Key(w)] = [j \in DOMAIN @ |-> w]] /\ index' = [index EXCEPT ![w] = @ + 1]
        /\ \E l \in {"look", "ended"} : place' = [place EXCEPT ![w] = l]
    BY <1>3 DEF D!Update, D!Did, D!Goto, D!Returns
  <2> QED
    BY <1>0, <1>b, <1>3, <2>1 DEF AddsNothing
<1>4. CASE D!Delete(w) /\ UNCHANGED historyVars
  <2>1. /\ rows' = [rows EXCEPT ![D!Key(w)] = << >>] /\ index' = [index EXCEPT ![w] = @ + 1]
        /\ \E l \in {"look", "ended"} : place' = [place EXCEPT ![w] = l]
    BY <1>4 DEF D!Delete, D!Did, D!Goto, D!Returns
  <2> QED
    BY <1>0, <1>b, <1>4, <2>1 DEF AddsNothing
<1>5. CASE D!InsertErr(w) /\ UNCHANGED historyVars
  BY <1>0, <1>b, <1>5 DEF D!InsertErr, D!Returns, D!Goto, AddsNothing
<1>6. CASE /\ D!InsertOne(w) /\ UNCHANGED historyVars
           /\ LockedFor(Units, D!Key(w)) => place[w] = "insert" /\ D!Key(w) \notin Unique
  <2>1. /\ rows' = [rows EXCEPT ![D!Key(w)] = Append(@, w)] /\ index' = [index EXCEPT ![w] = @ + 1]
        /\ \E l \in {"look", "ended"} : place' = [place EXCEPT ![w] = l]
        /\ place[w] = "insert" /\ (D!Key(w) \in Unique => rows[D!Key(w)] = << >>)
    BY <1>6 DEF D!InsertOne, D!Did, D!Goto, D!Returns
  <2> QED
    BY <1>0, <1>b, <1>6, <2>1 DEF Adds
<1> QED
  BY <1>1, <1>2, <1>3, <1>4, <1>5, <1>6 DEF WorkerStep

LEMMA WorkersStep ==
    ASSUME TableInv, NEW w \in D!Workers, WorkerStep(w)
    PROVE  TableInv'
<1>1. TableTypes
  BY DEF TableInv
<1>2. /\ UNCHANGED <<pc, k, err, tx, mine, plan>>
      /\ index' = index \/ index' = [index EXCEPT ![w] = @ + 1]
      /\ Adds(w) \/ LooksInVain(w) \/ AddsNothing(w)
  BY <1>1, WorkerKinds
<1>3. /\ \A v \in Units : InWork(v)' <=> InWork(v)
      /\ \A v \in Units : UnitKey(v)' = UnitKey(v)
      /\ \A key : \A v \in Units : Inserted(v, key)' <=> Inserted(v, key)
      /\ \A key : \A v \in Units : Inserts(v, key)' = Inserts(v, key)
      /\ \A key : \A v \in Units : Holds(v, key)' <=> Holds(v, key)
  BY <1>2 DEF InWork, UnitKey, Inserted, Inserts, Holds
<1>4. ASSUME NEW v \in Units PROVE PlanInv(v)'
  <2>0. PlanInv(v)
    BY DEF TableInv
  <2> QED
    BY <1>2, <1>3, <2>0 DEF PlanInv
<1>5. /\ place' \in [D!Workers -> {"look", "update", "insert", "ended"}]
      /\ \A v \in D!Workers : v # w => place'[v] = place[v]
  <2>1. PICK l \in {"look", "update", "insert", "ended"} : place' = [place EXCEPT ![w] = l]
    BY <1>2 DEF Adds, LooksInVain, AddsNothing
  <2> QED
    BY <1>1, <2>1 DEF TableTypes
<1>6. index' \in [D!Workers -> Nat] /\ \A v \in D!Workers : v # w => index'[v] = index[v]
  <2>1. index \in [D!Workers -> Nat]
    BY <1>1 DEF TableTypes
  <2>2. CASE index' = index
    BY <2>1, <2>2
  <2>3. CASE index' = [index EXCEPT ![w] = @ + 1]
    <3>1. index[w] + 1 \in Nat
      BY <2>1
    <3> QED
      BY <2>1, <2>3, <3>1
  <2> QED
    BY <1>2, <2>2, <2>3
<1>7. \A v \in D!Workers : v # w => D!Key(v)' = D!Key(v)
  BY <1>6 DEF D!Key
<1>8. w \notin Units /\ w \in Beans
  BY Apart DEF Beans
<1>9. \A key \in Keys : \A v : v # w => (Claims(v, key)' <=> Claims(v, key))
  BY <1>2, <1>3, <1>5, <1>7 DEF Claims
<1>10. \A key \in Keys : rows[key] \in Seq(Beans) /\ Len(rows[key]) \in Nat /\ DOMAIN rows[key] = 1 .. Len(rows[key])
  <2>1. \A key \in Keys : rows[key] \in Seq(Beans)
    BY <1>1 DEF TableTypes
  <2> QED
    BY <2>1, LenProperties
<1>11. ASSUME rows' \in [Keys -> Seq(Beans)],
              \A key \in Keys : FreeInv(key)' /\ UniqueInv(key)'
       PROVE  TableInv'
  <2>1. TableTypes'
    BY <1>1, <1>2, <1>5, <1>6, <1>11 DEF TableTypes
  <2> QED
    BY <1>4, <1>11, <2>1 DEF TableInv
<1>t. ASSUME rows' \in [Keys -> Seq(Beans)] PROVE TableTypes'
  BY <1>1, <1>2, <1>5, <1>6, <1>t DEF TableTypes
<1>12. CASE AddsNothing(w)
  <2>1. \A key \in Keys : rows'[key] \in Seq(Beans) /\ Len(rows'[key]) <= Len(rows[key])
    <3> SUFFICES ASSUME NEW key \in Keys PROVE rows'[key] \in Seq(Beans) /\ Len(rows'[key]) <= Len(rows[key])
      OBVIOUS
    <3>1. \/ rows'[key] = rows[key]
          \/ rows'[key] = [j \in 1 .. Len(rows[key]) |-> w]
          \/ rows'[key] = << >>
      <4>1. rows \in [Keys -> Seq(Beans)]
        BY <1>1 DEF TableTypes
      <4>2. CASE rows' = rows
        BY <4>2
      <4>3. CASE rows' = [rows EXCEPT ![D!Key(w)] = [j \in DOMAIN rows[D!Key(w)] |-> w]]
        <5>1. rows'[key] = IF key = D!Key(w) THEN [j \in DOMAIN rows[key] |-> w] ELSE rows[key]
          BY <4>1, <4>3
        <5> QED
          BY <1>10, <5>1
      <4>4. CASE rows' = [rows EXCEPT ![D!Key(w)] = << >>]
        BY <4>1, <4>4
      <4> QED
        BY <1>12, <4>2, <4>3, <4>4 DEF AddsNothing
    <3>2. /\ [j \in 1 .. Len(rows[key]) |-> w] \in Seq(Beans)
          /\ Len([j \in 1 .. Len(rows[key]) |-> w]) = Len(rows[key])
      BY <1>8, <1>10
    <3>3. << >> \in Seq(Beans) /\ Len(<< >>) = 0
      OBVIOUS
    <3>4. rows'[key] \in Seq(Beans) /\ (Len(rows'[key]) = Len(rows[key]) \/ Len(rows'[key]) = 0)
      BY <1>10, <3>1, <3>2, <3>3
    <3> QED
      BY <1>10, <3>4
  <2>2. rows' \in [Keys -> Seq(Beans)]
    <3>1. \E f : rows' = [key \in Keys |-> f[key]]
      BY <1>1, <1>12 DEF AddsNothing, TableTypes
    <3> QED
      BY <2>1, <3>1
  <2>3. place'[w] # "insert" /\ Blamed \subseteq Blamed'
    BY <1>1, <1>12 DEF AddsNothing, TableTypes
  <2>4. \A key \in Keys : ~Claims(w, key)'
    BY <1>8, <2>3 DEF Claims
  <2>5. ASSUME NEW key \in Keys PROVE FreeInv(key)' /\ UniqueInv(key)'
    <3>0. FreeInv(key) /\ UniqueInv(key) /\ TableTypes'
      BY <1>t, <2>2 DEF TableInv
    <3>1. \A v : Claims(v, key)' => Claims(v, key)
      BY <1>9, <2>4
    <3>2. FreeInv(key)'
      BY <1>1, <2>1, <2>3, <3>0, <3>1, FreeLess
    <3>3. UniqueInv(key)'
      BY <1>1, <1>3, <2>1, <3>0, UniqueLess
    <3> QED
      BY <3>2, <3>3
  <2> QED
    BY <1>11, <2>2, <2>5
<1>13. CASE LooksInVain(w)
  <2>1. rows' = rows /\ rows' \in [Keys -> Seq(Beans)] /\ index' = index
    BY <1>1, <1>13 DEF LooksInVain, TableTypes
  <2>2. ASSUME NEW key \in Keys PROVE FreeInv(key)' /\ UniqueInv(key)'
    <3>0. FreeInv(key) /\ UniqueInv(key) /\ TableTypes'
      BY <1>t, <2>1 DEF TableInv
    <3>1. D!Key(w)' = D!Key(w)
      BY <2>1 DEF D!Key
    <3>2. Claims(w, key)' => key = D!Key(w)
      BY <1>8, <3>1 DEF Claims
    <3>3. LookedInVain(w, D!Key(w))
      BY <1>13 DEF LooksInVain
    <3>4. FreeInv(key)'
      BY <1>1, <1>9, <2>1, <3>0, <3>2, <3>3, FreeNew
    <3>5. Len(rows'[key]) <= Len(rows[key])
      BY <1>10, <2>1
    <3>6. UniqueInv(key)'
      BY <1>1, <1>3, <3>0, <3>5, UniqueLess
    <3> QED
      BY <3>4, <3>6
  <2> QED
    BY <1>11, <2>1, <2>2
<1>14. CASE Adds(w)
  <2>1. \A key \in Keys : rows'[key] = IF key = D!Key(w) THEN Append(rows[key], w) ELSE rows[key]
    BY <1>1, <1>14 DEF Adds, TableTypes
  <2>2. \A key \in Keys : Append(rows[key], w) \in Seq(Beans) /\ Len(Append(rows[key], w)) = Len(rows[key]) + 1
    BY <1>8, <1>10, AppendProperties
  <2>3. rows' \in [Keys -> Seq(Beans)]
    <3>1. rows' = [rows EXCEPT ![D!Key(w)] = Append(rows[D!Key(w)], w)] /\ rows \in [Keys -> Seq(Beans)]
      BY <1>1, <1>14 DEF Adds, TableTypes
    <3>2. D!Key(w) \in Keys => Append(rows[D!Key(w)], w) \in Seq(Beans)
      BY <2>2
    <3> QED
      BY <3>1, <3>2
  <2>4. place[w] = "insert" /\ place'[w] # "insert" /\ Blamed \subseteq Blamed'
    BY <1>1, <1>14 DEF Adds, TableTypes
  <2>5. \A key \in Keys : ~Claims(w, key)'
    BY <1>8, <2>4 DEF Claims
  <2>6. ASSUME NEW key \in Keys, key # D!Key(w) PROVE FreeInv(key)' /\ UniqueInv(key)'
    <3>0. FreeInv(key) /\ UniqueInv(key) /\ TableTypes'
      BY <1>t, <2>3 DEF TableInv
    <3>1. Len(rows'[key]) <= Len(rows[key])
      BY <1>10, <2>1, <2>6
    <3>2. FreeInv(key)'
      BY <1>1, <1>9, <2>4, <2>5, <3>0, <3>1, FreeLess
    <3>3. UniqueInv(key)'
      BY <1>1, <1>3, <3>0, <3>1, UniqueLess
    <3> QED
      BY <3>2, <3>3
  <2>7. ASSUME NEW key \in Keys, key = D!Key(w) PROVE FreeInv(key)' /\ UniqueInv(key)'
    <3>0. FreeInv(key) /\ UniqueInv(key) /\ TableTypes'
      BY <1>t, <2>3 DEF TableInv
    <3>1. Len(rows'[key]) = Len(rows[key]) + 1
      BY <2>1, <2>2, <2>7
    <3>2. FreeInv(key)'
      <4>1. Claims(w, key)
        BY <2>4, <2>7 DEF Claims
      <4> QED
        BY <1>1, <1>9, <2>4, <2>5, <3>0, <3>1, <4>1, FreeInsert
    <3>3. UniqueInv(key)'
      <4>1. SUFFICES ASSUME key \in Unique PROVE Len(rows'[key]) <= 1 /\ \A v \in Units : ~Inserted(v, key)'
        BY DEF UniqueInv
      <4>2. rows[key] = << >> /\ \A v \in Units : ~Holds(v, key)
        BY <1>14, <2>7, <4>1, Locked DEF Adds
      <4>3. Len(rows[key]) = 0
        BY <4>2
      <4>4. \A v \in Units : Inserted(v, key) => Holds(v, key)
        BY DEF Inserted, Holds
      <4> QED
        BY <1>3, <3>1, <4>2, <4>3, <4>4
    <3> QED
      BY <3>2, <3>3
  <2> QED
    BY <1>11, <2>3, <2>6, <2>7
<1> QED
  BY <1>2, <1>12, <1>13, <1>14

\* A key gets a second row only where two looked for it in vain before either
\* had inserted it, or where a look missed its row: FindById, or one that reads
\* the snapshot of its transaction.  A unique index excludes even that.  So it
\* is for any number of workers, and of units whose inserts appear only when
\* they commit.
THEOREM RacesDouble == DatabaseSpec => []OnlyRacesDouble
<1> DEFINE All == TableInv /\ Inv
<1>1. DatabaseInit => All
  BY TableStart, InvInit DEF DatabaseInit
<1>2. TableInv /\ Inv /\ [DatabaseNext]_databaseVars => TableInv'
  <2> SUFFICES ASSUME TableInv, Inv, [DatabaseNext]_databaseVars PROVE TableInv'
    OBVIOUS
  <2>1. ASSUME UNCHANGED <<unitVars, rows, historyVars, workerVars>> PROVE TableInv'
    <3>1. Blamed' = Blamed /\ UNCHANGED <<pc, k, err, tx, plan, mine, rows, place, index>>
      BY <2>1 DEF unitVars, vars, workerVars, Blamed, historyVars
    <3>2. TableTypes' /\ \A u \in Units : PlanInv(u)'
      <4>1. TableTypes'
        BY <3>1 DEF TableInv, TableTypes
      <4>2. ASSUME NEW u \in Units PROVE PlanInv(u)'
        <5>1. /\ (InWork(u)' <=> InWork(u)) /\ UnitKey(u)' = UnitKey(u)
              /\ \A key : (Inserted(u, key)' <=> Inserted(u, key)) /\ Inserts(u, key)' = Inserts(u, key)
          BY <3>1 DEF InWork, UnitKey, Inserted, Inserts
        <5>2. PlanInv(u)
          BY DEF TableInv
        <5> QED
          BY <3>1, <5>1, <5>2 DEF PlanInv
      <4> QED
        BY <4>1, <4>2
    <3>3. \A key : \A v : Claims(v, key)' <=> Claims(v, key)
      BY <3>1 DEF Claims, Inserted, UnitKey, D!Key
    <3>4. \A key \in Keys : FreeInv(key)' /\ UniqueInv(key)'
      BY <3>1, <3>3 DEF TableInv, FreeInv, UniqueInv, Inserted, LockedFor
    <3> QED
      BY <3>2, <3>4 DEF TableInv
  <2>2. CASE UNCHANGED databaseVars
    BY <2>1, <2>2 DEF databaseVars
  <2>3. CASE DatabaseNext
    BY <2>1, <2>3, LooksStep, WritesStep, GoesOnStep, WorkersStep DEF DatabaseNext
  <2> QED
    BY <2>2, <2>3
<1>3. TableInv => OnlyRacesDouble
  <2> SUFFICES ASSUME TableInv, NEW key \in Keys, Len(rows[key]) > 1 PROVE key \in Blamed \ Unique
    BY DEF OnlyRacesDouble, Blamed
  <2>1. FreeInv(key) /\ UniqueInv(key) /\ Len(rows[key]) \in Nat
    BY DEF TableInv, TableTypes
  <2> QED
    BY <2>1 DEF FreeInv, UniqueInv
<1>4. DatabaseSpec => []Inv
  BY Implements, Invariance, PTL
<1> QED
  BY <1>1, <1>2, <1>3, <1>4, PTL DEF DatabaseSpec

==============================================================================
