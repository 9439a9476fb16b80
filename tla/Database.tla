------------------------------- MODULE Database -------------------------------
(***************************************************************************)
(* libs/databases put together.  The units of work of SessionTx write to   *)
(* the table of Upsert: each of their writes is an Upsert through their    *)
(* session, that is, a look and then an insert or an update, while the     *)
(* workers of Upsert do the same without a transaction.  An entity of      *)
(* EntitySession shares no object with them: a behaviour has either the    *)
(* units and workers or an entity.                                         *)
(*                                                                         *)
(* External: the database.  A look sees the rows of its own transaction    *)
(* and the committed ones: the latest of these, or, in a transaction with  *)
(* the isolation that MySQL starts it with, those there were at its first  *)
(* look.  Writes always meet the latest rows.  An update waits for the end *)
(* of a transaction that wrote the key, and so does an insert if there is  *)
(* a unique index.                                                         *)
(***************************************************************************)
EXTENDS SessionTx, EntitySession, Sequences, Functions

CONSTANTS
    Keys,
    KeyOf,      \* of each unit: the keys of its writes
    Upserters, ById, Deleters, Batch, Unique, Old      \* see Upsert

ASSUME DatabaseAssumption ==
    /\ KeyOf \in [Units -> [Writes -> Keys]]
    /\ Units \cap (Upserters \cup ById \cup Deleters) = {}
    /\ Unique \subseteq Keys

VARIABLES
    part,       \* "units" or "entity"
    rows,       \* of each key: the beans of its committed rows
    plan,       \* of each unit: what its look decided: "none", "insert", "update"
    mine,       \* of each unit: the writes in its transaction
    snapshot,   \* of each unit: {}, or the keys its transaction's first look could find
    raced,      \* history: keys that two looked for in vain before either inserted
    overlooked, \* history: keys with a row that a look did not find
    place, index, affected, outcome, stored, seen   \* the workers, see Upsert

workerVars == <<place, index, affected, outcome, stored, seen>>
unitVars == <<vars, plan, mine, snapshot>>
historyVars == <<raced, overlooked>>
databaseVars == <<part, entityVars, unitVars, rows, historyVars, workerVars>>

D == INSTANCE Upsert WITH pc <- place, i <- index, result <- outcome

DatabaseTypeOK ==
    /\ TypeOK /\ EntityTypeOK
    /\ part \in {"units", "entity"}
    /\ plan \in [Units -> {"none", "insert", "update"}]
    /\ \A u \in Units : mine[u] \in Seq({"insert", "update"} \X Keys)
    /\ \A u \in Units : snapshot[u] \subseteq SUBSET Keys /\ Cardinality(snapshot[u]) <= 1
    /\ raced \subseteq Keys /\ overlooked \subseteq Keys

DatabaseInit ==
    /\ Init /\ EntityInit /\ D!Init
    /\ part \in {"units", "entity"}
    /\ plan = [u \in Units |-> "none"]
    /\ mine = [u \in Units |-> << >>]
    /\ snapshot = [u \in Units |-> {}]
    /\ raced = {} /\ overlooked = {}

------------------------------------------------------------------------------
(* The table.                                                              *)

Applied(table, write, bean) ==
    [table EXCEPT ![write[2]] =
        IF write[1] = "insert" THEN Append(@, bean) ELSE [j \in DOMAIN @ |-> bean]]

\* All writes of a transaction.  In whatever order they were made, an update
\* leaves no row of the key with another bean, and an insert adds one.
Inserts(u, key) == {j \in DOMAIN mine[u] : mine[u][j] = <<"insert", key>>}
Updates(u, key) == <<"update", key>> \in Range(mine[u])
AppliedAll(u) ==
    [key \in Keys |->
        (IF Updates(u, key) THEN [j \in DOMAIN rows[key] |-> u] ELSE rows[key])
            \o [j \in 1 .. Cardinality(Inserts(u, key)) |-> u]]

UnitKey(u) == KeyOf[u][k[u]]
Inserted(u, key) == <<"insert", key>> \in Range(mine[u])
LockedFor(others, key) == \E v \in others : key \in {write[2] : write \in Range(mine[v])}

\* Units and workers, but for who, that will insert the key or have done so in
\* a transaction.
Inserting(who, key) ==
    \/ \E v \in Units \ {who} : Inserted(v, key) \/ (plan[v] = "insert" /\ UnitKey(v) = key)
    \/ \E w \in D!Workers \ {who} : place[w] = "insert" /\ D!Key(w) = key

LookedInVain(who, key) ==
    /\ raced' = IF Inserting(who, key) THEN raced \cup {key} ELSE raced
    /\ overlooked' = IF rows[key] # << >> THEN overlooked \cup {key} ELSE overlooked

------------------------------------------------------------------------------
(* A write of a unit.                                                      *)

InWork(u) == pc[u] = "work" /\ k[u] <= N /\ ~err[u]

\* The keys with a row, as a look of u may see them, and what it sees from then
\* on in its transaction.
Found == {key \in Keys : rows[key] # << >>}
Views(u) == {Found} \cup snapshot[u]
Looked(u) ==
    snapshot' = [snapshot EXCEPT ![u] = IF tx[u] /\ @ = {} THEN {Found} ELSE @]

\* Mutant: the branches are swapped.
UnitLooksSwapped(u) ==
    /\ InWork(u) /\ plan[u] = "none"
    /\ \E view \in Views(u) :
        IF UnitKey(u) \in view \/ Inserted(u, UnitKey(u))
        THEN plan' = [plan EXCEPT ![u] = "insert"] /\ UNCHANGED historyVars
        ELSE plan' = [plan EXCEPT ![u] = "update"] /\ LookedInVain(u, UnitKey(u))
    /\ Looked(u)
    /\ UNCHANGED <<vars, mine, rows, workerVars>>

UnitLooks(u) ==
    /\ InWork(u) /\ plan[u] = "none"
    /\ \E view \in Views(u) :
        IF UnitKey(u) \in view \/ Inserted(u, UnitKey(u))
        THEN plan' = [plan EXCEPT ![u] = "update"] /\ UNCHANGED historyVars
        ELSE plan' = [plan EXCEPT ![u] = "insert"] /\ LookedInVain(u, UnitKey(u))
    /\ Looked(u)
    /\ UNCHANGED <<vars, mine, rows, workerVars>>

\* The key is free for the unit's statement.  An insert into a unique index
\* that has the key fails instead, as any statement may.
Free(u) ==
    IF plan[u] = "insert"
    THEN UnitKey(u) \in Unique => rows[UnitKey(u)] = << >> /\ ~LockedFor(Units \ {u}, UnitKey(u))
    ELSE ~LockedFor(Units \ {u}, UnitKey(u))

UnitWrites(u) ==
    /\ plan[u] # "none" /\ Free(u)
    /\ HandlerWrites(u) \/ Execute(u)
    /\ LET write == <<plan[u], UnitKey(u)>>
       IN IF tx[u] THEN mine' = [mine EXCEPT ![u] = Append(@, write)] /\ UNCHANGED rows
                   ELSE rows' = Applied(rows, write, u) /\ UNCHANGED mine
    /\ plan' = [plan EXCEPT ![u] = "none"]
    /\ UNCHANGED <<snapshot, historyVars, workerVars>>

\* The steps that write nothing.  A commit brings the writes of the transaction
\* to the table, and any other end of it forgets them.
UnitGoesOn(u) ==
    /\ \/ Begin(u) \/ BeginErr(u)
       \/ HandlerErr(u) \/ HandlerPanics(u)
       \/ WarpCommits(u) \/ WarpRollsBack(u) \/ WarpCloses(u)
       \/ ExecuteSkipped(u) \/ ExecuteErr(u) \/ ExecutePanics(u)
       \/ Commit(u) \/ Close(u)
    /\ rows' = IF durable'[u] # durable[u] THEN AppliedAll(u) ELSE rows
    /\ mine' = IF tx'[u] THEN mine ELSE [mine EXCEPT ![u] = << >>]
    /\ plan' = [plan EXCEPT ![u] = "none"]
    /\ snapshot' = IF tx'[u] THEN snapshot ELSE [snapshot EXCEPT ![u] = {}]
    /\ UNCHANGED <<historyVars, workerVars>>

\* A statement of a worker.  Only an insert without a unique index does not
\* wait for transactions.
WorkerStep(w) ==
    /\ \/ D!StatementErr(w) /\ UNCHANGED historyVars
       \/ /\ D!Exists(w) \/ D!FindById(w)
          /\ IF place'[w] = "insert" THEN LookedInVain(w, D!Key(w)) ELSE UNCHANGED historyVars
       \/ /\ D!Update(w) \/ D!InsertOne(w) \/ D!InsertErr(w) \/ D!Delete(w)
          /\ LockedFor(Units, D!Key(w)) => place[w] = "insert" /\ D!Key(w) \notin Unique
          /\ UNCHANGED historyVars
    /\ UNCHANGED unitVars

DatabaseNext ==
    /\ UNCHANGED part
    /\ \/ /\ part = "units" /\ UNCHANGED entityVars
          /\ \/ \E u \in Units : UnitLooks(u) \/ UnitWrites(u) \/ UnitGoesOn(u)
             \/ \E w \in D!Workers : WorkerStep(w)
       \/ part = "entity" /\ EntityNext /\ UNCHANGED <<unitVars, rows, historyVars, workerVars>>

DatabaseSpec == DatabaseInit /\ [][DatabaseNext]_databaseVars

------------------------------------------------------------------------------
(* Properties.                                                             *)

\* "Update if the data exists, insert if it does not" is true of a key unless
\* two looked for it in vain before either had inserted it for all to see, or a
\* look did not find a row that was there: UpsertById asks for other values, and
\* a transaction reads the rows of its first look.  Only then has it two rows,
\* and a unique index excludes even that.
OnlyRacesDouble ==
    \A key \in Keys : Len(rows[key]) > 1 => key \in (raced \cup overlooked) \ Unique

\* What it leaves out: an upsert never overlooks a row, and never doubles one.
NothingOverlooked == overlooked = {}

==============================================================================
