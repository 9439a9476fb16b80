-------------------------------- MODULE Upsert --------------------------------
(***************************************************************************)
(* libs/databases/dao.go: Upsert, UpsertById and UpsertMany, each built    *)
(* from statements that are atomic one by one and no more, and the         *)
(* statements they use (Exists, Update, InsertOne, FindById, UpdateById,   *)
(* Delete), run by goroutines or processes on the same tables.             *)
(*                                                                         *)
(* A row is its key and the worker whose bean it holds.  External: the     *)
(* database and its library.  Get takes the bean's own values as further   *)
(* conditions, and fills the bean with the row it finds; an update counts  *)
(* the rows it changed; an insert of a key that a unique index has fails.  *)
(***************************************************************************)
EXTENDS Naturals, Sequences, FiniteSets, Functions

CONSTANTS
    Keys,
    Upserters,  \* workers that call UpsertMany, or Upsert: a batch of one
    ById,       \* workers that call UpsertById
    Deleters,   \* workers that call Delete
    Batch,      \* the keys each worker gives, in order
    Unique,     \* the keys of tables that have a unique index on the key
    Old         \* a bean that was there before

Workers == Upserters \cup ById \cup Deleters
Beans == Workers \cup {Old}

VARIABLES
    rows,       \* of each key: the beans of its rows
    pc, i,      \* place of each worker, and its index in the batch
    affected,   \* totalAffected
    result,
    stored,     \* history: of each worker, the indices whose bean it wrote
    seen        \* history: of each worker, its key had a row when it looked

vars == <<rows, pc, i, affected, result, stored, seen>>

\* The type invariant; a unique index holds.
TypeOK ==
    /\ rows \in [Keys -> Seq(Beans)]
    /\ \A key \in Unique : Len(rows[key]) <= 1
    /\ pc \in [Workers -> {"look", "update", "insert", "ended"}]
    /\ \A w \in Workers : i[w] \in 1 .. Len(Batch[w]) + 1
    /\ affected \in [Workers -> Nat]
    /\ result \in [Workers -> {"none", "nil", "err"}]
    /\ \A w \in Workers : stored[w] \subseteq DOMAIN Batch[w]
    /\ seen \in [Workers -> BOOLEAN]

Init ==
    /\ rows \in [Keys -> {<< >>, <<Old>>} \cup {<<w>> : w \in ById}]
    /\ pc = [w \in Workers |-> "look"]
    /\ i = [w \in Workers |-> 1]
    /\ affected = [w \in Workers |-> 0]
    /\ result = [w \in Workers |-> "none"]
    /\ stored = [w \in Workers |-> {}]
    /\ seen = [w \in Workers |-> FALSE]

Key(w) == Batch[w][i[w]]
Goto(w, label) == pc' = [pc EXCEPT ![w] = label]

Returns(w, r) == Goto(w, "ended") /\ result' = [result EXCEPT ![w] = r]

\* A statement fails: its error is returned, what was done stays done.
StatementErr(w) ==
    /\ pc[w] # "ended"
    /\ Returns(w, "err")
    /\ UNCHANGED <<rows, i, affected, stored, seen>>

Look(w, found) ==
    /\ seen' = [seen EXCEPT ![w] = rows[Key(w)] # << >>]
    /\ Goto(w, IF found THEN "update" ELSE "insert")
    /\ UNCHANGED <<rows, i, affected, result, stored>>

\* Upsert: is there a row with this key?
Exists(w) ==
    /\ w \in Upserters /\ pc[w] = "look"
    /\ Look(w, rows[Key(w)] # << >>)

\* UpsertById: the bean's values are part of the question.
FindById(w) ==
    /\ w \in ById /\ pc[w] = "look"
    /\ Look(w, w \in Range(rows[Key(w)]))

\* Counts the rows, and goes on with the batch or returns.
Did(w, n, in) ==
    /\ affected' = [affected EXCEPT ![w] = @ + n]
    /\ i' = [i EXCEPT ![w] = @ + 1]
    /\ stored' = [stored EXCEPT ![w] = IF in THEN @ \cup {i[w]} ELSE @]
    /\ IF i[w] < Len(Batch[w]) THEN Goto(w, "look") /\ UNCHANGED result
                               ELSE Returns(w, "nil")
    /\ UNCHANGED seen

Changed(w) == {j \in DOMAIN rows[Key(w)] : rows[Key(w)][j] # w}

\* Update, or UpdateById with the bean as FindById filled it.
Update(w) ==
    /\ w \in Upserters \cup ById /\ pc[w] = "update"
    /\ rows' = [rows EXCEPT ![Key(w)] = [j \in DOMAIN @ |-> w]]
    /\ Did(w, Cardinality(Changed(w)), rows[Key(w)] # << >>)

InsertOne(w) ==
    /\ pc[w] = "insert"
    /\ Key(w) \in Unique => rows[Key(w)] = << >>
    /\ rows' = [rows EXCEPT ![Key(w)] = Append(@, w)]
    /\ Did(w, 1, TRUE)

InsertErr(w) ==
    /\ pc[w] = "insert"
    /\ Key(w) \in Unique /\ rows[Key(w)] # << >>
    /\ Returns(w, "err")
    /\ UNCHANGED <<rows, i, affected, stored, seen>>

Delete(w) ==
    /\ w \in Deleters /\ pc[w] = "look"
    /\ rows' = [rows EXCEPT ![Key(w)] = << >>]
    /\ Did(w, Len(rows[Key(w)]), TRUE)

Next ==
    \E w \in Workers :
        \/ StatementErr(w) \/ Exists(w) \/ FindById(w)
        \/ Update(w) \/ InsertOne(w) \/ InsertErr(w) \/ Delete(w)

Spec == Init /\ [][Next]_vars

------------------------------------------------------------------------------
(* Properties.                                                             *)

\* "Update if the data exists, insert if it does not": never a second row.
UpsertNeverDoubles == \A key \in Keys : Len(rows[key]) <= 1

\* "The data exists, execute the update": with no error of the database, a key
\* that FindById was asked about and that has a row is not inserted.
ByIdUpdates == \A w \in ById : pc[w] = "insert" => ~seen[w]

==============================================================================
