---------------------------- MODULE EntitySession ----------------------------
(***************************************************************************)
(* libs/databases/entity.go: an entity forwards each call to its session   *)
(* if it has one, and to the dao it was made with otherwise.  NewSession   *)
(* gives the entity itself a new session and returns the entity.  So all   *)
(* users of one entity, with and without a transaction, go through the     *)
(* same session: here an owner that makes M writes in a transaction, and   *)
(* sharers that make a write of their own or open a session of their own.  *)
(* External: the sessions, as in SessionTx.                                *)
(***************************************************************************)
EXTENDS Naturals, FiniteSets

CONSTANTS
    M,          \* writes of the owner
    Sharers     \* other goroutines with the same entity

ASSUME EntityAssumption == M \in Nat \ {0} /\ Sharers \cap Nat = {} /\ IsFiniteSet(Sharers)

OwnerWrites == 1 .. M
Sessions == 1 .. Cardinality(Sharers) + 1

VARIABLES
    sessionDao,     \* e.sessionDao; 0 for nil
    opened,         \* sessions opened so far
    inTx,           \* sessions in a transaction
    pending,        \* the writes in the transaction of each session
    saved,          \* writes that are in the database
    owner,          \* place of the owner: "new", "begin", its next write, ...
    sharer,         \* place of each sharer
    replaced        \* history: a sharer opened a session

entityVars == <<sessionDao, opened, inTx, pending, saved, owner, sharer, replaced>>

EntityTypeOK ==
    /\ sessionDao \in 0 .. opened /\ opened \in 0 .. Cardinality(Sessions)
    /\ inTx \subseteq Sessions
    /\ pending \in [Sessions -> SUBSET (OwnerWrites \cup Sharers)]
    /\ saved \subseteq OwnerWrites \cup Sharers
    /\ owner \in [place : {"new", "begin", "work", "close", "ended"}, k : 1 .. M + 1]
    /\ sharer \in [Sharers -> {"idle", "done"}]
    /\ replaced \in BOOLEAN

EntityInit ==
    /\ sessionDao = 0 /\ opened = 0
    /\ inTx = {} /\ pending = [n \in Sessions |-> {}]
    /\ saved = {}
    /\ owner = [place |-> "new", k |-> 1]
    /\ sharer = [g \in Sharers |-> "idle"]
    /\ replaced = FALSE

OwnerGoto(place) == owner' = [owner EXCEPT !.place = place]
EndSession == inTx' = inTx \ {sessionDao} /\ pending' = [pending EXCEPT ![sessionDao] = {}]

NewSession == opened' = opened + 1 /\ sessionDao' = opened + 1

\* Create, Update, UpdateByPk, Delete and DeleteByPk: whose session is used is
\* decided when the call is made.
Forward(x) ==
    IF sessionDao \in inTx
    THEN pending' = [pending EXCEPT ![sessionDao] = @ \cup {x}] /\ UNCHANGED saved
    ELSE saved' = saved \cup {x} /\ UNCHANGED pending

OwnerOpens ==
    /\ owner.place = "new"
    /\ NewSession
    /\ OwnerGoto("begin")
    /\ UNCHANGED <<inTx, pending, saved, sharer, replaced>>

\* Begin of a session that is in a transaction does nothing.
Begins ==
    /\ owner.place = "begin"
    /\ \/ inTx' = inTx \cup {sessionDao} /\ OwnerGoto("work")
       \/ UNCHANGED inTx /\ OwnerGoto("close")
    /\ UNCHANGED <<sessionDao, opened, pending, saved, sharer, replaced>>

\* Mutant: the owner's second write forgets to look for the session.
OwnerWritesPast ==
    /\ owner.place = "work" /\ owner.k <= M
    /\ \/ owner.k = 1 /\ Forward(1)
       \/ owner.k > 1 /\ saved' = saved \cup {owner.k} /\ UNCHANGED pending
    /\ owner' = [owner EXCEPT !.k = @ + 1]
    /\ UNCHANGED <<sessionDao, opened, inTx, sharer, replaced>>

OwnerMakesWrite ==
    /\ owner.place = "work" /\ owner.k <= M
    /\ Forward(owner.k)
    /\ owner' = [owner EXCEPT !.k = @ + 1]
    /\ UNCHANGED <<sessionDao, opened, inTx, sharer, replaced>>

\* Commit, or Rollback at any place.  An error of Commit rolls back too.
OwnerEnds ==
    /\ owner.place = "work"
    /\ \/ owner.k > M /\ saved' = saved \cup pending[sessionDao]
       \/ UNCHANGED saved
    /\ EndSession
    /\ OwnerGoto("close")
    /\ UNCHANGED <<sessionDao, opened, sharer, replaced>>

\* Close rolls back what is open and leaves e.sessionDao as it is.
OwnerCloses ==
    /\ owner.place = "close"
    /\ EndSession
    /\ OwnerGoto("ended")
    /\ UNCHANGED <<sessionDao, opened, saved, sharer, replaced>>

SharerWrites(g) ==
    /\ sharer[g] = "idle"
    /\ Forward(g)
    /\ sharer' = [sharer EXCEPT ![g] = "done"]
    /\ UNCHANGED <<sessionDao, opened, inTx, owner, replaced>>

SharerOpens(g) ==
    /\ sharer[g] = "idle"
    /\ NewSession
    /\ sharer' = [sharer EXCEPT ![g] = "done"]
    /\ replaced' = TRUE
    /\ UNCHANGED <<inTx, pending, saved, owner>>

EntityNext ==
    \/ OwnerOpens \/ Begins \/ OwnerMakesWrite \/ OwnerEnds \/ OwnerCloses
    \/ \E g \in Sharers : SharerWrites(g) \/ SharerOpens(g)

\* While nobody else opens a session on the entity, the owner's writes are in
\* the database as a whole or not at all, and its transaction is over when it
\* is done, whoever writes through the same entity meanwhile.
EntityAtomic ==
    ~replaced =>
        /\ saved \cap OwnerWrites \in {{}, OwnerWrites}
        /\ owner.place = "ended" => inTx = {}

==============================================================================
