---------------------------- MODULE PrivateStores ----------------------------
(***************************************************************************)
(* What the views of libs/redis promise their users: a store of its own    *)
(* for each view, and one that all of them share, for the keys that are    *)
(* sent as they are given.  Of a value only its type matters, and the      *)
(* views whose data is in it.                                              *)
(***************************************************************************)
CONSTANTS Views, Names

Types == {"string", "hash", "list", "set", "zset", "stream"}
None == [type |-> "none", by |-> {}]
Values == {None} \cup [type : Types, by : (SUBSET Views) \ {{}}]

VARIABLES store, shared, ttl

Init ==
    /\ store = [v \in Views |-> [k \in Names |-> None]]
    /\ shared = [k \in Names |-> None]
    /\ ttl = [v \in Views |-> {}]

\* Whose data is in the store of a view, and in the shared one.
Holds(v) == UNION {store[v][k].by : k \in Names}
Shared == UNION {shared[k].by : k \in Names}

\* One key of the view changes; what is not there does not expire.
Changes(v, k) ==
    /\ store'[v][k] \in Values
    /\ store' = [store EXCEPT ![v][k] = store'[v][k]]
    /\ ttl' = [ttl EXCEPT ![v] = (@ \ {k}) \cup (ttl'[v] \cap {k})]
    /\ k \in ttl'[v] => store'[v][k] # None
    /\ UNCHANGED shared

\* A command of a view on one of its keys adds nothing but data of the view,
\* and only in a sorted set there may be data of others, from before.
Command(v, k) ==
    /\ Changes(v, k)
    /\ store'[v][k].by \subseteq store[v][k].by \cup {v}
    /\ store'[v][k].type # "zset" => store'[v][k].by \subseteq {v}

\* The one way for the data of others into the store of a view: the view
\* itself merges shared sorted sets into one of its own.
Merge(v, k) ==
    /\ Changes(v, k)
    /\ store'[v][k].type \in {"zset", "none"}
    /\ store'[v][k].by \subseteq Holds(v) \cup Shared
    /\ k \notin ttl'[v]

\* A view writes a shared key, also over what another one wrote there.
Share(v, k) ==
    /\ shared'[k] \in Values /\ shared'[k].type \in {"set", "zset", "stream", "none"}
    /\ shared' = [shared EXCEPT ![k] = shared'[k]]
    /\ shared'[k].by \subseteq {v} \cup Holds(v) \cup Shared
    /\ UNCHANGED <<store, ttl>>

\* A key of a view goes away by itself only when its time to live is over, and
\* a shared one never does.
Expires(v, k) ==
    /\ k \in ttl[v]
    /\ store' = [store EXCEPT ![v][k] = None]
    /\ ttl' = [ttl EXCEPT ![v] = @ \ {k}]
    /\ UNCHANGED shared

Next == \E v \in Views, k \in Names : Command(v, k) \/ Merge(v, k) \/ Share(v, k) \/ Expires(v, k)

Spec == Init /\ [][Next]_<<store, shared, ttl>>

==============================================================================
