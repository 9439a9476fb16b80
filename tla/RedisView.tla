------------------------------ MODULE RedisView ------------------------------
(***************************************************************************)
(* libs/redis: views of one Redis, each with a key prefix of its own, that *)
(* give the commands for strings, hashes, lists, sets, sorted sets and     *)
(* locations.  A method puts the prefix before the key and sends one       *)
(* command; some send a key as it is.  GeoCalculateDistance sends four.    *)
(*                                                                         *)
(* A key is the sequence of its parts between the separators.  A value is  *)
(* its type and the views that wrote what is in it.  External: Redis.  A   *)
(* command is atomic, one for another type is refused, a value that is     *)
(* empty is absent, and a command may fail, done or not.                   *)
(***************************************************************************)
EXTENDS Naturals, FiniteSets, Sequences

CONSTANTS
    Views,
    Prefix,     \* r.prefix
    Names,      \* keys the users of the views give
    GeoCalls,   \* calls of GeoCalculateDistance; also their uuids
    GeoView,    \* the view of each
    GeoName,    \* the key they give
    MaxKeys     \* bound: keys in Redis

\* r.prefix + ":" + suffix
expandKey(v, k) == Prefix[v] \o k

\* Views are apart if no prefix begins another one; nobody gives the name of
\* another's prefix, or a uuid, as a key.
ASSUME ViewAssumption ==
    /\ \A v \in Views : Prefix[v] \in Seq({Prefix[v][i] : i \in DOMAIN Prefix[v]})
    /\ \A u, v \in Views :
        u # v => \E i \in (DOMAIN Prefix[u]) \cap (DOMAIN Prefix[v]) : Prefix[u][i] # Prefix[v][i]
    /\ \A v \in Views : Len(Prefix[v]) > 0 /\ Prefix[v][1] \notin Names
    /\ GeoName \in Names /\ GeoView \in [GeoCalls -> Views] /\ Names \cap GeoCalls = {}

Keys ==
    {<<k>> : k \in Names}
        \cup {expandKey(v, <<k>>) : v \in Views, k \in Names}
        \cup {expandKey(GeoView[c], <<GeoName, c>>) : c \in GeoCalls}

Types == {"string", "hash", "list", "set", "zset", "stream"}
Absent == [type |-> "none", by |-> {}]

VARIABLES
    db,         \* the values in Redis
    volatile,   \* keys with a time to live
    geo,        \* of each GeoCalculateDistance: its place
    dist,       \* of each: whose locations the distance is of
    geoDel      \* history: calls whose Del did not arrive

dbVars == <<db, volatile>>
geoVars == <<geo, dist, geoDel>>
vars == <<dbVars, geoVars>>

Present == {key \in Keys : db[key] # Absent}

TypeOK ==
    /\ db \in [Keys -> [type : Types \cup {"none"}, by : SUBSET (Views \cup GeoCalls)]]
    /\ \A key \in Keys : db[key].type = "none" <=> db[key].by = {}
    /\ volatile \subseteq Present
    /\ geo \in [GeoCalls -> {"idle", "add2", "dist", "del", "done"}]
    /\ dist \in [GeoCalls -> SUBSET GeoCalls]
    /\ geoDel \subseteq GeoCalls

Init ==
    /\ db = [key \in Keys |-> Absent]
    /\ volatile = {}
    /\ geo = [c \in GeoCalls |-> "idle"]
    /\ dist = [c \in GeoCalls |-> {}]
    /\ geoDel = {}

------------------------------------------------------------------------------
(* External: Redis.                                                        *)

Value(type, by) == IF by = {} THEN Absent ELSE [type |-> type, by |-> by]
Accepts(key, type) == db[key].type \in {type, "none"}

\* The key gets a value; one that goes away loses its time to live.
Put(key, value) ==
    /\ db[key] = Absent /\ value # Absent => Cardinality(Present) < MaxKeys
    /\ db' = [db EXCEPT ![key] = value]
    /\ volatile' = IF value = Absent THEN volatile \ {key} ELSE volatile

\* A command of this type that adds something, and one that takes away some of
\* what is there.
Adds(key, type, who) ==
    Accepts(key, type) /\ Put(key, Value(type, db[key].by \cup {who}))

Removes(key, type) ==
    /\ db[key].type = type
    /\ \E rest \in SUBSET db[key].by : Put(key, Value(type, rest))

TimeToLive(key, ttl) ==
    volatile' = IF ttl THEN volatile \cup {key} ELSE volatile \ {key}

\* A key with a time to live goes away.
Expires(key) ==
    /\ key \in volatile
    /\ Put(key, Absent)

------------------------------------------------------------------------------
(* redis_view.go: strings.  A duration is empty, good, or an error.        *)

\* What Exists and the read methods tell of a key.
Get(v, k) == db[expandKey(v, <<k>>)]

Set(v, k) ==
    LET key == expandKey(v, <<k>>) IN
        /\ db[key] = Absent => Cardinality(Present) < MaxKeys
        /\ db' = [db EXCEPT ![key] = Value("string", {v})]
        /\ \E ttl \in BOOLEAN : TimeToLive(key, ttl)

SetNX(v, k) ==
    LET key == expandKey(v, <<k>>) IN
        /\ db[key] = Absent /\ Cardinality(Present) < MaxKeys
        /\ db' = [db EXCEPT ![key] = Value("string", {v})]
        /\ \E ttl \in BOOLEAN : TimeToLive(key, ttl)

Del(v, k) == Put(expandKey(v, <<k>>), Absent)

Expire(v, k) ==
    /\ db[expandKey(v, <<k>>)] # Absent
    /\ TimeToLive(expandKey(v, <<k>>), TRUE)
    /\ UNCHANGED db

------------------------------------------------------------------------------
(* Hashes, lists, sets and sorted sets.                                    *)

HSet(v, k) == Adds(expandKey(v, <<k>>), "hash", v)
HMSet(v, k) == Adds(expandKey(v, <<k>>), "hash", v)
HDel(v, k) == Removes(expandKey(v, <<k>>), "hash")

\* A field that is there stays; wrapResult makes an error of the false.
HSetNX(v, k) ==
    LET key == expandKey(v, <<k>>) IN
        \/ db[key].type = "hash" /\ UNCHANGED dbVars
        \/ Adds(key, "hash", v)

LPush(v, k) == Adds(expandKey(v, <<k>>), "list", v)
LAppend(v, k) == Adds(expandKey(v, <<k>>), "list", v)
LSet(v, k) == db[expandKey(v, <<k>>)] # Absent /\ Adds(expandKey(v, <<k>>), "list", v)
LRem(v, k) == Removes(expandKey(v, <<k>>), "list")
LTrim(v, k) == Removes(expandKey(v, <<k>>), "list")
LPop(v, k) == Removes(expandKey(v, <<k>>), "list")
LRPop(v, k) == Removes(expandKey(v, <<k>>), "list")

SAdd(v, k) == Adds(expandKey(v, <<k>>), "set", v)
SRem(v, k) == Removes(expandKey(v, <<k>>), "set")
SPop(v, k) == Removes(expandKey(v, <<k>>), "set")
SPopN(v, k) == Removes(expandKey(v, <<k>>), "set")

ZAdd(v, k) == Adds(expandKey(v, <<k>>), "zset", v)
ZIncr(v, k) == Adds(expandKey(v, <<k>>), "zset", v)
ZRem(v, k) == Removes(expandKey(v, <<k>>), "zset")
ZRemRange(v, k) == Removes(expandKey(v, <<k>>), "zset")

GeoAdd(v, k, who) == Adds(expandKey(v, k), "zset", who)

\* Commands that change one key of a view.
KeyCommand(v, k) ==
    \/ Set(v, k) \/ SetNX(v, k) \/ Del(v, k) \/ Expire(v, k)
    \/ HSet(v, k) \/ HMSet(v, k) \/ HSetNX(v, k) \/ HDel(v, k)
    \/ LPush(v, k) \/ LAppend(v, k) \/ LSet(v, k)
    \/ LRem(v, k) \/ LTrim(v, k) \/ LPop(v, k) \/ LRPop(v, k)
    \/ SAdd(v, k) \/ SRem(v, k) \/ SPop(v, k) \/ SPopN(v, k)
    \/ ZAdd(v, k) \/ ZIncr(v, k) \/ ZRem(v, k) \/ ZRemRange(v, k)
    \/ GeoAdd(v, <<k>>, v)

------------------------------------------------------------------------------
(* Commands that send a key as the user gave it: a name, which is then     *)
(* outside of the view, or one to which the user added the prefix.         *)

Raw(v, k) == {<<k>>, expandKey(v, <<k>>)}

\* What users give as sources: keys of the view, and names as they are.  One
\* that is absent adds nothing.
Sources(v) == {expandKey(v, <<k>>) : k \in Names} \cap Present
RawSources(v) == Sources(v) \cup ({<<k>> : k \in Names} \cap Present)

\* The result replaces the destination and its time to live.  It holds data of
\* whoever wrote the sources: of all of them, or of some.
Stores(sources, destination, type, types, all) ==
    LET full == UNION {db[key].by : key \in sources} IN
        /\ \A key \in sources : db[key].type \in types
        /\ \E by \in IF all THEN {full} ELSE SUBSET full :
            /\ db[destination] = Absent /\ by # {} => Cardinality(Present) < MaxKeys
            /\ db' = [db EXCEPT ![destination] = Value(type, by)]
        /\ volatile' = volatile \ {destination}

\* The sources are keys of the view, whatever the destination.
SDiffMerge(v, destination) ==
    \E S \in SUBSET Sources(v) : Stores(S, destination, "set", {"set"}, FALSE)
SInterMerge(v, destination) ==
    \E S \in SUBSET Sources(v) : Stores(S, destination, "set", {"set"}, FALSE)

\* Mutant: the sources are sent as they are, too.
SUnionMergeRaw(v, destination) ==
    \E S \in SUBSET RawSources(v) : Stores(S, destination, "set", {"set"}, TRUE)

SUnionMerge(v, destination) ==
    \E S \in SUBSET Sources(v) : Stores(S, destination, "set", {"set"}, TRUE)

ZInterMerge(v, destination) ==
    \E S \in SUBSET RawSources(v) : Stores(S, destination, "zset", {"set", "zset"}, FALSE)
ZUnionMerge(v, destination) ==
    \E S \in SUBSET RawSources(v) : Stores(S, destination, "zset", {"set", "zset"}, TRUE)

ZIncrNX(v, key) == Adds(key, "zset", v)
XAdd(v, key) == Adds(key, "stream", v)

RawCommand(v, k) ==
    \E key \in Raw(v, k) :
        \/ SDiffMerge(v, key) \/ SInterMerge(v, key) \/ SUnionMerge(v, key)
        \/ ZIncrNX(v, key) \/ ZInterMerge(v, key) \/ ZUnionMerge(v, key)
        \/ XAdd(v, key)

------------------------------------------------------------------------------
(* GeoCalculateDistance: two GeoAdds, a GeoDist and the deferred Del.      *)

\* Mutant: no uuid in the key.
geoKeyShared(c) == <<GeoName>>

geoKey(c) == <<GeoName, c>>
GeoGoto(c, place) == geo' = [geo EXCEPT ![c] = place]

\* A command that fails, done or not, ends the call, and Del is sent all the same.
GeoAdds(c) ==
    /\ geo[c] \in {"idle", "add2"}
    /\ \/ GeoAdd(GeoView[c], geoKey(c), c) /\ GeoGoto(c, IF geo[c] = "idle" THEN "add2" ELSE "dist")
       \/ (GeoAdd(GeoView[c], geoKey(c), c) \/ UNCHANGED dbVars) /\ GeoGoto(c, "del")
    /\ UNCHANGED <<dist, geoDel>>

GeoDist(c) ==
    /\ geo[c] = "dist"
    /\ dist' = [dist EXCEPT ![c] = db[expandKey(GeoView[c], geoKey(c))].by]
    /\ GeoGoto(c, "del")
    /\ UNCHANGED <<dbVars, geoDel>>

\* The error of Del is not looked at.
GeoDel(c) ==
    /\ geo[c] = "del"
    /\ \/ Put(expandKey(GeoView[c], geoKey(c)), Absent) /\ UNCHANGED geoDel
       \/ UNCHANGED dbVars /\ geoDel' = geoDel \cup {c}
    /\ GeoGoto(c, "done")
    /\ UNCHANGED dist

Next ==
    \/ \E v \in Views, k \in Names :
        /\ KeyCommand(v, k) \/ RawCommand(v, k)
        /\ UNCHANGED geoVars
    \/ \E key \in Keys : Expires(key) /\ UNCHANGED geoVars
    \/ \E c \in GeoCalls : GeoAdds(c) \/ GeoDist(c) \/ GeoDel(c)

Spec == Init /\ [][Next]_vars

------------------------------------------------------------------------------
(* Properties.                                                             *)

\* What the users of a view see under their keys, and under names as they are.
P == INSTANCE PrivateStores WITH
    store <- [v \in Views |-> [k \in Names |-> Get(v, k)]],
    shared <- [k \in Names |-> db[<<k>>]],
    ttl <- [v \in Views |-> {k \in Names : expandKey(v, <<k>>) \in volatile}]

\* As long as no prefix begins another, every view is a store of its own, and
\* the names that are sent as they are, are one store for all of them.  What
\* another view wrote gets into a view only in a sorted set, and only when the
\* view's own user merges such names (ZInterMerge, ZUnionMerge); a distance
\* being calculated is seen nowhere; a name sent as it is never expires.
ImplementsPrivateStores == P!Spec

\* Not so: what a view wrote under a name as it is, is its own.  Another view
\* writes the same name, over it (SUnionMerge) or into it (ZIncrNX, XAdd).
NamesAreOwn ==
    [][\A v \in Views, k \in Names :
        db[<<k>>].by = {v} => db'[<<k>>].by \subseteq {v}]_vars

\* A distance is of the call's own two locations, and a call that is over has
\* left no key unless its Del was lost.
GeoIsOwn ==
    \A c \in GeoCalls :
        /\ dist[c] \subseteq {c}
        /\ geo[c] = "done" /\ c \notin geoDel => db[expandKey(GeoView[c], geoKey(c))] = Absent

==============================================================================
