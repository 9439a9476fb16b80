------------------------------ MODULE RedisProofs ------------------------------
(***************************************************************************)
(* Proofs about the two models of package redis: the views (RedisView) and *)
(* the retried notifications (RetryNotification).                          *)
(*                                                                         *)
(* The views, for every set of views and names and every number of         *)
(* distances being calculated, implement the private stores and the one    *)
(* they share for names that are sent as they are, and a distance is of    *)
(* its own two locations.  Both rest on the keys.  If no                   *)
(* prefix begins another, then no two of them are the same: not a view's   *)
(* key, the temporary key of a distance, and a name that is sent as it is. *)
(* A command writes one key: one of the view that gives it, or a name.     *)
(* That only sorted sets hold data of other views is part of the invariant *)
(* (Owned), as the sets of a view are merged without looking who wrote     *)
(* them; so is that a name has no time to live.                            *)
(*                                                                         *)
(* The notifications, for every set of nodes, goroutine ids and values,    *)
(* every list of delays, and every number of puts and faults.              *)
(* OneHandlerPerValue is not inductive: a node gets to its handler because *)
(* of what it reads in Redis, so the invariant says that whoever works on  *)
(* a payload is the owner written in the payload's lock (HolderInv), and   *)
(* that a payload about to be put back has a delay left (PutInv).          *)
(***************************************************************************)
EXTENDS RedisView, RetryNotification, SequenceTheorems, TLAPS

ViewKey(v, k) == expandKey(v, <<k>>)
GeoKey(c) == expandKey(GeoView[c], geoKey(c))

------------------------------------------------------------------------------
(* Keys.                                                                   *)

\* expandKey: the parts of the prefix, then those of the key.
LEMMA Expanded ==
    ASSUME NEW v \in Views, NEW S, NEW q \in Seq(S)
    PROVE  /\ Len(Prefix[v]) \in Nat \ {0} /\ DOMAIN Prefix[v] = 1 .. Len(Prefix[v])
           /\ Len(expandKey(v, q)) = Len(Prefix[v]) + Len(q)
           /\ \A i \in 1 .. Len(Prefix[v]) : expandKey(v, q)[i] = Prefix[v][i]
           /\ \A i \in 1 .. Len(q) : expandKey(v, q)[Len(Prefix[v]) + i] = q[i]
<1> DEFINE p == Prefix[v]
           T == {p[i] : i \in DOMAIN p} \cup S
<1>0. p \in Seq({p[i] : i \in DOMAIN p}) /\ Len(p) > 0
  BY ViewAssumption
<1>1. p \in Seq(T) /\ q \in Seq(T)
  <2> HIDE DEF p
  <2>1. p \in Seq(T)
    BY <1>0
  <2> QED
    BY <2>1
<1>2. Len(p) \in Nat \ {0} /\ Len(q) \in Nat /\ DOMAIN p = 1 .. Len(p)
  BY <1>0, <1>1, LenProperties
<1>3. /\ Len(p \o q) = Len(p) + Len(q)
      /\ \A i \in 1 .. Len(p) + Len(q) : (p \o q)[i] = IF i <= Len(p) THEN p[i] ELSE q[i - Len(p)]
  BY <1>1, ConcatProperties
<1> HIDE DEF p
<1>4. \A i \in 1 .. Len(p) : (p \o q)[i] = p[i]
  BY <1>2, <1>3
<1>5. \A i \in 1 .. Len(q) : (p \o q)[Len(p) + i] = q[i]
  <2> TAKE i \in 1 .. Len(q)
  <2>1. Len(p) + i \in 1 .. Len(p) + Len(q) /\ ~(Len(p) + i <= Len(p)) /\ (Len(p) + i) - Len(p) = i
    BY <1>2
  <2> QED
    BY <1>3, <2>1
<1> QED
  BY <1>2, <1>3, <1>4, <1>5 DEF p, expandKey

\* Keys of different views differ, whatever comes after the prefix.
LEMMA ViewsApart ==
    ASSUME NEW u \in Views, NEW v \in Views, u # v, NEW S, NEW q \in Seq(S), NEW r \in Seq(S)
    PROVE  expandKey(u, q) # expandKey(v, r)
<1>1. PICK i \in (DOMAIN Prefix[u]) \cap (DOMAIN Prefix[v]) : Prefix[u][i] # Prefix[v][i]
  BY ViewAssumption
<1>2. expandKey(u, q)[i] = Prefix[u][i] /\ expandKey(v, r)[i] = Prefix[v][i]
  <2>1. i \in 1 .. Len(Prefix[u]) /\ i \in 1 .. Len(Prefix[v])
    BY <1>1, Expanded
  <2>2. expandKey(u, q)[i] = Prefix[u][i]
    BY <2>1, Expanded
  <2>3. expandKey(v, r)[i] = Prefix[v][i]
    BY <2>1, Expanded
  <2> QED
    BY <2>2, <2>3
<1> QED
  BY <1>1, <1>2

\* No key that begins with a prefix is a name.
LEMMA NotAName ==
    ASSUME NEW v \in Views, NEW S, NEW q \in Seq(S), NEW k \in Names
    PROVE  expandKey(v, q) # <<k>>
<1>1. expandKey(v, q)[1] = Prefix[v][1]
  BY Expanded
<1>2. Prefix[v][1] \notin Names
  BY ViewAssumption
<1> QED
  BY <1>1, <1>2

\* The keys of the users and of the distances are all different.
LEMMA KeysApart ==
    /\ \A u, v \in Views : \A k, l \in Names : ViewKey(u, k) = ViewKey(v, l) => u = v /\ k = l
    /\ \A c, d \in GeoCalls : GeoKey(c) = GeoKey(d) => c = d
    /\ \A v \in Views, k \in Names, c \in GeoCalls : ViewKey(v, k) # GeoKey(c)
    /\ \A v \in Views : \A k, l \in Names : ViewKey(v, k) # <<l>>
    /\ \A c \in GeoCalls, l \in Names : GeoKey(c) # <<l>>
<1> DEFINE S == Names \cup GeoCalls
<1>1. /\ \A k \in Names : <<k>> \in Seq(S) /\ Len(<<k>>) = 1 /\ <<k>>[1] = k
      /\ \A c \in GeoCalls : geoKey(c) \in Seq(S) /\ Len(geoKey(c)) = 2 /\ geoKey(c)[2] = c
      /\ \A c \in GeoCalls : GeoView[c] \in Views
  BY ViewAssumption DEF geoKey
<1>a. ASSUME NEW v \in Views
      PROVE  /\ Len(Prefix[v]) \in Nat
             /\ \A k \in Names : /\ Len(expandKey(v, <<k>>)) = Len(Prefix[v]) + 1
                                 /\ expandKey(v, <<k>>)[Len(Prefix[v]) + 1] = k
             /\ \A c \in GeoCalls : /\ Len(expandKey(v, geoKey(c))) = Len(Prefix[v]) + 2
                                    /\ expandKey(v, geoKey(c))[Len(Prefix[v]) + 2] = c
  <2>0. Len(Prefix[v]) \in Nat
    <3>1. <<>> \in Seq(S)
      OBVIOUS
    <3> QED
      BY <3>1, Expanded
  <2>1. ASSUME NEW q \in Seq(S), NEW i \in Nat \ {0}, Len(q) = i
        PROVE  Len(expandKey(v, q)) = Len(Prefix[v]) + i /\ expandKey(v, q)[Len(Prefix[v]) + i] = q[i]
    <3>1. Len(expandKey(v, q)) = Len(Prefix[v]) + Len(q)
      BY Expanded
    <3>2. \A j \in 1 .. Len(q) : expandKey(v, q)[Len(Prefix[v]) + j] = q[j]
      BY Expanded
    <3>3. i \in 1 .. Len(q)
      BY <2>1
    <3> QED
      BY <2>1, <3>1, <3>2, <3>3
  <2>2. 1 \in Nat \ {0} /\ 2 \in Nat \ {0}
    OBVIOUS
  <2>3. \A k \in Names : /\ Len(expandKey(v, <<k>>)) = Len(Prefix[v]) + 1
                         /\ expandKey(v, <<k>>)[Len(Prefix[v]) + 1] = k
    <3> TAKE k \in Names
    <3> DEFINE q == <<k>>
    <3>1. q \in Seq(S) /\ Len(q) = 1 /\ q[1] = k
      BY <1>1
    <3> HIDE DEF q
    <3>2. Len(expandKey(v, q)) = Len(Prefix[v]) + 1 /\ expandKey(v, q)[Len(Prefix[v]) + 1] = k
      BY <2>1, <2>2, <3>1
    <3> QED
      BY <3>2 DEF q
  <2>4. \A c \in GeoCalls : /\ Len(expandKey(v, geoKey(c))) = Len(Prefix[v]) + 2
                            /\ expandKey(v, geoKey(c))[Len(Prefix[v]) + 2] = c
    BY <1>1, <2>1, <2>2
  <2> QED
    BY <2>0, <2>3, <2>4
<1>2. ASSUME NEW u \in Views, NEW v \in Views, NEW k \in Names, NEW l \in Names, ViewKey(u, k) = ViewKey(v, l)
      PROVE  u = v /\ k = l
  <2>1. u = v
    BY <1>1, <1>2, ViewsApart DEF ViewKey
  <2>2. \A m \in Names : expandKey(u, <<m>>)[Len(Prefix[u]) + 1] = m
    BY <1>a
  <2> QED
    BY <1>2, <2>1, <2>2 DEF ViewKey
<1>3. ASSUME NEW c \in GeoCalls, NEW d \in GeoCalls, GeoKey(c) = GeoKey(d) PROVE c = d
  <2>1. GeoView[c] = GeoView[d]
    BY <1>1, <1>3, ViewsApart DEF GeoKey
  <2>2. /\ expandKey(GeoView[c], geoKey(c))[Len(Prefix[GeoView[c]]) + 2] = c
        /\ expandKey(GeoView[d], geoKey(d))[Len(Prefix[GeoView[d]]) + 2] = d
    BY <1>1, <1>a
  <2> QED
    BY <1>1, <1>3, <2>1, <2>2 DEF GeoKey
<1>4. ASSUME NEW v \in Views, NEW k \in Names, NEW c \in GeoCalls PROVE ViewKey(v, k) # GeoKey(c)
  <2>1. CASE v # GeoView[c]
    BY <1>1, <2>1, ViewsApart DEF ViewKey, GeoKey
  <2>2. CASE v = GeoView[c]
    <3>1. /\ Len(Prefix[v]) \in Nat
          /\ Len(expandKey(v, <<k>>)) = Len(Prefix[v]) + 1
          /\ Len(expandKey(v, geoKey(c))) = Len(Prefix[v]) + 2
      BY <1>a
    <3> QED
      BY <2>2, <3>1 DEF ViewKey, GeoKey
  <2> QED
    BY <2>1, <2>2
<1>5. \A v \in Views : \A k, l \in Names : ViewKey(v, k) # <<l>>
  BY <1>1, NotAName DEF ViewKey
<1>6. \A c \in GeoCalls, l \in Names : GeoKey(c) # <<l>>
  BY <1>1, NotAName DEF GeoKey
<1> QED
  BY <1>2, <1>3, <1>4, <1>5, <1>6

------------------------------------------------------------------------------
(* What a command does.                                                    *)

StoredValues ==
    {x \in [type : Types \cup {"none"}, by : SUBSET (Views \cup GeoCalls)] : x.type = "none" <=> x.by = {}}

\* Data of others is in a sorted set of a view, or under a name.  A temporary
\* key holds its distance only, and a name has no time to live.
Owned ==
    /\ \A v \in Views, k \in Names :
        /\ db[ViewKey(v, k)].by \subseteq Views
        /\ db[ViewKey(v, k)].type # "zset" => db[ViewKey(v, k)].by \subseteq {v}
    /\ \A k \in Names : db[<<k>>].by \subseteq Views /\ <<k>> \notin volatile
    /\ \A c \in GeoCalls : db[GeoKey(c)].by \subseteq {c}

Inv == TypeOK /\ Owned /\ GeoIsOwn

\* Only this key changes, and it gets this value.
Becomes(key, x) ==
    /\ db' = [db EXCEPT ![key] = x]
    /\ volatile' \ {key} = volatile \ {key}
    /\ key \in volatile' => x # Absent

\* The command changes this key only.  The data in it is then from these; if it
\* is no sorted set, from its own ones.
Writes(key, own, from) ==
    \E x \in StoredValues :
        /\ x.by \subseteq from
        /\ x.type # "zset" => x.by \subseteq own
        /\ Becomes(key, x)

HeldBy(v) == UNION {db[ViewKey(v, k)].by : k \in Names}
HeldByAll == UNION {db[<<k>>].by : k \in Names}

\* What views and distances do to their keys and to the names.
ViewWrites(v, k) == Writes(ViewKey(v, k), {v}, db[ViewKey(v, k)].by \cup {v})

ViewMerges(v, k) ==
    /\ Writes(ViewKey(v, k), {}, HeldBy(v) \cup HeldByAll)
    /\ ViewKey(v, k) \notin volatile'

NameWrites(v, k) ==
    /\ LET all == {v} \cup HeldBy(v) \cup HeldByAll IN Writes(<<k>>, all, all)
    /\ db'[<<k>>].type \in {"set", "zset", "stream", "none"}
    /\ <<k>> \notin volatile'

GeoWrites(c) == Writes(GeoKey(c), {c}, {c})

\* The values that commands write.
LEMMA ValueFacts ==
    /\ Absent \in StoredValues /\ Absent.by = {}
    /\ \A t \in Types, by \in SUBSET (Views \cup GeoCalls) :
        /\ Value(t, by) \in StoredValues /\ Value(t, by).by = by
        /\ by # {} => Value(t, by) # Absent
<1>1. Absent \in StoredValues /\ Absent.by = {}
  BY DEF Absent, StoredValues
<1>2. ASSUME NEW t \in Types, NEW by \in SUBSET (Views \cup GeoCalls)
      PROVE  /\ Value(t, by) \in StoredValues /\ Value(t, by).by = by
             /\ by # {} => Value(t, by) # Absent
  <2>1. CASE by = {}
    BY <1>1, <2>1 DEF Value
  <2>2. CASE by # {}
    <3>1. t # "none"
      BY DEF Types
    <3> QED
      BY <2>2, <3>1 DEF Value, StoredValues, Absent
  <2> QED
    BY <2>1, <2>2
<1> QED
  BY <1>1, <1>2

LEMMA KeyTypes ==
    /\ \A v \in Views, k \in Names : ViewKey(v, k) \in Keys
    /\ \A k \in Names : <<k>> \in Keys
    /\ \A c \in GeoCalls : GeoKey(c) \in Keys
<1>1. \A v \in Views, k \in Names : ViewKey(v, k) \in Keys
  <2> TAKE v \in Views, k \in Names
  <2>1. expandKey(v, <<k>>) \in {expandKey(w, <<n>>) : w \in Views, n \in Names}
    OBVIOUS
  <2> QED
    BY <2>1 DEF Keys, ViewKey
<1>2. \A k \in Names : <<k>> \in Keys
  BY DEF Keys
<1>3. \A c \in GeoCalls : GeoKey(c) \in Keys
  BY DEF Keys, GeoKey, geoKey
<1> QED
  BY <1>1, <1>2, <1>3

\* What TypeOK says of a key.
LEMMA AtKey ==
    ASSUME TypeOK, NEW key \in Keys
    PROVE  /\ db[key] \in StoredValues /\ db[key].by \subseteq Views \cup GeoCalls
           /\ key \in volatile => db[key] # Absent
           /\ db = [db EXCEPT ![key] = db[key]]
<1>1. db[key] \in StoredValues /\ db[key].by \subseteq Views \cup GeoCalls
  BY DEF TypeOK, StoredValues
<1>2. key \in volatile => db[key] # Absent
  BY DEF TypeOK, Present
<1>3. db = [db EXCEPT ![key] = db[key]]
  BY DEF TypeOK
<1> QED
  BY <1>1, <1>2, <1>3

LEMMA PutWrites ==
    ASSUME TypeOK, NEW key \in Keys, NEW own, NEW from, NEW x \in StoredValues,
           x.by \subseteq from, x.type # "zset" => x.by \subseteq own, Put(key, x)
    PROVE  Writes(key, own, from)
<1>1. db' = [db EXCEPT ![key] = x]
  BY DEF Put
<1>2. volatile' \ {key} = volatile \ {key} /\ (key \in volatile' => x # Absent)
  BY DEF Put
<1> QED
  BY <1>1, <1>2 DEF Writes, Becomes

LEMMA AddWrites ==
    ASSUME TypeOK, NEW key \in Keys, NEW who \in Views \cup GeoCalls, NEW t \in Types, Adds(key, t, who),
           NEW own, NEW from, who \in own \cap from, db[key].by \subseteq from,
           db[key].type # "zset" => db[key].by \subseteq own
    PROVE  Writes(key, own, from)
<1> DEFINE by == db[key].by \cup {who}
<1>1. by \in SUBSET (Views \cup GeoCalls)
  BY AtKey
<1>2. Put(key, Value(t, by)) /\ db[key].type \in {t, "none"}
  BY DEF Adds, Accepts
<1>3. by \subseteq from /\ (t # "zset" => by \subseteq own) /\ by # {}
  BY <1>2
<1> HIDE DEF by
<1>4. Value(t, by) \in StoredValues /\ Value(t, by).by = by /\ Value(t, by).type = t
  BY <1>1, <1>3, ValueFacts DEF Value
<1> QED
  BY <1>2, <1>3, <1>4, PutWrites

LEMMA RemoveWrites ==
    ASSUME TypeOK, NEW key \in Keys, NEW t \in Types, Removes(key, t),
           NEW own, NEW from, db[key].by \subseteq from,
           db[key].type # "zset" => db[key].by \subseteq own
    PROVE  Writes(key, own, from)
<1>1. PICK rest \in SUBSET db[key].by : Put(key, Value(t, rest))
  BY DEF Removes
<1>2. rest \in SUBSET (Views \cup GeoCalls) /\ db[key].type = t
  BY AtKey DEF Removes
<1>3. Value(t, rest) \in StoredValues /\ Value(t, rest).by = rest
  BY <1>2, ValueFacts
<1>4. Value(t, rest).type # "zset" => rest \subseteq own
  BY <1>2 DEF Value, Absent
<1> QED
  BY <1>1, <1>3, <1>4, PutWrites

LEMMA StoreWrites ==
    ASSUME TypeOK, NEW key \in Keys, NEW t \in Types, NEW sources \in SUBSET Keys, NEW types, NEW all,
           Stores(sources, key, t, types, all), NEW own, NEW from,
           UNION {db[s].by : s \in sources} \subseteq from,
           t # "zset" => UNION {db[s].by : s \in sources} \subseteq own
    PROVE  /\ Writes(key, own, from)
           /\ key \notin volatile' /\ db'[key].type \in {t, "none"}
<1> DEFINE full == UNION {db[s].by : s \in sources}
<1>0. full \subseteq Views \cup GeoCalls /\ full \subseteq from /\ (t # "zset" => full \subseteq own)
  BY AtKey
<1>1. PICK by \in SUBSET full : db' = [db EXCEPT ![key] = Value(t, by)]
  <2>1. full \in SUBSET full
    OBVIOUS
  <2> QED
    BY <2>1 DEF Stores
<1>2. volatile' = volatile \ {key}
  BY DEF Stores
<1> HIDE DEF full
<1>3. Value(t, by) \in StoredValues /\ Value(t, by).by = by
  BY <1>0, ValueFacts
<1>4. Value(t, by).type \in {t, "none"} /\ (Value(t, by).type # "zset" => by \subseteq own)
  BY <1>0 DEF Value, Absent
<1>5. db'[key] = Value(t, by)
  BY <1>1 DEF TypeOK
<1>6. Writes(key, own, from)
  BY <1>0, <1>1, <1>2, <1>3, <1>4 DEF Writes, Becomes
<1> QED
  BY <1>2, <1>4, <1>5, <1>6

\* What the sources of a merge hold.
LEMMA SourceFacts ==
    ASSUME TypeOK, Owned, NEW v \in Views, NEW S
    PROVE  /\ S \in SUBSET RawSources(v) =>
                /\ S \subseteq Keys
                /\ UNION {db[s].by : s \in S} \subseteq HeldBy(v) \cup HeldByAll
           /\ S \in SUBSET Sources(v) =>
                /\ S \in SUBSET RawSources(v)
                /\ (\A s \in S : db[s].type = "set") => UNION {db[s].by : s \in S} \subseteq {v}
<1>1. ASSUME S \in SUBSET RawSources(v)
      PROVE  /\ S \subseteq Keys
             /\ UNION {db[s].by : s \in S} \subseteq HeldBy(v) \cup HeldByAll
  <2>1. \A s \in S : \E k \in Names : s = ViewKey(v, k) \/ s = <<k>>
    BY <1>1 DEF RawSources, Sources, ViewKey
  <2>2. S \subseteq Keys
    BY <1>1 DEF RawSources, Sources, Present
  <2>3. ASSUME NEW s \in S PROVE db[s].by \subseteq HeldBy(v) \cup HeldByAll
    BY <2>1 DEF HeldBy, HeldByAll
  <2> QED
    BY <2>2, <2>3
<1>2. ASSUME S \in SUBSET Sources(v)
      PROVE  /\ S \in SUBSET RawSources(v)
             /\ (\A s \in S : db[s].type = "set") => UNION {db[s].by : s \in S} \subseteq {v}
  <2>1. \A s \in S : \E k \in Names : s = ViewKey(v, k)
    BY <1>2 DEF Sources, ViewKey
  <2>2. S \in SUBSET RawSources(v)
    BY <1>2 DEF RawSources
  <2>3. ASSUME \A s \in S : db[s].type = "set", NEW s \in S PROVE db[s].by \subseteq {v}
    BY <2>1, <2>3 DEF Owned
  <2> QED
    BY <2>2, <2>3
<1> QED
  BY <1>1, <1>2

\* The methods for strings.
LEMMA StringWrites ==
    ASSUME TypeOK, NEW v \in Views, NEW k \in Names,
           Set(v, k) \/ SetNX(v, k) \/ Del(v, k)
    PROVE  ViewWrites(v, k)
<1> DEFINE key == ViewKey(v, k)
<1>0. key \in Keys
  BY KeyTypes
<1>1. CASE Set(v, k) \/ SetNX(v, k)
  <2>1. db' = [db EXCEPT ![key] = Value("string", {v})]
    BY <1>1 DEF Set, SetNX, ViewKey
  <2>2. PICK ttl \in BOOLEAN : TimeToLive(key, ttl)
    BY <1>1 DEF Set, SetNX, ViewKey
  <2>3. /\ Value("string", {v}) \in StoredValues /\ Value("string", {v}).by = {v}
        /\ Value("string", {v}) # Absent
    BY ValueFacts DEF Types
  <2>4. volatile' \ {key} = volatile \ {key}
    BY <2>2 DEF TimeToLive
  <2> QED
    BY <2>1, <2>3, <2>4 DEF ViewWrites, Writes, Becomes
<1>2. CASE Del(v, k)
  <2>1. Put(key, Absent)
    BY <1>2 DEF Del, ViewKey
  <2> QED
    BY <1>0, <2>1, ValueFacts, PutWrites DEF ViewWrites
<1> QED
  BY <1>1, <1>2

\* A command that changes at most a time to live.
LEMMA KeepWrites ==
    ASSUME TypeOK, Owned, NEW v \in Views, NEW k \in Names, UNCHANGED db,
           volatile' \ {ViewKey(v, k)} = volatile \ {ViewKey(v, k)},
           ViewKey(v, k) \in volatile' => db[ViewKey(v, k)] # Absent
    PROVE  ViewWrites(v, k)
<1> DEFINE key == ViewKey(v, k)
<1>1. key \in Keys
  BY KeyTypes
<1>2. db[key] \in StoredValues /\ db = [db EXCEPT ![key] = db[key]]
  BY <1>1, AtKey
<1>3. db[key].type # "zset" => db[key].by \subseteq {v}
  BY DEF Owned
<1> HIDE DEF key
<1> QED
  BY <1>2, <1>3 DEF ViewWrites, Writes, Becomes, key

\* Every method that expands its key.
LEMMA CommandWrites ==
    ASSUME TypeOK, Owned, NEW v \in Views, NEW k \in Names, KeyCommand(v, k)
    PROVE  ViewWrites(v, k)
<1> DEFINE key == ViewKey(v, k)
<1>0. key \in Keys /\ (db[key].type # "zset" => db[key].by \subseteq {v})
  BY KeyTypes DEF Owned
<1>1. /\ "hash" \in Types /\ "list" \in Types /\ "set" \in Types /\ "zset" \in Types
  BY DEF Types
<1>2. \/ Set(v, k) \/ SetNX(v, k) \/ Del(v, k) \/ Expire(v, k)
      \/ \E t \in Types : Adds(key, t, v) \/ Removes(key, t)
      \/ UNCHANGED dbVars
  BY <1>1 DEF KeyCommand, ViewKey, HSet, HMSet, HSetNX, HDel, LPush, LAppend, LSet, LRem, LTrim, LPop, LRPop,
       SAdd, SRem, SPop, SPopN, ZAdd, ZIncr, ZRem, ZRemRange, GeoAdd
<1>3. CASE UNCHANGED dbVars
  BY <1>0, <1>3, AtKey, KeepWrites DEF dbVars
<1>4. CASE Expire(v, k)
  BY <1>4, KeepWrites DEF Expire, TimeToLive, ViewKey
<1>5. ASSUME NEW t \in Types, Adds(key, t, v) \/ Removes(key, t) PROVE ViewWrites(v, k)
  <2> HIDE DEF key
  <2>1. v \in {v} \cap (db[key].by \cup {v}) /\ db[key].by \subseteq db[key].by \cup {v}
    OBVIOUS
  <2>2. Writes(key, {v}, db[key].by \cup {v})
    BY <1>0, <1>5, <2>1, AddWrites, RemoveWrites
  <2> QED
    BY <2>2 DEF ViewWrites, key
<1> QED
  BY <1>2, <1>3, <1>4, <1>5, StringWrites

\* Every method that does not.
LEMMA RawWrites ==
    ASSUME TypeOK, Owned, NEW v \in Views, NEW k \in Names, RawCommand(v, k)
    PROVE  NameWrites(v, k) \/ ViewWrites(v, k) \/ ViewMerges(v, k)
<1> DEFINE all == {v} \cup HeldBy(v) \cup HeldByAll
<1>1. PICK key \in Raw(v, k) :
        \/ SDiffMerge(v, key) \/ SInterMerge(v, key) \/ SUnionMerge(v, key)
        \/ ZIncrNX(v, key) \/ ZInterMerge(v, key) \/ ZUnionMerge(v, key)
        \/ XAdd(v, key)
  BY DEF RawCommand
<1>2. key \in Keys /\ (key = <<k>> \/ key = ViewKey(v, k))
  BY KeyTypes DEF Raw, ViewKey
<1>3. "set" \in Types /\ "zset" \in Types /\ "stream" \in Types
  BY DEF Types
<1>4. CASE ZIncrNX(v, key) \/ XAdd(v, key)
  <2>1. PICK t \in {"zset", "stream"} : Adds(key, t, v)
    BY <1>4 DEF ZIncrNX, XAdd
  <2>2. CASE key = <<k>>
    <3>1. <<k>> \notin volatile /\ db[<<k>>].by \subseteq all
      BY DEF Owned, HeldByAll
    <3>2. Writes(key, all, all)
      <4>1. v \in all
        OBVIOUS
      <4> HIDE DEF all
      <4> QED
        BY <1>2, <1>3, <2>1, <2>2, <3>1, <4>1, AddWrites
    <3>3. PICK by : by # {} /\ db' = [db EXCEPT ![key] = Value(t, by)] /\ volatile' = volatile
      <4>1. db[key].by \cup {v} # {} /\ Put(key, Value(t, db[key].by \cup {v}))
        BY <2>1 DEF Adds
      <4>2. Value(t, db[key].by \cup {v}) # Absent
        BY <1>2, <1>3, AtKey, ValueFacts
      <4> QED
        BY <4>1, <4>2 DEF Put
    <3>4. db'[key].type = t
      BY <1>2, <3>3 DEF TypeOK, Value
    <3> QED
      BY <2>2, <3>1, <3>2, <3>3, <3>4 DEF NameWrites
  <2>3. CASE key = ViewKey(v, k)
    <3>1. db[key].type # "zset" => db[key].by \subseteq {v}
      BY <2>3 DEF Owned
    <3>2. v \in {v} \cap (db[key].by \cup {v}) /\ db[key].by \subseteq db[key].by \cup {v}
      OBVIOUS
    <3>3. Writes(key, {v}, db[key].by \cup {v})
      BY <1>2, <1>3, <2>1, <3>1, <3>2, AddWrites
    <3> QED
      BY <2>3, <3>3 DEF ViewWrites
  <2> QED
    BY <1>2, <2>2, <2>3
<1>5. CASE SDiffMerge(v, key) \/ SInterMerge(v, key) \/ SUnionMerge(v, key)
  <2>1. PICK S \in SUBSET Sources(v), w \in BOOLEAN : Stores(S, key, "set", {"set"}, w)
    BY <1>5 DEF SDiffMerge, SInterMerge, SUnionMerge
  <2>2. S \subseteq Keys /\ UNION {db[s].by : s \in S} \subseteq {v}
    BY <2>1, SourceFacts DEF Stores
  <2>3. \A from : v \in from => /\ Writes(key, from, from)
                                /\ key \notin volatile' /\ db'[key].type \in {"set", "none"}
    <3> TAKE from
    <3> HAVE v \in from
    <3>1. UNION {db[s].by : s \in S} \subseteq from
      BY <2>2
    <3> QED
      BY <1>2, <1>3, <2>1, <2>2, <3>1, StoreWrites
  <2>4. CASE key = <<k>>
    BY <2>3, <2>4 DEF NameWrites
  <2>5. CASE key = ViewKey(v, k)
    <3>1. Writes(key, {v}, {v})
      BY <2>3
    <3> QED
      BY <2>5, <3>1 DEF ViewWrites, Writes
  <2> QED
    BY <1>2, <2>4, <2>5
<1>6. CASE ZInterMerge(v, key) \/ ZUnionMerge(v, key)
  <2>1. PICK S \in SUBSET RawSources(v), w \in BOOLEAN : Stores(S, key, "zset", {"set", "zset"}, w)
    BY <1>6 DEF ZInterMerge, ZUnionMerge
  <2>2. S \subseteq Keys /\ UNION {db[s].by : s \in S} \subseteq HeldBy(v) \cup HeldByAll
    BY <2>1, SourceFacts
  <2>3. \A own : /\ Writes(key, own, HeldBy(v) \cup HeldByAll)
                 /\ key \notin volatile' /\ db'[key].type \in {"zset", "none"}
    BY <1>2, <1>3, <2>1, <2>2, StoreWrites
  <2>4. CASE key = <<k>>
    <3>1. Writes(key, all, HeldBy(v) \cup HeldByAll)
      BY <2>3
    <3>2. Writes(key, all, all)
      BY <3>1 DEF Writes
    <3> QED
      BY <2>3, <2>4, <3>2 DEF NameWrites
  <2>5. CASE key = ViewKey(v, k)
    BY <2>3, <2>5 DEF ViewMerges
  <2> QED
    BY <1>2, <2>4, <2>5
<1> QED
  BY <1>1, <1>4, <1>5, <1>6

------------------------------------------------------------------------------
(* The invariant.                                                          *)

LEMMA StepKinds ==
    ASSUME TypeOK, Owned, Next
    PROVE  \/ /\ UNCHANGED geoVars
              /\ \E v \in Views, k \in Names : ViewWrites(v, k) \/ ViewMerges(v, k) \/ NameWrites(v, k)
           \/ UNCHANGED geoVars /\ \E key \in Keys : Expires(key)
           \/ \E c \in GeoCalls : GeoAdds(c) \/ GeoDist(c) \/ GeoDel(c)
BY CommandWrites, RawWrites DEF Next

\* What a write leaves alone, and what TypeOK says of the table after it.
LEMMA TableStep ==
    ASSUME TypeOK, NEW key \in Keys, NEW own, NEW from, Writes(key, own, from)
    PROVE  /\ db' \in [Keys -> [type : Types \cup {"none"}, by : SUBSET (Views \cup GeoCalls)]]
           /\ \A k \in Keys : db'[k].type = "none" <=> db'[k].by = {}
           /\ volatile' \subseteq Present'
           /\ \A k \in Keys : k # key => db'[k] = db[k] /\ (k \in volatile' <=> k \in volatile)
           /\ db'[key].by \subseteq from
           /\ db'[key].type # "zset" => db'[key].by \subseteq own
<1>1. PICK x \in StoredValues :
        /\ x.by \subseteq from
        /\ x.type # "zset" => x.by \subseteq own
        /\ db' = [db EXCEPT ![key] = x]
        /\ volatile' \ {key} = volatile \ {key}
        /\ key \in volatile' => x # Absent
  BY DEF Writes, Becomes
<1>2. db \in [Keys -> StoredValues]
  BY DEF TypeOK, StoredValues
<1>3. db' \in [Keys -> StoredValues] /\ db'[key] = x /\ \A k \in Keys : k # key => db'[k] = db[k]
  BY <1>1, <1>2
<1>4. /\ db' \in [Keys -> [type : Types \cup {"none"}, by : SUBSET (Views \cup GeoCalls)]]
      /\ \A k \in Keys : db'[k].type = "none" <=> db'[k].by = {}
  BY <1>3 DEF StoredValues
<1>5. volatile' \subseteq Present'
  <2>1. volatile \subseteq Present
    BY DEF TypeOK
  <2> QED
    BY <1>1, <1>3, <2>1 DEF Present
<1>6. \A k \in Keys : k # key => db'[k] = db[k] /\ (k \in volatile' <=> k \in volatile)
  BY <1>1, <1>3
<1> QED
  BY <1>1, <1>3, <1>4, <1>5, <1>6

\* Every key stays its owner's.
LEMMA OwnedStep ==
    ASSUME TypeOK, Owned
    PROVE  /\ \A v \in Views, k \in Names : ViewWrites(v, k) \/ ViewMerges(v, k) \/ NameWrites(v, k) => Owned'
           /\ \A c \in GeoCalls : GeoWrites(c) => Owned'
<1>0. \A v \in Views : {v} \cup HeldBy(v) \cup HeldByAll \subseteq Views
  <2>1. \A v \in Views : HeldBy(v) \subseteq Views
    BY DEF Owned, HeldBy
  <2>2. HeldByAll \subseteq Views
    BY DEF Owned, HeldByAll
  <2> QED
    BY <2>1, <2>2
<1>1. ASSUME NEW v \in Views, NEW k \in Names, ViewWrites(v, k) \/ ViewMerges(v, k) PROVE Owned'
  <2> DEFINE key == ViewKey(v, k)
  <2>1. key \in Keys /\ db[key].by \subseteq Views
    BY KeyTypes DEF Owned
  <2>2. /\ \A l \in Keys : l # key => db'[l] = db[l] /\ (l \in volatile' <=> l \in volatile)
        /\ db'[key].by \subseteq Views
        /\ db'[key].type # "zset" => db'[key].by \subseteq {v}
    <3>1. \E own \in SUBSET {v}, from \in SUBSET Views : Writes(key, own, from)
      <4>1. CASE ViewWrites(v, k)
        <5>1. db[key].by \cup {v} \in SUBSET Views
          BY <2>1
        <5> QED
          BY <4>1, <5>1 DEF ViewWrites
      <4>2. CASE ViewMerges(v, k)
        <5>1. HeldBy(v) \cup HeldByAll \in SUBSET Views
          BY <1>0
        <5> QED
          BY <4>2, <5>1 DEF ViewMerges
      <4> QED
        BY <1>1, <4>1, <4>2
    <3> HIDE DEF key
    <3> QED
      BY <2>1, <3>1, TableStep
  <2> QED
    BY <2>2, KeyTypes, KeysApart DEF Owned
<1>2. ASSUME NEW v \in Views, NEW k \in Names, NameWrites(v, k) PROVE Owned'
  <2>1. <<k>> \in Keys /\ <<k>> \notin volatile'
    BY <1>2, KeyTypes DEF NameWrites
  <2>2. /\ \A l \in Keys : l # <<k>> => db'[l] = db[l] /\ (l \in volatile' <=> l \in volatile)
        /\ db'[<<k>>].by \subseteq Views
    <3>1. PICK all \in SUBSET Views : Writes(<<k>>, all, all)
      BY <1>0, <1>2 DEF NameWrites
    <3> QED
      BY <2>1, <3>1, TableStep
  <2> QED
    BY <2>1, <2>2, KeyTypes, KeysApart DEF Owned
<1>3. ASSUME NEW c \in GeoCalls, GeoWrites(c) PROVE Owned'
  <2>1. GeoKey(c) \in Keys
    BY KeyTypes
  <2>2. /\ \A l \in Keys : l # GeoKey(c) => db'[l] = db[l] /\ (l \in volatile' <=> l \in volatile)
        /\ db'[GeoKey(c)].by \subseteq {c}
    BY <1>3, <2>1, TableStep DEF GeoWrites
  <2> QED
    BY <2>2, KeyTypes, KeysApart DEF Owned
<1> QED
  BY <1>1, <1>2, <1>3

\* Expiry is a write of nobody.
LEMMA ExpiryWrites ==
    ASSUME TypeOK, Owned, NEW key \in Keys, Put(key, Absent)
    PROVE  /\ \A own, from : Writes(key, own, from)
           /\ Owned' /\ db'[key] = Absent
<1>1. \A own, from : Writes(key, own, from)
  BY ValueFacts, PutWrites
<1>2. /\ db'[key] = Absent /\ \A k \in Keys : k # key => db'[k] = db[k]
      /\ volatile' \subseteq volatile
  BY DEF Put, TypeOK
<1>3. Absent.by = {}
  BY ValueFacts
<1> QED
  BY <1>1, <1>2, <1>3, KeyTypes DEF Owned

LEMMA InvInit == Init => Inv
<1> SUFFICES ASSUME Init PROVE Inv
  OBVIOUS
<1>1. /\ db = [key \in Keys |-> Absent] /\ volatile = {}
      /\ geo = [c \in GeoCalls |-> "idle"] /\ dist = [c \in GeoCalls |-> {}] /\ geoDel = {}
  BY DEF Init
<1>2. \A key \in Keys : db[key] = Absent
  BY <1>1
<1>3. TypeOK
  <2>1. db \in [Keys -> StoredValues]
    BY <1>1, ValueFacts
  <2>2. /\ db \in [Keys -> [type : Types \cup {"none"}, by : SUBSET (Views \cup GeoCalls)]]
        /\ \A key \in Keys : db[key].type = "none" <=> db[key].by = {}
    BY <2>1 DEF StoredValues
  <2> QED
    BY <1>1, <2>2 DEF TypeOK
<1>4. Owned
  BY <1>1, <1>2, KeyTypes, ValueFacts DEF Owned
<1>5. GeoIsOwn
  BY <1>1 DEF GeoIsOwn
<1> QED
  BY <1>3, <1>4, <1>5 DEF Inv

\* The geo calls' own variables.
GeoTypes ==
    /\ geo \in [GeoCalls -> {"idle", "add2", "dist", "del", "done"}]
    /\ dist \in [GeoCalls -> SUBSET GeoCalls]
    /\ geoDel \subseteq GeoCalls

LEMMA InvStep == Inv /\ [Next]_vars => Inv'
<1> SUFFICES ASSUME Inv, [Next]_vars PROVE Inv'
  OBVIOUS
<1> USE DEF GeoKey
<1>0. TypeOK /\ Owned /\ GeoIsOwn /\ GeoTypes
  BY DEF Inv, TypeOK, GeoTypes
<1>a. \A c \in GeoCalls : GeoKey(c) \in Keys /\ db[GeoKey(c)].by \subseteq {c}
  BY <1>0, KeyTypes DEF Owned
\* A write that leaves the places of the calls alone.
<1>b. ASSUME NEW key \in Keys, NEW own, NEW from, Writes(key, own, from), UNCHANGED geoVars, Owned',
             \A c \in GeoCalls : key = GeoKey(c) => db'[key] = Absent
      PROVE  Inv'
  <2>1. TypeOK'
    BY <1>0, <1>b, TableStep DEF TypeOK, geoVars
  <2>2. GeoIsOwn'
    <3>1. \A k \in Keys : k # key => db'[k] = db[k]
      BY <1>0, <1>b, TableStep
    <3> QED
      BY <1>0, <1>a, <1>b, <3>1 DEF GeoIsOwn, geoVars
  <2> QED
    BY <1>b, <2>1, <2>2 DEF Inv
<1>1. ASSUME NEW v \in Views, NEW k \in Names, ViewWrites(v, k) \/ ViewMerges(v, k) \/ NameWrites(v, k),
             UNCHANGED geoVars
      PROVE  Inv'
  <2>1. Owned'
    BY <1>0, <1>1, OwnedStep
  <2>2. \E key \in {<<k>>, ViewKey(v, k)} : \E own, from : Writes(key, own, from)
    BY <1>1 DEF ViewWrites, ViewMerges, NameWrites
  <2>3. \A key \in {<<k>>, ViewKey(v, k)} : key \in Keys /\ \A c \in GeoCalls : key # GeoKey(c)
    BY KeyTypes, KeysApart
  <2> QED
    BY <1>1, <1>b, <2>1, <2>2, <2>3
<1>2. ASSUME NEW key \in Keys, Expires(key), UNCHANGED geoVars PROVE Inv'
  <2>1. Put(key, Absent)
    BY <1>2 DEF Expires
  <2> QED
    BY <1>0, <1>2, <1>b, <2>1, ExpiryWrites
<1>3. ASSUME NEW c \in GeoCalls, GeoAdds(c) \/ GeoDist(c) \/ GeoDel(c) PROVE Inv'
  <2> DEFINE key == GeoKey(c)
  <2>0. key \in Keys /\ db[key].by \subseteq {c}
    BY <1>a
  <2>1. /\ geo[c] # "done"
        /\ \E l \in {"add2", "dist", "del", "done"} : geo' = [geo EXCEPT ![c] = l]
        /\ \A d \in GeoCalls : d # c => geo'[d] = geo[d] /\ dist'[d] = dist[d] /\ (d \in geoDel' <=> d \in geoDel)
        /\ dist'[c] \subseteq {c} /\ GeoTypes'
    <3>1. CASE GeoAdds(c)
      BY <1>0, <3>1 DEF GeoAdds, GeoGoto, GeoTypes, GeoIsOwn
    <3>2. CASE GeoDist(c)
      <4>1. geo[c] = "dist" /\ dist' = [dist EXCEPT ![c] = db[key].by] /\ geo' = [geo EXCEPT ![c] = "del"]
            /\ geoDel' = geoDel
        BY <3>2 DEF GeoDist, GeoGoto
      <4> HIDE DEF key
      <4> QED
        BY <1>0, <2>0, <4>1 DEF GeoTypes
    <3>3. CASE GeoDel(c)
      BY <1>0, <3>3 DEF GeoDel, GeoGoto, GeoTypes, GeoIsOwn
    <3> QED
      BY <1>3, <3>1, <3>2, <3>3
  <2>2. \/ /\ GeoWrites(c) /\ Owned'
           /\ geo'[c] = "done" => db'[key] = Absent
        \/ UNCHANGED dbVars /\ (geo'[c] = "done" => c \in geoDel')
    <3>1. CASE GeoAdds(c)
      <4>1. geo'[c] # "done"
        BY <1>0, <3>1 DEF GeoAdds, GeoGoto, GeoTypes
      <4>2. Adds(key, "zset", c) \/ UNCHANGED dbVars
        BY <3>1 DEF GeoAdds, GeoAdd
      <4>3. Adds(key, "zset", c) => GeoWrites(c)
        BY <1>0, <2>0, AddWrites DEF Types, GeoWrites
      <4>4. GeoWrites(c) => Owned'
        BY <1>0, OwnedStep
      <4> QED
        BY <4>1, <4>2, <4>3, <4>4
    <3>2. CASE GeoDist(c)
      BY <1>0, <3>2 DEF GeoDist, GeoGoto, GeoTypes
    <3>3. CASE GeoDel(c)
      <4>1. Put(key, Absent) \/ (UNCHANGED dbVars /\ c \in geoDel')
        BY <3>3 DEF GeoDel
      <4> QED
        BY <1>0, <2>0, <4>1, ExpiryWrites DEF GeoWrites
    <3> QED
      BY <1>3, <3>1, <3>2, <3>3
  <2> HIDE DEF key
  <2>3. TypeOK' /\ Owned' /\ \A k \in Keys : k # key => db'[k] = db[k]
    <3>1. CASE UNCHANGED dbVars
      BY <1>0, <2>1, <3>1 DEF dbVars, TypeOK, GeoTypes, Owned, Present
    <3>2. CASE GeoWrites(c) /\ Owned'
      <4>1. Writes(key, {c}, {c})
        BY <3>2 DEF GeoWrites, key
      <4> QED
        BY <1>0, <2>0, <2>1, <3>2, <4>1, TableStep DEF TypeOK, GeoTypes
    <3> QED
      BY <2>2, <3>1, <3>2
  <2>4. \A d \in GeoCalls : d # c => GeoKey(d) # key
    BY KeysApart DEF key
  <2>5. ASSUME NEW d \in GeoCalls
        PROVE  /\ dist'[d] \subseteq {d}
               /\ geo'[d] = "done" /\ d \notin geoDel' => db'[GeoKey(d)] = Absent
    <3>1. CASE d = c
      BY <2>1, <2>2, <3>1 DEF key
    <3>2. CASE d # c
      BY <1>0, <1>a, <2>1, <2>3, <2>4, <3>2 DEF GeoIsOwn
    <3> QED
      BY <3>1, <3>2
  <2> QED
    BY <2>3, <2>5 DEF Inv, GeoIsOwn
<1>4. CASE UNCHANGED vars
  BY <1>0, <1>4 DEF vars, dbVars, geoVars, Inv, TypeOK, Owned, GeoIsOwn, Present
<1> QED
  BY <1>0, <1>1, <1>2, <1>3, <1>4, StepKinds

\* Inv is an invariant of the views.
THEOREM Invariance == Spec => []Inv
<1>1. Init => Inv
  BY InvInit
<1>2. Inv /\ [Next]_vars => Inv'
  BY InvStep
<1> QED
  BY <1>1, <1>2, PTL DEF Spec

\* TypeOK is an invariant: a value is absent exactly if nobody has written it,
\* and only keys that are there have a time to live.
THEOREM TypeCorrect == Spec => []TypeOK
<1>1. Inv => TypeOK
  BY DEF Inv
<1> QED
  BY <1>1, Invariance, PTL

\* However many distances are calculated in a view at a time, each is of the
\* locations of its own call, which leaves no key unless its Del was lost.
THEOREM GeoOwn == Spec => []GeoIsOwn
<1>1. Inv => GeoIsOwn
  BY DEF Inv
<1> QED
  BY <1>1, Invariance, PTL

------------------------------------------------------------------------------
(* The refinement.                                                         *)

storeBar == [v \in Views |-> [k \in Names |-> Get(v, k)]]
sharedBar == [k \in Names |-> db[<<k>>]]
ttlBar == [v \in Views |-> {k \in Names : expandKey(v, <<k>>) \in volatile}]

\* What users see under their keys and the names are values of views.
SeenInv ==
    /\ \A v \in Views, k \in Names :
        /\ Get(v, k) = db[ViewKey(v, k)] /\ Get(v, k) \in P!Values
        /\ ViewKey(v, k) \in volatile => Get(v, k) # P!None
    /\ \A k \in Names : db[<<k>>] \in P!Values /\ <<k>> \notin volatile

LEMMA Seen == Inv => SeenInv
<1> SUFFICES ASSUME Inv PROVE SeenInv
  OBVIOUS
<1>0. TypeOK /\ Owned
  BY DEF Inv
<1>1. ASSUME NEW key \in Keys, db[key].by \subseteq Views
      PROVE  db[key] \in P!Values /\ (key \in volatile => db[key] # P!None)
  <2>1. db[key] \in StoredValues /\ (key \in volatile => db[key] # Absent)
    BY <1>0, AtKey
  <2>2. P!None = Absent /\ P!Types = Types
    BY DEF P!None, Absent, P!Types, Types
  <2>3. db[key] = Absent \/ db[key] \in [type : Types, by : (SUBSET Views) \ {{}}]
    BY <1>1, <2>1 DEF StoredValues, Absent
  <2> QED
    BY <2>1, <2>2, <2>3 DEF P!Values
<1> QED
  BY <1>0, <1>1, KeyTypes DEF SeenInv, Get, ViewKey, Owned

\* What the views have and hold.
LEMMA Bars ==
    /\ \A v \in Views, k \in Names : storeBar[v][k] = db[ViewKey(v, k)] /\ sharedBar[k] = db[<<k>>]
    /\ \A v \in Views : P!Holds(v) = HeldBy(v)
    /\ P!Shared = HeldByAll
<1>1. \A v \in Views, k \in Names : storeBar[v][k] = db[ViewKey(v, k)] /\ sharedBar[k] = db[<<k>>]
  BY DEF storeBar, sharedBar, Get, ViewKey
<1>2. \A v \in Views : P!Holds(v) = HeldBy(v)
  BY DEF P!Holds, HeldBy, Get, ViewKey
<1>3. P!Shared = HeldByAll
  BY DEF P!Shared, HeldByAll
<1> QED
  BY <1>1, <1>2, <1>3

\* A write of a key of a view changes this key in the store of this view.
LEMMA WriteChanges ==
    ASSUME Inv, SeenInv', NEW v \in Views, NEW k \in Names, NEW own, NEW from,
           Writes(ViewKey(v, k), own, from)
    PROVE  /\ P!Changes(v, k)
           /\ storeBar'[v][k] = db'[ViewKey(v, k)]
           /\ k \in ttlBar'[v] <=> ViewKey(v, k) \in volatile'
<1> DEFINE key == ViewKey(v, k)
<1>0. key \in Keys /\ \A l \in Keys : l # key => db'[l] = db[l] /\ (l \in volatile' <=> l \in volatile)
  BY KeyTypes, TableStep DEF Inv
<1>1. ASSUME NEW u \in Views, NEW l \in Names, u # v \/ l # k
      PROVE  Get(u, l)' = Get(u, l) /\ (ViewKey(u, l) \in volatile' <=> ViewKey(u, l) \in volatile)
  BY <1>0, <1>1, KeyTypes, KeysApart DEF Get, ViewKey
<1>2. Get(v, k)' \in P!Values /\ (key \in volatile' => Get(v, k)' # P!None) /\ Get(v, k)' = db'[key]
  BY DEF SeenInv
<1>3. storeBar' = [storeBar EXCEPT ![v][k] = storeBar'[v][k]]
  <2>1. \A u \in Views : u # v => storeBar'[u] = storeBar[u]
    BY <1>1 DEF storeBar
  <2>2. storeBar'[v] = [storeBar[v] EXCEPT ![k] = storeBar'[v][k]]
    BY <1>1 DEF storeBar
  <2>3. storeBar' = [u \in Views |-> storeBar'[u]] /\ storeBar = [u \in Views |-> storeBar[u]]
    BY DEF storeBar
  <2> HIDE DEF storeBar
  <2> QED
    BY <2>1, <2>2, <2>3
<1>4. ttlBar' = [ttlBar EXCEPT ![v] = (@ \ {k}) \cup (ttlBar'[v] \cap {k})]
  BY <1>1 DEF ttlBar, ViewKey
<1>5. storeBar'[v][k] = Get(v, k)' /\ (k \in ttlBar'[v] <=> key \in volatile')
  BY DEF storeBar, ttlBar, ViewKey
<1>6. sharedBar' = sharedBar
  BY <1>0, KeyTypes, KeysApart DEF sharedBar
<1> QED
  BY <1>2, <1>3, <1>4, <1>5, <1>6 DEF P!Changes, storeBar, sharedBar, ttlBar

\* A command, a merge, and a write under a name are those of the stores.
LEMMA WriteIsCommand ==
    ASSUME Inv, SeenInv', NEW v \in Views, NEW k \in Names
    PROVE  /\ ViewWrites(v, k) => P!Command(v, k)
           /\ ViewMerges(v, k) => P!Merge(v, k)
           /\ NameWrites(v, k) => P!Share(v, k)
<1> DEFINE key == ViewKey(v, k)
<1>0. TypeOK /\ key \in Keys /\ <<k>> \in Keys /\ storeBar[v][k] = db[key]
  BY KeyTypes, Bars DEF Inv
<1>1. ASSUME ViewWrites(v, k) PROVE P!Command(v, k)
  <2>1. Writes(key, {v}, db[key].by \cup {v})
    BY <1>1 DEF ViewWrites
  <2>2. db'[key].by \subseteq db[key].by \cup {v} /\ (db'[key].type # "zset" => db'[key].by \subseteq {v})
    BY <1>0, <2>1, TableStep
  <2>3. P!Changes(v, k) /\ storeBar'[v][k] = db'[key]
    BY <2>1, WriteChanges
  <2> QED
    BY <1>0, <2>2, <2>3 DEF P!Command, storeBar
<1>2. ASSUME ViewMerges(v, k) PROVE P!Merge(v, k)
  <2>1. Writes(key, {}, HeldBy(v) \cup HeldByAll) /\ key \notin volatile'
    BY <1>2 DEF ViewMerges
  <2>2. db'[key].by \subseteq HeldBy(v) \cup HeldByAll /\ (db'[key].type # "zset" => db'[key].by = {})
    BY <1>0, <2>1, TableStep
  <2>3. db'[key].type = "none" <=> db'[key].by = {}
    BY <1>0, <2>1, TableStep
  <2>4. P!Changes(v, k) /\ storeBar'[v][k] = db'[key] /\ k \notin ttlBar'[v]
    BY <2>1, WriteChanges
  <2> QED
    BY <2>2, <2>3, <2>4, Bars DEF P!Merge, storeBar, ttlBar
<1>3. ASSUME NameWrites(v, k) PROVE P!Share(v, k)
  <2> DEFINE all == {v} \cup HeldBy(v) \cup HeldByAll
  <2>1. /\ Writes(<<k>>, all, all)
        /\ db'[<<k>>].type \in {"set", "zset", "stream", "none"}
    BY <1>3 DEF NameWrites
  <2>2. /\ \A l \in Keys : l # <<k>> => db'[l] = db[l] /\ (l \in volatile' <=> l \in volatile)
        /\ db'[<<k>>].by \subseteq all
    BY <1>0, <2>1, TableStep
  <2>3. storeBar' = storeBar /\ ttlBar' = ttlBar
    BY <2>2, KeyTypes, KeysApart DEF storeBar, ttlBar, Get, ViewKey
  <2>4. sharedBar' = [sharedBar EXCEPT ![k] = sharedBar'[k]] /\ sharedBar'[k] = db'[<<k>>]
    <3>1. \A l \in Names : l # k => sharedBar'[l] = sharedBar[l]
      BY <2>2, KeyTypes DEF sharedBar
    <3> QED
      BY <3>1 DEF sharedBar
  <2>5. db'[<<k>>] \in P!Values
    BY DEF SeenInv
  <2> QED
    BY <2>1, <2>2, <2>3, <2>4, <2>5, Bars DEF P!Share, storeBar, sharedBar, ttlBar
<1> QED
  BY <1>1, <1>2, <1>3

\* What happens to the key of a distance is not seen by any view.
LEMMA GeoIsHidden ==
    ASSUME Inv, NEW c \in GeoCalls, NEW own, NEW from, Writes(GeoKey(c), own, from)
    PROVE  UNCHANGED <<storeBar, sharedBar, ttlBar>>
<1>1. \A l \in Keys : l # GeoKey(c) => db'[l] = db[l] /\ (l \in volatile' <=> l \in volatile)
  BY KeyTypes, TableStep DEF Inv
<1> QED
  BY <1>1, KeyTypes, KeysApart DEF storeBar, sharedBar, ttlBar, Get, ViewKey

\* The views implement private stores and a shared one: for every set of views
\* no prefix of which begins another, whatever the commands, merges, expiries
\* and distances do.
THEOREM Refinement == Spec => ImplementsPrivateStores
<1>1. Init => P!Init
  <2> SUFFICES ASSUME Init PROVE P!Init
    OBVIOUS
  <2>0. \A key \in Keys : db[key] = P!None
    BY DEF Init, Absent, P!None
  <2>1. /\ \A v \in Views, k \in Names : Get(v, k) = P!None
        /\ \A k \in Names : db[<<k>>] = P!None
    BY <2>0, KeyTypes DEF Get, ViewKey
  <2>2. volatile = {}
    BY DEF Init
  <2> QED
    BY <2>1, <2>2 DEF P!Init
<1>2. Inv /\ SeenInv' /\ [Next]_vars => [P!Next]_<<storeBar, sharedBar, ttlBar>>
  <2> SUFFICES ASSUME Inv, SeenInv', [Next]_vars PROVE P!Next \/ UNCHANGED <<storeBar, sharedBar, ttlBar>>
    OBVIOUS
  <2>0. TypeOK /\ Owned
    BY DEF Inv
  <2>1. CASE UNCHANGED dbVars
    BY <2>1 DEF dbVars, storeBar, sharedBar, ttlBar, Get
  <2>2. ASSUME NEW key \in Keys, Expires(key)
        PROVE  P!Next \/ UNCHANGED <<storeBar, sharedBar, ttlBar>>
    <3>1. key \in volatile /\ \A own, from : Writes(key, own, from)
      BY <2>0, <2>2, ExpiryWrites DEF Expires
    <3>2. CASE \E v \in Views, k \in Names : key = ViewKey(v, k)
      <4>1. PICK v \in Views, k \in Names : key = ViewKey(v, k)
        BY <3>2
      <4>2. ViewWrites(v, k)
        BY <3>1, <4>1 DEF ViewWrites
      <4> QED
        BY <4>2, WriteIsCommand DEF P!Next
    <3>3. CASE \E c \in GeoCalls : key = GeoKey(c)
      BY <3>1, <3>3, GeoIsHidden
    <3>4. ~ \E k \in Names : key = <<k>>
      BY <2>0, <3>1 DEF Owned
    <3>5. \/ \E k \in Names : key = <<k>>
          \/ \E v \in Views, k \in Names : key = ViewKey(v, k)
          \/ \E c \in GeoCalls : key = GeoKey(c)
      BY <2>2 DEF Keys, ViewKey, GeoKey, geoKey
    <3> QED
      BY <3>2, <3>3, <3>4, <3>5
  <2>3. ASSUME NEW c \in GeoCalls, GeoAdds(c) \/ GeoDist(c) \/ GeoDel(c)
        PROVE  UNCHANGED dbVars \/ GeoWrites(c)
    <3>0. GeoKey(c) \in Keys /\ db[GeoKey(c)].by \subseteq {c}
      BY <2>0, KeyTypes DEF Owned
    <3>1. CASE GeoAdds(c)
      <4>1. Adds(GeoKey(c), "zset", c) \/ UNCHANGED dbVars
        BY <3>1 DEF GeoAdds, GeoAdd, GeoKey
      <4> QED
        BY <2>0, <3>0, <4>1, AddWrites DEF Types, GeoWrites
    <3>2. CASE GeoDist(c)
      BY <3>2 DEF GeoDist
    <3>3. CASE GeoDel(c)
      <4>1. Put(GeoKey(c), Absent) \/ UNCHANGED dbVars
        BY <3>3 DEF GeoDel, GeoKey
      <4> QED
        BY <2>0, <3>0, <4>1, ExpiryWrites DEF GeoWrites
    <3> QED
      BY <2>3, <3>1, <3>2, <3>3
  <2>4. CASE UNCHANGED vars
    BY <2>1, <2>4 DEF vars
  <2>5. ASSUME NEW v \in Views, NEW k \in Names, ViewWrites(v, k) \/ ViewMerges(v, k) \/ NameWrites(v, k)
        PROVE  P!Next
    BY <2>5, WriteIsCommand DEF P!Next
  <2>6. ASSUME NEW c \in GeoCalls, GeoWrites(c) PROVE UNCHANGED <<storeBar, sharedBar, ttlBar>>
    BY <2>6, GeoIsHidden DEF GeoWrites
  <2> QED
    BY <2>0, <2>1, <2>2, <2>3, <2>4, <2>5, <2>6, StepKinds
<1> QED
  BY <1>1, <1>2, Seen, Invariance, PTL DEF Spec, P!Spec, ImplementsPrivateStores, storeBar, sharedBar, ttlBar

------------------------------------------------------------------------------
(* RetryNotification.                                                      *)

\* A node in a try owns the lock of the payload's value.
HolderInv == \A n \in Nodes : InTry(n) => lockOf[cur[n].value] = {Owner(n)}

\* A payload put back to Redis has a delay in policies.
PutInv == \A n \in Nodes : pc[n] = "put" => cur[n].count < Policies

RetryInv == RetryTypeOK /\ HolderInv /\ PutInv

------------------------------------------------------------------------------
\* What lock and Redis hold has its type.
LEMMA RedisTypes ==
    /\ {} \in Locks
    /\ \A n \in Nodes, r \in Routines : {<<n, r>>} \in Locks
    /\ \A v \in Values : [value |-> v, count |-> 0] \in Timer \cap Payload
    /\ \A p \in Payload : p.value \in Values /\ (p.count < Policies => p \in Timer)
    /\ \A p \in Timer : [value |-> Decoded(p.value), count |-> p.count + 1] \in Payload
<1>1. Policies \in Nat \ {0} /\ \A v \in Values : Decoded(v) \in Values
  BY NotificationAssumption DEF Decoded
<1>2. {} \in Locks /\ \A n \in Nodes, r \in Routines : {<<n, r>>} \in Locks
  BY DEF Locks
<1>3. /\ \A v \in Values : [value |-> v, count |-> 0] \in Timer \cap Payload
      /\ \A p \in Payload : p.value \in Values /\ (p.count < Policies => p \in Timer)
  BY <1>1 DEF Timer, Payload
<1>4. ASSUME NEW p \in Timer
      PROVE  [value |-> Decoded(p.value), count |-> p.count + 1] \in Payload
  BY <1>1 DEF Timer, Payload
<1> QED
  BY <1>2, <1>3, <1>4

\* The bounds on puts and faults are kept by whoever counts them up.
LEMMA Counts ==
    /\ 0 \in 0 .. MaxPuts /\ 0 \in 0 .. MaxFaults
    /\ \A k \in 0 .. MaxPuts : k < MaxPuts => k + 1 \in 0 .. MaxPuts
    /\ \A k \in 0 .. MaxFaults : k < MaxFaults => k + 1 \in 0 .. MaxFaults
BY NotificationAssumption

\* The subscribed nodes of the initial state hold nothing and try nothing.
LEMMA RetryInvInit == RetryInit => RetryInv
<1> SUFFICES ASSUME RetryInit PROVE RetryInv
  OBVIOUS
<1>1. (CHOOSE v \in Values : TRUE) \in Values
  BY NotificationAssumption
<1>2. [value |-> CHOOSE v \in Values : TRUE, count |-> 0] \in Payload
  BY <1>1, RedisTypes
<1>3. inbox \in [Nodes -> Seq(Timer)]
  BY DEF RetryInit
<1>4. RetryTypeOK
  BY <1>2, <1>3, RedisTypes, Counts DEF RetryInit, RetryTypeOK, PcStates
<1>5. HolderInv /\ PutInv
  BY DEF RetryInit, HolderInv, PutInv, InTry
<1> QED
  BY <1>4, <1>5 DEF RetryInv

\* The lock of a value names one node, so two nodes in a try work on two values.
LEMMA HolderIsUnique == HolderInv => OneHandlerPerValue
<1> SUFFICES ASSUME HolderInv, NEW m \in Nodes, NEW n \in Nodes, InTry(m), InTry(n),
                    cur[m].value = cur[n].value
             PROVE  m = n
  BY DEF OneHandlerPerValue
<1>1. {Owner(m)} = {Owner(n)}
  BY DEF HolderInv
<1>2. Owner(m) = Owner(n)
  BY <1>1, Zenon
<1> QED
  BY <1>2 DEF Owner

\* A step of one node that leaves the locks and the other nodes alone keeps
\* HolderInv, if the node itself is in a try only with its own lock.
LEMMA NodeMoves ==
    ASSUME RetryTypeOK, HolderInv, NEW n \in Nodes, NEW l \in PcStates,
           Goto(n, l), UNCHANGED <<lockOf, routine>>,
           \A m \in Nodes \ {n} : cur'[m] = cur[m],
           l \in {"handler", "put", "unlock"} => lockOf[cur'[n].value] = {Owner(n)}
    PROVE  HolderInv'
BY DEF RetryTypeOK, HolderInv, InTry, Owner, Goto

\* Every step keeps the types.
LEMMA TypeStep == RetryInv /\ [RetryNext]_retryVars => RetryTypeOK'
<1> SUFFICES ASSUME RetryInv, [RetryNext]_retryVars PROVE RetryTypeOK'
  OBVIOUS
<1>0. RetryTypeOK /\ HolderInv /\ PutInv
  BY DEF RetryInv
<1>a. ASSUME NEW n \in Nodes, NEW l \in PcStates, Goto(n, l)
      PROVE  pc' \in [Nodes -> PcStates]
  BY <1>0, <1>a DEF RetryTypeOK, Goto
<1>b. ASSUME Fault PROVE faults' \in 0 .. MaxFaults
  BY <1>0, <1>b, Counts DEF RetryTypeOK, Fault
<1>c. \A n \in Nodes : cur[n] \in Payload /\ {Owner(n)} \in Locks
  BY <1>0, RedisTypes DEF RetryTypeOK, Owner
<1>1. ASSUME NEW v \in Values, PutFresh(v) PROVE RetryTypeOK'
  BY <1>0, <1>1, RedisTypes, Counts DEF RetryTypeOK, PutFresh, PutNotification, nodeVars
<1>2. ASSUME NEW p \in timers, ExpireTimer(p) PROVE RetryTypeOK'
  <2>1. \A n \in Nodes : inbox[n] \in Seq(Timer) /\ Append(inbox[n], p) \in Seq(Timer)
    BY <1>0 DEF RetryTypeOK
  <2> QED
    BY <1>0, <1>2, <2>1 DEF RetryTypeOK, ExpireTimer
<1>3. ASSUME NEW n \in Nodes, Receive(n) PROVE RetryTypeOK'
  <2>1. inbox[n] \in Seq(Timer) /\ inbox[n] # <<>>
    BY <1>0, <1>3 DEF RetryTypeOK, Receive
  <2>2. Head(inbox[n]) \in Timer /\ Tail(inbox[n]) \in Seq(Timer)
    BY <2>1
  <2>3. cur' \in [Nodes -> Payload]
    BY <1>0, <1>3, <2>2, RedisTypes DEF RetryTypeOK, Receive
  <2>4. inbox' \in [Nodes -> Seq(Timer)]
    BY <1>0, <1>3, <2>2 DEF RetryTypeOK, Receive
  <2>5. pc' \in [Nodes -> PcStates]
    BY <1>3, <1>a DEF Receive, PcStates
  <2> QED
    BY <1>0, <1>3, <2>3, <2>4, <2>5 DEF RetryTypeOK, Receive, redisVars
<1>4. ASSUME NEW n \in Nodes, LockSetNX(n) PROVE RetryTypeOK'
  <2>1. lockOf' \in [Values -> Locks]
    BY <1>0, <1>4, <1>c DEF RetryTypeOK, LockSetNX
  <2>2. pc' \in [Nodes -> PcStates]
    BY <1>4, <1>a DEF LockSetNX, PcStates
  <2> QED
    BY <1>0, <1>4, <2>1, <2>2 DEF RetryTypeOK, LockSetNX
<1>5. ASSUME NEW n \in Nodes, LockGet(n) PROVE RetryTypeOK'
  BY <1>0, <1>5 DEF RetryTypeOK, LockGet, Goto, PcStates, redisVars
<1>6. ASSUME NEW n \in Nodes, HandlerReturns(n) PROVE RetryTypeOK'
  BY <1>0, <1>6 DEF RetryTypeOK, HandlerReturns, Goto, PcStates, redisVars
<1>7. ASSUME NEW n \in Nodes, PutNext(n) PROVE RetryTypeOK'
  <2>1. timers' \subseteq Timer
    BY <1>0, <1>7, <1>c, RedisTypes DEF RetryTypeOK, PutNext, PutNotification, PutInv
  <2>2. pc' \in [Nodes -> PcStates]
    BY <1>7, <1>a DEF PutNext, PcStates
  <2> QED
    BY <1>0, <1>7, <1>b, <2>1, <2>2 DEF RetryTypeOK, PutNext
<1>8. ASSUME NEW n \in Nodes, Unlock(n) PROVE RetryTypeOK'
  <2>1. lockOf' \in [Values -> Locks]
    BY <1>0, <1>8, RedisTypes DEF RetryTypeOK, Unlock
  <2>2. pc' \in [Nodes -> PcStates]
    BY <1>8, <1>a DEF Unlock, PcStates
  <2> QED
    BY <1>0, <1>8, <1>b, <2>1, <2>2 DEF RetryTypeOK, Unlock
<1>9. ASSUME NEW n \in Nodes, LockSetNXFails(n) PROVE RetryTypeOK'
  <2>1. lockOf' \in [Values -> Locks]
    BY <1>0, <1>9, <1>c DEF RetryTypeOK, LockSetNXFails
  <2>2. pc' \in [Nodes -> PcStates]
    BY <1>9, <1>a DEF LockSetNXFails, PcStates
  <2> QED
    BY <1>0, <1>9, <1>b, <2>1, <2>2 DEF RetryTypeOK, LockSetNXFails
<1>10. ASSUME NEW n \in Nodes, LockGetFails(n) PROVE RetryTypeOK'
  <2>1. pc' \in [Nodes -> PcStates]
    BY <1>10, <1>a DEF LockGetFails, PcStates
  <2> QED
    BY <1>0, <1>10, <1>b, <2>1 DEF RetryTypeOK, LockGetFails, redisVars
<1>11. ASSUME NEW n \in Nodes, LoseEvent(n) PROVE RetryTypeOK'
  <2>1. inbox[n] \in Seq(Timer) /\ inbox[n] # <<>>
    BY <1>0, <1>11 DEF RetryTypeOK, LoseEvent
  <2>2. Tail(inbox[n]) \in Seq(Timer)
    BY <2>1
  <2> QED
    BY <1>0, <1>11, <1>b, <2>2 DEF RetryTypeOK, LoseEvent, redisVars
<1>12. ASSUME NEW n \in Nodes, Crash(n) PROVE RetryTypeOK'
  <2>1. pc' \in [Nodes -> PcStates]
    BY <1>12, <1>a DEF Crash, PcStates
  <2>2. inbox' \in [Nodes -> Seq(Timer)]
    BY <1>0, <1>12 DEF RetryTypeOK, Crash
  <2> QED
    BY <1>0, <1>12, <1>b, <2>1, <2>2 DEF RetryTypeOK, Crash, redisVars
<1>13. ASSUME NEW n \in Nodes, Restart(n) PROVE RetryTypeOK'
  BY <1>0, <1>13 DEF RetryTypeOK, Restart, Goto, PcStates, redisVars
<1>14. CASE UNCHANGED retryVars
  BY <1>0, <1>14 DEF RetryTypeOK, retryVars, redisVars, nodeVars
<1> QED
  BY <1>1, <1>2, <1>3, <1>4, <1>5, <1>6, <1>7, <1>8, <1>9, <1>10, <1>11, <1>12,
     <1>13, <1>14 DEF RetryNext, SubscribeStep

\* Every step leaves the lock of a payload that is being worked on with the
\* node that works on it.
LEMMA HolderStep == RetryInv /\ [RetryNext]_retryVars => HolderInv'
<1> SUFFICES ASSUME RetryInv, [RetryNext]_retryVars PROVE HolderInv'
  OBVIOUS
<1>0. RetryTypeOK /\ HolderInv /\ PutInv
  BY DEF RetryInv
<1>1. ASSUME NEW v \in Values, PutFresh(v) PROVE HolderInv'
  BY <1>0, <1>1 DEF HolderInv, InTry, Owner, PutFresh, nodeVars
<1>2. ASSUME NEW p \in timers, ExpireTimer(p) PROVE HolderInv'
  BY <1>0, <1>2 DEF HolderInv, InTry, Owner, ExpireTimer
<1>3. ASSUME NEW n \in Nodes, Receive(n) PROVE HolderInv'
  <2>1. \A m \in Nodes \ {n} : cur'[m] = cur[m]
    BY <1>0, <1>3 DEF Receive, RetryTypeOK
  <2> QED
    BY <1>0, <1>3, <2>1, NodeMoves DEF Receive, PcStates, redisVars
<1>4. ASSUME NEW n \in Nodes, LockSetNX(n) PROVE HolderInv'
  <2>1. CASE lockOf[cur[n].value] = {}
    BY <1>0, <1>4, <2>1 DEF RetryTypeOK, Payload, HolderInv, InTry, Owner, LockSetNX, Goto
  <2>2. CASE lockOf[cur[n].value] # {}
    BY <1>0, <1>4, <2>2, NodeMoves DEF LockSetNX, PcStates
  <2> QED
    BY <2>1, <2>2
<1>5. ASSUME NEW n \in Nodes, LockGet(n) PROVE HolderInv'
  BY <1>0, <1>5, NodeMoves DEF LockGet, PcStates, redisVars
<1>6. ASSUME NEW n \in Nodes, HandlerReturns(n) PROVE HolderInv'
  <2>1. lockOf[cur[n].value] = {Owner(n)}
    BY <1>0, <1>6 DEF HolderInv, InTry, HandlerReturns
  <2> QED
    BY <1>0, <1>6, <2>1, NodeMoves DEF HandlerReturns, PcStates, redisVars
<1>7. ASSUME NEW n \in Nodes, PutNext(n) PROVE HolderInv'
  BY <1>0, <1>7, NodeMoves DEF PutNext, PcStates
<1>8. ASSUME NEW n \in Nodes, Unlock(n) PROVE HolderInv'
  <2>1. InTry(n) /\ \A m \in Nodes \ {n} : InTry(m) => cur[m].value # cur[n].value
    BY <1>0, <1>8, HolderIsUnique DEF OneHandlerPerValue, InTry, Unlock
  <2> QED
    BY <1>0, <1>8, <2>1 DEF RetryTypeOK, Payload, HolderInv, InTry, Owner, Unlock, Goto
<1>9. ASSUME NEW n \in Nodes, LockSetNXFails(n) PROVE HolderInv'
  <2>1. CASE UNCHANGED lockOf
    BY <1>0, <1>9, <2>1, NodeMoves DEF LockSetNXFails, PcStates
  <2>2. CASE lockOf[cur[n].value] = {}
    BY <1>0, <1>9, <2>2 DEF RetryTypeOK, Payload, HolderInv, InTry, Owner, LockSetNXFails, Goto
  <2> QED
    BY <1>9, <2>1, <2>2 DEF LockSetNXFails
<1>10. ASSUME NEW n \in Nodes, LockGetFails(n) PROVE HolderInv'
  BY <1>0, <1>10, NodeMoves DEF LockGetFails, PcStates, redisVars
<1>11. ASSUME NEW n \in Nodes, LoseEvent(n) PROVE HolderInv'
  BY <1>0, <1>11 DEF HolderInv, InTry, Owner, LoseEvent, redisVars
<1>12. ASSUME NEW n \in Nodes, Crash(n) PROVE HolderInv'
  BY <1>0, <1>12, NodeMoves DEF Crash, PcStates, redisVars
<1>13. ASSUME NEW n \in Nodes, Restart(n) PROVE HolderInv'
  BY <1>0, <1>13 DEF RetryTypeOK, HolderInv, InTry, Owner, Restart, Goto, redisVars
<1>14. CASE UNCHANGED retryVars
  BY <1>0, <1>14 DEF HolderInv, InTry, Owner, retryVars, redisVars, nodeVars
<1> QED
  BY <1>1, <1>2, <1>3, <1>4, <1>5, <1>6, <1>7, <1>8, <1>9, <1>10, <1>11, <1>12,
     <1>13, <1>14 DEF RetryNext, SubscribeStep

\* Only HandlerReturns leads to a put, and it looks at the count first.
LEMMA PutStep == RetryInv /\ [RetryNext]_retryVars => PutInv'
<1> SUFFICES ASSUME RetryInv, [RetryNext]_retryVars PROVE PutInv'
  OBVIOUS
<1>0. RetryTypeOK /\ PutInv
  BY DEF RetryInv
<1>1. ASSUME NEW n \in Nodes, NEW l \in PcStates \ {"put"}, Goto(n, l),
             \A m \in Nodes \ {n} : cur'[m] = cur[m]
      PROVE  PutInv'
  BY <1>0, <1>1 DEF RetryTypeOK, PutInv, Goto
<1>2. ASSUME NEW n \in Nodes, HandlerReturns(n) PROVE PutInv'
  BY <1>0, <1>2 DEF RetryTypeOK, PutInv, HandlerReturns, Goto
<1>3. ASSUME NEW n \in Nodes, Receive(n) PROVE PutInv'
  <2>1. \A m \in Nodes \ {n} : cur'[m] = cur[m]
    BY <1>0, <1>3 DEF Receive, RetryTypeOK
  <2> QED
    BY <1>1, <1>3, <2>1 DEF Receive, PcStates
<1>4. ASSUME NEW n \in Nodes,
             \/ LockSetNX(n) \/ LockGet(n) \/ PutNext(n) \/ Unlock(n)
             \/ LockSetNXFails(n) \/ LockGetFails(n) \/ Crash(n) \/ Restart(n)
      PROVE  PutInv'
  BY <1>1, <1>4 DEF LockSetNX, LockGet, PutNext, Unlock, LockSetNXFails, LockGetFails,
     Crash, Restart, PcStates
<1>5. CASE UNCHANGED <<pc, cur>>
  BY <1>0, <1>5 DEF PutInv
<1> QED
  BY <1>2, <1>3, <1>4, <1>5 DEF RetryNext, SubscribeStep, PutFresh, ExpireTimer, LoseEvent, retryVars, nodeVars

------------------------------------------------------------------------------
(* What follows for every behaviour.                                       *)

\* RetryInv holds throughout every behaviour.
THEOREM RetryInvariance == RetrySpec => []RetryInv
<1>1. RetryInv /\ [RetryNext]_retryVars => RetryInv'
  BY TypeStep, HolderStep, PutStep DEF RetryInv
<1> QED
  BY RetryInvInit, <1>1, PTL DEF RetrySpec

\* All types are kept; above all, PutNotification never indexes policies past
\* its end, however often a payload is retried.
THEOREM RetryTypeCorrect == RetrySpec => []RetryTypeOK
<1>1. RetryInv => RetryTypeOK
  BY DEF RetryInv
<1> QED
  BY <1>1, RetryInvariance, PTL

\* No two nodes run handlers of one value at a time, through crashes, restarts
\* under a new goroutine id, lost answers of SetNX and lost events.
THEOREM MutualExclusion == RetrySpec => []OneHandlerPerValue
<1>1. RetryInv => OneHandlerPerValue
  BY HolderIsUnique DEF RetryInv
<1> QED
  BY <1>1, RetryInvariance, PTL

\* A lock is deleted by its holder only.
THEOREM LocksAreSafe == RetrySpec => OnlyHolderUnlocks
<1> DEFINE Frees == \A v \in Values :
                lockOf[v] # {} /\ lockOf'[v] # lockOf[v] =>
                    \E n \in Nodes : pc[n] = "unlock" /\ lockOf[v] = {Owner(n)}
<1>1. RetryInv /\ [RetryNext]_retryVars => [Frees]_retryVars
  <2> SUFFICES ASSUME RetryInv, RetryNext, NEW v \in Values, lockOf[v] # {}, lockOf'[v] # lockOf[v]
               PROVE  \E n \in Nodes : pc[n] = "unlock" /\ lockOf[v] = {Owner(n)}
    OBVIOUS
  <2>0. lockOf' # lockOf /\ RetryTypeOK /\ HolderInv
    BY DEF RetryInv
  <2>1. PICK n \in Nodes : LockSetNX(n) \/ LockSetNXFails(n) \/ Unlock(n)
    BY <2>0 DEF RetryNext, SubscribeStep, PutFresh, ExpireTimer, Receive, LockGet, HandlerReturns,
       PutNext, LockGetFails, LoseEvent, Crash, Restart, redisVars, nodeVars
  <2>2. CASE LockSetNX(n) \/ LockSetNXFails(n)
    BY <2>0, <2>2 DEF RetryTypeOK, Payload, LockSetNX, LockSetNXFails
  <2>3. CASE Unlock(n)
    <3>1. v = cur[n].value
      BY <2>0, <2>3 DEF RetryTypeOK, Payload, Unlock
    <3> QED
      BY <2>0, <2>3, <3>1 DEF HolderInv, InTry, Unlock
  <2> QED
    BY <2>1, <2>2, <2>3
<1> QED
  BY <1>1, RetryInvariance, PTL DEF RetrySpec, OnlyHolderUnlocks

===============================================================================
