------------------------------- MODULE Globals -------------------------------
(***************************************************************************)
(* The package variables a process is set up with, and the goroutines that *)
(* call Init and the getters: config of libs/conf, Log of libs/logs,       *)
(* redisCon of libs/redis and dbConn of libs/databases.  No lock guards    *)
(* any of them; conf.Get and logs.GetLogger initialise on first use.       *)
(* External: the file, and the libraries that make loggers and clients.    *)
(***************************************************************************)
EXTENDS Naturals, FiniteSets

CONSTANTS
    Callers,     \* goroutines
    Keys,        \* top-level keys a configuration file may have
    Global,      \* the key of the table that Init requires
    Settings,    \* configurations of a client: [ok, many, opens : BOOLEAN], see below
    MaxCalls,    \* bound: calls of the goroutines together
    Nil, Broken, \* no value; a file that cannot be read or parsed
    Raced        \* mark of Inits of a package that overlapped

ASSUME GlobalsAssumption ==
    /\ Global \in Keys /\ MaxCalls \in Nat
    /\ Settings \subseteq [ok : BOOLEAN, many : BOOLEAN, opens : BOOLEAN]

VARIABLES
    file,      \* what runConfig names: Broken or the set of its keys
    config,    \* Nil, or the keys that are in the map
    env,       \* the three environment variables are set
    con,       \* Log, redisCon and dbConn: Nil or what was made
    gpc, arg,  \* the step a goroutine is at and the argument of its call
    calls,     \* calls begun
    promised,  \* history: what a package's last Init set, if it ran alone
    got        \* history: what the last call of a getter returned, and what was due

globalVars == <<file, config, env, con, gpc, arg, calls, promised, got>>

Packages == {"conf", "log", "redis", "db"}

InitSteps ==
    [conf  |-> {"conf.make", "conf.decode", "conf.check"},
     log   |-> {"log.default"},
     redis |-> {"redis.cluster", "redis.single", "redis.return"},
     db    |-> {"db.group", "db.single", "db.return"}]

InInit(p) == {c \in Callers : gpc[c] \in InitSteps[p]}

GlobalsInit ==
    /\ file \in {Broken} \cup SUBSET Keys
    /\ config = Nil /\ env = FALSE
    /\ con = [p \in Packages \ {"conf"} |-> Nil]
    /\ gpc = [c \in Callers |-> "idle"]
    /\ arg = [c \in Callers |-> Nil]
    /\ calls = 0
    /\ promised = [p \in Packages |-> Nil]
    /\ got = Nil

------------------------------------------------------------------------------
Begin(c, a) ==
    /\ gpc[c] = "idle" /\ calls < MaxCalls
    /\ calls' = calls + 1
    /\ arg' = [arg EXCEPT ![c] = a]

Goto(c, step) == gpc' = [gpc EXCEPT ![c] = step]

\* An Init under way promises nothing; what it set counts from its end, when
\* no other Init of the package overlapped it.
Unpromise(p) ==
    promised' = [promised EXCEPT ![p] = IF InInit(p) = {} THEN Nil ELSE Raced]
Promise(c, p, v) ==
    promised' = [promised EXCEPT ![p] =
        IF InInit(p) \ {c} # {} \/ (c \in InInit(p) /\ @ = Raced) THEN Raced ELSE v]

Got(v, due) == got' = [value |-> v, due |-> due]

\* libs/conf: Init, called by the application (arg Nil) or by the first Get.
ConfInit(c) ==
    /\ Begin(c, Nil) /\ Goto(c, "conf.make") /\ Unpromise("conf")
    /\ UNCHANGED <<file, config, env, con, got>>

ConfMake(c) ==
    /\ gpc[c] = "conf.make"
    /\ config' = {}
    /\ Goto(c, "conf.decode")
    /\ UNCHANGED <<file, env, con, arg, calls, promised, got>>

\* DecodeFile puts the keys into the map that config is at that moment; of a
\* file it cannot parse it puts none, and Init panics with the map empty.
ConfDecode(c) ==
    /\ gpc[c] = "conf.decode"
    /\ \/ /\ file = Broken
          /\ Goto(c, "idle") /\ UNCHANGED config
       \/ /\ file # Broken
          /\ \E k \in file \ config : config' = config \cup {k}
          /\ UNCHANGED gpc
       \/ /\ file # Broken /\ file \subseteq config
          /\ Goto(c, "conf.check") /\ UNCHANGED config
    /\ UNCHANGED <<file, env, con, arg, calls, promised, got>>

\* Without the global table, or one of its three strings, Init panics and the
\* configuration stays.
ConfCheck(c) ==
    /\ gpc[c] = "conf.check"
    /\ Goto(c, IF Global \in config /\ arg[c] # Nil THEN "conf.read" ELSE "idle")
    /\ env' = (env \/ Global \in config)
    /\ Promise(c, "conf", IF Global \in config THEN file ELSE Nil)
    /\ UNCHANGED <<file, config, con, arg, calls, got>>

ConfGet(c) ==
    /\ \E k \in Keys : Begin(c, k)
    /\ Goto(c, IF config = Nil THEN "conf.make" ELSE "conf.read")
    /\ IF config = Nil THEN Unpromise("conf") ELSE UNCHANGED promised
    /\ UNCHANGED <<file, config, env, con, got>>

Found(k, keys) == [found |-> k \in keys]

ConfRead(c) ==
    /\ gpc[c] = "conf.read"
    /\ Goto(c, "idle")
    /\ Got(Found(arg[c], config),
           IF promised["conf"] \in {Nil, Raced} THEN Nil ELSE Found(arg[c], promised["conf"]))
    /\ UNCHANGED <<file, config, env, con, arg, calls, promised>>

Conf(c) == ConfInit(c) \/ ConfMake(c) \/ ConfDecode(c) \/ ConfCheck(c) \/ ConfGet(c) \/ ConfRead(c)

------------------------------------------------------------------------------
Logger(k) == [kind |-> k]

\* libs/logs: one assignment, after everything was made.
LogInit(c) ==
    /\ Begin(c, Nil)
    /\ con' = [con EXCEPT !["log"] = Logger("configured")]
    /\ Promise(c, "log", Logger("configured"))
    /\ UNCHANGED <<file, config, env, gpc, got>>

\* A logger for everyone who asks first: between the look at Log and the
\* assignment of the default somebody else may have configured it.
GetLogger(c) ==
    /\ Begin(c, Nil)
    /\ Goto(c, IF con["log"] = Nil THEN "log.default" ELSE "log.with")
    /\ IF con["log"] = Nil THEN Unpromise("log") ELSE UNCHANGED promised
    /\ UNCHANGED <<file, config, env, con, got>>

LogDefault(c) ==
    /\ gpc[c] = "log.default"
    /\ con' = [con EXCEPT !["log"] = Logger("default")]
    /\ Goto(c, "log.with")
    /\ UNCHANGED <<file, config, env, arg, calls, promised, got>>

LogWith(c) ==
    /\ gpc[c] = "log.with"
    /\ Goto(c, "idle")
    /\ Got(con["log"], promised["log"])
    /\ UNCHANGED <<file, config, env, con, arg, calls, promised>>

Logs(c) == LogInit(c) \/ GetLogger(c) \/ LogDefault(c) \/ LogWith(c)

------------------------------------------------------------------------------
\* libs/redis and libs/databases have the same shape.  A setting says whether
\* there is an address (ok), whether it asks for a cluster or for master and
\* slaves (many), and whether the client can be made (opens; a Redis client
\* always can).
Single(s) == [kind |-> "single", setting |-> s]
Many(s) == [kind |-> "many", setting |-> s]

Set(p, v) == con' = [con EXCEPT ![p] = v]

\* Without an address redis.Init returns an error and leaves redisCon alone.
RedisInit(c) ==
    /\ \E s \in Settings :
        /\ Begin(c, s)
        /\ Goto(c, CASE ~s.ok -> "idle" [] s.ok /\ s.many -> "redis.cluster" [] OTHER -> "redis.single")
        /\ IF s.ok THEN Unpromise("redis") ELSE UNCHANGED promised
    /\ UNCHANGED <<file, config, env, con, got>>

RedisCluster(c) ==
    /\ gpc[c] = "redis.cluster"
    /\ Set("redis", Many(arg[c]))
    /\ Goto(c, "redis.single")
    /\ UNCHANGED <<file, config, env, arg, calls, promised, got>>

\* Mutant: only the first Init sets it.
RedisSingleOnce(c) ==
    /\ gpc[c] = "redis.single"
    /\ IF con["redis"] = Nil THEN Set("redis", Single(arg[c])) ELSE UNCHANGED con
    /\ Goto(c, "redis.return")
    /\ UNCHANGED <<file, config, env, arg, calls, promised, got>>

\* Not in an else: it replaces the cluster client.
RedisSingle(c) ==
    /\ gpc[c] = "redis.single"
    /\ Set("redis", Single(arg[c]))
    /\ Goto(c, "redis.return")
    /\ UNCHANGED <<file, config, env, arg, calls, promised, got>>

\* databases.Init has no such return: an address that is missing, or an engine
\* that cannot be made, leaves nil in dbConn, also when it worked before.
DbInit(c) ==
    /\ \E s \in Settings :
        /\ Begin(c, s)
        /\ Goto(c, IF s.many THEN "db.group" ELSE "db.single")
    /\ Unpromise("db")
    /\ UNCHANGED <<file, config, env, con, got>>

DbGroup(c) ==
    /\ gpc[c] = "db.group"
    /\ Set("db", IF arg[c].ok /\ arg[c].opens THEN Many(arg[c]) ELSE Nil)
    /\ Goto(c, "db.single")
    /\ UNCHANGED <<file, config, env, arg, calls, promised, got>>

DbSingle(c) ==
    /\ gpc[c] = "db.single"
    /\ Set("db", IF arg[c].ok /\ arg[c].opens THEN Single(arg[c]) ELSE Nil)
    /\ Goto(c, "db.return")
    /\ UNCHANGED <<file, config, env, arg, calls, promised, got>>

\* Init returns what the package variable is by then.
ConReturn(c, p) ==
    /\ gpc[c] \in InitSteps[p] /\ gpc[c] \in {"redis.return", "db.return"}
    /\ Goto(c, "idle")
    /\ Promise(c, p, IF arg[c].ok /\ (arg[c].opens \/ p = "redis") THEN Single(arg[c]) ELSE Nil)
    /\ Got(con[p], promised'[p])
    /\ UNCHANGED <<file, config, env, con, arg, calls>>

\* GetRedisDb, GetMySqlDB and GetDao.
GetCon(c, p) ==
    /\ Begin(c, Nil)
    /\ Got(con[p], promised[p])
    /\ UNCHANGED <<file, config, env, con, gpc, promised>>

Redis(c) ==
    RedisInit(c) \/ RedisCluster(c) \/ RedisSingle(c) \/ ConReturn(c, "redis") \/ GetCon(c, "redis")

Databases(c) ==
    DbInit(c) \/ DbGroup(c) \/ DbSingle(c) \/ ConReturn(c, "db") \/ GetCon(c, "db")

------------------------------------------------------------------------------
(* Properties.                                                             *)

\* After an Init that no other Init of the package overlapped, a first use by
\* conf.Get or GetLogger included, everybody gets what that Init set, whole
\* and until the next Init: no lazy initialisation replaces it, no goroutine
\* sees the map half filled or another call's client.
LastInitCounts ==
    got # Nil /\ got.due \notin {Nil, Raced} => got.value = got.due

==============================================================================
