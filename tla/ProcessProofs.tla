---------------------------- MODULE ProcessProofs ----------------------------
(***************************************************************************)
(* Proofs about the parts of a process, for any number of goroutines,      *)
(* calls, contexts and workers.                                            *)
(*                                                                         *)
(* The service.  As long as it is not misused a starter finds it not       *)
(* running and a stopper finds it running, so that there is one of them at *)
(* a time, and the contexts cancelled are all but perhaps the last         *)
(* (LifeInv).                                                              *)
(*                                                                         *)
(* The package variables.  While an Init is under way nothing is promised, *)
(* and an Init that is not marked as raced is alone (PackageInv).          *)
(*                                                                         *)
(* The id workers.  The ids that a worker made so far, and whose number    *)
(* fits, are before its timestamp and number (UuidInv).                    *)
(*                                                                         *)
(* The try/catch chains.  What ran so far is told by where the call is: no *)
(* handler while the error is matched, and then the one that the error has *)
(* (DoInv), because the catches before the place in the slice do not match *)
(* it.                                                                     *)
(***************************************************************************)
EXTENDS Process, TryCatch, SequenceTheorems, TLAPS

------------------------------------------------------------------------------
(* The service.                                                            *)

LifeInv ==
    /\ contexts \in Nat
    /\ upc \in [Users -> {"idle", "start.context", "start.run", "stop.cancel", "stop.run"}]
    /\ misused \in BOOLEAN /\ isRun \in BOOLEAN
    /\ ~misused =>
        /\ \A u, v \in Users : upc[u] # "idle" /\ upc[v] # "idle" => u = v
        /\ \A u \in Users :
            /\ upc[u] \in {"start.context", "start.run"} => ~isRun
            /\ upc[u] \in {"stop.cancel", "stop.run"} => isRun
            /\ upc[u] = "start.context" => cancelled = 1 .. contexts
            /\ upc[u] = "start.run" => contexts > 0 /\ cancel = contexts /\ cancelled = 1 .. contexts - 1
            /\ upc[u] = "stop.cancel" => contexts > 0 /\ cancel = contexts /\ cancelled = 1 .. contexts - 1
            /\ upc[u] = "stop.run" => cancelled = 1 .. contexts
        /\ (\A u \in Users : upc[u] = "idle") =>
            IF isRun THEN contexts > 0 /\ cancel = contexts /\ cancelled = 1 .. contexts - 1
                     ELSE cancelled = 1 .. contexts

LEMMA LifeStart == LifeInit => LifeInv
<1> SUFFICES ASSUME LifeInit PROVE LifeInv
  OBVIOUS
<1>1. /\ isRun = FALSE /\ contexts = 0 /\ cancelled = {} /\ misused = FALSE
      /\ upc = [u \in Users |-> "idle"]
  BY DEF LifeInit
<1>2. cancelled = 1 .. contexts /\ contexts \in Nat
  BY <1>1
<1>3. \A u \in Users : upc[u] = "idle"
  BY <1>1
<1> QED
  BY <1>1, <1>2, <1>3 DEF LifeInv

LEMMA LifeStep == LifeInv /\ (Service \/ UNCHANGED serviceVars) => LifeInv'
<1> SUFFICES ASSUME LifeInv, Service \/ UNCHANGED serviceVars PROVE LifeInv'
  OBVIOUS
<1>0. CASE UNCHANGED serviceVars
  BY <1>0 DEF LifeInv, serviceVars
<1>1. ASSUME NEW u \in Users, ServiceInit(u) PROVE LifeInv'
  BY <1>1 DEF LifeInv, ServiceInit, At
<1>2. ASSUME NEW u \in Users, Start(u) PROVE LifeInv'
  BY <1>2 DEF LifeInv, Start, At, UserGoto, Overlaps
<1>3. ASSUME NEW u \in Users, StartContext(u) PROVE LifeInv'
  <2>1. contexts \in Nat /\ contexts' = contexts + 1 /\ cancel' = contexts + 1 /\ cancelled' = cancelled
    BY <1>3 DEF LifeInv, StartContext
  <2>2. contexts' \in Nat /\ contexts' > 0 /\ 1 .. contexts' - 1 = 1 .. contexts /\ cancel' = contexts'
    BY <2>1
  <2> QED
    BY <1>3, <2>1, <2>2 DEF LifeInv, StartContext, At, UserGoto
<1>4. ASSUME NEW u \in Users, StartRun(u) PROVE LifeInv'
  BY <1>4 DEF LifeInv, StartRun, At, UserGoto
<1>5. ASSUME NEW u \in Users, Stop(u) PROVE LifeInv'
  BY <1>5 DEF LifeInv, Stop, At, UserGoto, Overlaps
<1>6. ASSUME NEW u \in Users, StopCancel(u) PROVE LifeInv'
  <2>1. ~misused => contexts > 0 /\ cancel = contexts /\ cancelled = 1 .. contexts - 1 /\ contexts \in Nat
    BY <1>6 DEF LifeInv, StopCancel, At
  <2>2. cancelled' = (IF cancel = 0 THEN cancelled ELSE cancelled \cup {cancel}) /\ contexts' = contexts
    BY <1>6 DEF StopCancel
  <2>3. ~misused => cancelled' = 1 .. contexts'
    <3>1. \A n \in Nat : n > 0 => (1 .. n - 1) \cup {n} = 1 .. n /\ n # 0
      OBVIOUS
    <3> QED
      BY <2>1, <2>2, <3>1
  <2>4. /\ upc[u] = "stop.cancel" /\ upc' = [upc EXCEPT ![u] = "stop.run"]
        /\ UNCHANGED <<isRun, cancel, contexts, misused>>
    BY <1>6 DEF StopCancel, At, UserGoto
  <2>5. /\ upc' \in [Users -> {"idle", "start.context", "start.run", "stop.cancel", "stop.run"}]
        /\ upc'[u] = "stop.run" /\ \A v \in Users : v # u => upc'[v] = upc[v]
    BY <2>4 DEF LifeInv
  <2>6. ~misused => isRun /\ \A v \in Users : v # u => upc[v] = "idle"
    BY <2>4 DEF LifeInv
  <2> QED
    BY <2>3, <2>4, <2>5, <2>6 DEF LifeInv
<1>7. ASSUME NEW u \in Users, StopRun(u) PROVE LifeInv'
  BY <1>7 DEF LifeInv, StopRun, At, UserGoto
<1> QED
  BY <1>0, <1>1, <1>2, <1>3, <1>4, <1>5, <1>6, <1>7 DEF Service

\* A service that any number of goroutines start and stop, one Start and one
\* Stop at a time, leaves no live context behind when it does not run.
THEOREM NoContextLeft == ProcessSpec => []StoppedMeansCancelled
<1>1. ProcessInit => LifeInv
  BY LifeStart DEF ProcessInit
<1>2. LifeInv /\ [ProcessNext]_processVars => LifeInv'
  <2>1. [ProcessNext]_processVars => Service \/ UNCHANGED serviceVars
    <3>1. Signals => UNCHANGED serviceVars
      BY DEF Signals, Hup, HupReceive, Reload, HupLoop, Term, TermClose
    <3> QED
      BY <3>1 DEF ProcessNext, processVars, lifeVars
  <2> QED
    BY <2>1, LifeStep
<1>3. LifeInv => StoppedMeansCancelled
  BY DEF LifeInv, StoppedMeansCancelled
<1> QED
  BY <1>1, <1>2, <1>3, PTL DEF ProcessSpec

------------------------------------------------------------------------------
(* The package variables.                                                  *)

\* What the getters of a package look at.
Value(p) == IF p = "conf" THEN config ELSE con[p]

Domains ==
    /\ DOMAIN gpc = Callers /\ DOMAIN arg = Callers
    /\ DOMAIN con = Packages \ {"conf"} /\ DOMAIN promised = Packages

PackageInv(p) ==
    /\ promised[p] \notin {Nil, Raced} => InInit(p) = {} /\ promised[p] = Value(p)
    /\ promised[p] # Raced => \A c, d \in InInit(p) : c = d

\* What an Init that is alone has done so far.
ConfInv ==
    promised["conf"] # Raced =>
        \A c \in Callers :
            /\ gpc[c] = "conf.decode" /\ file # Broken => config \subseteq file
            /\ gpc[c] = "conf.check" => config = file

\* Init of Redis or of the databases has made the last of its clients.
Returning(c, p) == gpc[c] \in InitSteps[p] /\ gpc[c] \in {"redis.return", "db.return"}
Made(p, a) == IF p = "redis" \/ (a.ok /\ a.opens) THEN Single(a) ELSE Nil
ReturnInv(p) ==
    promised[p] # Raced => \A c \in Callers : Returning(c, p) => con[p] = Made(p, arg[c])

GlobalInv ==
    /\ Domains
    /\ \A p \in Packages : PackageInv(p)
    /\ ConfInv /\ ReturnInv("redis") /\ ReturnInv("db")
    /\ LastInitCounts

\* The places of a goroutine in a package.
Own(p) == InitSteps[p] \cup {"idle", "conf.read", "log.with"}

LEMMA StepSets ==
    /\ InitSteps["conf"] = {"conf.make", "conf.decode", "conf.check"}
    /\ InitSteps["log"] = {"log.default"}
    /\ InitSteps["redis"] = {"redis.cluster", "redis.single", "redis.return"}
    /\ InitSteps["db"] = {"db.group", "db.single", "db.return"}
BY DEF InitSteps

LEMMA OwnApart == \A p, q \in Packages : p # q => Own(p) \cap InitSteps[q] = {}
BY StepSets DEF Own, Packages

\* A package's Init ends without a promise or goes on, or another package moves.
LEMMA PackageKeeps ==
    ASSUME NEW p, PackageInv(p), promised'[p] = promised[p], InInit(p)' \subseteq InInit(p),
           InInit(p) # {} \/ Value(p)' = Value(p)
    PROVE  PackageInv(p)'
BY DEF PackageInv

LEMMA PackageBegins ==
    ASSUME NEW p, NEW c, InInit(p)' \subseteq InInit(p) \cup {c},
           promised'[p] = IF InInit(p) = {} THEN Nil ELSE Raced
    PROVE  PackageInv(p)'
BY DEF PackageInv

LEMMA PackageEnds ==
    ASSUME NEW p, NEW c, NEW v, PackageInv(p), InInit(p)' \subseteq InInit(p) \ {c},
           promised'[p] = IF InInit(p) \ {c} # {} \/ (c \in InInit(p) /\ promised[p] = Raced) THEN Raced ELSE v,
           promised'[p] \notin {Nil, Raced} => Value(p)' = v
    PROVE  PackageInv(p)'
BY DEF PackageInv

\* A step of goroutine c in package p concerns no other package.
Moves(c, p) ==
    /\ Domains' /\ file' = file
    /\ gpc[c] \in Own(p) /\ gpc'[c] \in Own(p) /\ \A d \in Callers : d # c => gpc'[d] = gpc[d]
    /\ \A d \in Callers : d # c \/ gpc[d] # "idle" => arg'[d] = arg[d]
    /\ \A q \in Packages : q # p => promised'[q] = promised[q] /\ Value(q)' = Value(q)

LEMMA OthersStay ==
    ASSUME GlobalInv, NEW c \in Callers, NEW p \in Packages, Moves(c, p)
    PROVE  /\ Domains'
           /\ \A q \in Packages : q # p => PackageInv(q)'
           /\ p # "conf" => ConfInv'
           /\ \A q \in {"redis", "db"} : q # p => ReturnInv(q)'
<1>1. \A q \in Packages, d \in Callers : q # p => (gpc'[d] \in InitSteps[q] <=> gpc[d] \in InitSteps[q])
  BY OwnApart DEF Moves
<1>2. ASSUME NEW q \in Packages, q # p PROVE PackageInv(q)'
  <2>1. InInit(q)' \subseteq InInit(q)
    BY <1>1, <1>2 DEF InInit
  <2>2. promised'[q] = promised[q] /\ Value(q)' = Value(q) /\ PackageInv(q)
    BY <1>2 DEF Moves, GlobalInv
  <2> QED
    BY <2>1, <2>2, PackageKeeps
\* The goroutine itself is in no Init of another package.
<1>3. \A q \in Packages, d \in Callers : q # p /\ gpc'[d] \in InitSteps[q] => d # c /\ gpc'[d] = gpc[d] /\ arg'[d] = arg[d]
  BY OwnApart DEF Moves
<1>4. ASSUME p # "conf" PROVE ConfInv'
  <2>1. promised'["conf"] = promised["conf"] /\ config' = config /\ file' = file
    BY <1>4 DEF Moves, Packages, Value
  <2>2. \A d \in Callers : gpc'[d] \in {"conf.decode", "conf.check"} => gpc'[d] = gpc[d]
    BY <1>3, <1>4, StepSets DEF Packages
  <2> QED
    BY <2>1, <2>2 DEF GlobalInv, ConfInv
<1>5. ASSUME NEW q \in {"redis", "db"}, q # p PROVE ReturnInv(q)'
  <2>1. promised'[q] = promised[q] /\ con'[q] = con[q]
    BY <1>5 DEF Moves, Packages, Value
  <2>2. \A d \in Callers : Returning(d, q)' => Returning(d, q) /\ arg'[d] = arg[d]
    BY <1>3, <1>5 DEF Packages, Returning
  <2>3. ReturnInv(q)
    BY <1>5 DEF GlobalInv
  <2> QED
    BY <2>1, <2>2, <2>3 DEF ReturnInv
<1> QED
  BY <1>2, <1>4, <1>5 DEF Moves

LEMMA GlobalStart == GlobalsInit => GlobalInv
<1> SUFFICES ASSUME GlobalsInit PROVE GlobalInv
  OBVIOUS
<1>1. Domains /\ got = Nil
  BY DEF GlobalsInit, Domains
<1>2. \A c \in Callers : gpc[c] = "idle"
  BY DEF GlobalsInit
<1>3. \A p \in Packages : promised[p] = Nil /\ InInit(p) = {}
  BY <1>2, StepSets DEF GlobalsInit, Packages, InInit
<1>4. \A p \in Packages : PackageInv(p)
  BY <1>3 DEF PackageInv
<1> QED
  BY <1>1, <1>2, <1>4 DEF GlobalInv, ConfInv, ReturnInv, Returning, LastInitCounts

LEMMA ConfStep ==
    ASSUME GlobalInv, NEW c \in Callers, Conf(c)
    PROVE  GlobalInv'
<1>0. Domains /\ PackageInv("conf") /\ ConfInv /\ LastInitCounts /\ "conf" \in Packages
  BY DEF GlobalInv, Packages
<1>s. ASSUME Moves(c, "conf"), PackageInv("conf")', ConfInv', LastInitCounts' PROVE GlobalInv'
  BY <1>0, <1>s, OthersStay DEF GlobalInv
<1>u. got' = got => LastInitCounts'
  BY <1>0 DEF LastInitCounts
\* How a step moves, from what it does to each variable.
<1>m. ASSUME NEW s, s \in Own("conf"), gpc[c] \in Own("conf"),
             gpc' = [gpc EXCEPT ![c] = s] \/ (gpc' = gpc /\ s = gpc[c]),
             arg' = arg \/ (gpc[c] = "idle" /\ \E a : arg' = [arg EXCEPT ![c] = a]),
             promised' = promised \/ \E v : promised' = [promised EXCEPT !["conf"] = v],
             UNCHANGED <<file, con>>
      PROVE  Moves(c, "conf") /\ gpc'[c] = s
  <2>1. gpc'[c] = s /\ DOMAIN gpc' = Callers /\ \A d \in Callers : d # c => gpc'[d] = gpc[d]
    BY <1>0, <1>m DEF Domains
  <2>2. DOMAIN arg' = Callers /\ \A d \in Callers : d # c \/ gpc[d] # "idle" => arg'[d] = arg[d]
    BY <1>0, <1>m DEF Domains
  <2>3. DOMAIN promised' = Packages /\ \A q \in Packages : q # "conf" => promised'[q] = promised[q]
    BY <1>0, <1>m DEF Domains
  <2>4. \A q \in Packages : q # "conf" => Value(q)' = Value(q)
    BY <1>m DEF Value
  <2> QED
    BY <1>0, <1>m, <2>1, <2>2, <2>3, <2>4 DEF Moves, Domains
\* An Init begins.
<1>1. ASSUME gpc[c] = "idle", gpc' = [gpc EXCEPT ![c] = "conf.make"], \E a : arg' = [arg EXCEPT ![c] = a],
             Unpromise("conf"), UNCHANGED <<file, config, con, got>>
      PROVE  GlobalInv'
  <2>1. Moves(c, "conf") /\ gpc'[c] = "conf.make"
    BY <1>m, <1>1, StepSets DEF Own, Unpromise
  <2>2. promised'["conf"] = IF InInit("conf") = {} THEN Nil ELSE Raced
    BY <1>0, <1>1 DEF Unpromise, Domains
  <2>3. InInit("conf")' \subseteq InInit("conf") \cup {c}
    BY <2>1 DEF InInit, Moves
  <2>4. PackageInv("conf")'
    BY <2>2, <2>3, PackageBegins
  <2>5. ConfInv'
    <3>1. SUFFICES ASSUME promised'["conf"] # Raced, NEW d \in Callers, gpc'[d] \in {"conf.decode", "conf.check"}
                   PROVE  FALSE
      BY DEF ConfInv
    <3>2. d # c /\ gpc[d] = gpc'[d] /\ InInit("conf") = {}
      BY <2>1, <2>2, <3>1 DEF Moves
    <3> QED
      BY <3>1, <3>2, StepSets DEF InInit
  <2> QED
    BY <1>s, <1>u, <1>1, <2>1, <2>4, <2>5
<1>2. CASE ConfInit(c)
  BY <1>1, <1>2 DEF ConfInit, Begin, Goto
<1>3. CASE ConfGet(c)
  <2>1. CASE config = Nil
    <3>1. \E a : arg' = [arg EXCEPT ![c] = a]
      BY <1>3 DEF ConfGet, Begin
    <3> QED
      BY <1>1, <1>3, <2>1, <3>1 DEF ConfGet, Begin, Goto
  <2>2. CASE config # Nil
    <3>1. /\ gpc[c] = "idle" /\ gpc' = [gpc EXCEPT ![c] = "conf.read"] /\ \E a : arg' = [arg EXCEPT ![c] = a]
          /\ UNCHANGED <<file, config, con, got, promised>>
      BY <1>3, <2>2 DEF ConfGet, Begin, Goto
    <3>2. Moves(c, "conf") /\ gpc'[c] = "conf.read"
      BY <1>m, <3>1 DEF Own
    <3>3. InInit("conf")' \subseteq InInit("conf") /\ Value("conf")' = Value("conf")
      BY <3>1, <3>2, StepSets DEF InInit, Moves, Value
    <3>4. PackageInv("conf")'
      BY <1>0, <3>1, <3>3, PackageKeeps
    <3>5. ConfInv'
      BY <1>0, <3>1, <3>2 DEF ConfInv, Moves
    <3> QED
      BY <1>s, <1>u, <3>1, <3>2, <3>4, <3>5
  <2> QED
    BY <2>1, <2>2
\* A step within Init: whoever makes it is alone or raced.
<1>4. ASSUME NEW s, gpc[c] \in InitSteps["conf"], s \in InitSteps["conf"] \cup {"idle"},
             gpc' = [gpc EXCEPT ![c] = s] \/ (gpc' = gpc /\ s = gpc[c]), UNCHANGED <<file, arg, con, got, promised>>,
             promised["conf"] # Raced /\ s = "conf.decode" /\ file # Broken => config' \subseteq file,
             promised["conf"] # Raced /\ s = "conf.check" => config' = file
      PROVE  GlobalInv'
  <2>1. Moves(c, "conf") /\ gpc'[c] = s
    BY <1>m, <1>4 DEF Own
  <2>2. c \in InInit("conf") /\ InInit("conf")' \subseteq InInit("conf")
    BY <1>4, <2>1 DEF InInit, Moves
  <2>3. PackageInv("conf")'
    BY <1>0, <1>4, <2>2, PackageKeeps
  <2>4. ASSUME promised["conf"] # Raced, NEW d \in Callers, d # c PROVE gpc'[d] \notin {"conf.decode", "conf.check"}
    <3>1. d \notin InInit("conf")
      BY <1>0, <2>2, <2>4 DEF PackageInv
    <3> QED
      BY <2>1, <2>4, <3>1, StepSets DEF InInit, Moves
  <2>5. ConfInv'
    BY <1>4, <2>1, <2>4 DEF ConfInv
  <2> QED
    BY <1>s, <1>u, <1>4, <2>1, <2>3, <2>5
<1>5. CASE ConfMake(c)
  <2>1. /\ gpc[c] = "conf.make" /\ config' = {} /\ gpc' = [gpc EXCEPT ![c] = "conf.decode"]
        /\ UNCHANGED <<file, arg, con, got, promised>>
    BY <1>5 DEF ConfMake, Goto
  <2>2. config' \subseteq file
    BY <2>1
  <2> QED
    BY <1>4, <2>1, <2>2, StepSets
<1>6. CASE ConfDecode(c)
  <2>1. gpc[c] = "conf.decode" /\ UNCHANGED <<file, arg, con, got, promised>>
    BY <1>6 DEF ConfDecode
  <2>2. promised["conf"] # Raced /\ file # Broken => config \subseteq file
    BY <1>0, <2>1 DEF ConfInv
  <2>3. CASE file = Broken /\ gpc' = [gpc EXCEPT ![c] = "idle"]
    BY <1>4, <2>1, <2>3, StepSets
  <2>4. CASE /\ file # Broken /\ gpc' = gpc
             /\ \E key \in file \ config : config' = config \cup {key}
    <3>1. promised["conf"] # Raced => config' \subseteq file
      BY <2>2, <2>4
    <3> QED
      BY <1>4, <2>1, <2>4, <3>1, StepSets
  <2>5. CASE file # Broken /\ file \subseteq config /\ gpc' = [gpc EXCEPT ![c] = "conf.check"] /\ config' = config
    <3>1. promised["conf"] # Raced => config' = file
      BY <2>2, <2>5
    <3> QED
      BY <1>4, <2>1, <2>5, <3>1, StepSets
  <2> QED
    BY <1>6, <2>3, <2>4, <2>5 DEF ConfDecode, Goto
<1>7. CASE ConfCheck(c)
  <2>1. PICK s \in {"conf.read", "idle"} : gpc' = [gpc EXCEPT ![c] = s]
    BY <1>7 DEF ConfCheck, Goto
  <2>2. PICK v : Promise(c, "conf", v) /\ v \in {file, Nil}
    BY <1>7 DEF ConfCheck
  <2>3. gpc[c] = "conf.check" /\ UNCHANGED <<file, config, con, arg, got>>
    BY <1>7 DEF ConfCheck
  <2>4. Moves(c, "conf") /\ gpc'[c] = s
    <3>1. \E x : promised' = [promised EXCEPT !["conf"] = x]
      BY <2>2 DEF Promise
    <3> QED
      BY <1>m, <2>1, <2>3, <3>1, StepSets DEF Own
  <2>5. promised'["conf"] =
            IF InInit("conf") \ {c} # {} \/ (c \in InInit("conf") /\ promised["conf"] = Raced) THEN Raced ELSE v
    BY <1>0, <2>2 DEF Promise, Domains
  <2>6. c \in InInit("conf") /\ InInit("conf")' \subseteq InInit("conf") \ {c}
    BY <2>1, <2>3, <2>4, StepSets DEF InInit, Moves
  <2>7. promised'["conf"] \notin {Nil, Raced} => Value("conf")' = v
    <3>1. promised["conf"] # Raced => config = file
      BY <1>0, <2>3 DEF ConfInv
    <3> QED
      BY <2>2, <2>3, <2>5, <2>6, <3>1 DEF Value
  <2>8. PackageInv("conf")'
    BY <1>0, <2>5, <2>6, <2>7, PackageEnds
  <2>9. ConfInv'
    <3>1. SUFFICES ASSUME promised'["conf"] # Raced, NEW d \in Callers, gpc'[d] \in {"conf.decode", "conf.check"}
                   PROVE  FALSE
      BY DEF ConfInv
    <3>2. d \in InInit("conf")'
      BY <3>1, StepSets DEF InInit
    <3> QED
      BY <2>5, <2>6, <3>1, <3>2
  <2> QED
    BY <1>s, <1>u, <2>3, <2>4, <2>8, <2>9
<1>8. CASE ConfRead(c)
  <2>1. /\ gpc[c] = "conf.read" /\ gpc' = [gpc EXCEPT ![c] = "idle"]
        /\ UNCHANGED <<file, config, con, arg, promised>>
    BY <1>8 DEF ConfRead, Goto
  <2>2. Moves(c, "conf") /\ gpc'[c] = "idle"
    BY <1>m, <2>1 DEF Own
  <2>3. InInit("conf")' \subseteq InInit("conf") /\ Value("conf")' = Value("conf")
    BY <2>1, <2>2, StepSets DEF InInit, Moves, Value
  <2>4. PackageInv("conf")'
    BY <1>0, <2>1, <2>3, PackageKeeps
  <2>5. ConfInv'
    BY <1>0, <2>1, <2>2 DEF ConfInv, Moves
  <2>6. LastInitCounts'
    <3>1. got' = [value |-> Found(arg[c], config),
                  due |-> IF promised["conf"] \in {Nil, Raced} THEN Nil ELSE Found(arg[c], promised["conf"])]
      BY <1>8 DEF ConfRead, Got
    <3>2. promised["conf"] \notin {Nil, Raced} => promised["conf"] = config
      BY <1>0 DEF PackageInv, Value
    <3>3. got'.due \notin {Nil, Raced} => got'.value = got'.due
      BY <3>1, <3>2
    <3> QED
      BY <3>3 DEF LastInitCounts
  <2> QED
    BY <1>s, <2>2, <2>4, <2>5, <2>6
<1> QED
  BY <1>2, <1>3, <1>5, <1>6, <1>7, <1>8 DEF Conf

LEMMA ConMoves ==
    ASSUME Domains, NEW c \in Callers, NEW p \in {"log", "redis", "db"}, NEW s, s \in Own(p), gpc[c] \in Own(p),
           gpc' = [gpc EXCEPT ![c] = s] \/ (gpc' = gpc /\ s = gpc[c]),
           arg' = arg \/ (gpc[c] = "idle" /\ \E a : arg' = [arg EXCEPT ![c] = a]),
           promised' = promised \/ \E v : promised' = [promised EXCEPT ![p] = v],
           con' = con \/ \E v : con' = [con EXCEPT ![p] = v],
           UNCHANGED <<file, config>>
    PROVE  Moves(c, p) /\ gpc'[c] = s
<1>1. gpc'[c] = s /\ DOMAIN gpc' = Callers /\ \A d \in Callers : d # c => gpc'[d] = gpc[d]
  BY DEF Domains
<1>2. DOMAIN arg' = Callers /\ \A d \in Callers : d # c \/ gpc[d] # "idle" => arg'[d] = arg[d]
  BY DEF Domains
<1>3. DOMAIN promised' = Packages /\ \A q \in Packages : q # p => promised'[q] = promised[q]
  BY DEF Domains
<1>4. DOMAIN con' = Packages \ {"conf"} /\ \A q \in Packages \ {"conf"} : q # p => con'[q] = con[q]
  BY DEF Domains
<1>5. \A q \in Packages : q # p => Value(q)' = Value(q)
  BY <1>4 DEF Value
<1> QED
  BY <1>1, <1>2, <1>3, <1>4, <1>5 DEF Moves, Domains

LEMMA LogStep ==
    ASSUME GlobalInv, NEW c \in Callers, Logs(c)
    PROVE  GlobalInv'
<1>0. Domains /\ PackageInv("log") /\ LastInitCounts /\ "log" \in Packages
  BY DEF GlobalInv, Packages
<1>s. ASSUME Moves(c, "log"), PackageInv("log")', LastInitCounts' PROVE GlobalInv'
  BY <1>0, <1>s, OthersStay DEF GlobalInv
<1>u. got' = got => LastInitCounts'
  BY <1>0 DEF LastInitCounts
<1>1. CASE LogInit(c)
  <2>1. /\ gpc[c] = "idle" /\ gpc' = gpc /\ \E a : arg' = [arg EXCEPT ![c] = a]
        /\ con' = [con EXCEPT !["log"] = Logger("configured")] /\ UNCHANGED <<file, config, got>>
        /\ Promise(c, "log", Logger("configured"))
    BY <1>1 DEF LogInit, Begin
  <2>2. Moves(c, "log")
    <3>1. \E v : promised' = [promised EXCEPT !["log"] = v]
      BY <2>1 DEF Promise
    <3> QED
      BY <1>0, <2>1, <3>1, ConMoves DEF Own
  <2>3. promised'["log"] = IF InInit("log") \ {c} # {} \/ (c \in InInit("log") /\ promised["log"] = Raced)
                           THEN Raced ELSE Logger("configured")
    BY <1>0, <2>1 DEF Promise, Domains
  <2>4. Value("log")' = Logger("configured")
    BY <1>0, <2>1 DEF Value, Domains, Packages
  <2>5. InInit("log")' \subseteq InInit("log") \ {c}
    BY <2>1, StepSets DEF InInit
  <2>6. PackageInv("log")'
    BY <1>0, <2>3, <2>4, <2>5, PackageEnds
  <2> QED
    BY <1>s, <1>u, <2>1, <2>2, <2>6
<1>2. CASE GetLogger(c)
  <2>1. /\ gpc[c] = "idle" /\ \E a : arg' = [arg EXCEPT ![c] = a] /\ UNCHANGED <<file, config, con, got>>
    BY <1>2 DEF GetLogger, Begin
  <2>2. CASE con["log"] = Nil
    <3>1. gpc' = [gpc EXCEPT ![c] = "log.default"] /\ Unpromise("log")
      BY <1>2, <2>2 DEF GetLogger, Goto
    <3>2. Moves(c, "log") /\ gpc'[c] = "log.default"
      <4>1. \E v : promised' = [promised EXCEPT !["log"] = v]
        BY <3>1 DEF Unpromise
      <4>2. "log.default" \in Own("log") /\ gpc[c] \in Own("log")
        BY <2>1, StepSets DEF Own
      <4> QED
        BY <1>0, <2>1, <3>1, <4>1, <4>2, ConMoves
    <3>3. promised'["log"] = IF InInit("log") = {} THEN Nil ELSE Raced
      BY <1>0, <3>1 DEF Unpromise, Domains
    <3>4. InInit("log")' \subseteq InInit("log") \cup {c}
      BY <3>2 DEF InInit, Moves
    <3>5. PackageInv("log")'
      BY <3>3, <3>4, PackageBegins
    <3> QED
      BY <1>s, <1>u, <2>1, <3>2, <3>5
  <2>3. CASE con["log"] # Nil
    <3>1. gpc' = [gpc EXCEPT ![c] = "log.with"] /\ promised' = promised
      BY <1>2, <2>3 DEF GetLogger, Goto
    <3>2. Moves(c, "log") /\ gpc'[c] = "log.with"
      BY <1>0, <2>1, <3>1, ConMoves DEF Own
    <3>3. InInit("log")' \subseteq InInit("log") /\ Value("log")' = Value("log")
      BY <2>1, <3>2, StepSets DEF InInit, Moves, Value
    <3>4. PackageInv("log")'
      BY <1>0, <3>1, <3>3, PackageKeeps
    <3> QED
      BY <1>s, <1>u, <2>1, <3>2, <3>4
  <2> QED
    BY <2>2, <2>3
<1>3. CASE LogDefault(c)
  <2>1. /\ gpc[c] = "log.default" /\ gpc' = [gpc EXCEPT ![c] = "log.with"]
        /\ con' = [con EXCEPT !["log"] = Logger("default")] /\ UNCHANGED <<file, config, arg, promised, got>>
    BY <1>3 DEF LogDefault, Goto
  <2>2. Moves(c, "log") /\ gpc'[c] = "log.with"
    BY <1>0, <2>1, ConMoves, StepSets DEF Own
  <2>3. InInit("log")' \subseteq InInit("log") /\ c \in InInit("log")
    BY <2>1, <2>2, StepSets DEF InInit, Moves
  <2>4. PackageInv("log")'
    BY <1>0, <2>1, <2>3, PackageKeeps
  <2> QED
    BY <1>s, <1>u, <2>1, <2>2, <2>4
<1>4. CASE LogWith(c)
  <2>1. /\ gpc[c] = "log.with" /\ gpc' = [gpc EXCEPT ![c] = "idle"]
        /\ got' = [value |-> con["log"], due |-> promised["log"]]
        /\ UNCHANGED <<file, config, con, arg, promised>>
    BY <1>4 DEF LogWith, Goto, Got
  <2>2. Moves(c, "log") /\ gpc'[c] = "idle"
    BY <1>0, <2>1, ConMoves DEF Own
  <2>3. InInit("log")' \subseteq InInit("log") /\ Value("log")' = Value("log")
    BY <2>1, <2>2, StepSets DEF InInit, Moves, Value
  <2>4. PackageInv("log")'
    BY <1>0, <2>1, <2>3, PackageKeeps
  <2>5. LastInitCounts'
    <3>1. got'.due \notin {Nil, Raced} => got'.value = got'.due
      BY <1>0, <2>1 DEF PackageInv, Value
    <3> QED
      BY <3>1 DEF LastInitCounts
  <2> QED
    BY <1>s, <2>2, <2>4, <2>5
<1> QED
  BY <1>1, <1>2, <1>3, <1>4 DEF Logs

\* libs/redis and libs/databases.
LEMMA ClientStep ==
    ASSUME GlobalInv, NEW c \in Callers, Redis(c) \/ Databases(c)
    PROVE  GlobalInv'
<1>0. Domains /\ LastInitCounts /\ {"redis", "db"} \subseteq Packages
  BY DEF GlobalInv, Packages
<1>p. \A p \in {"redis", "db"} : PackageInv(p) /\ ReturnInv(p)
  BY <1>0 DEF GlobalInv
<1>s. ASSUME NEW p \in {"redis", "db"}, Moves(c, p), PackageInv(p)', ReturnInv(p)', LastInitCounts' PROVE GlobalInv'
  <2>1. /\ Domains' /\ ConfInv'
        /\ \A q \in Packages : q # p => PackageInv(q)'
        /\ \A q \in {"redis", "db"} : q # p => ReturnInv(q)'
    BY <1>0, <1>s, OthersStay
  <2> QED
    BY <1>s, <2>1 DEF GlobalInv
<1>u. got' = got => LastInitCounts'
  BY <1>0 DEF LastInitCounts
\* An Init begins.
<1>1. ASSUME NEW p \in {"redis", "db"}, NEW s \in InitSteps[p] \ {"redis.return", "db.return"}, gpc[c] = "idle",
             gpc' = [gpc EXCEPT ![c] = s], \E a : arg' = [arg EXCEPT ![c] = a], Unpromise(p),
             UNCHANGED <<file, config, con, got>>
      PROVE  GlobalInv'
  <2>1. Moves(c, p) /\ gpc'[c] = s
    <3>1. \E v : promised' = [promised EXCEPT ![p] = v]
      BY <1>1 DEF Unpromise
    <3> QED
      BY <1>0, <1>1, <3>1, ConMoves DEF Own
  <2>2. promised'[p] = IF InInit(p) = {} THEN Nil ELSE Raced
    BY <1>0, <1>1 DEF Unpromise, Domains
  <2>3. InInit(p)' \subseteq InInit(p) \cup {c}
    BY <2>1 DEF InInit, Moves
  <2>4. PackageInv(p)'
    BY <2>2, <2>3, PackageBegins
  <2>5. ReturnInv(p)'
    <3>1. SUFFICES ASSUME promised'[p] # Raced, NEW d \in Callers, Returning(d, p)' PROVE FALSE
      BY DEF ReturnInv
    <3>2. d # c /\ gpc[d] = gpc'[d]
      BY <1>1, <2>1, <3>1 DEF Moves, Returning
    <3>3. d \in InInit(p)
      BY <3>1, <3>2 DEF InInit, Returning
    <3> QED
      BY <2>2, <3>1, <3>3
  <2> QED
    BY <1>s, <1>u, <1>1, <2>1, <2>4, <2>5
\* A step within Init.
<1>2. ASSUME NEW p \in {"redis", "db"}, NEW s \in InitSteps[p], NEW v, gpc[c] \in InitSteps[p],
             gpc' = [gpc EXCEPT ![c] = s], con' = [con EXCEPT ![p] = v],
             s \in {"redis.return", "db.return"} => v = Made(p, arg[c]),
             UNCHANGED <<file, config, arg, promised, got>>
      PROVE  GlobalInv'
  <2>1. Moves(c, p) /\ gpc'[c] = s
    BY <1>0, <1>2, ConMoves DEF Own
  <2>2. InInit(p)' \subseteq InInit(p) /\ c \in InInit(p)
    BY <1>2, <2>1 DEF InInit, Moves
  <2>3. PackageInv(p)'
    BY <1>p, <1>2, <2>2, PackageKeeps
  <2>4. ReturnInv(p)'
    <3>1. SUFFICES ASSUME promised'[p] # Raced, NEW d \in Callers, Returning(d, p)' PROVE con'[p] = Made(p, arg'[d])
      BY DEF ReturnInv
    <3>2. d \in InInit(p)
      BY <2>2, <3>1 DEF InInit, Returning
    <3>3. d = c
      BY <1>p, <1>2, <2>2, <3>1, <3>2 DEF PackageInv
    <3>4. con'[p] = v
      BY <1>0, <1>2 DEF Domains, Packages
    <3> QED
      BY <1>2, <2>1, <3>1, <3>3, <3>4 DEF Returning
  <2> QED
    BY <1>s, <1>u, <1>2, <2>1, <2>3, <2>4
\* A call that leaves the package as it is.
<1>3. ASSUME NEW p \in {"redis", "db"}, gpc[c] = "idle", gpc' = [gpc EXCEPT ![c] = "idle"] \/ gpc' = gpc,
             \E a : arg' = [arg EXCEPT ![c] = a],
             UNCHANGED <<file, config, con, promised>>, LastInitCounts'
      PROVE  GlobalInv'
  <2>1. Moves(c, p) /\ gpc'[c] = "idle"
    BY <1>0, <1>3, ConMoves DEF Own
  <2>2. InInit(p)' \subseteq InInit(p) /\ Value(p)' = Value(p)
    BY <1>3, <2>1, StepSets DEF InInit, Moves, Value
  <2>3. PackageInv(p)'
    BY <1>p, <1>3, <2>2, PackageKeeps
  <2>4. ReturnInv(p)'
    <3>1. \A d \in Callers : Returning(d, p)' => d # c /\ Returning(d, p) /\ arg'[d] = arg[d]
      BY <2>1 DEF Returning, Moves
    <3> QED
      BY <1>p, <1>3, <3>1 DEF ReturnInv
  <2> QED
    BY <1>s, <1>3, <2>1, <2>3, <2>4
<1>4. ASSUME NEW p \in {"redis", "db"}, ConReturn(c, p) PROVE GlobalInv'
  <2> DEFINE v == IF arg[c].ok /\ (arg[c].opens \/ p = "redis") THEN Single(arg[c]) ELSE Nil
  <2>1. /\ Returning(c, p) /\ gpc' = [gpc EXCEPT ![c] = "idle"] /\ Promise(c, p, v)
        /\ got' = [value |-> con[p], due |-> promised'[p]] /\ UNCHANGED <<file, config, con, arg>>
    BY <1>4 DEF ConReturn, Goto, Got, Returning
  <2>2. v # Nil => v = Made(p, arg[c])
    BY DEF Made
  <2> HIDE DEF v
  <2>3. Moves(c, p) /\ gpc'[c] = "idle"
    <3>1. \E x : promised' = [promised EXCEPT ![p] = x]
      BY <2>1 DEF Promise
    <3> QED
      BY <1>0, <2>1, <3>1, ConMoves DEF Own, Returning
  <2>4. promised'[p] = IF InInit(p) \ {c} # {} \/ (c \in InInit(p) /\ promised[p] = Raced) THEN Raced ELSE v
    BY <1>0, <2>1 DEF Promise, Domains
  <2>5. c \in InInit(p) /\ InInit(p)' \subseteq InInit(p) \ {c}
    BY <2>1, <2>3, StepSets DEF InInit, Moves, Returning
  <2>6. promised'[p] \notin {Nil, Raced} => con[p] = v /\ promised'[p] = v
    <3>1. promised[p] # Raced => con[p] = Made(p, arg[c])
      BY <1>p, <2>1 DEF ReturnInv
    <3> QED
      BY <2>2, <2>4, <2>5, <3>1
  <2>7. Value(p)' = con[p]
    BY <2>1 DEF Value
  <2>8. PackageInv(p)'
    BY <1>p, <2>4, <2>5, <2>6, <2>7, PackageEnds
  <2>9. ReturnInv(p)'
    <3>1. SUFFICES ASSUME promised'[p] # Raced, NEW d \in Callers, Returning(d, p)' PROVE FALSE
      BY DEF ReturnInv
    <3>2. d \in InInit(p)'
      BY <3>1 DEF InInit, Returning
    <3> QED
      BY <2>4, <2>5, <3>1, <3>2
  <2>10. LastInitCounts'
    <3>1. got'.due \notin {Nil, Raced} => got'.value = got'.due
      BY <2>1, <2>6
    <3> QED
      BY <3>1 DEF LastInitCounts
  <2> QED
    BY <1>s, <2>3, <2>8, <2>9, <2>10
<1>5. ASSUME NEW p \in {"redis", "db"}, GetCon(c, p) PROVE GlobalInv'
  <2>1. /\ gpc[c] = "idle" /\ gpc' = gpc /\ \E a : arg' = [arg EXCEPT ![c] = a]
        /\ got' = [value |-> con[p], due |-> promised[p]] /\ UNCHANGED <<file, config, con, promised>>
    BY <1>5 DEF GetCon, Begin, Got
  <2>2. promised[p] \notin {Nil, Raced} => promised[p] = con[p]
    BY <1>p DEF PackageInv, Value
  <2>3. LastInitCounts'
    <3>1. got'.due \notin {Nil, Raced} => got'.value = got'.due
      BY <2>1, <2>2
    <3> QED
      BY <3>1 DEF LastInitCounts
  <2> QED
    BY <1>3, <2>1, <2>3
<1>6. CASE RedisInit(c)
  <2>1. PICK s \in Settings :
            /\ Begin(c, s)
            /\ Goto(c, CASE ~s.ok -> "idle" [] s.ok /\ s.many -> "redis.cluster" [] OTHER -> "redis.single")
            /\ IF s.ok THEN Unpromise("redis") ELSE UNCHANGED promised
    BY <1>6 DEF RedisInit
  <2>2. gpc[c] = "idle" /\ (\E a : arg' = [arg EXCEPT ![c] = a]) /\ UNCHANGED <<file, config, con, got>>
    BY <1>6, <2>1 DEF RedisInit, Begin
  <2>3. CASE ~s.ok
    BY <1>3, <1>u, <2>1, <2>2, <2>3 DEF Goto
  <2>4. CASE s.ok
    <3>1. PICK l \in {"redis.cluster", "redis.single"} : gpc' = [gpc EXCEPT ![c] = l]
      BY <2>1, <2>4 DEF Goto
    <3> QED
      BY <1>1, <2>1, <2>2, <2>4, <3>1, StepSets
  <2> QED
    BY <2>3, <2>4
<1>7. CASE DbInit(c)
  <2>1. PICK l \in {"db.group", "db.single"} : gpc' = [gpc EXCEPT ![c] = l]
    BY <1>7 DEF DbInit, Goto
  <2>2. /\ gpc[c] = "idle" /\ (\E a : arg' = [arg EXCEPT ![c] = a]) /\ Unpromise("db")
        /\ UNCHANGED <<file, config, con, got>>
    BY <1>7 DEF DbInit, Begin
  <2> QED
    BY <1>1, <2>1, <2>2, StepSets
<1>8. CASE RedisCluster(c) \/ DbGroup(c)
  <2>1. \E p \in {"redis", "db"} : \E s \in InitSteps[p] : \E v :
            /\ gpc[c] \in InitSteps[p] /\ s \notin {"redis.return", "db.return"}
            /\ gpc' = [gpc EXCEPT ![c] = s] /\ con' = [con EXCEPT ![p] = v]
            /\ UNCHANGED <<file, config, arg, promised, got>>
    BY <1>8, StepSets DEF RedisCluster, DbGroup, Goto, Set
  <2> QED
    BY <1>2, <2>1
<1>9. CASE RedisSingle(c)
  <2>1. /\ gpc[c] = "redis.single" /\ gpc' = [gpc EXCEPT ![c] = "redis.return"]
        /\ con' = [con EXCEPT !["redis"] = Single(arg[c])] /\ UNCHANGED <<file, config, arg, promised, got>>
    BY <1>9 DEF RedisSingle, Goto, Set
  <2>2. Single(arg[c]) = Made("redis", arg[c])
    BY DEF Made
  <2> QED
    BY <1>2, <2>1, <2>2, StepSets
<1>10. CASE DbSingle(c)
  <2>1. /\ gpc[c] = "db.single" /\ gpc' = [gpc EXCEPT ![c] = "db.return"]
        /\ con' = [con EXCEPT !["db"] = IF arg[c].ok /\ arg[c].opens THEN Single(arg[c]) ELSE Nil]
        /\ UNCHANGED <<file, config, arg, promised, got>>
    BY <1>10 DEF DbSingle, Goto, Set
  <2>2. (IF arg[c].ok /\ arg[c].opens THEN Single(arg[c]) ELSE Nil) = Made("db", arg[c])
    BY DEF Made
  <2> QED
    BY <1>2, <2>1, <2>2, StepSets
<1> QED
  BY <1>4, <1>5, <1>6, <1>7, <1>8, <1>9, <1>10 DEF Redis, Databases

\* After an Init that ran alone, every getter returns what it set, whole and
\* until the next Init, for any number of goroutines that call the packages.
THEOREM InitCounts == ProcessSpec => []LastInitCounts
<1>1. ProcessInit => GlobalInv
  BY GlobalStart DEF ProcessInit
<1>2. GlobalInv /\ [ProcessNext]_processVars => GlobalInv'
  <2> SUFFICES ASSUME GlobalInv, [ProcessNext]_processVars PROVE GlobalInv'
    OBVIOUS
  <2>1. CASE UNCHANGED globalVars
    <3>1. UNCHANGED <<file, config, con, gpc, arg, promised, got>>
      BY <2>1 DEF globalVars
    <3>2. \A p \in Packages : PackageInv(p)'
      BY <3>1 DEF GlobalInv, PackageInv, InInit, Value
    <3> QED
      BY <3>1, <3>2 DEF GlobalInv, Domains, ConfInv, ReturnInv, Returning, LastInitCounts
  <2>2. ASSUME NEW c \in Callers, Conf(c) \/ Logs(c) \/ Redis(c) \/ Databases(c) PROVE GlobalInv'
    BY <2>2, ConfStep, LogStep, ClientStep
  <2> QED
    BY <2>1, <2>2 DEF ProcessNext, processVars
<1>3. GlobalInv => LastInitCounts
  BY DEF GlobalInv
<1> QED
  BY <1>1, <1>2, <1>3, PTL DEF ProcessSpec

------------------------------------------------------------------------------
(* The id workers.                                                         *)

Ids == {Id(t, w, n) : t \in epoch .. MaxTime, w \in Workers, n \in Nat}

Records == [worker : Workers, time : epoch .. MaxTime, number : Nat, id : Ids]

Fits(r) == r.number <= numberMax

\* r was made no later than the worker's last id.
Before(r, time, n) == r.time < time \/ (r.time = time /\ r.number <= n)

Alike(r, s) == r.time = s.time /\ r.worker = s.worker /\ r.number = s.number

UuidTypes ==
    /\ clock \in epoch .. MaxTime /\ setBack \in BOOLEAN
    /\ timestamp \in [Workers -> Nat] /\ number \in [Workers -> Nat]
    /\ issued \in Seq(Records)
    /\ spinning \subseteq Workers /\ \A w \in spinning : number[w] > numberMax

OrderInv ==
    /\ \A w \in Workers : timestamp[w] <= clock
    /\ \A i \in 1 .. Len(issued) :
        Fits(issued[i]) => Before(issued[i], timestamp[issued[i].worker], number[issued[i].worker])
    /\ \A i, j \in 1 .. Len(issued) :
        i # j /\ Fits(issued[i]) /\ Fits(issued[j]) => ~Alike(issued[i], issued[j])

UuidInv ==
    /\ UuidTypes
    /\ \A i \in 1 .. Len(issued) : issued[i].id = Id(issued[i].time, issued[i].worker, issued[i].number)
    /\ ~setBack => OrderInv

LEMMA UuidStart == Init => UuidInv
<1> SUFFICES ASSUME Init PROVE UuidInv
  OBVIOUS
<1>1. issued = <<>> /\ issued \in Seq(Records) /\ Len(issued) = 0
  BY EmptySeq DEF Init
<1>2. UuidTypes
  <2>1. clock = epoch /\ setBack = FALSE /\ spinning = {}
    BY DEF Init
  <2>2. clock \in epoch .. MaxTime
    BY <2>1, UuidAssumption
  <2>3. timestamp \in [Workers -> Nat] /\ number \in [Workers -> Nat]
    BY DEF Init
  <2> QED
    BY <1>1, <2>1, <2>2, <2>3 DEF UuidTypes
<1>3. OrderInv
  <2>1. \A w \in Workers : timestamp[w] = 0
    BY DEF Init
  <2>2. 0 <= clock
    BY UuidAssumption DEF Init
  <2>3. 1 .. Len(issued) = {}
    BY <1>1
  <2> QED
    BY <2>1, <2>2, <2>3 DEF OrderInv
<1> QED
  BY <1>1, <1>2, <1>3 DEF UuidInv

\* The record that Issue appends.
LEMMA IssueAppends ==
    ASSUME UuidInv, NEW w \in Workers, NEW n \in Nat, Issue(w, n)
    PROVE  /\ issued' \in Seq(Records) /\ Len(issued) \in Nat /\ Len(issued') = Len(issued) + 1
           /\ \A i \in 1 .. Len(issued) : issued'[i] = issued[i] /\ issued[i] \in Records
           /\ issued'[Len(issued')] = [worker |-> w, time |-> clock, number |-> n, id |-> Id(clock, w, n)]
<1> DEFINE r == [worker |-> w, time |-> clock, number |-> n, id |-> Id(clock, w, n)]
<1>1. issued' = Append(issued, r) /\ issued \in Seq(Records) /\ clock \in epoch .. MaxTime
  BY DEF Issue, UuidInv, UuidTypes
<1>2. Id(clock, w, n) \in Ids
  BY <1>1 DEF Ids
<1>3. r \in Records
  BY <1>1, <1>2 DEF Records
<1> HIDE DEF r
<1>4. Len(issued) \in Nat
  BY <1>1, LenProperties
<1>5. /\ issued' \in Seq(Records) /\ Len(issued') = Len(issued) + 1
      /\ \A i \in 1 .. Len(issued) : issued'[i] = issued[i]
      /\ issued'[Len(issued) + 1] = r
  BY <1>1, <1>3, AppendProperties
<1>6. \A i \in 1 .. Len(issued) : issued[i] \in Records
  BY <1>1, ElementOfSeq
<1> QED
  BY <1>4, <1>5, <1>6 DEF r

\* A new id whose number, if it fits, is after all those of its worker.
LEMMA IssueStep ==
    ASSUME UuidInv, NEW w \in Workers, NEW n \in Nat, Issue(w, n),
           UNCHANGED <<clock, setBack>>, UuidTypes',
           \A v \in Workers : v # w => timestamp'[v] = timestamp[v] /\ number'[v] = number[v],
           ~setBack => /\ timestamp'[w] <= clock
                       /\ \/ timestamp'[w] > timestamp[w]
                          \/ timestamp'[w] = timestamp[w] /\ number'[w] >= number[w],
           ~setBack => \/ n > numberMax
                       \/ /\ timestamp'[w] = clock /\ number'[w] = n
                          /\ timestamp[w] < clock \/ number[w] < n
    PROVE  UuidInv'
<1> DEFINE N == Len(issued')
<1>1. /\ Len(issued) \in Nat /\ N = Len(issued) + 1
      /\ \A i \in 1 .. Len(issued) : issued'[i] = issued[i] /\ issued[i] \in Records
      /\ issued'[N] = [worker |-> w, time |-> clock, number |-> n, id |-> Id(clock, w, n)]
  BY IssueAppends
<1>2. \A i \in 1 .. N : i \in 1 .. Len(issued) \/ i = N
  BY <1>1
<1>3. issued'[N].worker = w /\ issued'[N].time = clock /\ issued'[N].number = n /\ issued'[N].id = Id(clock, w, n)
  BY <1>1
<1> HIDE DEF N
<1>4. \A i \in 1 .. N : issued'[i].id = Id(issued'[i].time, issued'[i].worker, issued'[i].number)
  BY <1>1, <1>2, <1>3 DEF UuidInv
<1>5. ASSUME ~setBack PROVE OrderInv'
  <2>0. OrderInv /\ clock \in Nat /\ clock' = clock
    BY <1>5, UuidAssumption DEF UuidInv, UuidTypes
  <2>1. \A v \in Workers : /\ timestamp[v] \in Nat /\ number[v] \in Nat
                           /\ timestamp'[v] \in Nat /\ number'[v] \in Nat
    BY DEF UuidInv, UuidTypes
  <2>2. \A v \in Workers : timestamp'[v] <= clock'
    BY <1>5, <2>0, <2>1 DEF OrderInv
  <2>3. ASSUME NEW i \in 1 .. Len(issued), Fits(issued[i])
        PROVE  Before(issued[i], timestamp'[issued[i].worker], number'[issued[i].worker])
    <3>1. /\ issued[i].worker \in Workers /\ issued[i].time \in epoch .. MaxTime /\ issued[i].number \in Nat
          /\ issued[i].number <= numberMax
      BY <1>1, <2>3 DEF Records, Fits
    <3>2. issued[i].time \in Nat
      BY <3>1, UuidAssumption
    <3>3. Before(issued[i], timestamp[issued[i].worker], number[issued[i].worker])
      BY <2>0, <2>3 DEF OrderInv
    <3>4. CASE issued[i].worker # w
      BY <3>1, <3>3, <3>4
    <3>5. CASE issued[i].worker = w
      BY <1>5, <2>1, <3>1, <3>2, <3>3, <3>5, UuidAssumption DEF Before
    <3> QED
      BY <3>4, <3>5
  <2>4. Fits(issued'[N]) => /\ timestamp'[w] = clock /\ number'[w] = n
                            /\ timestamp[w] < clock \/ number[w] < n
    BY <1>3, <1>5, UuidAssumption DEF Fits
  <2>5. \A i \in 1 .. N :
          Fits(issued'[i]) => Before(issued'[i], timestamp'[issued'[i].worker], number'[issued'[i].worker])
    <3>1. Fits(issued'[N]) => Before(issued'[N], timestamp'[w], number'[w])
      BY <1>3, <2>1, <2>4 DEF Before
    <3> QED
      BY <1>1, <1>2, <1>3, <2>3, <3>1
  <2>6. ASSUME NEW i \in 1 .. Len(issued), Fits(issued[i]), Fits(issued'[N]) PROVE ~Alike(issued[i], issued'[N])
    <3>1. Before(issued[i], timestamp[issued[i].worker], number[issued[i].worker])
      BY <2>0, <2>6 DEF OrderInv
    <3>2. issued[i].time \in Nat /\ issued[i].number \in Nat
      BY <1>1, <2>6, UuidAssumption DEF Records
    <3>3. timestamp[w] <= clock
      BY <2>0 DEF OrderInv
    <3> QED
      BY <1>3, <2>0, <2>1, <2>4, <2>6, <3>1, <3>2, <3>3 DEF Before, Alike
  <2>7. \A i, j \in 1 .. N :
          i # j /\ Fits(issued'[i]) /\ Fits(issued'[j]) => ~Alike(issued'[i], issued'[j])
    <3>1. \A i, j \in 1 .. Len(issued) :
            i # j /\ Fits(issued'[i]) /\ Fits(issued'[j]) => ~Alike(issued'[i], issued'[j])
      BY <1>1, <2>0 DEF OrderInv
    <3>2. \A i \in 1 .. Len(issued) : Fits(issued'[i]) /\ Fits(issued'[N]) =>
            ~Alike(issued'[i], issued'[N]) /\ ~Alike(issued'[N], issued'[i])
      BY <1>1, <2>6 DEF Alike
    <3> QED
      BY <1>2, <3>1, <3>2
  <2> QED
    BY <2>2, <2>5, <2>7 DEF OrderInv, N
<1> QED
  BY <1>4, <1>5 DEF UuidInv, N

LEMMA UuidStep == UuidInv /\ [Next]_vars => UuidInv'
<1> SUFFICES ASSUME UuidInv, [Next]_vars PROVE UuidInv'
  OBVIOUS
<1>0. /\ UuidTypes /\ clock \in Nat /\ epoch \in Nat /\ MaxTime \in Nat /\ numberMax \in Nat
      /\ \A w \in Workers : timestamp[w] \in Nat /\ number[w] \in Nat
  BY UuidAssumption DEF UuidInv, UuidTypes
<1>1. CASE UNCHANGED vars
  BY <1>1 DEF vars, UuidInv, UuidTypes, OrderInv
<1>2. CASE Tick
  <2>1. clock' = clock + 1 /\ clock' \in epoch .. MaxTime /\ UNCHANGED <<setBack, timestamp, number, spinning, issued>>
    BY <1>0, <1>2 DEF Tick, UuidTypes
  <2>2. ~setBack => \A w \in Workers : timestamp'[w] <= clock'
    BY <1>0, <2>1 DEF UuidInv, OrderInv
  <2> QED
    BY <2>1, <2>2 DEF UuidInv, UuidTypes, OrderInv
<1>3. CASE SetClockBack
  <2>1. clock' \in epoch .. MaxTime /\ setBack' = TRUE /\ UNCHANGED <<timestamp, number, spinning, issued>>
    BY <1>0, <1>3 DEF SetClockBack, UuidTypes
  <2> QED
    BY <2>1 DEF UuidInv, UuidTypes
<1>4. ASSUME NEW w \in Workers, GetSame(w) PROVE UuidInv'
  <2>1. /\ timestamp[w] = clock /\ number[w] < numberMax /\ Issue(w, number[w] + 1) /\ w \notin spinning
        /\ number' = [number EXCEPT ![w] = @ + 1] /\ UNCHANGED <<clock, setBack, timestamp, spinning>>
    BY <1>4 DEF GetSame, Idle
  <2>2. /\ number[w] + 1 \in Nat /\ number'[w] = number[w] + 1 /\ number' \in [Workers -> Nat]
        /\ \A v \in Workers : v # w => number'[v] = number[v]
    BY <1>0, <2>1 DEF UuidTypes
  <2>3. UuidTypes'
    <3>1. issued' \in Seq(Records)
      BY <2>1, <2>2, IssueAppends
    <3> QED
      BY <1>0, <2>1, <2>2, <3>1 DEF UuidTypes
  <2>4. timestamp'[w] <= clock /\ timestamp'[w] = timestamp[w] /\ number'[w] >= number[w] /\ number[w] < number[w] + 1
    BY <1>0, <2>1, <2>2
  <2> QED
    BY <2>1, <2>2, <2>3, <2>4, IssueStep
<1>5. ASSUME NEW w \in Workers, GetExhausted(w) PROVE UuidInv'
  <2>1. /\ number[w] >= numberMax /\ spinning' = spinning \cup {w}
        /\ number' = [number EXCEPT ![w] = @ + 1] /\ UNCHANGED <<clock, setBack, timestamp, issued>>
    BY <1>5 DEF GetExhausted
  <2>2. /\ number'[w] = number[w] + 1 /\ number' \in [Workers -> Nat]
        /\ \A v \in Workers : number'[v] \in Nat /\ number'[v] >= number[v] /\ (v # w => number'[v] = number[v])
    BY <1>0, <2>1 DEF UuidTypes
  <2>3. number'[w] > numberMax
    BY <1>0, <2>1, <2>2
  <2>4. UuidTypes'
    BY <1>0, <2>1, <2>2, <2>3 DEF UuidTypes
  <2>5. ASSUME OrderInv PROVE OrderInv'
    <3>1. ASSUME NEW i \in 1 .. Len(issued), Fits(issued[i])
          PROVE  Before(issued[i], timestamp[issued[i].worker], number'[issued[i].worker])
      <4>1. issued[i] \in Records
        BY <1>0, ElementOfSeq DEF UuidTypes
      <4>2. issued[i].worker \in Workers /\ issued[i].number \in Nat
        BY <4>1 DEF Records
      <4>3. Before(issued[i], timestamp[issued[i].worker], number[issued[i].worker])
        BY <2>5, <3>1 DEF OrderInv
      <4> QED
        BY <1>0, <2>2, <4>2, <4>3 DEF Before
    <3> QED
      BY <2>1, <2>5, <3>1 DEF OrderInv
  <2> QED
    BY <2>1, <2>4, <2>5 DEF UuidInv
<1>6. ASSUME NEW w \in Workers, GetSpun(w) PROVE UuidInv'
  <2>1. /\ w \in spinning /\ Issue(w, number[w]) /\ spinning' = spinning \ {w}
        /\ UNCHANGED <<clock, setBack, timestamp, number>>
    BY <1>6 DEF GetSpun
  <2>2. number[w] > numberMax /\ number[w] \in Nat
    BY <1>0, <2>1 DEF UuidTypes
  <2>3. UuidTypes'
    <3>1. issued' \in Seq(Records)
      BY <2>1, <2>2, IssueAppends
    <3> QED
      BY <1>0, <2>1, <3>1 DEF UuidTypes
  <2>4. ~setBack => timestamp'[w] <= clock
    BY <2>1 DEF UuidInv, OrderInv
  <2> QED
    BY <2>1, <2>2, <2>3, <2>4, IssueStep
<1>7. ASSUME NEW w \in Workers, GetNew(w) PROVE UuidInv'
  <2>1. /\ timestamp[w] # clock /\ Issue(w, 0) /\ w \notin spinning
        /\ number' = [number EXCEPT ![w] = 0] /\ timestamp' = [timestamp EXCEPT ![w] = clock]
        /\ UNCHANGED <<clock, setBack, spinning>>
    BY <1>7 DEF GetNew, Idle
  <2>2. /\ number' \in [Workers -> Nat] /\ timestamp' \in [Workers -> Nat]
        /\ number'[w] = 0 /\ timestamp'[w] = clock
        /\ \A v \in Workers : v # w => timestamp'[v] = timestamp[v] /\ number'[v] = number[v]
    BY <1>0, <2>1 DEF UuidTypes
  <2>3. UuidTypes'
    <3>1. issued' \in Seq(Records)
      BY <2>1, IssueAppends
    <3> QED
      BY <1>0, <2>1, <2>2, <3>1 DEF UuidTypes
  <2>4. ~setBack => timestamp[w] < clock
    <3>1. ~setBack => timestamp[w] <= clock
      BY DEF UuidInv, OrderInv
    <3> QED
      BY <1>0, <2>1, <3>1
  <2>5. timestamp'[w] <= clock
    BY <1>0, <2>2
  <2> QED
    BY <1>0, <2>1, <2>2, <2>3, <2>4, <2>5, IssueStep
<1> QED
  BY <1>1, <1>2, <1>3, <1>4, <1>5, <1>6, <1>7 DEF Next, Get

\* While the clock is not set back, the ids that any number of workers issue
\* are distinct, as long as the number did not overflow its field.
THEOREM IdsUnique == ProcessSpec => []FittingIdsUnique
<1>1. ProcessInit => UuidInv
  BY UuidStart DEF ProcessInit
<1>2. UuidInv /\ [ProcessNext]_processVars => UuidInv'
  <2>1. [ProcessNext]_processVars => [Next]_vars
    BY DEF ProcessNext, processVars
  <2> QED
    BY <2>1, UuidStep
<1>3. UuidInv => FittingIdsUnique
  <2> SUFFICES ASSUME UuidInv, ~setBack, NEW i \in DOMAIN issued, NEW j \in DOMAIN issued, i # j,
                      issued[i].number <= numberMax, issued[j].number <= numberMax
               PROVE  issued[i].id # issued[j].id
    BY DEF FittingIdsUnique
  <2>1. i \in 1 .. Len(issued) /\ j \in 1 .. Len(issued)
    BY LenProperties DEF UuidInv, UuidTypes
  <2>2. issued[i] \in Records /\ issued[j] \in Records
    BY <2>1, ElementOfSeq DEF UuidInv, UuidTypes
  <2>3. /\ issued[i].id = Id(issued[i].time, issued[i].worker, issued[i].number)
        /\ issued[j].id = Id(issued[j].time, issued[j].worker, issued[j].number)
        /\ ~Alike(issued[i], issued[j])
    BY <2>1 DEF UuidInv, OrderInv, Fits
  <2>4. /\ issued[i].time \in epoch .. MaxTime /\ issued[i].worker \in Workers /\ issued[i].number \in Nat
        /\ issued[j].time \in epoch .. MaxTime /\ issued[j].worker \in Workers /\ issued[j].number \in Nat
    BY <2>2 DEF Records
  <2>5. issued[i].number \in 0 .. numberMax /\ issued[j].number \in 0 .. numberMax
    BY <2>4, UuidAssumption
  <2> QED
    BY <2>3, <2>4, <2>5, UuidAssumption DEF Alike
<1> QED
  BY <1>1, <1>2, <1>3, PTL DEF ProcessSpec

------------------------------------------------------------------------------
(* The try/catch chains.                                                   *)

\* The registrations of the slice are at most those that were made.
SizeInv == Len(catches) <= made

\* What ran when the handlers of the chain are through, Finally excepted.
ChainRan == IF err = NoError THEN IfBound(els) ELSE HandlerFor(err)

\* How far a call of Do is, and what ran so far.
DoInv ==
    /\ pc \in {"try", "else", "match", "finally"} => mode = "Do"
    /\ pc \in {"fun", "funFinally", "funRecover"} => mode = "TryFunc"
    /\ pc \in {"try", "else"} => err = NoError
    /\ pc = "try" => at = 1
    /\ pc \in {"try", "else", "match"} => ran = << >> /\ panicking = NoError
    /\ pc = "else" => els # 0
    /\ pc = "match" => /\ err # NoError
                       /\ \A j \in 1 .. at - 1 : ~match(err, catches[j].target)
    /\ pc = "finally" => /\ ran = ChainRan
                         /\ err # NoError /\ HandlerFor(err) = << >> => panicking # NoError

TryInv == TryTypeOK /\ SizeInv /\ DoInv /\ RanExactly

------------------------------------------------------------------------------
(* The handler of an error.                                                *)

\* The first place of a slice with a given property.
LEMMA MinIsFirst ==
    ASSUME NEW S \in SUBSET Nat, NEW n \in S, \A m \in S : n <= m
    PROVE  Min(S) = n
<1>1. Min(S) \in S /\ \A m \in S : Min(S) <= m
  <2>1. \E x \in S : \A m \in S : x <= m
    OBVIOUS
  <2> QED
    BY <2>1, Zenon DEF Min
<1>2. Min(S) <= n /\ n <= Min(S) /\ n \in Nat /\ Min(S) \in Nat
  BY <1>1
<1> HIDE DEF Min
<1> QED
  BY <1>2

\* A catch that matches, and none before it: its handler is the one.
LEMMA CatchFound ==
    ASSUME NEW n \in DOMAIN catches, DOMAIN catches \subseteq Nat,
           match(err, catches[n].target),
           \A j \in DOMAIN catches : j < n => ~match(err, catches[j].target)
    PROVE  HandlerFor(err) = <<catches[n].id>>
<1> DEFINE hits == {j \in DOMAIN catches : match(err, catches[j].target)}
<1>1. n \in hits /\ hits \in SUBSET Nat
  OBVIOUS
<1>2. \A j \in hits : n <= j
  <2> SUFFICES ASSUME NEW j \in hits PROVE n <= j
    OBVIOUS
  <2>1. ~(j < n) /\ j \in Nat /\ n \in Nat
    OBVIOUS
  <2> QED
    BY <2>1
<1>3. Min(hits) = n
  <2> HIDE DEF hits
  <2> QED
    BY <1>1, <1>2, MinIsFirst
<1>4. hits # {}
  BY <1>1
<1>5. HandlerFor(err) = IF hits # {} THEN <<catches[Min(hits)].id>> ELSE IfBound(dflt)
  BY DEF HandlerFor
<1> QED
  BY <1>3, <1>4, <1>5

\* No catch matches: the default is all there is.
LEMMA NoneFound ==
    ASSUME \A j \in DOMAIN catches : ~match(err, catches[j].target)
    PROVE  HandlerFor(err) = IfBound(dflt)
BY DEF HandlerFor

------------------------------------------------------------------------------
(* What a handler does to the type invariant.                              *)

LEMMA HandlerRuns ==
    ASSUME TryTypeOK, NEW id \in 1 .. MaxHandlers, Handler(id)
    PROVE  /\ ran' \in Seq(1 .. MaxHandlers)
           /\ ran' = ran \o <<id>>
           /\ panicking' \in ErrValues \cup Thrown \cup {NoError}
           /\ panicking # NoError => panicking' # NoError
<1>1. ran \in Seq(1 .. MaxHandlers)
  BY DEF TryTypeOK
<1>2. ran' = Append(ran, id)
  BY DEF Handler
<1>3. Append(ran, id) = ran \o <<id>> /\ Append(ran, id) \in Seq(1 .. MaxHandlers)
  BY <1>1, AppendProperties
<1>4. NoError \notin Thrown
  BY TryAssumption DEF Thrown
<1>5. panicking' = panicking \/ panicking' \in Thrown
  BY DEF Handler
<1>6. panicking' \in ErrValues \cup Thrown \cup {NoError}
  BY <1>5 DEF TryTypeOK
<1> QED
  BY <1>2, <1>3, <1>4, <1>5, <1>6

LEMMA TryInvInit == TryInit => TryInv
BY TryAssumption DEF TryInit, TryInv, TryTypeOK, SizeInv, DoInv, RanExactly, Over

------------------------------------------------------------------------------
(* Every step keeps the invariant.                                         *)

\* A registration is made between two calls.
LEMMA RegisterStep ==
    ASSUME TryInv, Register,
           \/ /\ catches' = catches
              /\ dflt' \in 0 .. MaxHandlers /\ els' \in 0 .. MaxHandlers
              /\ fin' \in 0 .. MaxHandlers
           \/ /\ \E t \in Errors : catches' = Append(catches, [id |-> made + 1, target |-> t])
              /\ UNCHANGED <<dflt, els, fin>>
    PROVE  TryInv'
<1>1. /\ made' = made + 1 /\ made < MaxHandlers /\ made \in 0 .. MaxHandlers
      /\ pc' = "build" /\ panicking' = NoError
      /\ UNCHANGED <<at, err, ran, mode, runs>>
  BY DEF Register, TryInv, TryTypeOK
<1>2. made' \in 0 .. MaxHandlers /\ made + 1 \in 1 .. MaxHandlers
  BY <1>1, TryAssumption
<1>3. /\ catches' \in Seq([id : 1 .. MaxHandlers, target : Errors])
      /\ Len(catches') <= made'
  <2>1. catches \in Seq([id : 1 .. MaxHandlers, target : Errors]) /\ Len(catches) <= made
    BY DEF TryInv, TryTypeOK, SizeInv
  <2>2. Len(catches) \in Nat
    BY <2>1
  <2>3. CASE catches' = catches
    BY <1>1, <2>1, <2>2, <2>3
  <2>4. ASSUME NEW t \in Errors, catches' = Append(catches, [id |-> made + 1, target |-> t])
        PROVE  <1>3!1 /\ <1>3!2
    <3>1. [id |-> made + 1, target |-> t] \in [id : 1 .. MaxHandlers, target : Errors]
      BY <1>2
    <3>2. /\ catches' \in Seq([id : 1 .. MaxHandlers, target : Errors])
          /\ Len(catches') = Len(catches) + 1
      BY <2>1, <2>4, <3>1, AppendProperties
    <3> QED
      BY <1>1, <2>1, <2>2, <3>2
  <2> QED
    BY <2>3, <2>4
<1>4. TryTypeOK'
  BY <1>1, <1>2, <1>3 DEF TryInv, TryTypeOK
<1>5. DoInv' /\ RanExactly'
  BY <1>1 DEF DoInv, RanExactly, Over
<1> QED
  BY <1>3, <1>4, <1>5 DEF TryInv, SizeInv

LEMMA RegistersInv ==
    ASSUME TryInv, (\E t \in Errors : Catch(t)) \/ DefaultCatch \/ Else \/ Finally
    PROVE  TryInv'
<1>1. Register
  BY DEF Catch, DefaultCatch, Else, Finally
<1>2. /\ dflt \in 0 .. MaxHandlers /\ els \in 0 .. MaxHandlers /\ fin \in 0 .. MaxHandlers
      /\ made + 1 \in 0 .. MaxHandlers
  BY <1>1, TryAssumption DEF Register, TryInv, TryTypeOK
<1>3. CASE \E t \in Errors : Catch(t)
  BY <1>1, <1>3, RegisterStep DEF Catch
<1>4. CASE DefaultCatch \/ Else \/ Finally
  BY <1>1, <1>2, <1>4, RegisterStep DEF DefaultCatch, Else, Finally
<1> QED
  BY <1>3, <1>4

\* Do and TryFunc begin with nothing run.
LEMMA CallsInv == ASSUME TryInv, Do \/ TryFunc PROVE TryInv'
<1>1. /\ (pc' = "try" /\ mode' = "Do") \/ (pc' = "fun" /\ mode' = "TryFunc")
      /\ runs < MaxRuns /\ runs' = runs + 1
      /\ at' = 1 /\ err' = NoError /\ panicking' = NoError /\ ran' = << >>
      /\ UNCHANGED bound
  BY DEF Do, TryFunc, Called
<1>2. runs' \in 0 .. MaxRuns /\ 1 \in 1 .. MaxHandlers + 1
  BY <1>1, TryAssumption DEF TryInv, TryTypeOK
<1>3. TryTypeOK'
  BY <1>1, <1>2 DEF TryInv, TryTypeOK, bound
<1>4. SizeInv'
  BY <1>1 DEF TryInv, SizeInv, bound
<1>5. DoInv' /\ RanExactly'
  BY <1>1 DEF DoInv, RanExactly, Over
<1> QED
  BY <1>3, <1>4, <1>5 DEF TryInv

\* What changes neither the registrations nor the kind of the call.
LEMMA SameHandlers ==
    ASSUME UNCHANGED bound, err' = err
    PROVE  ChainRan' = ChainRan /\ HandlerFor(err)' = HandlerFor(err)
BY DEF bound, ChainRan, HandlerFor, IfBound, match

LEMMA TryStepInv == ASSUME TryInv, TryReturns \/ \E v \in Thrown : TryPanics(v) PROVE TryInv'
<1>1. pc = "try" /\ UNCHANGED <<bound, at, panicking, ran, mode, runs>>
  BY DEF TryReturns, TryPanics
<1>2. mode = "Do" /\ err = NoError /\ ran = << >> /\ panicking = NoError
  BY <1>1 DEF TryInv, DoInv
<1>3. SizeInv'
  BY <1>1 DEF TryInv, SizeInv, bound
<1>4. CASE TryReturns
  <2>1. /\ pc' = IF els # 0 THEN "else" ELSE "finally"
        /\ err' = err
    BY <1>4 DEF TryReturns
  <2>2. TryTypeOK'
    BY <1>1, <2>1 DEF TryInv, TryTypeOK, bound
  <2>3. DoInv' /\ RanExactly'
    BY <1>1, <1>2, <2>1 DEF DoInv, RanExactly, Over, ChainRan, IfBound, bound
  <2> QED
    BY <1>3, <2>2, <2>3 DEF TryInv
<1>5. ASSUME NEW v \in Thrown, TryPanics(v) PROVE TryInv'
  <2>1. pc' = "match" /\ err' = toError(v)
    BY <1>5 DEF TryPanics
  <2>2. toError(v) \in ErrValues /\ toError(v) # NoError
    BY TryAssumption DEF toError, Thrown, ErrValues
  <2>3. TryTypeOK'
    BY <1>1, <2>1, <2>2 DEF TryInv, TryTypeOK, bound
  <2>4. at' = 1
    BY <1>1 DEF TryInv, DoInv
  <2>5. DoInv' /\ RanExactly'
    BY <1>1, <1>2, <2>1, <2>2, <2>4 DEF DoInv, RanExactly, Over
  <2> QED
    BY <1>3, <2>3, <2>5 DEF TryInv
<1> QED
  BY <1>4, <1>5

\* The handler that the outcome calls for runs, and Finally is next.
LEMMA ChainHandler ==
    ASSUME TryInv, pc \in {"else", "match"}, NEW id \in 1 .. MaxHandlers,
           ChainRan = <<id>>, err # NoError => HandlerFor(err) = <<id>>,
           Handler(id), pc' = "finally", UNCHANGED <<bound, at, err, mode, runs>>
    PROVE  TryInv'
<1>1. /\ ran' \in Seq(1 .. MaxHandlers)
      /\ ran' = ran \o <<id>>
      /\ panicking' \in ErrValues \cup Thrown \cup {NoError}
  BY HandlerRuns DEF TryInv
<1>2. ran = << >> /\ mode = "Do"
  BY DEF TryInv, DoInv
<1>3. ran' = <<id>>
  BY <1>1, <1>2
<1>4. TryTypeOK'
  BY <1>1 DEF TryInv, TryTypeOK, bound
<1>5. ran' = ChainRan' /\ (err' # NoError => HandlerFor(err)' # << >>)
  BY <1>3, SameHandlers
<1>6. DoInv' /\ RanExactly'
  BY <1>2, <1>5 DEF DoInv, RanExactly, Over
<1>7. SizeInv'
  BY DEF TryInv, SizeInv, bound
<1> QED
  BY <1>4, <1>6, <1>7 DEF TryInv

LEMMA ElseInv == ASSUME TryInv, ElseRuns PROVE TryInv'
<1>1. pc = "else" /\ els # 0 /\ err = NoError
  BY DEF ElseRuns, TryInv, DoInv
<1>2. els \in 1 .. MaxHandlers
  BY <1>1 DEF TryInv, TryTypeOK
<1>3. ChainRan = <<els>>
  BY <1>1 DEF ChainRan, IfBound
<1> QED
  BY <1>1, <1>2, <1>3, ChainHandler DEF ElseRuns

\* What match has looked at so far.
LEMMA Looked ==
    ASSUME TryInv, pc = "match"
    PROVE  /\ DOMAIN catches = 1 .. Len(catches) /\ Len(catches) \in Nat
           /\ at \in Nat /\ err # NoError
           /\ \A j \in DOMAIN catches : j < at => ~match(err, catches[j].target)
<1>1. DOMAIN catches = 1 .. Len(catches) /\ Len(catches) \in Nat
  BY LenProperties DEF TryInv, TryTypeOK
<1>2. at \in 1 .. MaxHandlers + 1 /\ at \in Nat
  BY TryAssumption DEF TryInv, TryTypeOK
<1>3. err # NoError /\ \A j \in 1 .. at - 1 : ~match(err, catches[j].target)
  BY DEF TryInv, DoInv
<1>4. \A j \in DOMAIN catches : j < at => j \in 1 .. at - 1
  BY <1>1, <1>2
<1> QED
  BY <1>1, <1>2, <1>3, <1>4

LEMMA CatchInv == ASSUME TryInv, CatchRuns PROVE TryInv'
<1>1. pc = "match" /\ at <= Len(catches) /\ match(err, catches[at].target)
  BY DEF CatchRuns
<1>2. /\ at \in DOMAIN catches /\ DOMAIN catches \subseteq Nat
      /\ err # NoError
      /\ \A j \in DOMAIN catches : j < at => ~match(err, catches[j].target)
  <2>1. at \in 1 .. MaxHandlers + 1
    BY DEF TryInv, TryTypeOK
  <2>2. /\ DOMAIN catches = 1 .. Len(catches) /\ Len(catches) \in Nat
        /\ at \in Nat /\ err # NoError
        /\ \A j \in DOMAIN catches : j < at => ~match(err, catches[j].target)
    BY <1>1, Looked
  <2>3. at \in DOMAIN catches /\ DOMAIN catches \subseteq Nat
    BY <1>1, <2>1, <2>2
  <2> QED
    BY <2>2, <2>3
<1>3. HandlerFor(err) = <<catches[at].id>>
  BY <1>1, <1>2, CatchFound
<1>4. catches[at].id \in 1 .. MaxHandlers
  <2>1. catches[at] \in [id : 1 .. MaxHandlers, target : Errors]
    <3>1. catches \in Seq([id : 1 .. MaxHandlers, target : Errors])
      BY DEF TryInv, TryTypeOK
    <3> QED
      BY <1>1, <1>2, <3>1, Looked, ElementOfSeq
  <2> QED
    BY <2>1
<1>5. ChainRan = <<catches[at].id>>
  BY <1>2, <1>3 DEF ChainRan
<1> QED
  BY <1>1, <1>3, <1>4, <1>5, ChainHandler DEF CatchRuns

\* The slice is through: only the default is left.
LEMMA Through ==
    ASSUME TryInv, pc = "match", at > Len(catches)
    PROVE  err # NoError /\ HandlerFor(err) = IfBound(dflt) /\ ChainRan = IfBound(dflt)
<1>1. \A j \in DOMAIN catches : j < at
  BY Looked
<1>2. err # NoError /\ HandlerFor(err) = IfBound(dflt)
  BY <1>1, Looked, NoneFound
<1> QED
  BY <1>2 DEF ChainRan

LEMMA DefaultInv == ASSUME TryInv, DefaultRuns PROVE TryInv'
<1>1. pc = "match" /\ at > Len(catches) /\ dflt # 0
  BY DEF DefaultRuns
<1>2. dflt \in 1 .. MaxHandlers
  BY <1>1 DEF TryInv, TryTypeOK
<1>3. HandlerFor(err) = <<dflt>> /\ ChainRan = <<dflt>>
  BY <1>1, Through DEF IfBound
<1> QED
  BY <1>1, <1>2, <1>3, ChainHandler DEF DefaultRuns

LEMMA RethrowInv == ASSUME TryInv, Rethrow PROVE TryInv'
<1>1. /\ pc = "match" /\ at > Len(catches) /\ dflt = 0
      /\ panicking' = err /\ pc' = "finally"
      /\ UNCHANGED <<bound, at, err, ran, mode, runs>>
  BY DEF Rethrow
<1>2. err # NoError /\ ChainRan = << >>
  BY <1>1, Through DEF IfBound
<1>3. ran = << >> /\ mode = "Do"
  BY <1>1 DEF TryInv, DoInv
<1>4. TryTypeOK'
  BY <1>1 DEF TryInv, TryTypeOK, bound
<1>5. ran' = ChainRan'
  BY <1>1, <1>2, <1>3, SameHandlers
<1>6. DoInv' /\ RanExactly'
  BY <1>1, <1>2, <1>3, <1>5 DEF DoInv, RanExactly, Over
<1>7. SizeInv'
  BY <1>1 DEF TryInv, SizeInv, bound
<1> QED
  BY <1>4, <1>6, <1>7 DEF TryInv

LEMMA MatchNextInv == ASSUME TryInv, MatchNext PROVE TryInv'
<1>1. /\ pc = "match" /\ at <= Len(catches) /\ ~match(err, catches[at].target)
      /\ at' = at + 1
      /\ UNCHANGED <<bound, pc, err, panicking, ran, mode, runs>>
  BY DEF MatchNext
<1>2. at \in 1 .. MaxHandlers + 1 /\ at \in Nat /\ made \in 0 .. MaxHandlers
      /\ Len(catches) \in Nat /\ Len(catches) <= made
  BY <1>1, Looked DEF TryInv, TryTypeOK, SizeInv
<1>3. at' \in 1 .. MaxHandlers + 1
  BY <1>1, <1>2, TryAssumption
<1>4. TryTypeOK'
  BY <1>1, <1>3 DEF TryInv, TryTypeOK, bound
<1>5. \A j \in 1 .. at' - 1 : ~match(err', catches'[j].target)
  <2>1. \A j \in 1 .. at' - 1 : j = at \/ j \in 1 .. at - 1
    BY <1>1, <1>2
  <2>2. \A j \in 1 .. at - 1 : ~match(err, catches[j].target)
    BY <1>1 DEF TryInv, DoInv
  <2>3. catches' = catches /\ err' = err
    BY <1>1 DEF bound
  <2> QED
    BY <1>1, <2>1, <2>2, <2>3 DEF match
<1>6. DoInv'
  BY <1>1, <1>5 DEF TryInv, DoInv, match
<1>7. RanExactly'
  BY <1>1 DEF RanExactly, Over
<1>8. SizeInv'
  BY <1>1 DEF TryInv, SizeInv, bound
<1> QED
  BY <1>4, <1>6, <1>7, <1>8 DEF TryInv

\* The deferred function of Do.
LEMMA FinallyInv == ASSUME TryInv, FinallyRuns PROVE TryInv'
<1>1. /\ pc = "finally" /\ UNCHANGED <<bound, at, err, mode, runs>>
      /\ pc' = IF panicking' = NoError THEN "returned" ELSE "panicked"
  BY DEF FinallyRuns, Leave
<1>2. /\ ran = ChainRan /\ mode = "Do"
      /\ err # NoError /\ HandlerFor(err) = << >> => panicking # NoError
  BY <1>1 DEF TryInv, DoInv
<1>3. /\ ran' \in Seq(1 .. MaxHandlers)
      /\ ran' = ran \o IfBound(fin)
      /\ panicking' \in ErrValues \cup Thrown \cup {NoError}
      /\ panicking # NoError => panicking' # NoError
  <2>1. CASE fin # 0
    <3>1. fin \in 1 .. MaxHandlers /\ Handler(fin) /\ IfBound(fin) = <<fin>>
      BY <2>1 DEF FinallyRuns, TryInv, TryTypeOK, IfBound
    <3> QED
      BY <3>1, HandlerRuns DEF TryInv
  <2>2. CASE fin = 0
    <3>1. ran' = ran /\ panicking' = panicking /\ IfBound(fin) = << >>
      BY <2>2 DEF FinallyRuns, IfBound
    <3>2. ran \in Seq(1 .. MaxHandlers) /\ ran = ran \o << >>
      BY DEF TryInv, TryTypeOK
    <3> QED
      BY <3>1, <3>2 DEF TryInv, TryTypeOK
  <2> QED
    BY <2>1, <2>2
<1>4. TryTypeOK'
  BY <1>1, <1>3 DEF TryInv, TryTypeOK, bound
<1>5. DoInv'
  BY <1>1 DEF DoInv
<1>6. RanExactly'
  <2>1. ran' = ChainRan' \o IfBound(fin)'
    BY <1>1, <1>2, <1>3, SameHandlers DEF bound, IfBound
  <2>2. pc' = "returned" /\ err' # NoError => HandlerFor(err)' # << >>
    BY <1>1, <1>2, <1>3, SameHandlers
  <2> QED
    BY <2>1, <2>2 DEF RanExactly, ChainRan
<1>7. SizeInv'
  BY <1>1 DEF TryInv, SizeInv, bound
<1> QED
  BY <1>4, <1>5, <1>6, <1>7 DEF TryInv

\* A call of TryFunc.
LEMMA FunInv == ASSUME TryInv, Fun \/ FunFinally \/ FunRecover PROVE TryInv'
<1>1. /\ pc \in {"fun", "funFinally", "funRecover"} /\ mode = "TryFunc"
      /\ UNCHANGED <<bound, at, mode, runs>>
  BY DEF Fun, FunFinally, FunRecover, TryInv, DoInv
<1>2. pc' \in {"funFinally", "funRecover", "returned", "panicked"}
  BY DEF Fun, FunFinally, FunRecover, Leave
<1>3. ran' \in Seq(1 .. MaxHandlers)
  <2>1. ran' = ran \/ (fin # 0 /\ ran' = Append(ran, fin)) \/ (dflt # 0 /\ ran' = Append(ran, dflt))
    BY DEF Fun, FunFinally, FunRecover
  <2>2. /\ fin # 0 => fin \in 1 .. MaxHandlers
        /\ dflt # 0 => dflt \in 1 .. MaxHandlers
        /\ ran \in Seq(1 .. MaxHandlers)
    BY DEF TryInv, TryTypeOK
  <2>3. ASSUME NEW id \in 1 .. MaxHandlers PROVE Append(ran, id) \in Seq(1 .. MaxHandlers)
    BY <2>2
  <2> QED
    BY <2>1, <2>2, <2>3
<1>4. /\ panicking' \in ErrValues \cup Thrown \cup {NoError}
      /\ err' \in ErrValues \cup Thrown \cup {NoError}
  BY DEF Fun, FunFinally, FunRecover, TryInv, TryTypeOK
<1>5. /\ pc' = "returned" => panicking' = NoError
      /\ pc' = "panicked" => panicking' # NoError
  BY TryAssumption DEF Fun, FunFinally, FunRecover, Leave, Thrown
<1>6. TryTypeOK'
  BY <1>1, <1>2, <1>3, <1>4, <1>5 DEF TryInv, TryTypeOK, bound
<1>7. DoInv' /\ RanExactly'
  BY <1>1, <1>2 DEF DoInv, RanExactly
<1>8. SizeInv'
  BY <1>1 DEF TryInv, SizeInv, bound
<1> QED
  BY <1>6, <1>7, <1>8 DEF TryInv

LEMMA TryInvStep == TryInv /\ [TryNext]_tryVars => TryInv'
<1> SUFFICES ASSUME TryInv, [TryNext]_tryVars PROVE TryInv'
  OBVIOUS
<1>1. CASE UNCHANGED tryVars
  BY <1>1 DEF tryVars, bound, TryInv, TryTypeOK, SizeInv, DoInv, RanExactly, Over, ChainRan,
     HandlerFor, IfBound, match
<1> QED
  BY <1>1, RegistersInv, CallsInv, TryStepInv, ElseInv, MatchNextInv, CatchInv, DefaultInv,
     RethrowInv, FinallyInv, FunInv
  DEF TryNext

\* TryInv holds throughout every behaviour of a chain.
THEOREM TryInvariance == TrySpec => []TryInv
BY TryInvInit, TryInvStep, PTL DEF TrySpec

\* A call of Do runs what it should and nothing else, whatever panics on the
\* way, and returns normally only when the error had a handler.
THEOREM HandlersRun == TrySpec => []RanExactly
<1>1. TryInv => RanExactly
  BY DEF TryInv
<1> QED
  BY <1>1, TryInvariance, PTL

\* The registrations and the place in the slice keep their bounds, and a call
\* ends in a panic exactly when one is under way.
THEOREM TryTypeCorrect == TrySpec => []TryTypeOK
<1>1. TryInv => TryTypeOK
  BY DEF TryInv
<1> QED
  BY <1>1, TryInvariance, PTL

===============================================================================
