----------------------------- MODULE ServiceLife -----------------------------
(***************************************************************************)
(* services/base_service.go and utils/signal.go: a service that goroutines *)
(* start and stop without a lock, and the goroutines that turn signals     *)
(* into channel operations.  HttpService and QueueService embed the base   *)
(* and add nothing to its life cycle.  External: the runtime delivers a    *)
(* signal to a channel without waiting, and the application receives.      *)
(***************************************************************************)
EXTENDS Naturals

CONSTANTS
    Users,            \* goroutines that call the service's methods
    MaxContexts,      \* bound: contexts made by Start
    MaxHups, MaxTerms \* bounds: signals sent

VARIABLES
    isRun,     \* bs.isRun
    cancel,    \* the context bs.cancel belongs to, 0 for nil
    contexts,  \* contexts made
    cancelled, \* contexts cancelled
    upc,       \* the step each goroutine is at
    misused,   \* history: two Starts or two Stops overlapped, or Init hit a running service
    hups, seen,         \* SIGHUPs sent; how many of them the last receive came after
    hupCh, hupPc,       \* signalCh, and the goroutine that forwards from it
    terms, termCh, done \* SIGTERMs sent; shutdownCh; resultCh is closed

serviceVars == <<isRun, cancel, contexts, cancelled, upc, misused>>
signalVars == <<hups, seen, hupCh, hupPc, terms, termCh, done>>
lifeVars == <<serviceVars, signalVars>>

LifeInit ==
    /\ isRun = FALSE /\ cancel = 0 /\ contexts = 0 /\ cancelled = {}
    /\ upc = [u \in Users |-> "idle"] /\ misused = FALSE
    /\ hups = 0 /\ seen = 0 /\ hupCh = 0 /\ hupPc = "receive"
    /\ terms = 0 /\ termCh = 0 /\ done = FALSE

------------------------------------------------------------------------------
At(u, step) == upc[u] = step /\ UNCHANGED signalVars
UserGoto(u, step) == upc' = [upc EXCEPT ![u] = step]

\* u enters a method while somebody is between two steps of the same one.
Overlaps(steps) == misused' = (misused \/ \E v \in Users : upc[v] \in steps)

ServiceInit(u) ==
    /\ At(u, "idle")
    /\ isRun' = FALSE
    /\ misused' = (misused \/ isRun \/ \E v \in Users : upc[v] # "idle")
    /\ UNCHANGED <<cancel, contexts, cancelled, upc>>

Start(u) ==
    /\ At(u, "idle") /\ ~isRun /\ contexts < MaxContexts
    /\ UserGoto(u, "start.context")
    /\ Overlaps({"start.context", "start.run"})
    /\ UNCHANGED <<isRun, cancel, contexts, cancelled>>

StartContext(u) ==
    /\ At(u, "start.context") /\ contexts < MaxContexts
    /\ contexts' = contexts + 1
    /\ cancel' = contexts + 1
    /\ UserGoto(u, "start.run")
    /\ UNCHANGED <<isRun, cancelled, misused>>

StartRun(u) ==
    /\ At(u, "start.run")
    /\ isRun' = TRUE
    /\ UserGoto(u, "idle")
    /\ UNCHANGED <<cancel, contexts, cancelled, misused>>

\* Mutant: isRun is cleared first, so that a Start gets in before the cancel.
StopRunFirst(u) ==
    /\ At(u, "idle") /\ isRun
    /\ isRun' = FALSE
    /\ UserGoto(u, "stop.cancel")
    /\ Overlaps({"stop.cancel", "stop.run"})
    /\ UNCHANGED <<cancel, contexts, cancelled>>

Stop(u) ==
    /\ At(u, "idle") /\ isRun
    /\ UserGoto(u, "stop.cancel")
    /\ Overlaps({"stop.cancel", "stop.run"})
    /\ UNCHANGED <<isRun, cancel, contexts, cancelled>>

StopCancel(u) ==
    /\ At(u, "stop.cancel")
    /\ cancelled' = IF cancel = 0 THEN cancelled ELSE cancelled \cup {cancel}
    /\ UserGoto(u, "stop.run")
    /\ UNCHANGED <<isRun, cancel, contexts, misused>>

StopRun(u) ==
    /\ At(u, "stop.run")
    /\ isRun' = FALSE
    /\ UserGoto(u, "idle")
    /\ UNCHANGED <<cancel, contexts, cancelled, misused>>

Service ==
    \E u \in Users :
        \/ ServiceInit(u)
        \/ Start(u) \/ StartContext(u) \/ StartRun(u)
        \/ Stop(u) \/ StopCancel(u) \/ StopRun(u)

------------------------------------------------------------------------------
\* Mutant: a channel without a place takes a signal only while the goroutine waits.
HupUnbuffered ==
    /\ hups < MaxHups
    /\ hups' = hups + 1
    /\ hupCh' = IF hupPc = "receive" THEN 1 ELSE hupCh
    /\ UNCHANGED <<serviceVars, seen, hupPc, terms, termCh, done>>

\* MakeSighupCh: signalCh has one place, and a signal that finds it full is
\* dropped.
HupPlaces == 1

Hup ==
    /\ hups < MaxHups
    /\ hups' = hups + 1
    /\ hupCh' = IF hupCh < HupPlaces THEN hupCh + 1 ELSE hupCh
    /\ UNCHANGED <<serviceVars, seen, hupPc, terms, termCh, done>>

HupReceive ==
    /\ hupPc = "receive" /\ hupCh > 0
    /\ hupCh' = hupCh - 1
    /\ hupPc' = "send"
    /\ UNCHANGED <<serviceVars, hups, seen, terms, termCh, done>>

\* The application takes the message, and reloads what is there by then.
Reload ==
    /\ hupPc = "send"
    /\ hupPc' = "loop" /\ seen' = hups
    /\ UNCHANGED <<serviceVars, hups, hupCh, terms, termCh, done>>

HupLoop ==
    /\ hupPc = "loop" /\ hupPc' = "receive"
    /\ UNCHANGED <<serviceVars, hups, seen, hupCh, terms, termCh, done>>

\* MakeShutdownCh: the goroutine takes one signal, closes resultCh and ends.
Term ==
    /\ terms < MaxTerms
    /\ terms' = terms + 1
    /\ termCh' = 1
    /\ UNCHANGED <<serviceVars, hups, seen, hupCh, hupPc, done>>

TermClose ==
    /\ termCh = 1 /\ ~done
    /\ termCh' = 0 /\ done' = TRUE
    /\ UNCHANGED <<serviceVars, hups, seen, hupCh, hupPc, terms>>

Signals == Hup \/ HupReceive \/ Reload \/ HupLoop \/ Term \/ TermClose

------------------------------------------------------------------------------
(* Properties.                                                             *)

\* One goroutine may start the service while another one stops it: when both
\* are through, a service that does not run has every context of its past
\* cancelled, and one that runs has a live one.
StoppedMeansCancelled ==
    ~misused /\ (\A u \in Users : upc[u] = "idle") =>
        IF isRun THEN cancel \notin cancelled ELSE cancelled = 1 .. contexts

\* Signals are merged and dropped, and still none is missed: after every
\* SIGHUP the application gets a message, and the first SIGTERM closes the
\* other channel.
SignalsArrive ==
    /\ \A n \in 1 .. MaxHups : hups >= n ~> seen >= n
    /\ terms > 0 ~> done

==============================================================================
