------------------------------- MODULE Process -------------------------------
(***************************************************************************)
(* What a process has once: its package variables, its service and signal  *)
(* goroutines, and its id workers.  These parts share no variable, so a    *)
(* behaviour is about one of them: interleaving them would add states and  *)
(* no new behaviour of any.                                                *)
(***************************************************************************)
EXTENDS Globals, ServiceLife, UuidWorker

VARIABLE part   \* the part that this behaviour is about

processVars == <<part, globalVars, lifeVars, vars>>

ProcessInit ==
    /\ part \in {"conf", "logs", "redis", "db", "service", "signals", "ids"}
    /\ GlobalsInit /\ LifeInit /\ Init
    /\ part # "conf" => file = Broken   \* read by conf alone

ProcessNext ==
    /\ UNCHANGED part
    /\ \/ /\ \E c \in Callers :
              \/ part = "conf" /\ Conf(c)
              \/ part = "logs" /\ Logs(c)
              \/ part = "redis" /\ Redis(c)
              \/ part = "db" /\ Databases(c)
          /\ UNCHANGED <<lifeVars, vars>>
       \/ part = "service" /\ Service /\ UNCHANGED <<globalVars, vars>>
       \/ part = "signals" /\ Signals /\ UNCHANGED <<globalVars, vars>>
       \/ part = "ids" /\ Next /\ UNCHANGED <<globalVars, lifeVars>>

\* The forwarding goroutines are scheduled, and the application receives.
ProcessFairness ==
    /\ WF_processVars(part = "signals" /\ (HupReceive \/ Reload \/ HupLoop) /\ UNCHANGED <<part, globalVars, vars>>)
    /\ WF_processVars(part = "signals" /\ TermClose /\ UNCHANGED <<part, globalVars, vars>>)

ProcessSpec == ProcessInit /\ [][ProcessNext]_processVars /\ ProcessFairness

==============================================================================
