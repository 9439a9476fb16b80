---------------------------- MODULE OutboundQueue ----------------------------
(***************************************************************************)
(* What MessageSender promises its callers, with no goroutine, channel or  *)
(* timer in sight: every message is either accepted or rejected, never     *)
(* both; accepted messages reach the connection in the order in which they *)
(* were accepted, each at most once; once the queue is shut nothing more   *)
(* is accepted, and once it is done nothing more is delivered.             *)
(***************************************************************************)
EXTENDS Naturals, Sequences, Functions

CONSTANT Messages       \* the messages callers hand over, one per call

VARIABLES
    accepted,           \* the messages whose caller was told nil, in order
    delivered,          \* the messages written to the connection, in order
    rejected,           \* the messages whose caller was given an error
    phase               \* "open", then "shut", then "done"

oqVars == <<accepted, delivered, rejected, phase>>

Undecided == Messages \ (Range(accepted) \cup rejected)

Init ==
    /\ accepted = <<>>
    /\ delivered = <<>>
    /\ rejected = {}
    /\ phase = "open"

Accept(m) ==
    /\ phase = "open"
    /\ m \in Undecided
    /\ accepted' = Append(accepted, m)
    /\ UNCHANGED <<delivered, rejected, phase>>

\* One event (a cancellation) may reject several waiting messages at once.
Reject(S) ==
    /\ S # {}
    /\ S \subseteq Undecided
    /\ rejected' = rejected \cup S
    /\ UNCHANGED <<accepted, delivered, phase>>

Deliver ==
    /\ phase # "done"
    /\ Len(delivered) < Len(accepted)
    /\ delivered' = Append(delivered, accepted[Len(delivered) + 1])
    /\ UNCHANGED <<accepted, rejected, phase>>

Shut ==
    /\ phase = "open"
    /\ phase' = "shut"
    /\ UNCHANGED <<accepted, delivered, rejected>>

Finish ==
    /\ phase = "shut"
    /\ phase' = "done"
    /\ UNCHANGED <<accepted, delivered, rejected>>

Next ==
    \/ \E m \in Messages : Accept(m)
    \/ \E S \in SUBSET Messages : Reject(S)
    \/ Deliver
    \/ Shut
    \/ Finish

Spec == Init /\ [][Next]_oqVars

==============================================================================
