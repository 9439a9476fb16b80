------------------------------ MODULE MCProcess ------------------------------
(* Three goroutines with five calls, a client setting of each outcome, three*)
(* users of the service and three signals, and two id workers.             *)
EXTENDS Process

MCSettings == {[ok |-> TRUE, many |-> FALSE, opens |-> TRUE],
               [ok |-> TRUE, many |-> TRUE, opens |-> FALSE],
               [ok |-> FALSE, many |-> FALSE, opens |-> TRUE]}

==============================================================================
