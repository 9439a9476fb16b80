----------------------------- MODULE UuidWorker -----------------------------
(***************************************************************************)
(* libs/uuid/uuid.go: ids built from the wall clock in milliseconds, a     *)
(* worker id and a counter that runs within one millisecond.  Get holds    *)
(* the worker's mutex, also while it spins for the next millisecond, so a  *)
(* worker has one call in progress and other workers run beside it.        *)
(* External: the wall clock, which advances and may be set back.           *)
(***************************************************************************)
EXTENDS Integers, Sequences, FiniteSetsExt

CONSTANTS
    workerBits, numberBits, \* field widths (10 and 12)
    timeBits,               \* bits left for the time (41)
    epoch,                  \* the time that id times are relative to
    unit,                   \* milliseconds per unit of Unmarshal's time (1000)
    Workers,                \* the worker ids in use
    MaxTime, MaxIds         \* bounds: the last clock value, the ids issued

workerMax == 2 ^ workerBits - 1
numberMax == 2 ^ numberBits - 1
timeShift == workerBits + numberBits

VARIABLES
    clock,      \* time.Now() in milliseconds
    setBack,    \* history: the clock was set back
    timestamp,  \* w.timestamp
    number,     \* w.number
    spinning,   \* the workers whose Get waits for the next millisecond
    issued      \* history: the ids returned, with what they were made of

vars == <<clock, setBack, timestamp, number, spinning, issued>>

TypeOK ==
    /\ clock \in epoch .. MaxTime
    /\ setBack \in BOOLEAN
    /\ timestamp \in [Workers -> Nat]
    /\ number \in [Workers -> Nat]
    /\ spinning \subseteq Workers
    /\ issued \in Seq([worker : Workers, time : epoch .. MaxTime, number : Nat, id : Nat])
    /\ \A w \in spinning : number[w] > numberMax

------------------------------------------------------------------------------
Bit(n, i) == (n \div 2 ^ i) % 2

\* a | b for numbers of the width of an id.
Or(a, b) ==
    MapThenSumSet(LAMBDA i : 2 ^ i,
                  {i \in 0 .. (timeShift + timeBits - 1) : Bit(a, i) = 1 \/ Bit(b, i) = 1})

\* The id: time, worker and number are or-ed together, and a number wider than
\* its field reaches the bits of the worker.
Id(now, w, n) ==
    Or((now - epoch) * 2 ^ timeShift, Or(w * 2 ^ numberBits, n))

\* An id holds its fields: the times in use fit the bits left for the time, so
\* that two ids are equal only if their times, workers and fitting numbers are.
ASSUME UuidAssumption ==
    /\ epoch \in Nat /\ MaxTime \in Nat /\ epoch <= MaxTime /\ numberMax \in Nat
    /\ \A s, t \in epoch .. MaxTime, v, w \in Workers, m, n \in 0 .. numberMax :
        Id(s, v, m) = Id(t, w, n) => s = t /\ v = w /\ m = n

Unmarshal(id) ==
    [time   |-> ((id \div 2 ^ timeShift) + epoch) \div unit,
     number |-> id % 2 ^ numberBits,
     worker |-> (id % 2 ^ timeShift) \div 2 ^ numberBits]

------------------------------------------------------------------------------
\* NewUuidWorker refuses any other worker id.
Init ==
    /\ Workers \subseteq 0 .. workerMax
    /\ clock = epoch
    /\ setBack = FALSE
    /\ timestamp = [w \in Workers |-> 0]
    /\ number = [w \in Workers |-> 0]
    /\ spinning = {}
    /\ issued = <<>>

Tick ==
    /\ clock < MaxTime
    /\ clock' = clock + 1
    /\ UNCHANGED <<setBack, timestamp, number, spinning, issued>>

SetClockBack ==
    /\ clock > epoch
    /\ clock' = clock - 1
    /\ setBack' = TRUE
    /\ UNCHANGED <<timestamp, number, spinning, issued>>

Issue(w, n) ==
    issued' = Append(issued, [worker |-> w, time |-> clock, number |-> n,
                              id |-> Id(clock, w, n)])

Idle(w) == w \notin spinning /\ Len(issued) < MaxIds

\* Mutant: the number is not counted up.
GetSameAgain(w) ==
    /\ Idle(w)
    /\ timestamp[w] = clock
    /\ number[w] < numberMax
    /\ Issue(w, number[w])
    /\ UNCHANGED <<clock, setBack, timestamp, number, spinning>>

\* The same millisecond as the last call, with numbers left.
GetSame(w) ==
    /\ Idle(w)
    /\ timestamp[w] = clock
    /\ number[w] < numberMax
    /\ number' = [number EXCEPT ![w] = @ + 1]
    /\ Issue(w, number[w] + 1)
    /\ UNCHANGED <<clock, setBack, timestamp, spinning>>

\* The same millisecond, and the numbers are used up: spin.
GetExhausted(w) ==
    /\ Idle(w)
    /\ timestamp[w] = clock
    /\ number[w] >= numberMax
    /\ number' = [number EXCEPT ![w] = @ + 1]
    /\ spinning' = spinning \cup {w}
    /\ UNCHANGED <<clock, setBack, timestamp, issued>>

\* The clock has moved on: now is taken from it, while number keeps its value
\* and timestamp is not updated.
GetSpun(w) ==
    /\ w \in spinning
    /\ clock > timestamp[w]
    /\ Len(issued) < MaxIds
    /\ spinning' = spinning \ {w}
    /\ Issue(w, number[w])
    /\ UNCHANGED <<clock, setBack, timestamp, number>>

\* Any other millisecond, an earlier one included.
GetNew(w) ==
    /\ Idle(w)
    /\ timestamp[w] # clock
    /\ number' = [number EXCEPT ![w] = 0]
    /\ timestamp' = [timestamp EXCEPT ![w] = clock]
    /\ Issue(w, 0)
    /\ UNCHANGED <<clock, setBack, spinning>>

Get(w) == GetSame(w) \/ GetExhausted(w) \/ GetSpun(w) \/ GetNew(w)

Next == Tick \/ SetClockBack \/ \E w \in Workers : Get(w)

Spec == Init /\ [][Next]_vars

------------------------------------------------------------------------------
(* Properties.                                                             *)

\* Ids whose number fits its field, of all workers together, are distinct
\* while the clock is not set back.
FittingIdsUnique ==
    ~setBack =>
        \A i, j \in DOMAIN issued :
            /\ i # j
            /\ issued[i].number <= numberMax /\ issued[j].number <= numberMax
            => issued[i].id # issued[j].id

\* "increment number, 4096 max": the number stays in its twelve bits, so every
\* id names the worker that issued it.
NumberFits ==
    \A i \in DOMAIN issued : Unmarshal(issued[i].id).worker = issued[i].worker

==============================================================================
