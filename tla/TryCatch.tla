------------------------------- MODULE TryCatch -------------------------------
(***************************************************************************)
(* libs/errors: the chain Try(f).Catch(e, h)...DefaultCatch(h).Else(h)     *)
(* .Finally(h).Do() of try_catch_chain.go with the TryCatch and toError of *)
(* try_catch_func.go it rests on, and TryFunc(f, catch, finally) of        *)
(* try_catch.go.  Any of the functions given to them may panic, also the   *)
(* handlers.  A TryHandler keeps its registrations and may be run again.   *)
(*                                                                         *)
(* A handler is known by the number of its registration.  External: which  *)
(* error wraps which, the relation that errors.Is computes.                *)
(***************************************************************************)
EXTENDS Naturals, Sequences, FiniteSetsExt, Functions

CONSTANTS
    Errors,     \* error values
    Plain,      \* values that are no errors, and may be panicked with
    Wraps,      \* pairs <<e, t>> with errors.Is(e, t)
    NoError,    \* no error, no panic
    MaxHandlers, MaxRuns    \* bounds: registrations, and calls of Do or TryFunc

Wrapped(v) == <<"panic", v>>            \* fmt.Errorf("panic: %+v", v)

ASSUME TryAssumption ==
    /\ Errors \cap Plain = {}
    /\ NoError \notin Errors \cup Plain \cup {Wrapped(v) : v \in Plain}
    /\ Wraps \subseteq Errors \X Errors
    /\ MaxHandlers \in Nat /\ MaxRuns \in Nat

VARIABLES
    catches,            \* bindingCatchHandlerSlice
    dflt, els, fin,     \* the bound handlers, 0 for nil
    made,               \* registrations so far
    pc, at,             \* where the call is, and its place in the slice
    err,                \* what TryCatch returned, or recover()
    panicking,          \* the panic under way, or NoError
    ran,                \* handlers that ran in this call, in order
    mode, runs

bound == <<catches, dflt, els, fin, made>>
tryVars == <<bound, pc, at, err, panicking, ran, mode, runs>>

Thrown == Errors \cup Plain
ErrValues == Errors \cup {Wrapped(v) : v \in Plain}
Over == pc \in {"returned", "panicked"}

\* The type invariant; a call ends in a panic exactly when one is under way.
TryTypeOK ==
    /\ catches \in Seq([id : 1 .. MaxHandlers, target : Errors])
    /\ {dflt, els, fin, made} \subseteq 0 .. MaxHandlers
    /\ pc \in {"build", "try", "else", "match", "finally", "fun", "funFinally", "funRecover",
               "returned", "panicked"}
    /\ at \in 1 .. MaxHandlers + 1
    /\ err \in ErrValues \cup Thrown \cup {NoError}
    /\ panicking \in ErrValues \cup Thrown \cup {NoError}
    /\ pc = "returned" => panicking = NoError
    /\ pc = "panicked" => panicking # NoError
    /\ ran \in Seq(1 .. MaxHandlers)
    /\ mode \in {"none", "Do", "TryFunc"} /\ runs \in 0 .. MaxRuns

TryInit ==
    /\ catches = << >> /\ dflt = 0 /\ els = 0 /\ fin = 0 /\ made = 0
    /\ pc = "build" /\ at = 1
    /\ err = NoError /\ panicking = NoError
    /\ ran = << >>
    /\ mode = "none" /\ runs = 0

------------------------------------------------------------------------------
(* Registration: Catch appends, the others replace what was bound.         *)

Register ==
    /\ pc \in {"build", "returned", "panicked"}
    /\ made < MaxHandlers
    /\ made' = made + 1
    /\ pc' = "build" /\ panicking' = NoError
    /\ UNCHANGED <<at, err, ran, mode, runs>>

Catch(t) ==
    /\ Register
    /\ catches' = Append(catches, [id |-> made + 1, target |-> t])
    /\ UNCHANGED <<dflt, els, fin>>

DefaultCatch ==
    /\ Register
    /\ dflt' = made + 1
    /\ UNCHANGED <<catches, els, fin>>

Else ==
    /\ Register
    /\ els' = made + 1
    /\ UNCHANGED <<catches, dflt, fin>>

Finally ==
    /\ Register
    /\ fin' = made + 1
    /\ UNCHANGED <<catches, dflt, els>>

------------------------------------------------------------------------------
Called(label, m) ==
    /\ pc \in {"build", "returned", "panicked"}
    /\ runs < MaxRuns /\ runs' = runs + 1
    /\ pc' = label /\ mode' = m
    /\ at' = 1 /\ err' = NoError /\ panicking' = NoError /\ ran' = << >>
    /\ UNCHANGED bound

\* The handler returns, or panics in its turn.
Handler(id) ==
    /\ ran' = Append(ran, id)
    /\ UNCHANGED panicking \/ panicking' \in Thrown

toError(v) == IF v \in Errors THEN v ELSE Wrapped(v)
match(e, t) == <<e, t>> \in Wraps \/ e = t

Do == Called("try", "Do")

\* TryCatch(x.handler) returns the recovered panic as an error.
TryReturns ==
    /\ pc = "try"
    /\ pc' = IF els # 0 THEN "else" ELSE "finally"
    /\ UNCHANGED <<bound, at, err, panicking, ran, mode, runs>>

TryPanics(v) ==
    /\ pc = "try"
    /\ err' = toError(v)
    /\ pc' = "match"
    /\ UNCHANGED <<bound, at, panicking, ran, mode, runs>>

ElseRuns ==
    /\ pc = "else"
    /\ Handler(els)
    /\ pc' = "finally"
    /\ UNCHANGED <<bound, at, err, mode, runs>>

MatchNext ==
    /\ pc = "match" /\ at <= Len(catches)
    /\ ~match(err, catches[at].target)
    /\ at' = at + 1
    /\ UNCHANGED <<bound, pc, err, panicking, ran, mode, runs>>

CatchRuns ==
    /\ pc = "match" /\ at <= Len(catches)
    /\ match(err, catches[at].target)
    /\ Handler(catches[at].id)
    /\ pc' = "finally"
    /\ UNCHANGED <<bound, at, err, mode, runs>>

DefaultRuns ==
    /\ pc = "match" /\ at > Len(catches) /\ dflt # 0
    /\ Handler(dflt)
    /\ pc' = "finally"
    /\ UNCHANGED <<bound, at, err, mode, runs>>

\* Nobody catches it: panic(err).
Rethrow ==
    /\ pc = "match" /\ at > Len(catches) /\ dflt = 0
    /\ panicking' = err
    /\ pc' = "finally"
    /\ UNCHANGED <<bound, at, err, ran, mode, runs>>

Leave == pc' = IF panicking' = NoError THEN "returned" ELSE "panicked"

\* Mutant: finally is reached only where nothing panics.
FinallyIfReturned ==
    /\ pc = "finally"
    /\ IF fin # 0 /\ panicking = NoError THEN Handler(fin) ELSE UNCHANGED <<ran, panicking>>
    /\ Leave
    /\ UNCHANGED <<bound, at, err, mode, runs>>

\* The deferred function; a panic of its own takes the place of the other.
FinallyRuns ==
    /\ pc = "finally"
    /\ IF fin # 0 THEN Handler(fin) ELSE UNCHANGED <<ran, panicking>>
    /\ Leave
    /\ UNCHANGED <<bound, at, err, mode, runs>>

------------------------------------------------------------------------------
(* TryFunc(fun, catch, finally); catch and finally may be nil.             *)

TryFunc == catches = << >> /\ els = 0 /\ Called("fun", "TryFunc")

Fun ==
    /\ pc = "fun"
    /\ UNCHANGED panicking \/ panicking' \in Thrown
    /\ pc' = "funFinally"
    /\ err' = panicking'
    /\ UNCHANGED <<bound, at, ran, mode, runs>>

\* A panic in finally leaves the deferred function before its recover.
FunFinally ==
    /\ pc = "funFinally"
    /\ \/ fin = 0 /\ pc' = "funRecover" /\ UNCHANGED <<ran, panicking>>
       \/ fin # 0 /\ ran' = Append(ran, fin) /\ pc' = "funRecover" /\ UNCHANGED panicking
       \/ fin # 0 /\ ran' = Append(ran, fin) /\ pc' = "panicked" /\ panicking' \in Thrown
    /\ UNCHANGED <<bound, at, err, mode, runs>>

FunRecover ==
    /\ pc = "funRecover"
    /\ IF panicking # NoError /\ dflt # 0
       THEN ran' = Append(ran, dflt) /\ panicking' \in Thrown \cup {NoError}
       ELSE panicking' = NoError /\ UNCHANGED ran
    /\ Leave
    /\ UNCHANGED <<bound, at, err, mode, runs>>

TryNext ==
    \/ \E t \in Errors : Catch(t)
    \/ DefaultCatch \/ Else \/ Finally
    \/ Do \/ TryReturns \/ \E v \in Thrown : TryPanics(v)
    \/ ElseRuns \/ MatchNext \/ CatchRuns \/ DefaultRuns \/ Rethrow \/ FinallyRuns
    \/ TryFunc \/ Fun \/ FunFinally \/ FunRecover

TrySpec == TryInit /\ [][TryNext]_tryVars

------------------------------------------------------------------------------
(* Properties.                                                             *)

IfBound(id) == IF id = 0 THEN << >> ELSE <<id>>

\* The first Catch, in order of registration, that matches; else the default.
HandlerFor(e) ==
    LET hits == {j \in DOMAIN catches : match(e, catches[j].target)} IN
    IF hits # {} THEN <<catches[Min(hits)].id>> ELSE IfBound(dflt)

\* A call of Do runs what it should and nothing else: Else, or the one handler
\* of the error, whose replaced predecessors are forgotten, and then Finally,
\* whatever panicked on the way; and it returns as if nothing had happened only
\* when the error had a handler.
RanExactly ==
    Over /\ mode = "Do" =>
        /\ ran = (IF err = NoError THEN IfBound(els) ELSE HandlerFor(err)) \o IfBound(fin)
        /\ pc = "returned" /\ err # NoError => HandlerFor(err) # << >>

\* "When a panic is caught, execute catch": fun panicked, so catch ran.
CatchIsRun ==
    mode = "TryFunc" /\ Over /\ err # NoError /\ dflt # 0 => dflt \in Range(ran)

==============================================================================
