------------------------------- MODULE WebProofs -------------------------------
(***************************************************************************)
(* Proofs about packages server and ws_client, for any number of requests, *)
(* clients and frames: HttpServer, with every set of calls, of callers of  *)
(* Shutdown and of fields and every number of attempts and logins;         *)
(* ClientManager, with every set of clients, sessions, users and callers;  *)
(* and WSClient, the other end of a connection, with every set of frames.  *)
(*                                                                         *)
(* HttpServer.  That a drained server stays drained needs that whoever     *)
(* waits in Shutdown has closed the listener (DrainInv).  That a call does *)
(* not begin more attempts than it has needs the place of the caller next  *)
(* to the states of its attempts (SerialInv).  That a request alone in     *)
(* GetFunc gets its own values needs that it is the only writer of h.req,  *)
(* and how far Bind has come (OwnInv); that an outdated token is refused   *)
(* needs that the token in Redis was never replaced (TokenInv).            *)
(*                                                                         *)
(* ClientManager.  An entry of the registry is under its client's session  *)
(* id (RegistryInv), a caller has in hand only what it may close or send   *)
(* to (CallInv), and a client nobody touched is closed only once it leaves *)
(* (ClientInv).                                                            *)
(*                                                                         *)
(* WSClient.  While its two writers do not meet, a write is under way only *)
(* on a connection that no write failed on, and after a failed one         *)
(* writePump takes one more frame at most (LossInv).                       *)
(***************************************************************************)
EXTENDS HttpServer, ClientManager, WSClient, SequenceTheorems, FiniteSetTheorems, TLAPS

------------------------------------------------------------------------------
(* HttpServer.                                                             *)

\* Whoever called Shutdown closed the listener, and nil was returned to it
\* only when nothing was active.
DrainInv ==
    /\ \A s \in Shutters : shutter[s] \in {"shutdown", "nil", "err"} => shutdown
    /\ NilMeansDrained

\* Attempts before the current one were refused, and later ones do not exist.
SerialInv ==
    \A c \in Calls :
        /\ caller[c] = "idle" <=> attempt[c] = 0
        /\ caller[c] = "asleep" =>
            attempt[c] \in 1 .. Retries - 1 /\ req[<<c, attempt[c]>>] = "bad"
        /\ \A i \in 1 .. Retries :
            /\ i < attempt[c] => req[<<c, i>>] = "bad"
            /\ i > attempt[c] => req[<<c, i>>] = "new"

\* A late request, whose token was replaced, does not get past Access.
TokenInv ==
    /\ token \notin replaced
    /\ \A r \in late : TokenOf[r[1]] \in replaced /\ req[r] \in {"access", "bad"}

\* Two requests in GetFunc have met.
MetInv ==
    \A r, q \in Requests : r # q /\ req[r] \in InFunc /\ req[q] \in InFunc => r \in met

\* A request that met nobody finds in h.req what it has bound so far, and
\* passed the validator with it.
OwnInv ==
    \A r \in Requests \ met :
        /\ req[r] = "binding" => \A f \in Body[r[1]] \ toBind[r] : hreq[f] = r[1]
        /\ req[r] \in {"bound", "validated"} => \A f \in Body[r[1]] : hreq[f] = r[1]
        /\ req[r] = "running" => \A f \in Body[r[1]] : got[r][f] = r[1]
        /\ req[r] \in {"validated", "running"} => r[1] \notin Invalid

Inv == TypeOK /\ DrainInv /\ SerialInv /\ TokenInv /\ MetInv /\ OwnInv

------------------------------------------------------------------------------
\* A request is a call and the number of its attempt.
LEMMA RequestParts ==
    /\ \A r \in Requests : r[1] \in Calls /\ r[2] \in 1 .. Retries /\ r = <<r[1], r[2]>>
    /\ \A c \in Calls, i \in 1 .. Retries : <<c, i>> \in Requests
BY DEF Requests

\* A step is one of the server, of a request, of the user or of a caller, and
\* leaves the variables of the other three alone.
LEMMA StepKinds ==
    ASSUME Next
    PROVE  \/ ServerNext /\ UNCHANGED <<requestVars, tokenVars, clientVars>>
           \/ \E r \in Requests : RequestStep(r) /\ UNCHANGED <<serverVars, clientVars>>
           \/ (\E t \in Tokens : Login(t)) /\ UNCHANGED <<serverVars, requestVars, clientVars>>
           \/ (\E c \in Calls : CallerStep(c)) /\ UNCHANGED <<serverVars, requestVars, tokenVars>>
<1>1. CASE ServerNext
  <2>1. CASE \E r \in Requests : RequestStep(r)
    BY <2>1 DEF RequestStep, Accept, Access, Bind, BindErr, Validate, CallFunc, FuncReturns,
       serverVars, clientVars
  <2>2. CASE ~\E r \in Requests : RequestStep(r)
    BY <1>1, <2>2 DEF ServerNext, Startup, StartWithGracefulShutdown, StarterStep, EngineStart,
       EngineReturns, StartupReturns, GoroutineReturns, BackendStop, Signal, WaitForShutdown,
       GracefulStop, Stop, CallShutdown, ShutterStep, ShutdownReturns, ShutdownTimeout
  <2> QED
    BY <2>1, <2>2
<1>2. CASE \E t \in Tokens : Login(t)
  BY <1>2 DEF Login
<1>3. CASE \E c \in Calls : CallerStep(c)
  BY <1>3 DEF CallerStep, Do, Answer, TransportErr, CallerGoto
<1> QED
  BY <1>1, <1>2, <1>3 DEF Next

------------------------------------------------------------------------------
\* Nothing has begun.
LEMMA InvInit == Init => Inv
<1> SUFFICES ASSUME Init PROVE Inv
  OBVIOUS
<1>1. TypeOK
  <2>1. Zero \in [Fields -> Calls \cup {None}]
    BY DEF Zero
  <2>2. got \in [Requests -> [Fields -> Calls \cup {None}]] /\ hreq \in [Fields -> Calls \cup {None}]
    BY <2>1 DEF Init
  <2>3. attempt \in [Calls -> 0 .. Retries]
    BY HttpAssumption DEF Init
  <2>4. req \in [Requests -> Serving \cup {"new", "ok", "bad"}] /\ toBind \in [Requests -> SUBSET Fields]
    BY DEF Init
  <2>5. /\ shutter \in [Shutters -> {"idle", "waiting", "shutdown", "nil", "err"}]
        /\ caller \in [Calls -> {"idle", "waiting", "asleep", "ok", "failed", "panicked"}]
    BY DEF Init
  <2> QED
    BY <2>2, <2>3, <2>4, <2>5 DEF Init, TypeOK
<1>2. DrainInv
  BY DEF Init, DrainInv, NilMeansDrained
<1>3. SerialInv
  BY RequestParts DEF Init, SerialInv
<1>4. TokenInv /\ MetInv /\ OwnInv
  BY DEF Init, TokenInv, MetInv, OwnInv, InFunc
<1> QED
  BY <1>1, <1>2, <1>3, <1>4 DEF Inv

\* The steps of the server keep the types.
LEMMA ServerTypes == TypeOK /\ ServerNext /\ UNCHANGED <<requestVars, tokenVars, clientVars>> => TypeOK'
<1> SUFFICES ASSUME TypeOK, ServerNext, UNCHANGED <<requestVars, tokenVars, clientVars>>
             PROVE  TypeOK'
  OBVIOUS
<1> USE DEF TypeOK, requestVars, tokenVars, clientVars
<1>0. Waiter \in Shutters
  BY DEF Shutters
<1>1. CASE Startup \/ StartWithGracefulShutdown \/ StarterStep
  BY <1>0, <1>1 DEF Startup, StartWithGracefulShutdown, StarterStep, EngineStart, EngineReturns,
     StartupReturns, GoroutineReturns
<1>2. CASE BackendStop \/ Signal
  BY <1>0, <1>2 DEF BackendStop, Signal
<1>3. CASE WaitForShutdown \/ \E s \in Shutters : GracefulStop(s) \/ Stop(s)
  BY <1>0, <1>3 DEF WaitForShutdown, GracefulStop, Stop, CallShutdown
<1>4. CASE \E s \in Shutters : ShutterStep(s)
  BY <1>4 DEF ShutterStep, ShutdownReturns, ShutdownTimeout
<1>5. CASE \E r \in Requests : RequestStep(r)
  <2>1. PICK r \in Requests : RequestStep(r)
    BY <1>5
  <2>2. UNCHANGED serverVars
    BY <2>1 DEF RequestStep, Accept, Access, Bind, BindErr, Validate, CallFunc, FuncReturns
  <2> QED
    BY <2>2 DEF serverVars
<1> QED
  BY <1>1, <1>2, <1>3, <1>4, <1>5 DEF ServerNext

\* So do the steps of a request.
LEMMA RequestTypes ==
    ASSUME TypeOK, NEW r \in Requests, RequestStep(r), UNCHANGED <<serverVars, clientVars>>
    PROVE  TypeOK'
<1> USE DEF TypeOK, serverVars, tokenVars, clientVars, Serving, InFunc, ReqGoto
<1>0. r[1] \in Calls /\ Body[r[1]] \in SUBSET Fields
  BY RequestParts, HttpAssumption
<1>1. CASE Accept(r)
  BY <1>1 DEF Accept
<1>2. CASE Access(r)
  BY <1>0, <1>2 DEF Access, BeginBind
<1>3. CASE Bind(r)
  <2>1. CASE toBind[r] = {}
    BY <1>3, <2>1 DEF Bind
  <2>2. ASSUME NEW f \in toBind[r], hreq' = [hreq EXCEPT ![f] = r[1]],
               toBind' = [toBind EXCEPT ![r] = @ \ {f}], UNCHANGED req
        PROVE  TypeOK'
    <3>1. hreq' \in [Fields -> Calls \cup {None}]
      BY <1>0, <2>2
    <3>2. toBind' \in [Requests -> SUBSET Fields]
      BY <2>2
    <3> QED
      BY <1>3, <2>2, <3>1, <3>2 DEF Bind
  <2> QED
    BY <1>3, <2>1, <2>2 DEF Bind
<1>4. CASE BindErr(r) \/ Validate(r)
  BY <1>4 DEF BindErr, Validate
<1>5. CASE CallFunc(r) \/ FuncReturns(r)
  <2>1. Zero \in [Fields -> Calls \cup {None}]
    BY DEF Zero
  <2>2. got' \in [Requests -> [Fields -> Calls \cup {None}]]
    BY <1>5, <2>1 DEF CallFunc, FuncReturns
  <2> QED
    BY <1>5, <2>2 DEF CallFunc, FuncReturns
<1> QED
  BY <1>1, <1>2, <1>3, <1>4, <1>5 DEF RequestStep

\* And the other steps; an attempt is begun only while there is one left.
LEMMA TypeStep == Inv /\ [Next]_vars => TypeOK'
<1> SUFFICES ASSUME Inv, [Next]_vars PROVE TypeOK'
  OBVIOUS
<1>0. TypeOK /\ SerialInv
  BY DEF Inv
<1>1. CASE ServerNext /\ UNCHANGED <<requestVars, tokenVars, clientVars>>
  BY <1>0, <1>1, ServerTypes
<1>2. CASE \E r \in Requests : RequestStep(r) /\ UNCHANGED <<serverVars, clientVars>>
  BY <1>0, <1>2, RequestTypes
<1>3. ASSUME NEW t \in Tokens, Login(t) PROVE TypeOK'
  BY <1>0, <1>3 DEF Login, TypeOK, serverVars, requestVars, clientVars
<1>4. ASSUME NEW c \in Calls, CallerStep(c) PROVE TypeOK'
  <2>1. CASE Do(c)
    <3>1. attempt[c] = 0 \/ attempt[c] \in 1 .. Retries - 1
      BY <1>0, <2>1 DEF Do, SerialInv
    <3>2. attempt[c] + 1 \in 0 .. Retries
      BY <3>1, HttpAssumption
    <3> QED
      BY <1>0, <2>1, <3>2 DEF Do, CallerGoto, TypeOK, serverVars, requestVars, tokenVars
  <2>2. CASE Answer(c) \/ TransportErr(c)
    BY <1>0, <2>2 DEF Answer, TransportErr, CallerGoto, TypeOK, serverVars, requestVars, tokenVars
  <2> QED
    BY <1>4, <2>1, <2>2 DEF CallerStep
<1>5. CASE UNCHANGED vars
  BY <1>0, <1>5 DEF TypeOK, vars, serverVars, requestVars, tokenVars, clientVars
<1> QED
  BY <1>1, <1>2, <1>3, <1>4, <1>5, StepKinds

------------------------------------------------------------------------------
\* A request becomes active only by Accept, which needs an open listener.
LEMMA ActiveGrows ==
    ASSUME TypeOK, NEW r \in Requests, RequestStep(r)
    PROVE  Active' \subseteq Active \/ ~shutdown
<1> USE DEF TypeOK, Active, Serving, InFunc, ReqGoto
<1>1. CASE Accept(r)
  BY <1>1 DEF Accept
<1>2. CASE Access(r) \/ Bind(r) \/ BindErr(r)
  BY <1>2 DEF Access, BeginBind, Bind, BindErr
<1>3. CASE Validate(r) \/ CallFunc(r) \/ FuncReturns(r)
  BY <1>3 DEF Validate, CallFunc, FuncReturns
<1> QED
  BY <1>1, <1>2, <1>3 DEF RequestStep

\* A drained server stays drained.
LEMMA DrainStep == Inv /\ [Next]_vars => DrainInv'
<1> SUFFICES ASSUME Inv, [Next]_vars PROVE DrainInv'
  OBVIOUS
<1>0. TypeOK /\ DrainInv /\ Waiter \in Shutters
  BY DEF Inv, Shutters
<1> USE DEF DrainInv, NilMeansDrained
<1>1. CASE ServerNext /\ UNCHANGED <<requestVars, tokenVars, clientVars>>
  <2>0. Active' = Active
    BY <1>1 DEF Active, requestVars
  <2>1. CASE Startup \/ StarterStep \/ Signal
    BY <1>0, <2>0, <2>1 DEF Startup, StarterStep, EngineStart, EngineReturns, StartupReturns,
       GoroutineReturns, Signal
  <2>2. CASE StartWithGracefulShutdown \/ BackendStop
    BY <1>0, <2>0, <2>2 DEF TypeOK, StartWithGracefulShutdown, BackendStop
  <2>3. CASE WaitForShutdown \/ \E s \in Shutters : GracefulStop(s) \/ Stop(s)
    BY <1>0, <2>0, <2>3 DEF TypeOK, WaitForShutdown, GracefulStop, Stop, CallShutdown
  <2>4. CASE \E s \in Shutters : ShutterStep(s)
    BY <1>0, <2>0, <2>4 DEF TypeOK, ShutterStep, ShutdownReturns, ShutdownTimeout
  <2>5. CASE \E r \in Requests : RequestStep(r)
    <3>1. UNCHANGED serverVars
      BY <2>5 DEF RequestStep, Accept, Access, Bind, BindErr, Validate, CallFunc, FuncReturns
    <3> QED
      BY <1>0, <2>0, <3>1 DEF serverVars
  <2> QED
    BY <1>1, <2>1, <2>2, <2>3, <2>4, <2>5 DEF ServerNext
<1>2. CASE \E r \in Requests : RequestStep(r) /\ UNCHANGED <<serverVars, clientVars>>
  <2>1. Active' \subseteq Active \/ ~shutdown
    BY <1>0, <1>2, ActiveGrows
  <2> QED
    BY <1>0, <1>2, <2>1 DEF serverVars
<1>3. CASE UNCHANGED <<serverVars, requestVars>>
  BY <1>0, <1>3 DEF serverVars, requestVars, Active
<1> QED
  BY <1>1, <1>2, <1>3, StepKinds DEF vars

------------------------------------------------------------------------------
\* A step of a request changes the status of this request only: one in the
\* server, or the current attempt of its call.
LEMMA RequestMoves ==
    ASSUME TypeOK, NEW r \in Requests, RequestStep(r)
    PROVE  /\ req' \in [Requests -> Serving \cup {"new", "ok", "bad"}]
           /\ \A q \in Requests \ {r} : req'[q] = req[q]
           /\ req[r] \in Serving \/ (req[r] = "new" /\ attempt[r[1]] = r[2])
<1> USE DEF TypeOK, Serving, InFunc, ReqGoto
<1>1. CASE Accept(r)
  BY <1>1 DEF Accept
<1>2. CASE Access(r) \/ Bind(r) \/ BindErr(r)
  BY <1>2 DEF Access, BeginBind, Bind, BindErr
<1>3. CASE Validate(r) \/ CallFunc(r) \/ FuncReturns(r)
  BY <1>3 DEF Validate, CallFunc, FuncReturns
<1> QED
  BY <1>1, <1>2, <1>3 DEF RequestStep

\* A call begins its next attempt after the one before was refused.
LEMMA SerialStep == Inv /\ [Next]_vars => SerialInv'
<1> SUFFICES ASSUME Inv, [Next]_vars PROVE SerialInv'
  OBVIOUS
<1>0. TypeOK /\ SerialInv
  BY DEF Inv
<1>1. ASSUME NEW r \in Requests, RequestStep(r), UNCHANGED <<serverVars, clientVars>>
      PROVE  SerialInv'
  <2>1. r[1] \in Calls /\ r[2] \in 1 .. Retries /\ r = <<r[1], r[2]>> /\ attempt[r[1]] \in 0 .. Retries
    BY <1>0, RequestParts DEF TypeOK
  <2>2. attempt[r[1]] = r[2]
    <3>1. req[r] \in Serving => ~(r[2] < attempt[r[1]]) /\ ~(r[2] > attempt[r[1]])
      <4>1. /\ r[2] < attempt[r[1]] => req[<<r[1], r[2]>>] = "bad"
            /\ r[2] > attempt[r[1]] => req[<<r[1], r[2]>>] = "new"
        BY <1>0, <2>1 DEF SerialInv
      <4>2. "bad" \notin Serving /\ "new" \notin Serving
        BY DEF Serving, InFunc
      <4> QED
        BY <2>1, <4>1, <4>2
    <3>2. req[r] \in Serving \/ attempt[r[1]] = r[2]
      BY <1>0, <1>1, RequestMoves
    <3> QED
      BY <2>1, <3>1, <3>2, HttpAssumption
  <2>3. req[r] # "bad"
    BY <1>0, <1>1, RequestMoves DEF Serving, InFunc
  <2>4. ASSUME NEW c \in Calls, NEW i \in 1 .. Retries, i # attempt[c]
        PROVE  req'[<<c, i>>] = req[<<c, i>>]
    <3>1. <<c, i>> \in Requests /\ <<c, i>> # r
      BY <2>1, <2>2, <2>4, RequestParts
    <3> QED
      BY <1>0, <1>1, <3>1, RequestMoves
  <2>5. ASSUME NEW c \in Calls, caller[c] = "asleep"
        PROVE  req'[<<c, attempt[c]>>] = req[<<c, attempt[c]>>] /\ attempt[c] \in 1 .. Retries - 1
    <3>1. attempt[c] \in 1 .. Retries - 1 /\ req[<<c, attempt[c]>>] = "bad"
      BY <1>0, <2>5 DEF SerialInv
    <3>2. attempt[c] \in 1 .. Retries
      BY <3>1, HttpAssumption
    <3>3. <<c, attempt[c]>> \in Requests \ {r}
      BY <2>3, <3>1, <3>2, RequestParts
    <3> QED
      BY <1>0, <1>1, <3>1, <3>3, RequestMoves
  <2>6. caller' = caller /\ attempt' = attempt /\ \A c \in Calls : attempt[c] \in 0 .. Retries
    BY <1>0, <1>1 DEF clientVars, TypeOK
  <2>7. ASSUME NEW c \in Calls, NEW i \in 1 .. Retries
        PROVE  (i < attempt[c] => req'[<<c, i>>] = "bad") /\ (i > attempt[c] => req'[<<c, i>>] = "new")
    <3>1. attempt[c] \in 0 .. Retries
      BY <2>6
    <3>2. i < attempt[c] \/ i > attempt[c] => i # attempt[c]
      BY <3>1, HttpAssumption
    <3>3. (i < attempt[c] => req[<<c, i>>] = "bad") /\ (i > attempt[c] => req[<<c, i>>] = "new")
      BY <1>0 DEF SerialInv
    <3>4. i # attempt[c] => req'[<<c, i>>] = req[<<c, i>>]
      BY <2>4
    <3> QED
      BY <3>2, <3>3, <3>4
  <2>8. ASSUME NEW c \in Calls
        PROVE  /\ caller[c] = "idle" <=> attempt[c] = 0
               /\ caller[c] = "asleep" =>
                    attempt[c] \in 1 .. Retries - 1 /\ req'[<<c, attempt[c]>>] = "bad"
    BY <1>0, <2>5 DEF SerialInv
  <2> QED
    BY <2>6, <2>7, <2>8 DEF SerialInv
<1>2. ASSUME NEW c \in Calls, CallerStep(c) PROVE SerialInv'
  <2>0. UNCHANGED req
    BY <1>2 DEF CallerStep, Do, Answer, TransportErr, CallerGoto, requestVars
  <2>1. CASE Do(c)
    <3>1. attempt' = [attempt EXCEPT ![c] = attempt[c] + 1] /\ caller' = [caller EXCEPT ![c] = "waiting"]
      BY <2>1 DEF Do, CallerGoto
    <3>2. attempt[c] \in 0 .. Retries /\ \A i \in 1 .. Retries : i < attempt[c] + 1 => req[<<c, i>>] = "bad"
      <4>1. attempt[c] = 0 \/ (attempt[c] \in 1 .. Retries - 1 /\ req[<<c, attempt[c]>>] = "bad")
        BY <1>0, <2>1 DEF Do, SerialInv
      <4>2. \A i \in 1 .. Retries : i < attempt[c] => req[<<c, i>>] = "bad"
        BY <1>0 DEF SerialInv
      <4>3. attempt[c] \in 0 .. Retries
        BY <1>0 DEF TypeOK
      <4>4. ASSUME NEW i \in 1 .. Retries, i < attempt[c] + 1 PROVE i < attempt[c] \/ (i = attempt[c] /\ attempt[c] # 0)
        BY <4>3, <4>4, HttpAssumption
      <4> QED
        BY <4>1, <4>2, <4>3, <4>4
    <3>3. \A i \in 1 .. Retries : i > attempt[c] + 1 => req[<<c, i>>] = "new"
      <4>1. \A i \in 1 .. Retries : i > attempt[c] => req[<<c, i>>] = "new"
        BY <1>0 DEF SerialInv
      <4>2. \A i \in 1 .. Retries : i > attempt[c] + 1 => i > attempt[c]
        BY <3>2, HttpAssumption
      <4> QED
        BY <4>1, <4>2
    <3>4. ASSUME NEW d \in Calls \ {c} PROVE attempt'[d] = attempt[d] /\ caller'[d] = caller[d]
      BY <1>0, <3>1 DEF TypeOK
    <3>5. attempt'[c] = attempt[c] + 1 /\ attempt'[c] # 0 /\ caller'[c] = "waiting"
      BY <1>0, <3>1, <3>2, HttpAssumption DEF TypeOK
    <3> QED
      BY <1>0, <2>0, <3>2, <3>3, <3>4, <3>5 DEF SerialInv
  <2>2. CASE Answer(c)
    <3>1. attempt' = attempt /\ \A d \in Calls \ {c} : caller'[d] = caller[d]
      BY <1>0, <2>2 DEF Answer, CallerGoto, TypeOK
    <3>2. /\ caller[c] = "waiting" /\ caller'[c] # "idle"
          /\ caller'[c] = "asleep" => req[<<c, attempt[c]>>] = "bad" /\ attempt[c] < Retries
      BY <1>0, <2>2 DEF Answer, CallerGoto, TypeOK
    <3>3. ASSUME caller'[c] = "asleep" PROVE attempt[c] \in 1 .. Retries - 1
      <4>1. attempt[c] \in 0 .. Retries
        BY <1>0 DEF TypeOK
      <4>2. attempt[c] # 0
        BY <1>0, <3>2 DEF SerialInv
      <4> QED
        BY <3>2, <3>3, <4>1, <4>2, HttpAssumption
    <3> QED
      BY <1>0, <2>0, <3>1, <3>2, <3>3 DEF SerialInv
  <2>3. CASE TransportErr(c)
    <3>1. attempt' = attempt /\ caller[c] # "idle" /\ caller'[c] = "panicked" /\ \A d \in Calls \ {c} : caller'[d] = caller[d]
      BY <1>0, <2>3 DEF TransportErr, CallerGoto, TypeOK
    <3> QED
      BY <1>0, <2>0, <3>1 DEF SerialInv
  <2> QED
    BY <1>2, <2>1, <2>2, <2>3 DEF CallerStep
<1>3. CASE UNCHANGED <<requestVars, clientVars>>
  BY <1>0, <1>3 DEF SerialInv, requestVars, clientVars
<1> QED
  BY <1>1, <1>2, <1>3, StepKinds DEF vars

------------------------------------------------------------------------------
\* Neither a login nor a request lets an outdated token in.
LEMMA TokenStep == Inv /\ [Next]_vars => TokenInv'
<1> SUFFICES ASSUME Inv, [Next]_vars PROVE TokenInv'
  OBVIOUS
<1>0. TypeOK /\ TokenInv
  BY DEF Inv
<1>1. ASSUME NEW r \in Requests, RequestStep(r) PROVE TokenInv'
  <2>1. CASE Accept(r)
    BY <1>0, <2>1 DEF Accept, ReqGoto, TokenInv, TypeOK
  <2>2. CASE Access(r)
    BY <1>0, <2>2 DEF Access, BeginBind, ReqGoto, TokenInv, TypeOK, tokenVars
  <2>3. CASE Bind(r) \/ BindErr(r) \/ Validate(r) \/ CallFunc(r) \/ FuncReturns(r)
    <3>1. r \notin late /\ UNCHANGED tokenVars
      BY <1>0, <2>3 DEF Bind, BindErr, Validate, CallFunc, FuncReturns, TokenInv
    <3> QED
      BY <1>0, <1>1, <3>1, RequestMoves DEF TokenInv, TypeOK, tokenVars
  <2> QED
    BY <1>1, <2>1, <2>2, <2>3 DEF RequestStep
<1>2. ASSUME NEW t \in Tokens, Login(t) PROVE TokenInv'
  BY <1>0, <1>2 DEF Login, TokenInv, requestVars
<1>3. CASE UNCHANGED <<requestVars, tokenVars>>
  BY <1>0, <1>3 DEF TokenInv, requestVars, tokenVars
<1> QED
  BY <1>1, <1>2, <1>3, StepKinds DEF vars

\* A request gets into GetFunc by Access only, which notes whom it meets.
LEMMA MetStep == Inv /\ [Next]_vars => MetInv'
<1> SUFFICES ASSUME Inv, [Next]_vars PROVE MetInv'
  OBVIOUS
<1>0. TypeOK /\ MetInv
  BY DEF Inv
<1>1. ASSUME NEW r \in Requests, RequestStep(r) PROVE MetInv'
  <2>1. CASE req'[r] \notin InFunc \/ req[r] \in InFunc
    <3>1. met \subseteq met'
      BY <1>1 DEF RequestStep, Accept, Access, BeginBind, Bind, BindErr, Validate, CallFunc, FuncReturns
    <3> QED
      BY <1>0, <1>1, <2>1, <3>1, RequestMoves DEF MetInv
  <2>2. CASE req'[r] \in InFunc /\ req[r] \notin InFunc
    <3>1. BeginBind(r)
      BY <1>0, <1>1, <2>2 DEF RequestStep, Accept, Access, Bind, BindErr, Validate, CallFunc, FuncReturns,
         ReqGoto, InFunc, TypeOK
    <3>2. \A q \in Requests \ {r} : req[q] \in InFunc => q \in met' /\ r \in met'
      BY <3>1 DEF BeginBind
    <3>3. met \subseteq met'
      BY <3>1 DEF BeginBind
    <3> QED
      BY <1>0, <1>1, <3>2, <3>3, RequestMoves DEF MetInv
  <2> QED
    BY <2>1, <2>2
<1>2. CASE UNCHANGED requestVars
  BY <1>0, <1>2 DEF MetInv, requestVars
<1> QED
  BY <1>1, <1>2, StepKinds DEF vars

\* What a request that met nobody bound stays in h.req.
LEMMA OwnStep == Inv /\ [Next]_vars => OwnInv'
<1> SUFFICES ASSUME Inv, [Next]_vars PROVE OwnInv'
  OBVIOUS
<1>0. TypeOK /\ MetInv /\ OwnInv
  BY DEF Inv
<1> DEFINE Own(r) ==
        /\ req[r] = "binding" => \A f \in Body[r[1]] \ toBind[r] : hreq[f] = r[1]
        /\ req[r] \in {"bound", "validated"} => \A f \in Body[r[1]] : hreq[f] = r[1]
        /\ req[r] = "running" => \A f \in Body[r[1]] : got[r][f] = r[1]
        /\ req[r] \in {"validated", "running"} => r[1] \notin Invalid
<1>1. ASSUME NEW x \in Requests, RequestStep(x) PROVE OwnInv'
  <2> SUFFICES ASSUME NEW r \in Requests, r \notin met' PROVE Own(r)'
    BY DEF OwnInv
  <2>0. r \notin met /\ r \notin met'
    BY <1>1 DEF RequestStep, Accept, Access, BeginBind, Bind, BindErr, Validate, CallFunc, FuncReturns
  <2>1. Own(r) /\ r[1] \in Calls /\ Body[r[1]] \in SUBSET Fields
    BY <1>0, <2>0, RequestParts, HttpAssumption DEF OwnInv
  <2>2. CASE x # r
    <3>1. req'[r] = req[r] /\ toBind'[r] = toBind[r] /\ got'[r] = got[r]
      <4>1. CASE Accept(x) \/ Access(x) \/ Bind(x)
        BY <1>0, <2>2, <4>1 DEF Accept, Access, BeginBind, Bind, ReqGoto, TypeOK
      <4>2. CASE BindErr(x) \/ Validate(x)
        BY <1>0, <2>2, <4>2 DEF BindErr, Validate, ReqGoto, TypeOK
      <4>3. CASE CallFunc(x) \/ FuncReturns(x)
        BY <1>0, <2>2, <4>3 DEF CallFunc, FuncReturns, ReqGoto, TypeOK
      <4> QED
        BY <1>1, <4>1, <4>2, <4>3 DEF RequestStep
    <3>2. CASE req[r] \in InFunc
      <4>1. req[x] \notin InFunc
        BY <1>0, <2>0, <2>2, <3>2 DEF MetInv
      <4>2. hreq' = hreq
        BY <1>1, <4>1 DEF RequestStep, Accept, Access, Bind, BindErr, Validate, CallFunc, FuncReturns, InFunc
      <4> QED
        BY <2>1, <3>1, <4>2
    <3>3. CASE req[r] \notin InFunc
      BY <2>1, <3>1, <3>3 DEF InFunc
    <3> QED
      BY <3>2, <3>3
  <2>3. CASE x = r
    <3>1. CASE Accept(r) \/ BindErr(r)
      BY <1>0, <3>1 DEF Accept, BindErr, ReqGoto, TypeOK
    <3>2. CASE Access(r)
      BY <1>0, <3>2 DEF Access, BeginBind, ReqGoto, TypeOK
    <3>3. CASE Bind(r)
      <4>1. CASE toBind[r] = {} /\ ReqGoto(r, "bound") /\ UNCHANGED <<hreq, toBind>>
        BY <1>0, <2>1, <3>3, <4>1 DEF Bind, ReqGoto, TypeOK
      <4>2. ASSUME NEW f \in toBind[r], hreq' = [hreq EXCEPT ![f] = r[1]],
                   toBind' = [toBind EXCEPT ![r] = @ \ {f}], UNCHANGED req
            PROVE  Own(r)'
        <5>1. req'[r] = "binding" /\ toBind'[r] = toBind[r] \ {f}
          BY <1>0, <3>3, <4>2 DEF Bind, TypeOK
        <5>2. \A g \in Body[r[1]] \ toBind'[r] : hreq'[g] = r[1]
          BY <1>0, <2>1, <3>3, <4>2, <5>1 DEF Bind, TypeOK
        <5> QED
          BY <5>1, <5>2
      <4> QED
        BY <3>3, <4>1, <4>2 DEF Bind
    <3>4. CASE Validate(r)
      <4>1. \A f \in Body[r[1]] : hreq[f] = r[1]
        BY <2>1, <3>4 DEF Validate
      <4>2. Valid(hreq) => r[1] \notin Invalid
        BY <2>1, <4>1, HttpAssumption DEF Valid
      <4>3. req'[r] \in {"validated", "bad"} /\ hreq' = hreq /\ (req'[r] = "validated" => Valid(hreq))
        BY <1>0, <3>4 DEF Validate, ReqGoto, TypeOK
      <4> QED
        BY <4>1, <4>2, <4>3
    <3>5. CASE CallFunc(r)
      <4>1. req'[r] = "running" /\ got'[r] = hreq
        BY <1>0, <3>5 DEF CallFunc, ReqGoto, TypeOK
      <4> QED
        BY <2>1, <3>5, <4>1 DEF CallFunc
    <3>6. CASE FuncReturns(r)
      BY <1>0, <3>6 DEF FuncReturns, ReqGoto, TypeOK
    <3> QED
      BY <1>1, <2>3, <3>1, <3>2, <3>3, <3>4, <3>5, <3>6 DEF RequestStep
  <2> QED
    BY <2>2, <2>3
<1>2. CASE UNCHANGED requestVars
  BY <1>0, <1>2 DEF OwnInv, requestVars
<1> QED
  BY <1>1, <1>2, StepKinds DEF vars

------------------------------------------------------------------------------
(* What follows for every behaviour.                                       *)

\* Inv holds throughout every behaviour.
THEOREM Invariance == Spec => []Inv
<1>1. Inv /\ [Next]_vars => Inv'
  BY TypeStep, DrainStep, SerialStep, TokenStep, MetStep, OwnStep DEF Inv
<1> QED
  BY InvInit, <1>1, PTL DEF Spec

\* All types are kept; above all, no call begins more attempts than it has.
THEOREM TypeCorrect == Spec => []TypeOK
<1>1. Inv => TypeOK
  BY DEF Inv
<1> QED
  BY <1>1, Invariance, PTL

\* When any call of Shutdown has returned nil no request is in the server, and
\* none gets in later.
THEOREM Drained == Spec => []NilMeansDrained
<1>1. Inv => NilMeansDrained
  BY DEF Inv, DrainInv
<1> QED
  BY <1>1, Invariance, PTL

\* Func is not called for a request whose token was replaced before it came,
\* and a complete request that nobody met is executed with its own, valid
\* values, whatever was left in h.req.
THEOREM OwnValues == Spec => []AloneGetsOwn
<1>1. Inv => AloneGetsOwn
  <2> SUFFICES ASSUME Inv, NEW r \in Requests, req[r] = "running"
               PROVE  /\ r \notin late
                      /\ r \notin met /\ Body[r[1]] = Fields =>
                            got[r] = [f \in Fields |-> r[1]] /\ r[1] \notin Invalid
    BY DEF AloneGetsOwn
  <2>1. r \notin late
    BY DEF Inv, TokenInv
  <2>2. ASSUME r \notin met, Body[r[1]] = Fields
        PROVE  got[r] = [f \in Fields |-> r[1]] /\ r[1] \notin Invalid
    <3>1. r[1] \notin Invalid /\ \A f \in Fields : got[r][f] = r[1]
      BY <2>2 DEF Inv, OwnInv
    <3>2. got[r] \in [Fields -> Calls \cup {None}]
      BY DEF Inv, TypeOK
    <3> QED
      BY <3>1, <3>2
  <2> QED
    BY <2>1, <2>2
<1> QED
  BY <1>1, Invariance, PTL

------------------------------------------------------------------------------
(* ClientManager.                                                          *)

\* An entry of m.clients is a client that registered, under its own session id.
RegistryInv ==
    \A s \in DOMAIN clients :
        clients[s] \in Clients /\ SessionOf[clients[s]] = s /\ reader[clients[s]] # "new"

\* Which client a caller may have in hand: the callers from outside one that is
\* touched, the loop one that leaves or that a broadcast found open.
CallInv(g) ==
    /\ pc[g] \in {"lookup", "send", "close", "delete", "forget"} => cur[g] \in Clients /\ reader[cur[g]] # "new"
    /\ g \in Admins =>
        /\ job[g] \notin {"broadcast", "unregister"} /\ pc[g] # "lookup"
        /\ pc[g] \in {"send", "close", "delete"} => cur[g] \in touched
    /\ g = Loop =>
        /\ pc[g] = "lookup" => job[g] = "unregister"
        /\ pc[g] = "range" => job[g] \in {"broadcast", "stop"}
        /\ pc[g] = "send" => job[g] = "broadcast" /\ (cur[g] \in touched \/ ~sendClosed[cur[g]])
        /\ pc[g] \in {"close", "delete"} => job[g] \in {"unregister", "stop"}
        /\ pc[g] \in {"close", "delete"} /\ job[g] = "stop" => cur[g] \in touched
        /\ pc[g] \in {"lookup", "close"} /\ job[g] = "unregister" =>
            cur[g] \in touched \/ (reader[cur[g]] \in {"leaving", "done"} /\ ~sendClosed[cur[g]])

\* Only a client that leaves, or one that was touched, is closed.
ClientInv(c) == sendClosed[c] => reader[c] # "new" /\ (c \in touched \/ reader[c] \in {"leaving", "done"})

ManagerTypes ==
    /\ reader \in [Clients -> ReaderStates] /\ sendClosed \in [Clients -> BOOLEAN]
    /\ pc \in [Callers -> CallStates] /\ job \in [Callers -> Jobs] /\ DOMAIN cur = Callers

ManagerInv ==
    /\ ManagerTypes
    /\ RegistryInv
    /\ \A g \in Callers : CallInv(g)
    /\ \A c \in Clients : ClientInv(c)
    /\ ClosedIsOnItsWayOut
    /\ OnlyTouchedPanic

LEMMA DeleteMeans ==
    ASSUME NEW m, NEW k
    PROVE  /\ DOMAIN Delete(m, k) = DOMAIN m \ {k}
           /\ \A x \in DOMAIN m \ {k} : Delete(m, k)[x] = m[x]
BY DEF Delete, Restrict

LEMMA ManagerStart == ManagerInit => ManagerInv
<1> SUFFICES ASSUME ManagerInit PROVE ManagerInv
  OBVIOUS
<1>1. DOMAIN clients = {} /\ crashedOn = {}
  BY DEF ManagerInit
<1>2. ManagerTypes
  BY DEF ManagerInit, ManagerTypes, ReaderStates, CallStates, Jobs
<1>3. \A g \in Callers : job[g] = "none" /\ pc[g] \in {"select", "idle"}
  BY DEF ManagerInit
<1>4. \A c \in Clients : ~sendClosed[c]
  BY DEF ManagerInit
<1> QED
  BY <1>1, <1>2, <1>3, <1>4 DEF ManagerInv, RegistryInv, CallInv, ClientInv, ClosedIsOnItsWayOut, OnlyTouchedPanic

LEMMA NothingMoves ==
    ASSUME ManagerInv, UNCHANGED <<clients, job, pc, cur, sendClosed, reader, touched, crashedOn>>
    PROVE  ManagerInv'
<1>1. ManagerTypes' /\ RegistryInv' /\ ClosedIsOnItsWayOut' /\ OnlyTouchedPanic'
  BY DEF ManagerInv, ManagerTypes, RegistryInv, ClosedIsOnItsWayOut, OnlyTouchedPanic
<1>2. ASSUME NEW g \in Callers PROVE CallInv(g)'
  BY DEF ManagerInv, CallInv
<1>3. ASSUME NEW c \in Clients PROVE ClientInv(c)'
  BY DEF ManagerInv, ClientInv
<1> QED
  BY <1>1, <1>2, <1>3 DEF ManagerInv

\* A client takes a step of its own: nobody's hands, the registry and what is
\* closed stay as they are, and a client that leaves does not come back.
LEMMA ClientMoves ==
    ASSUME ManagerInv, UNCHANGED <<clients, job, pc, cur, sendClosed, touched>>,
           NEW c \in Clients, NEW l \in ReaderStates \ {"new"}, reader' = [reader EXCEPT ![c] = l],
           reader[c] \in {"leaving", "done"} => l \in {"leaving", "done"},
           reader[c] # "new", crashedOn' \subseteq touched
    PROVE  ManagerInv'
<1>1. ManagerTypes /\ ManagerTypes'
  BY DEF ManagerInv, ManagerTypes
<1>2. /\ \A d \in Clients : reader[d] # "new" => reader'[d] # "new"
      /\ \A d \in Clients : reader[d] \in {"leaving", "done"} => reader'[d] \in {"leaving", "done"}
  BY <1>1 DEF ManagerTypes
<1>3. RegistryInv'
  BY <1>2 DEF ManagerInv, RegistryInv
<1>4. ASSUME NEW g \in Callers PROVE CallInv(g)'
  <2>1. CallInv(g)
    BY DEF ManagerInv
  <2> QED
    BY <1>2, <2>1 DEF CallInv
<1>5. ASSUME NEW d \in Clients PROVE ClientInv(d)'
  BY <1>2 DEF ManagerInv, ClientInv
<1>6. ClosedIsOnItsWayOut'
  BY DEF ManagerInv, ClosedIsOnItsWayOut
<1> QED
  BY <1>1, <1>3, <1>4, <1>5, <1>6 DEF ManagerInv, OnlyTouchedPanic


\* Callers move on, with what they may have in hand; none leaves its Close
\* behind without the delete.
LEMMA CallersMove ==
    ASSUME ManagerInv, ManagerTypes', NEW G \in SUBSET Callers,
           \A h \in Callers \ G : pc'[h] = pc[h] /\ job'[h] = job[h] /\ cur'[h] = cur[h],
           UNCHANGED <<clients, sendClosed, reader>>, touched \subseteq touched',
           \A g \in G : pc[g] # "delete" /\ CallInv(g)', crashedOn' \subseteq touched'
    PROVE  ManagerInv'
<1>1. RegistryInv'
  BY DEF ManagerInv, RegistryInv
<1>2. ASSUME NEW h \in Callers PROVE CallInv(h)'
  <2>1. CASE h \in G
    BY <2>1
  <2>2. CASE h \notin G
    <3>1. CallInv(h) /\ pc'[h] = pc[h] /\ job'[h] = job[h] /\ cur'[h] = cur[h]
      BY <2>2 DEF ManagerInv
    <3> QED
      BY <3>1 DEF CallInv
  <2> QED
    BY <2>1, <2>2
<1>3. ASSUME NEW d \in Clients PROVE ClientInv(d)'
  BY DEF ManagerInv, ClientInv
<1>4. ClosedIsOnItsWayOut'
  <2> SUFFICES ASSUME NEW s \in DOMAIN clients, sendClosed[clients[s]]
               PROVE  \E h \in Callers : pc'[h] = "delete" /\ cur'[h] = clients[s]
    BY DEF ClosedIsOnItsWayOut
  <2>1. PICK h \in Callers : pc[h] = "delete" /\ cur[h] = clients[s]
    BY DEF ManagerInv, ClosedIsOnItsWayOut
  <2> QED
    BY <2>1
<1> QED
  BY <1>1, <1>2, <1>3, <1>4 DEF ManagerInv, OnlyTouchedPanic

\* The same with one caller, in terms of the assignments.
LEMMA CallerMoves ==
    ASSUME ManagerInv, NEW g \in Callers, NEW p \in CallStates, NEW j \in Jobs, NEW c,
           pc' = [pc EXCEPT ![g] = p],
           (job' = job /\ j = job[g]) \/ job' = [job EXCEPT ![g] = j],
           (cur' = cur /\ c = cur[g]) \/ cur' = [cur EXCEPT ![g] = c],
           UNCHANGED <<clients, sendClosed, reader>>, touched \subseteq touched',
           pc[g] # "delete", pc'[g] = p /\ job'[g] = j /\ cur'[g] = c => CallInv(g)', crashedOn' \subseteq touched'
    PROVE  ManagerInv'
<1>1. ManagerTypes
  BY DEF ManagerInv
<1>2. ManagerTypes'
  BY <1>1 DEF ManagerTypes
<1>3. pc'[g] = p /\ job'[g] = j /\ cur'[g] = c
  BY <1>1 DEF ManagerTypes
<1>4. \A h \in Callers \ {g} : pc'[h] = pc[h] /\ job'[h] = job[h] /\ cur'[h] = cur[h]
  BY <1>1 DEF ManagerTypes
<1>5. CallInv(g)'
  BY <1>3
<1> DEFINE G == {g}
<1>6. G \in SUBSET Callers /\ \A h \in G : pc[h] # "delete" /\ CallInv(h)'
  BY <1>5
<1>7. \A h \in Callers \ G : pc'[h] = pc[h] /\ job'[h] = job[h] /\ cur'[h] = cur[h]
  BY <1>4
<1> HIDE DEF G
<1> QED
  BY <1>2, <1>6, <1>7, CallersMove

\* What can be taken from the registry: an open client, or one that a call from
\* outside has in hand.
LEMMA FoundOpen ==
    ASSUME ManagerInv, NEW s \in DOMAIN clients, pc[Loop] # "delete"
    PROVE  clients[s] \in Clients /\ reader[clients[s]] # "new" /\ (clients[s] \in touched \/ ~sendClosed[clients[s]])
<1>1. clients[s] \in Clients /\ reader[clients[s]] # "new"
  BY DEF ManagerInv, RegistryInv
<1>2. ASSUME sendClosed[clients[s]] PROVE clients[s] \in touched
  <2>1. PICK g \in Callers : pc[g] = "delete" /\ cur[g] = clients[s]
    BY <1>2 DEF ManagerInv, ClosedIsOnItsWayOut
  <2>2. g \in Admins /\ CallInv(g)
    BY <2>1 DEF Callers, ManagerInv
  <2> QED
    BY <2>1, <2>2 DEF CallInv
<1> QED
  BY <1>1, <1>2

LEMMA LoopSteps == ASSUME ManagerInv, MgrLookup \/ Broadcast PROVE ManagerInv'
<1>0. Loop \in Callers /\ CallInv(Loop) /\ OnlyTouchedPanic /\ Loop \notin Admins
  BY ClientAssumption DEF Callers, ManagerInv
<1>1. ASSUME MgrLookup, SessionOf[cur[Loop]] \in DOMAIN clients PROVE ManagerInv'
  <2>1. /\ pc' = [pc EXCEPT ![Loop] = "close"] /\ UNCHANGED <<job, cur, clients, sendClosed, reader, touched, crashedOn>>
        /\ pc[Loop] = "lookup"
    BY <1>1 DEF MgrLookup, GoesOn, Moves, regVars, connVars
  <2>2. pc'[Loop] = "close" /\ job'[Loop] = job[Loop] /\ cur'[Loop] = cur[Loop] => CallInv(Loop)'
    BY <1>0, <2>1 DEF CallInv
  <2>3. "close" \in CallStates /\ job[Loop] \in Jobs
    BY <1>0 DEF CallStates, ManagerInv, ManagerTypes
  <2> QED
    BY <1>0, <2>1, <2>2, <2>3, CallerMoves DEF OnlyTouchedPanic
<1>2. ASSUME MgrLookup, SessionOf[cur[Loop]] \notin DOMAIN clients PROVE ManagerInv'
  <2>1. /\ pc' = [pc EXCEPT ![Loop] = "select"] /\ job' = [job EXCEPT ![Loop] = "none"]
        /\ cur' = [cur EXCEPT ![Loop] = NoClient]
        /\ UNCHANGED <<clients, sendClosed, reader, touched, crashedOn>> /\ pc[Loop] = "lookup"
    BY <1>2 DEF MgrLookup, Rests, StartsJob, Moves, regVars, connVars
  <2>2. pc'[Loop] = "select" /\ job'[Loop] = "none" /\ cur'[Loop] = NoClient => CallInv(Loop)'
    BY <1>0 DEF CallInv
  <2>3. "select" \in CallStates /\ "none" \in Jobs
    BY DEF CallStates, Jobs
  <2> QED
    BY <1>0, <2>1, <2>2, <2>3, CallerMoves DEF OnlyTouchedPanic
<1>3. CASE Broadcast
  <2>1. /\ pc' = [pc EXCEPT ![Loop] = "range"] /\ job' = [job EXCEPT ![Loop] = "broadcast"]
        /\ UNCHANGED <<cur, clients, sendClosed, reader, touched, crashedOn>> /\ pc[Loop] = "select"
    BY <1>3 DEF Broadcast, BeginRange, StartsJob, Moves, regVars, connVars
  <2>2. pc'[Loop] = "range" /\ job'[Loop] = "broadcast" /\ cur'[Loop] = cur[Loop] => CallInv(Loop)'
    BY <1>0 DEF CallInv
  <2>3. "range" \in CallStates /\ "broadcast" \in Jobs
    BY DEF CallStates, Jobs
  <2> QED
    BY <1>0, <2>1, <2>2, <2>3, CallerMoves DEF OnlyTouchedPanic
<1> QED
  BY <1>1, <1>2, <1>3

LEMMA RangeSteps ==
    ASSUME ManagerInv, NEW g \in Callers, ~Crashed, RangeEnds(g) \/ Forgets(g) \/ Sends(g) \/ \E s \in Sessions : Takes(g, s)
    PROVE  ManagerInv'
<1>0. /\ CallInv(g) /\ OnlyTouchedPanic /\ job[g] \in Jobs /\ (g = Loop \/ g \in Admins) /\ Loop \notin Admins
      /\ {"range", "sendStop", "select", "done", "send", "close"} \subseteq CallStates /\ "none" \in Jobs
  BY ClientAssumption DEF Callers, ManagerInv, ManagerTypes, CallStates, Jobs
<1>1. ASSUME NEW p \in {"range", "sendStop"}, pc' = [pc EXCEPT ![g] = p], pc[g] # "delete",
             UNCHANGED <<job, cur, clients, sendClosed, reader, touched>>, crashedOn' \subseteq touched,
             g = Loop /\ p = "range" => job[g] \in {"broadcast", "stop"}
      PROVE  ManagerInv'
  <2>1. pc'[g] = p /\ job'[g] = job[g] /\ cur'[g] = cur[g] => CallInv(g)'
    BY <1>0, <1>1 DEF CallInv
  <2> QED
    BY <1>0, <1>1, <2>1, CallerMoves
<1>2. ASSUME Rests(g), pc[g] # "delete", UNCHANGED <<clients, sendClosed, reader, touched, crashedOn>>
      PROVE  ManagerInv'
  <2> DEFINE p == IF g = Loop THEN "select" ELSE "done"
  <2>1. /\ pc' = [pc EXCEPT ![g] = p] /\ job' = [job EXCEPT ![g] = "none"]
        /\ cur' = [cur EXCEPT ![g] = NoClient] /\ p \in CallStates /\ p \in {"select", "done"}
    BY <1>0, <1>2 DEF Rests, StartsJob, Moves
  <2> HIDE DEF p
  <2>2. pc'[g] = p /\ job'[g] = "none" /\ cur'[g] = NoClient => CallInv(g)'
    BY <1>0, <2>1 DEF CallInv
  <2> QED
    BY <1>0, <1>2, <2>1, <2>2, CallerMoves DEF OnlyTouchedPanic
<1>3. CASE RangeEnds(g)
  <2>1. /\ UNCHANGED <<clients, sendClosed, reader, touched, crashedOn>> /\ pc[g] = "range"
        /\ \/ GoesOn(g, "sendStop")
           \/ Rests(g)
    BY <1>3 DEF RangeEnds, regVars, connVars
  <2> QED
    BY <1>0, <1>1, <1>2, <2>1 DEF GoesOn, Moves, OnlyTouchedPanic
<1>4. CASE Forgets(g)
  <2>1. /\ UNCHANGED <<clients, sendClosed, reader, touched, crashedOn>> /\ pc[g] = "forget"
        /\ \/ job[g] = "stop" /\ GoesOn(g, "range")
           \/ Rests(g)
    BY <1>4 DEF Forgets, connVars
  <2> QED
    BY <1>0, <1>1, <1>2, <2>1 DEF GoesOn, Moves, OnlyTouchedPanic
<1>5. CASE Sends(g)
  <2>1. /\ UNCHANGED <<job, cur, clients, sendClosed, reader, touched>> /\ pc[g] = "send"
        /\ pc' = [pc EXCEPT ![g] = "range"] /\ crashedOn' = IF sendClosed[cur[g]] THEN {cur[g]} ELSE {}
    BY <1>5 DEF Sends, Send, GoesOn, Moves, regVars
  <2>2. cur[g] \in touched \/ ~sendClosed[cur[g]]
    BY <1>0, <2>1 DEF CallInv
  <2>3. crashedOn' \subseteq touched
    BY <2>1, <2>2
  <2>4. g = Loop => job[g] = "broadcast"
    BY <1>0, <2>1 DEF CallInv
  <2> QED
    BY <1>1, <2>1, <2>3, <2>4
<1>6. ASSUME NEW s, Takes(g, s) PROVE ManagerInv'
  <2>0. pc[g] = "range" /\ UNCHANGED <<job, clients, sendClosed, reader, crashedOn>>
    BY <1>6 DEF Takes, regVars, connVars
  <2>1. CASE s \notin DOMAIN clients
    <3>1. UNCHANGED <<cur, pc, touched>>
      BY <1>6, <2>1 DEF Takes
    <3> QED
      BY <2>0, <3>1, NothingMoves
  <2>2. CASE s \in DOMAIN clients
    <3> DEFINE p == IF job[g] = "stop" THEN "close" ELSE "send"
    <3>1. /\ cur' = [cur EXCEPT ![g] = clients[s]] /\ pc' = [pc EXCEPT ![g] = p]
          /\ touched' = IF job[g] = "broadcast" THEN touched ELSE touched \cup {clients[s]}
      BY <1>6, <2>2 DEF Takes, Moves
    <3>2. pc[Loop] # "delete" => /\ clients[s] \in Clients /\ reader[clients[s]] # "new"
                                 /\ clients[s] \in touched \/ ~sendClosed[clients[s]]
      BY <2>2, FoundOpen
    <3>3. clients[s] \in Clients /\ reader[clients[s]] # "new"
      BY <2>2 DEF ManagerInv, RegistryInv
    <3>4. /\ p \in {"close", "send"} /\ (p = "close" => job[g] = "stop") /\ (p = "send" => job[g] # "stop")
          /\ touched \subseteq touched' /\ (job[g] # "broadcast" => clients[s] \in touched')
      BY <3>1
    <3> HIDE DEF p
    <3>5. pc'[g] = p /\ job'[g] = job[g] /\ cur'[g] = clients[s] => CallInv(g)'
      <4> SUFFICES ASSUME pc'[g] = p, job'[g] = job[g], cur'[g] = clients[s] PROVE CallInv(g)'
        OBVIOUS
      <4>1. CASE g \in Admins
        BY <1>0, <2>0, <3>3, <3>4, <4>1 DEF CallInv
      <4>2. CASE g = Loop
        <5>1. clients[s] \in touched \/ ~sendClosed[clients[s]]
          BY <2>0, <3>2, <4>2
        <5>2. job[g] \in {"broadcast", "stop"}
          BY <1>0, <2>0, <4>2 DEF CallInv
        <5> QED
          BY <1>0, <2>0, <3>3, <3>4, <4>2, <5>1, <5>2 DEF CallInv
      <4> QED
        BY <1>0, <4>1, <4>2
    <3> QED
      BY <1>0, <2>0, <3>1, <3>4, <3>5, CallerMoves DEF OnlyTouchedPanic
  <2> QED
    BY <2>1, <2>2
<1> QED
  BY <1>3, <1>4, <1>5, <1>6

LEMMA ClosesStep == ASSUME ManagerInv, NEW g \in Callers, Closes(g) PROVE ManagerInv'
<1> DEFINE c == cur[g]
<1>0. /\ ManagerTypes /\ RegistryInv /\ ClosedIsOnItsWayOut /\ OnlyTouchedPanic /\ CallInv(g)
      /\ (g = Loop \/ g \in Admins) /\ Loop \notin Admins /\ "delete" \in CallStates
  BY ClientAssumption DEF Callers, ManagerInv, CallStates
<1>1. /\ pc[g] = "close" /\ pc' = [pc EXCEPT ![g] = "delete"] /\ sendClosed' = [sendClosed EXCEPT ![c] = TRUE]
      /\ crashedOn' = (IF sendClosed[c] THEN {c} ELSE {})
      /\ UNCHANGED <<clients, job, cur, reader, touched>>
  BY DEF Closes, Close, GoesOn, Moves, regVars
<1>2. c \in Clients /\ reader[c] # "new"
  BY <1>0, <1>1 DEF CallInv
<1>3. c \in touched \/ (reader[c] \in {"leaving", "done"} /\ ~sendClosed[c])
  BY <1>0, <1>1 DEF CallInv
<1>4. /\ ManagerTypes' /\ pc'[g] = "delete" /\ sendClosed'[c]
      /\ \A h \in Callers \ {g} : pc'[h] = pc[h]
      /\ \A d \in Clients \ {c} : sendClosed'[d] = sendClosed[d]
  BY <1>0, <1>1, <1>2 DEF ManagerTypes
<1> HIDE DEF c
<1>5. RegistryInv'
  BY <1>0, <1>1 DEF RegistryInv
<1>6. ASSUME NEW h \in Callers PROVE CallInv(h)'
  <2>1. CASE h = g
    BY <1>0, <1>1, <1>4, <2>1 DEF CallInv
  <2>2. CASE h # g
    <3>1. CallInv(h) /\ pc'[h] = pc[h] /\ job'[h] = job[h] /\ cur'[h] = cur[h]
      BY <1>1, <1>4, <2>2 DEF ManagerInv
    <3>2. CASE h \in Admins
      BY <1>0, <1>1, <3>1, <3>2 DEF CallInv
    <3>3. CASE h = Loop
      <4>1. g \in Admins /\ c \in touched
        BY <1>0, <1>1, <2>2, <3>3 DEF CallInv, c
      <4>2. pc[h] \in {"lookup", "send", "close"} => cur[h] \in touched \/ sendClosed'[cur[h]] = sendClosed[cur[h]]
        BY <1>4, <3>1, <4>1 DEF CallInv
      <4> QED
        BY <1>1, <3>1, <3>3, <4>2, <1>0 DEF CallInv
    <3> QED
      BY <3>2, <3>3 DEF Callers
  <2> QED
    BY <2>1, <2>2
<1>7. ASSUME NEW d \in Clients PROVE ClientInv(d)'
  BY <1>1, <1>2, <1>3, <1>4 DEF ManagerInv, ClientInv
<1>8. ClosedIsOnItsWayOut'
  <2> SUFFICES ASSUME NEW s \in DOMAIN clients, sendClosed'[clients[s]]
               PROVE  \E h \in Callers : pc'[h] = "delete" /\ cur'[h] = clients[s]
    BY <1>1 DEF ClosedIsOnItsWayOut
  <2>1. CASE clients[s] = c
    BY <1>1, <1>4, <2>1 DEF c
  <2>2. CASE clients[s] # c
    <3>1. sendClosed[clients[s]]
      BY <1>0, <1>4, <2>2 DEF RegistryInv
    <3>2. PICK h \in Callers : pc[h] = "delete" /\ cur[h] = clients[s]
      BY <1>0, <3>1 DEF ClosedIsOnItsWayOut
    <3> QED
      BY <1>1, <1>4, <3>2
  <2> QED
    BY <2>1, <2>2
<1>9. OnlyTouchedPanic'
  BY <1>1, <1>3 DEF OnlyTouchedPanic
<1> QED
  BY <1>4, <1>5, <1>6, <1>7, <1>8, <1>9 DEF ManagerInv

LEMMA DeletesStep == ASSUME ManagerInv, NEW g \in Callers, Deletes(g) PROVE ManagerInv'
<1>0. /\ ManagerTypes /\ RegistryInv /\ ClosedIsOnItsWayOut /\ OnlyTouchedPanic /\ CallInv(g)
      /\ (g = Loop \/ g \in Admins) /\ Loop \notin Admins
  BY ClientAssumption DEF Callers, ManagerInv
<1> DEFINE k == SessionOf[cur[g]]
<1>1. /\ pc[g] = "delete" /\ clients' = Delete(clients, k)
      /\ UNCHANGED <<sendClosed, reader, touched, crashedOn>>
      /\ \/ GoesOn(g, "forget")
         \/ Rests(g)
  BY DEF Deletes, connVars
<1>2. PICK p \in {"forget", "select", "done"}, j \in Jobs :
        /\ pc' = [pc EXCEPT ![g] = p] /\ ((job' = job /\ j = job[g]) \/ (job' = [job EXCEPT ![g] = j] /\ j = "none"))
        /\ cur' = cur \/ (cur' = [cur EXCEPT ![g] = NoClient] /\ p # "forget")
  <2>1. job[g] \in Jobs /\ "none" \in Jobs
    BY <1>0 DEF ManagerTypes, Jobs
  <2> QED
    BY <1>1, <2>1 DEF GoesOn, Rests, StartsJob, Moves
<1>3. /\ ManagerTypes' /\ pc'[g] = p /\ job'[g] = j /\ (p = "forget" => cur'[g] = cur[g])
      /\ \A h \in Callers \ {g} : pc'[h] = pc[h] /\ job'[h] = job[h] /\ cur'[h] = cur[h]
  <2>1. p \in CallStates
    BY DEF CallStates
  <2> QED
    BY <1>0, <1>1, <1>2, <2>1 DEF ManagerTypes
<1>4. DOMAIN clients' = DOMAIN clients \ {k} /\ \A s \in DOMAIN clients \ {k} : clients'[s] = clients[s]
  BY <1>1, DeleteMeans
<1>5. RegistryInv'
  BY <1>0, <1>1, <1>4 DEF RegistryInv
<1>6. ASSUME NEW h \in Callers PROVE CallInv(h)'
  <2>1. CASE h = g
    BY <1>0, <1>1, <1>2, <1>3, <2>1 DEF CallInv
  <2>2. CASE h # g
    <3>1. CallInv(h) /\ pc'[h] = pc[h] /\ job'[h] = job[h] /\ cur'[h] = cur[h]
      BY <1>3, <2>2 DEF ManagerInv
    <3> QED
      BY <1>1, <3>1 DEF CallInv
  <2> QED
    BY <2>1, <2>2
<1>7. ASSUME NEW d \in Clients PROVE ClientInv(d)'
  BY <1>1 DEF ManagerInv, ClientInv
<1>8. ClosedIsOnItsWayOut'
  <2> SUFFICES ASSUME NEW s \in DOMAIN clients, s # k, sendClosed[clients[s]]
               PROVE  \E h \in Callers : pc'[h] = "delete" /\ cur'[h] = clients[s]
    BY <1>1, <1>4 DEF ClosedIsOnItsWayOut
  <2>1. PICK h \in Callers : pc[h] = "delete" /\ cur[h] = clients[s]
    BY <1>0 DEF ClosedIsOnItsWayOut
  <2>2. h # g
    BY <1>0, <2>1 DEF RegistryInv
  <2> QED
    BY <1>3, <2>1, <2>2
<1> QED
  BY <1>0, <1>1, <1>3, <1>5, <1>6, <1>7, <1>8 DEF ManagerInv, OnlyTouchedPanic

LEMMA OutsideSteps == ASSUME ManagerInv, NEW a \in Admins, AdminStep(a) PROVE ManagerInv'
<1>0. /\ ManagerTypes /\ RegistryInv /\ OnlyTouchedPanic /\ CallInv(a) /\ CallInv(Loop)
      /\ a \in Callers /\ Loop \in Callers /\ a # Loop /\ Loop \notin Admins /\ job[a] \in Jobs
  BY ClientAssumption DEF Callers, ManagerInv, ManagerTypes
<1>1. ASSUME NEW s \in DOMAIN clients, NEW u, Kicks(a, s, u), pc[a] = "idle", UNCHANGED <<regVars, connVars, crashedOn>>
      PROVE  ManagerInv'
  <2>1. /\ pc' = [pc EXCEPT ![a] = "close"] /\ job' = [job EXCEPT ![a] = "kick"] /\ cur' = [cur EXCEPT ![a] = clients[s]]
        /\ UNCHANGED <<clients, sendClosed, reader, crashedOn>> /\ touched' = touched \cup {clients[s]}
        /\ "close" \in CallStates /\ "kick" \in Jobs
    BY <1>1 DEF Kicks, StartsJob, Moves, regVars, connVars, CallStates, Jobs
  <2>2. pc'[a] = "close" /\ job'[a] = "kick" /\ cur'[a] = clients[s] => CallInv(a)'
    BY <1>0, <2>1 DEF CallInv, RegistryInv
  <2>3. touched \subseteq touched' /\ crashedOn' \subseteq touched'
    BY <1>0, <2>1 DEF OnlyTouchedPanic
  <2> QED
    BY <1>0, <1>1, <2>1, <2>2, <2>3, CallerMoves
<1>2. ASSUME FindsNobody(a), pc[a] = "idle", UNCHANGED <<regVars, connVars, crashedOn>> PROVE ManagerInv'
  <2>1. /\ pc' = [pc EXCEPT ![a] = "done"] /\ "done" \in CallStates
        /\ UNCHANGED <<job, cur, clients, sendClosed, reader, touched, crashedOn>>
    BY <1>2 DEF FindsNobody, Moves, regVars, connVars, CallStates
  <2>2. pc'[a] = "done" /\ job'[a] = job[a] /\ cur'[a] = cur[a] => CallInv(a)'
    BY <1>0, <2>1 DEF CallInv
  <2> QED
    BY <1>0, <1>2, <2>1, <2>2, CallerMoves DEF OnlyTouchedPanic
<1>3. ASSUME NEW j \in {"keepLive", "stop"}, BeginRange(a, j), pc[a] = "idle" PROVE ManagerInv'
  <2>1. /\ pc' = [pc EXCEPT ![a] = "range"] /\ job' = [job EXCEPT ![a] = j] /\ "range" \in CallStates /\ j \in Jobs
        /\ UNCHANGED <<cur, clients, sendClosed, reader, touched, crashedOn>>
    BY <1>3 DEF BeginRange, StartsJob, Moves, regVars, connVars, CallStates, Jobs
  <2>2. pc'[a] = "range" /\ job'[a] = j /\ cur'[a] = cur[a] => CallInv(a)'
    BY <1>0, <2>1 DEF CallInv
  <2> QED
    BY <1>0, <1>3, <2>1, <2>2, CallerMoves DEF OnlyTouchedPanic
<1> DEFINE G == {a, Loop}
<1>4. ASSUME NEW c \in Clients, UnregisterClient(a, c) PROVE ManagerInv'
  <2>1. /\ pc[a] = "idle" /\ pc[Loop] = "select" /\ reader[c] # "new"
        /\ pc' = [pc EXCEPT ![a] = "done", ![Loop] = "lookup"] /\ job' = [job EXCEPT ![Loop] = "unregister"]
        /\ cur' = [cur EXCEPT ![Loop] = c] /\ touched' = touched \cup {c}
        /\ UNCHANGED <<clients, sendClosed, reader, crashedOn>>
        /\ "done" \in CallStates /\ "lookup" \in CallStates /\ "unregister" \in Jobs
    BY <1>4 DEF UnregisterClient, Unregistering, regVars, CallStates, Jobs
  <2>2. ManagerTypes'
    BY <1>0, <2>1 DEF ManagerTypes
  <2>3. /\ pc'[a] = "done" /\ job'[a] = job[a] /\ cur'[a] = cur[a]
        /\ pc'[Loop] = "lookup" /\ job'[Loop] = "unregister" /\ cur'[Loop] = c
        /\ \A h \in Callers \ G : pc'[h] = pc[h] /\ job'[h] = job[h] /\ cur'[h] = cur[h]
    BY <1>0, <2>1 DEF ManagerTypes
  <2>4. CallInv(a)'
    BY <1>0, <2>1, <2>3 DEF CallInv
  <2>5. CallInv(Loop)'
    BY <1>0, <2>1, <2>3 DEF CallInv
  <2>6. touched \subseteq touched' /\ crashedOn' \subseteq touched'
    BY <1>0, <2>1 DEF OnlyTouchedPanic
  <2>7. G \in SUBSET Callers /\ \A g \in G : pc[g] # "delete" /\ CallInv(g)'
    BY <1>0, <2>1, <2>4, <2>5
  <2> HIDE DEF G
  <2> QED
    BY <2>1, <2>2, <2>3, <2>6, <2>7, CallersMove
<1>5. CASE StopSend(a)
  <2>1. /\ pc[a] = "sendStop" /\ pc[Loop] = "select"
        /\ pc' = [pc EXCEPT ![a] = "done", ![Loop] = "range"] /\ job' = [job EXCEPT ![Loop] = "stop"]
        /\ UNCHANGED <<cur, clients, sendClosed, reader, touched, crashedOn>>
        /\ "done" \in CallStates /\ "range" \in CallStates /\ "stop" \in Jobs
    BY <1>5 DEF StopSend, regVars, connVars, CallStates, Jobs
  <2>2. ManagerTypes'
    BY <1>0, <2>1 DEF ManagerTypes
  <2>3. /\ pc'[a] = "done" /\ job'[a] = job[a] /\ pc'[Loop] = "range" /\ job'[Loop] = "stop"
        /\ \A h \in Callers \ G : pc'[h] = pc[h] /\ job'[h] = job[h] /\ cur'[h] = cur[h]
    BY <1>0, <2>1 DEF ManagerTypes
  <2>4. CallInv(a)'
    BY <1>0, <2>1, <2>3 DEF CallInv
  <2>5. CallInv(Loop)'
    BY <1>0, <2>1, <2>3 DEF CallInv
  <2>6. G \in SUBSET Callers /\ \A g \in G : pc[g] # "delete" /\ CallInv(g)'
    BY <1>0, <2>1, <2>4, <2>5
  <2> HIDE DEF G
  <2> QED
    BY <1>0, <2>1, <2>2, <2>3, <2>6, CallersMove DEF OnlyTouchedPanic
<1>6. ASSUME NEW s, KickClientBySessionId(a, s) PROVE ManagerInv'
  BY <1>1, <1>2, <1>6 DEF KickClientBySessionId
<1>7. ASSUME NEW u, KickClientByUserId(a, u) PROVE ManagerInv'
  BY <1>1, <1>2, <1>7 DEF KickClientByUserId
<1> QED
  BY <1>3, <1>4, <1>5, <1>6, <1>7 DEF AdminStep, ClientKeepLive, ManagerStop

LEMMA RegisterStep == ASSUME ManagerInv, NEW c \in Clients, Register(c) PROVE ManagerInv'
<1>0. /\ ManagerTypes /\ RegistryInv /\ ClosedIsOnItsWayOut /\ OnlyTouchedPanic /\ ClientInv(c)
  BY DEF ManagerInv
<1>1. /\ reader[c] = "new" /\ reader' = [reader EXCEPT ![c] = "registered"] /\ clients' = Put(clients, SessionOf[c], c)
      /\ UNCHANGED <<job, pc, cur, sendClosed, touched, crashedOn>> /\ "registered" \in ReaderStates
  BY DEF Register, ReaderStates
<1>2. /\ ManagerTypes' /\ reader'[c] # "new" /\ ~sendClosed[c]
      /\ \A d \in Clients \ {c} : reader'[d] = reader[d]
  BY <1>0, <1>1 DEF ManagerTypes, ClientInv
<1>3. /\ DOMAIN clients' = DOMAIN clients \cup {SessionOf[c]} /\ clients'[SessionOf[c]] = c
      /\ \A s \in DOMAIN clients \ {SessionOf[c]} : clients'[s] = clients[s]
  <2> SUFFICES ASSUME clients' = Put(clients, SessionOf[c], c) PROVE  /\ DOMAIN clients' = DOMAIN clients \cup {SessionOf[c]} /\ clients'[SessionOf[c]] = c
                      /\ \A s \in DOMAIN clients \ {SessionOf[c]} : clients'[s] = clients[s]
    BY <1>1
  <2> QED
    BY DEF Put
<1>4. RegistryInv'
  BY <1>0, <1>1, <1>2, <1>3 DEF RegistryInv
<1>5. ASSUME NEW g \in Callers PROVE CallInv(g)'
  <2>1. CallInv(g)
    BY DEF ManagerInv
  <2>2. pc[g] \in {"lookup", "send", "close", "delete", "forget"} => cur[g] \in Clients \ {c}
    BY <1>1, <2>1 DEF CallInv
  <2>3. pc[g] \in {"lookup", "send", "close", "delete", "forget"} => reader'[cur[g]] = reader[cur[g]]
    BY <1>2, <2>2
  <2> QED
    BY <1>1, <2>1, <2>3 DEF CallInv
<1>6. ASSUME NEW d \in Clients PROVE ClientInv(d)'
  BY <1>1, <1>2 DEF ManagerInv, ClientInv
<1>7. ClosedIsOnItsWayOut'
  <2> SUFFICES ASSUME NEW s \in DOMAIN clients', sendClosed[clients'[s]]
               PROVE  \E h \in Callers : pc[h] = "delete" /\ cur[h] = clients'[s]
    BY <1>1 DEF ClosedIsOnItsWayOut
  <2>1. s # SessionOf[c]
    BY <1>2, <1>3
  <2> QED
    BY <1>0, <1>3, <2>1 DEF ClosedIsOnItsWayOut
<1> QED
  BY <1>0, <1>1, <1>2, <1>4, <1>5, <1>6, <1>7 DEF ManagerInv, OnlyTouchedPanic

LEMMA UnregisterStep == ASSUME ManagerInv, NEW c \in Clients, Unregister(c) PROVE ManagerInv'
<1>0. /\ ManagerTypes /\ RegistryInv /\ ClosedIsOnItsWayOut /\ OnlyTouchedPanic /\ ClientInv(c)
      /\ Loop \in Callers /\ Loop \notin Admins
  BY ClientAssumption DEF Callers, ManagerInv
<1>1. /\ reader[c] = "unregistering" /\ reader' = [reader EXCEPT ![c] = "leaving"]
      /\ pc[Loop] = "select" /\ pc' = [pc EXCEPT ![Loop] = "lookup"] /\ job' = [job EXCEPT ![Loop] = "unregister"]
      /\ cur' = [cur EXCEPT ![Loop] = c]
      /\ UNCHANGED <<clients, sendClosed, touched, crashedOn>>
      /\ "leaving" \in ReaderStates /\ "lookup" \in CallStates /\ "unregister" \in Jobs
  BY DEF Unregister, Unregistering, StartsJob, Moves, regVars, ReaderStates, CallStates, Jobs
<1>2. /\ ManagerTypes' /\ reader'[c] = "leaving" /\ pc'[Loop] = "lookup" /\ job'[Loop] = "unregister" /\ cur'[Loop] = c
      /\ \A d \in Clients \ {c} : reader'[d] = reader[d]
      /\ \A h \in Callers \ {Loop} : pc'[h] = pc[h] /\ job'[h] = job[h] /\ cur'[h] = cur[h]
  BY <1>0, <1>1 DEF ManagerTypes
<1>3. \A d \in Clients : reader[d] # "new" => reader'[d] # "new"
  BY <1>1, <1>2
<1>4. RegistryInv'
  BY <1>0, <1>1, <1>3 DEF RegistryInv
<1>5. ASSUME NEW g \in Callers PROVE CallInv(g)'
  <2>1. CASE g = Loop
    <3>1. c \in touched \/ ~sendClosed[c]
      BY <1>0, <1>1 DEF ClientInv
    <3> QED
      BY <1>0, <1>1, <1>2, <2>1, <3>1 DEF CallInv
  <2>2. CASE g # Loop
    <3>1. CallInv(g) /\ g \in Admins /\ pc'[g] = pc[g] /\ job'[g] = job[g] /\ cur'[g] = cur[g]
      BY <1>2, <2>2 DEF ManagerInv, Callers
    <3> QED
      BY <1>0, <1>1, <1>3, <2>2, <3>1 DEF CallInv
  <2> QED
    BY <2>1, <2>2
<1>6. ASSUME NEW d \in Clients PROVE ClientInv(d)'
  BY <1>1, <1>2 DEF ManagerInv, ClientInv
<1>7. ClosedIsOnItsWayOut'
  <2> SUFFICES ASSUME NEW s \in DOMAIN clients, sendClosed[clients[s]]
               PROVE  \E h \in Callers : pc'[h] = "delete" /\ cur'[h] = clients[s]
    BY <1>1 DEF ClosedIsOnItsWayOut
  <2>1. PICK h \in Callers : pc[h] = "delete" /\ cur[h] = clients[s]
    BY <1>0 DEF ClosedIsOnItsWayOut
  <2> QED
    BY <1>1, <1>2, <2>1
<1> QED
  BY <1>0, <1>1, <1>2, <1>4, <1>5, <1>6, <1>7 DEF ManagerInv, OnlyTouchedPanic

LEMMA ClientSteps == ASSUME ManagerInv, NEW c \in Clients, ClientStep(c) PROVE ManagerInv'
<1>0. ManagerTypes /\ OnlyTouchedPanic
  BY DEF ManagerInv
<1>1. CASE WriterStep(c) \/ WriterFails(c)
  <2>1. UNCHANGED <<clients, job, pc, cur, sendClosed, reader, touched, crashedOn>>
    BY <1>1 DEF WriterStep, WriterTakes, WriterWrites, WriterSeesClose, WriterFails, WriterReturns, regVars, callVars
  <2> QED
    BY <2>1, NothingMoves
<1>2. ASSUME NEW l \in ReaderStates \ {"new"}, reader' = [reader EXCEPT ![c] = l],
             reader[c] \notin {"new", "leaving", "done"} \/ (reader[c] = "leaving" /\ l = "done"),
             UNCHANGED <<clients, job, pc, cur, sendClosed, touched>>, crashedOn' \subseteq touched
      PROVE  ManagerInv'
  <2>1. reader[c] # "new" /\ (reader[c] \in {"leaving", "done"} => l \in {"leaving", "done"})
    BY <1>2
  <2> QED
    BY <1>2, <2>1, ClientMoves
<1>3. {"reading", "replying", "unregistering", "done"} \subseteq ReaderStates \ {"new"}
  BY DEF ReaderStates
<1>4. CASE Listen(c) \/ ReaderGets(c) \/ ReaderFails(c) \/ ReaderEnds(c)
  BY <1>0, <1>2, <1>3, <1>4 DEF Listen, ReaderGets, ReaderFails, ReaderEnds, regVars, callVars, OnlyTouchedPanic
<1>5. CASE ReaderReplies(c)
  <2>1. /\ reader[c] = "replying" /\ reader' = [reader EXCEPT ![c] = "reading"]
        /\ crashedOn' = (IF sendClosed[c] THEN {c} ELSE {})
        /\ UNCHANGED <<clients, job, pc, cur, sendClosed, touched>>
    BY <1>5 DEF ReaderReplies, Send, regVars, callVars
  <2>2. crashedOn' \subseteq touched
    BY <2>1 DEF ManagerInv, ClientInv
  <2> QED
    BY <1>2, <1>3, <2>1, <2>2
<1> QED
  BY <1>1, <1>4, <1>5, RegisterStep, UnregisterStep DEF ClientStep

LEMMA ManagerKeeps == ManagerInv /\ [ManagerNext]_managerVars => ManagerInv'
<1> SUFFICES ASSUME ManagerInv, [ManagerNext]_managerVars PROVE ManagerInv'
  OBVIOUS
<1>1. CASE UNCHANGED managerVars
  <2>1. UNCHANGED <<clients, job, pc, cur, sendClosed, reader, touched, crashedOn>>
    BY <1>1 DEF managerVars, regVars, callVars, connVars
  <2> QED
    BY <2>1, NothingMoves
<1>2. CASE ManagerNext
  <2>1. ASSUME NEW g \in Callers, RegistryStep(g), ~Crashed PROVE ManagerInv'
    BY <2>1, RangeSteps, ClosesStep, DeletesStep DEF RegistryStep
  <2> QED
    BY <1>2, <2>1, LoopSteps, ClientSteps, OutsideSteps DEF ManagerNext
<1> QED
  BY <1>1, <1>2

LEMMA ManagerInvariance == ManagerSpec => []ManagerInv
BY ManagerStart, ManagerKeeps, PTL DEF ManagerSpec

\* Any number of clients that come, answer, get broadcasts and leave, however
\* they share session ids, make no goroutine panic: one that panics does so on
\* a client that a Kick, a Stop, ClientKeepLive or an UnregisterClient of
\* another goroutine touched, and never because another client was touched.
THEOREM PanicsAreTouched == ManagerSpec => []OnlyTouchedPanic
<1>1. ManagerInv => OnlyTouchedPanic
  BY DEF ManagerInv
<1> QED
  BY <1>1, ManagerInvariance, PTL

\* Whatever number of goroutines work on the registry, a closed client is found
\* in it only while one of them is between its Close and its delete.
THEOREM ClosedLeave == ManagerSpec => []ClosedIsOnItsWayOut
<1>1. ManagerInv => ClosedIsOnItsWayOut
  BY DEF ManagerInv
<1> QED
  BY <1>1, ManagerInvariance, PTL

------------------------------------------------------------------------------
(* WSClient.                                                               *)

\* While the two writers have not met: what was lost so far, and whether
\* writePump can still take a frame.
LossInv ==
    ~everOverlapped =>
        /\ ~overlapped
        /\ ~(WWriting /\ PWriting)
        /\ ~broken => lost = {}
        /\ wpump = "writing" => ~broken
        /\ wpump \notin {"end", "done"} => Cardinality(lost) <= 1
        /\ Cardinality(lost) <= 2

\* writePump holds one frame while it writes it.
HandInv == wpump = "writing" => \E f : hand = <<f>>

\* The three goroutines are started together.
StartInv == rpump = "off" => wpump = "off" /\ ppump = "off"

SocketInv == IsFiniteSet(lost) /\ HandInv /\ StartInv /\ LossInv

\* Another frame is lost.
LEMMA LoseOne ==
    ASSUME NEW L, NEW f, IsFiniteSet(L)
    PROVE  /\ IsFiniteSet(L \cup {f})
           /\ \A n \in Nat : Cardinality(L) <= n => Cardinality(L \cup {f}) <= n + 1
<1>1. Cardinality(L) \in Nat
  BY FS_CardinalityType
<1>2. /\ IsFiniteSet(L \cup {f})
      /\ Cardinality(L \cup {f}) = IF f \in L THEN Cardinality(L) ELSE Cardinality(L) + 1
  BY FS_AddElement
<1> QED
  BY <1>1, <1>2

LEMMA SocketInvInit == SocketInit => SocketInv
<1> SUFFICES ASSUME SocketInit PROVE SocketInv
  OBVIOUS
<1>1. IsFiniteSet({}) /\ Cardinality({}) = 0
  BY FS_EmptySet
<1> QED
  BY <1>1 DEF SocketInit, SocketInv, HandInv, StartInv, LossInv, WWriting

\* A write of writePump, or of pingPump, begins.
LEMMA BeginsAlone ==
    ASSUME SocketInv, lost' = lost, broken' = broken, rpump' = rpump,
           \/ /\ ppump' = ppump /\ wpump = "select"
              /\ wpump' \in {"writing", "pinging", "closeFrame"}
              /\ wpump' = "writing" => ~broken /\ hand' = <<Head(sendChan)>>
              /\ Begins(PWriting)
           \/ /\ wpump' = wpump /\ hand' = hand
              /\ ppump = "select" /\ ppump' = "pinging"
              /\ Begins(WWriting)
    PROVE  SocketInv'
<1>1. IsFiniteSet(lost)' /\ HandInv' /\ StartInv'
  BY DEF SocketInv, HandInv, StartInv
<1>2. ASSUME ~everOverlapped' PROVE LossInv'
  BY <1>2 DEF SocketInv, LossInv, Begins, WWriting, PWriting
<1> QED
  BY <1>1, <1>2 DEF SocketInv, LossInv

\* A step that begins no write and loses nothing.
LEMMA NothingLost ==
    ASSUME SocketInv, lost' = lost, everOverlapped' = everOverlapped, overlapped' = overlapped,
           hand' = hand, rpump' = "off" => rpump = "off",
           wpump = "off" => wpump' = "off", ppump = "off" => ppump' = "off",
           wpump' = wpump \/ wpump' \in {"select", "end", "done"},
           wpump \in {"end", "done"} => wpump' \in {"end", "done"},
           ppump' = ppump \/ ppump' \in {"select", "done"},
           broken' = broken \/ (broken' = TRUE /\ (wpump' = "writing" => PWriting))
    PROVE  SocketInv'
<1>1. IsFiniteSet(lost)' /\ HandInv' /\ StartInv'
  BY DEF SocketInv, HandInv, StartInv
<1>2. LossInv'
  BY DEF SocketInv, LossInv, WWriting, PWriting
<1> QED
  BY <1>1, <1>2 DEF SocketInv

LEMMA RangeSingle == \A e : Range(<<e>>) = {e}
<1> TAKE e
<1>1. DOMAIN <<e>> = {1} /\ <<e>>[1] = e
  OBVIOUS
<1> QED
  BY <1>1 DEF Range

\* The write of a frame ends: it is lost only with the connection.
LEMMA WriteEndsInv == SocketInv /\ WriteEnds => SocketInv'
<1> SUFFICES ASSUME SocketInv, WriteEnds PROVE SocketInv'
  OBVIOUS
<1>1. /\ wpump = "writing" /\ wpump' = "select" /\ ppump' = ppump
      /\ everOverlapped' = everOverlapped /\ overlapped' = overlapped
  BY DEF WriteEnds
<1>2. PICK f : hand = <<f>>
  BY <1>1 DEF SocketInv, HandInv
<1>3. Range(hand) = {f}
  BY <1>2, RangeSingle
<1>4. /\ IsFiniteSet(lost \cup {f})
      /\ \A n \in Nat : Cardinality(lost) <= n => Cardinality(lost \cup {f}) <= n + 1
  BY LoseOne DEF SocketInv
<1>5. lost' \in {lost, lost \cup {f}}
  BY <1>3 DEF WriteEnds
<1>6. IsFiniteSet(lost)'
  BY <1>4, <1>5 DEF SocketInv
<1>7. ASSUME ~everOverlapped' PROVE LossInv'
  <2>1. ~overlapped /\ ~broken /\ lost = {}
    BY <1>1, <1>7 DEF SocketInv, LossInv
  <2>2. (lost' = lost /\ ~broken') \/ (lost' = lost \cup {f} /\ broken')
    BY <1>3, <2>1 DEF WriteEnds, CanSucceed, CanFail
  <2>3. Cardinality({}) = 0
    BY FS_EmptySet
  <2>4. Cardinality(lost') <= 1
    <3>1. Cardinality(lost) = 0
      BY <2>1, <2>3
    <3>2. Cardinality(lost \cup {f}) <= 0 + 1
      BY <1>4, <3>1
    <3> QED
      BY <2>2, <3>1, <3>2
  <2>5. Cardinality(lost') <= 2
    <3>1. Cardinality(lost') \in Nat
      BY <1>6, FS_CardinalityType
    <3> QED
      BY <2>4, <3>1
  <2> QED
    BY <1>1, <2>1, <2>2, <2>4, <2>5 DEF LossInv, WWriting
<1>8. HandInv' /\ StartInv'
  BY <1>1 DEF WriteEnds, SocketInv, HandInv, StartInv, pumps
<1> QED
  BY <1>6, <1>7, <1>8 DEF SocketInv, LossInv

\* writePump takes a frame of a dead connection, loses it and ends.
LEMMA NextWriterErrInv == SocketInv /\ NextWriterErr => SocketInv'
<1> SUFFICES ASSUME SocketInv, NextWriterErr PROVE SocketInv'
  OBVIOUS
<1>1. /\ wpump = "select" /\ wpump' = "end" /\ ppump' = ppump
      /\ everOverlapped' = everOverlapped /\ overlapped' = overlapped
      /\ broken /\ broken' = broken
      /\ lost' = lost \cup {Head(sendChan)}
  BY DEF NextWriterErr, conn
<1>2. /\ IsFiniteSet(lost')
      /\ \A n \in Nat : Cardinality(lost) <= n => Cardinality(lost') <= n + 1
  BY <1>1, LoseOne DEF SocketInv
<1>3. ASSUME ~everOverlapped' PROVE LossInv'
  <2>1. Cardinality(lost) <= 1
    BY <1>1, <1>3 DEF SocketInv, LossInv
  <2>2. Cardinality(lost') <= 2
    BY <1>2, <2>1
  <2> QED
    BY <1>1, <1>3, <2>2 DEF SocketInv, LossInv, WWriting
<1> QED
  BY <1>1, <1>2, <1>3 DEF NextWriterErr, SocketInv, HandInv, StartInv, LossInv

LEMMA SocketInvStep == SocketInv /\ [SocketNext]_socketVars => SocketInv'
<1> SUFFICES ASSUME SocketInv, [SocketNext]_socketVars PROVE SocketInv'
  OBVIOUS
<1> USE DEF writes, conn, pumps
<1>1. CASE UNCHANGED socketVars
  BY <1>1, NothingLost DEF socketVars
<1>2. CASE Start
  <2>1. LossInv' /\ HandInv' /\ StartInv'
    BY <1>2 DEF Start, SocketInv, LossInv, HandInv, StartInv, WWriting, PWriting
  <2> QED
    BY <1>2, <2>1 DEF Start, SocketInv
<1>3. ASSUME NEW f \in Frames, SendMessage(f) PROVE SocketInv'
  BY <1>3, NothingLost DEF SendMessage, Enqueue, Park, Cancelled, SendOnClosed
<1>4. CASE ReadStep
  BY <1>4, NothingLost DEF ReadStep, ReadCheck, ReadMessage, handleMessage, ReadErr, ReadEnd
<1>5. CASE WriteNext \/ WriteTick \/ WriteClosed
  BY <1>5, BeginsAlone DEF WriteNext, WriteTick, WriteClosed
<1>6. CASE NextWriterErr
  BY <1>6, NextWriterErrInv
<1>7. CASE WriteEnds
  BY <1>7, WriteEndsInv
<1>8. CASE WriteCancelled \/ WriteEnd \/ WritePinged \/ CloseFrameEnds
  BY <1>8, NothingLost DEF WriteCancelled, WriteEnd, WritePinged, CloseFrameEnds,
     CanSucceed, CanFail
<1>9. CASE PingTick
  BY <1>9, BeginsAlone DEF PingTick
<1>10. CASE Pinged \/ PingCancelled
  BY <1>10, NothingLost DEF Pinged, PingCancelled, CanSucceed, CanFail, PWriting
<1>11. CASE OverlapPanics \/ CloseCancel \/ CloseStep
  BY <1>11, NothingLost DEF OverlapPanics, CloseCancel, CloseStep, CloseChan, CloseConn
<1> QED
  BY <1>1, <1>2, <1>3, <1>4, <1>5, <1>6, <1>7, <1>8, <1>9, <1>10, <1>11
  DEF SocketNext, WriteStep, WriteSelect, PingStep

\* While the two writing goroutines do not meet, writePump notices a dead
\* connection in time: the frame whose write failed and the next are lost.
THEOREM LossBounded == SocketSpec => []LossIsNoticed
<1>1. SocketInv => LossIsNoticed
  <2>1. Cardinality({}) = 0
    BY FS_EmptySet
  <2> QED
    BY <2>1 DEF SocketInv, LossInv, LossIsNoticed
<1> QED
  BY <1>1, SocketInvInit, SocketInvStep, PTL DEF SocketSpec

\* Nobody is blocked on sendChan once the context is cancelled, and sendChan is
\* closed only after that.
BlockedInv ==
    /\ call \in [Frames -> {"new", "parked", "ok", "closed", "panicked"}]
    /\ closePc # "idle" => \A f \in Frames : call[f] # "parked"
    /\ ctxDone => closePc # "idle"
    /\ closePc # "idle" => ctxDone

\* The goroutines of the connection touch neither the callers nor Close.
LEMMA CallersLeftAlone ==
    Start \/ ReadStep \/ OverlapPanics \/ PingStep \/ WriteStep =>
        call' = call /\ closePc' = closePc /\ ctxDone' = ctxDone
BY DEF calls, Start, ReadStep, ReadCheck, ReadMessage, handleMessage,
   ReadErr, ReadEnd, OverlapPanics, PingStep, PingTick, Pinged, PingCancelled,
   WriteStep, WriteSelect, WriteNext, NextWriterErr, Frame, WriteTick, WriteClosed,
   WriteCancelled, WriteEnds, WritePinged, CloseFrameEnds, WriteEnd

LEMMA BlockedInvStep == BlockedInv /\ [SocketNext]_socketVars => BlockedInv'
<1> SUFFICES ASSUME BlockedInv, [SocketNext]_socketVars PROVE BlockedInv'
  OBVIOUS
<1>1. ASSUME NEW f \in Frames, SendMessage(f) PROVE BlockedInv'
  <2>1. closePc' = closePc /\ ctxDone' = ctxDone
    BY <1>1 DEF SendMessage, Enqueue, Park, Cancelled, SendOnClosed
  <2>2. PICK r \in {"parked", "ok", "closed", "panicked"} :
            call' = [call EXCEPT ![f] = r] /\ (r = "parked" => ~ctxDone)
    BY <1>1 DEF SendMessage, Enqueue, Park, Cancelled, SendOnClosed
  <2> QED
    BY <2>1, <2>2 DEF BlockedInv
<1>2. CASE CloseCancel
  <2>1. /\ closePc' = "cancelled" /\ ctxDone' = TRUE
        /\ call' = [f \in Frames |-> IF call[f] = "parked" THEN "closed" ELSE call[f]]
    BY <1>2 DEF CloseCancel
  <2> QED
    BY <2>1 DEF BlockedInv
<1>3. CASE CloseStep
  <2>1. closePc # "idle" /\ closePc' # "idle" /\ ctxDone' = ctxDone
    BY <1>3 DEF CloseStep, CloseChan, CloseConn
  <2>2. call' = call
        \/ call' = [f \in Frames |-> IF call[f] = "parked" THEN "panicked" ELSE call[f]]
    BY <1>3 DEF CloseStep, CloseChan, CloseTheChan, CloseConn, calls
  <2> QED
    BY <2>1, <2>2 DEF BlockedInv
<1>4. CASE call' = call /\ closePc' = closePc /\ ctxDone' = ctxDone
  BY <1>4 DEF BlockedInv
<1>5. UNCHANGED socketVars => call' = call /\ closePc' = closePc /\ ctxDone' = ctxDone
  BY DEF socketVars, calls
<1> QED
  BY <1>1, <1>2, <1>3, <1>4, <1>5, CallersLeftAlone DEF SocketNext

\* Close cancels before it closes sendChan: a blocked SendMessage is woken and
\* never panics on the closed channel.
THEOREM BlockedSendersSafe == SocketSpec => ParkedNeverPanics
<1>1. SocketInit => BlockedInv
  BY DEF SocketInit, BlockedInv
<1>2. BlockedInv /\ [SocketNext]_socketVars =>
            [\A f \in Frames : call[f] = "parked" => call'[f] # "panicked"]_socketVars
  <2> SUFFICES ASSUME BlockedInv, SocketNext, NEW f \in Frames, call[f] = "parked"
               PROVE  call'[f] # "panicked"
    OBVIOUS
  <2>1. CASE call' = call
    BY <2>1
  <2>2. ASSUME NEW g \in Frames, SendMessage(g) PROVE call'[f] # "panicked"
    <3>1. call' = [call EXCEPT ![g] = "ok"] \/ call[g] = "new"
      BY <2>2 DEF SendMessage, Enqueue, Park, Cancelled, SendOnClosed
    <3>2. \E r : call' = [call EXCEPT ![g] = r]
      BY <2>2 DEF SendMessage, Enqueue, Park, Cancelled, SendOnClosed
    <3> QED
      BY <3>1, <3>2 DEF BlockedInv
  <2>3. CASE CloseCancel
    BY <2>3 DEF CloseCancel
  <2>4. CASE CloseStep
    BY <2>4 DEF CloseStep, CloseChan, CloseConn, BlockedInv
  <2> QED
    BY <2>1, <2>2, <2>3, <2>4, CallersLeftAlone DEF SocketNext
<1> QED
  BY <1>1, <1>2, BlockedInvStep, PTL DEF SocketSpec, ParkedNeverPanics

\* What is in a sequence after the operations of a channel and of a writer.
LEMMA RangeFacts ==
    ASSUME NEW S, NEW s \in Seq(S)
    PROVE  /\ \A e \in S : Range(Append(s, e)) = Range(s) \cup {e}
           /\ s # << >> => Range(s) = {Head(s)} \cup Range(Tail(s))
           /\ \A q \in Seq(S) : Range(s \o q) = Range(s) \cup Range(q)
<1>1. \A q \in Seq(S) : Range(s \o q) = Range(s) \cup Range(q)
  <2> SUFFICES ASSUME NEW q \in Seq(S) PROVE Range(s \o q) = Range(s) \cup Range(q)
    OBVIOUS
  <2>1. /\ Len(s) \in Nat /\ Len(q) \in Nat
        /\ DOMAIN s = 1 .. Len(s) /\ DOMAIN q = 1 .. Len(q)
        /\ DOMAIN (s \o q) = 1 .. Len(s) + Len(q)
        /\ \A k \in 1 .. Len(s) + Len(q) :
                (s \o q)[k] = IF k <= Len(s) THEN s[k] ELSE q[k - Len(s)]
    BY LenProperties, ConcatProperties
  <2>2. ASSUME NEW x \in Range(s \o q) PROVE x \in Range(s) \cup Range(q)
    <3>1. PICK k \in 1 .. Len(s) + Len(q) : x = (s \o q)[k]
      BY <2>1, <2>2 DEF Range
    <3>2. CASE k <= Len(s)
      <4>1. k \in DOMAIN s /\ x = s[k]
        BY <2>1, <3>1, <3>2
      <4> QED
        BY <4>1 DEF Range
    <3>3. CASE ~(k <= Len(s))
      <4>1. k - Len(s) \in DOMAIN q /\ x = q[k - Len(s)]
        BY <2>1, <3>1, <3>3
      <4> QED
        BY <4>1 DEF Range
    <3> QED
      BY <3>2, <3>3
  <2>3. ASSUME NEW k \in DOMAIN s PROVE s[k] \in Range(s \o q)
    <3>1. k \in DOMAIN (s \o q) /\ (s \o q)[k] = s[k]
      BY <2>1
    <3> QED
      BY <3>1 DEF Range
  <2>4. ASSUME NEW k \in DOMAIN q PROVE q[k] \in Range(s \o q)
    <3>1. Len(s) + k \in DOMAIN (s \o q) /\ (s \o q)[Len(s) + k] = q[k]
      BY <2>1
    <3> QED
      BY <3>1 DEF Range
  <2> QED
    BY <2>2, <2>3, <2>4 DEF Range
<1>2. ASSUME NEW e \in S PROVE Range(Append(s, e)) = Range(s) \cup {e}
  <2>1. Append(s, e) = s \o <<e>> /\ <<e>> \in Seq(S)
    OBVIOUS
  <2> QED
    BY <1>1, <2>1, RangeSingle
<1>3. ASSUME s # << >> PROVE Range(s) = {Head(s)} \cup Range(Tail(s))
  <2>1. /\ Head(s) \in S /\ Tail(s) \in Seq(S)
        /\ Len(s) \in Nat \ {0} /\ Len(Tail(s)) = Len(s) - 1
        /\ DOMAIN s = 1 .. Len(s) /\ DOMAIN Tail(s) = 1 .. Len(s) - 1
        /\ Head(s) = s[1]
        /\ \A k \in 1 .. Len(s) - 1 : Tail(s)[k] = s[k + 1]
    BY <1>3, HeadTailProperties, LenProperties
  <2>2. ASSUME NEW k \in DOMAIN s PROVE s[k] \in {Head(s)} \cup Range(Tail(s))
    <3>1. CASE k = 1
      BY <2>1, <3>1
    <3>2. CASE k # 1
      <4>1. k - 1 \in DOMAIN Tail(s) /\ Tail(s)[k - 1] = s[k]
        BY <2>1, <3>2
      <4> QED
        BY <4>1 DEF Range
    <3> QED
      BY <3>1, <3>2
  <2>3. ASSUME NEW k \in DOMAIN Tail(s) PROVE Tail(s)[k] \in Range(s)
    <3>1. k + 1 \in DOMAIN s /\ Tail(s)[k] = s[k + 1]
      BY <2>1
    <3> QED
      BY <3>1 DEF Range
  <2>4. Head(s) \in Range(s)
    BY <2>1 DEF Range
  <2> QED
    BY <2>2, <2>3, <2>4 DEF Range
<1> QED
  BY <1>1, <1>2, <1>3

\* writePump holds a frame only while it writes it.
TransitInv ==
    /\ call \in [Frames -> {"new", "parked", "ok", "closed", "panicked"}]
    /\ sendChan \in Seq(Frames) /\ wire \in Seq(Frames) /\ hand \in Seq(Frames)
    /\ wpump # "writing" => hand = << >>
    /\ NothingVanishes

InTransit == Range(wire) \cup Range(hand) \cup Range(sendChan) \cup lost

\* A step that moves a frame on, and one that accepts none.
LEMMA FramesMoveOn ==
    ASSUME TransitInv, InTransit \subseteq InTransit',
           \A f \in Frames : call'[f] = "ok" => call[f] = "ok"
    PROVE  NothingVanishes'
BY DEF TransitInv, NothingVanishes, InTransit

LEMMA TransitInvStep == SocketInv /\ TransitInv /\ [SocketNext]_socketVars => TransitInv'
<1> SUFFICES ASSUME SocketInv, TransitInv, [SocketNext]_socketVars PROVE TransitInv'
  OBVIOUS
<1>1. CASE /\ UNCHANGED <<call, sendChan, wire, hand, lost>>
           /\ wpump' = "writing" <=> wpump = "writing"
  BY <1>1 DEF TransitInv, NothingVanishes
<1>2. ASSUME NEW f \in Frames, Enqueue(f) PROVE TransitInv'
  <2>1. /\ sendChan' = Append(sendChan, f) /\ call' = [call EXCEPT ![f] = "ok"]
        /\ wire' = wire /\ hand' = hand /\ lost' = lost /\ wpump' = wpump
    BY <1>2 DEF Enqueue, writes, pumps
  <2>2. Range(sendChan') = Range(sendChan) \cup {f} /\ sendChan' \in Seq(Frames)
    BY <2>1, RangeFacts DEF TransitInv
  <2>3. \A g \in Frames : call'[g] = "ok" => g = f \/ call[g] = "ok"
    BY <2>1 DEF TransitInv
  <2>4. NothingVanishes'
    BY <2>1, <2>2, <2>3 DEF TransitInv, NothingVanishes
  <2> QED
    BY <2>1, <2>2, <2>4 DEF TransitInv
<1>3. ASSUME NEW f \in Frames, Park(f) \/ Cancelled(f) \/ SendOnClosed(f) PROVE TransitInv'
  <2>1. /\ \E r \in {"parked", "closed", "panicked"} : call' = [call EXCEPT ![f] = r]
        /\ UNCHANGED <<sendChan, wire, hand, lost, wpump>>
    BY <1>3 DEF Park, Cancelled, SendOnClosed, writes, pumps
  <2>2. /\ \A g \in Frames : call'[g] = "ok" => call[g] = "ok"
        /\ call' \in [Frames -> {"new", "parked", "ok", "closed", "panicked"}]
    BY <2>1 DEF TransitInv
  <2> QED
    BY <2>1, <2>2 DEF TransitInv, NothingVanishes
<1>4. CASE CloseCancel \/ CloseChan
  <2>1. /\ \E r \in {"closed", "panicked"} :
                call' = [f \in Frames |-> IF call[f] = "parked" THEN r ELSE call[f]]
        /\ UNCHANGED <<sendChan, wire, hand, lost, wpump>>
    BY <1>4 DEF CloseCancel, CloseChan, CloseTheChan, writes, pumps
  <2>2. /\ \A g \in Frames : call'[g] = "ok" => call[g] = "ok"
        /\ call' \in [Frames -> {"new", "parked", "ok", "closed", "panicked"}]
    BY <2>1 DEF TransitInv
  <2> QED
    BY <2>1, <2>2 DEF TransitInv, NothingVanishes
<1>5. CASE WriteNext
  <2>1. /\ sendChan # << >> /\ sendChan' = Tail(sendChan) /\ hand' = <<Head(sendChan)>>
        /\ wpump = "select" /\ wpump' = "writing"
        /\ UNCHANGED <<call, wire, lost>>
    BY <1>5 DEF WriteNext, Frame
  <2>2. /\ Range(sendChan) = {Head(sendChan)} \cup Range(Tail(sendChan))
        /\ Head(sendChan) \in Frames /\ Tail(sendChan) \in Seq(Frames)
    BY <2>1, RangeFacts, HeadTailProperties DEF TransitInv
  <2>3. hand = << >> /\ Range(hand) = {}
    BY <2>1 DEF TransitInv, Range
  <2>4. Range(hand') = {Head(sendChan)} /\ hand' \in Seq(Frames)
    BY <2>1, <2>2, RangeSingle
  <2>5. InTransit \subseteq InTransit'
    BY <2>1, <2>2, <2>3, <2>4 DEF InTransit
  <2> QED
    BY <2>1, <2>2, <2>4, <2>5, FramesMoveOn DEF TransitInv
<1>6. CASE NextWriterErr
  <2>1. /\ sendChan # << >> /\ sendChan' = Tail(sendChan)
        /\ lost' = lost \cup {Head(sendChan)}
        /\ wpump = "select" /\ wpump' = "end"
        /\ UNCHANGED <<call, wire, hand>>
    BY <1>6 DEF NextWriterErr, Frame
  <2>2. /\ Range(sendChan) = {Head(sendChan)} \cup Range(Tail(sendChan))
        /\ Tail(sendChan) \in Seq(Frames)
    BY <2>1, RangeFacts, HeadTailProperties DEF TransitInv
  <2>3. InTransit \subseteq InTransit'
    BY <2>1, <2>2 DEF InTransit
  <2> QED
    BY <2>1, <2>2, <2>3, FramesMoveOn DEF TransitInv
<1>7. CASE WriteEnds
  <2>1. /\ hand' = << >> /\ wpump = "writing" /\ wpump' = "select"
        /\ UNCHANGED <<call, sendChan>>
        /\ \/ wire' = wire \o hand /\ lost' = lost
           \/ wire' = wire /\ lost' = lost \cup Range(hand)
    BY <1>7 DEF WriteEnds, calls
  <2>2. Range(wire \o hand) = Range(wire) \cup Range(hand) /\ wire \o hand \in Seq(Frames)
    BY RangeFacts DEF TransitInv
  <2>3. InTransit \subseteq InTransit'
    BY <2>1, <2>2 DEF InTransit
  <2>4. NothingVanishes'
    BY <2>1, <2>3, FramesMoveOn
  <2>5. wire' \in Seq(Frames)
    BY <2>1, <2>2 DEF TransitInv
  <2>6. << >> \in Seq(Frames)
    OBVIOUS
  <2> QED
    BY <2>1, <2>4, <2>5, <2>6 DEF TransitInv
<1>8. ASSUME \/ UNCHANGED socketVars \/ Start \/ ReadStep \/ PingStep \/ OverlapPanics
             \/ WriteTick \/ WriteClosed \/ WriteCancelled
             \/ WritePinged \/ CloseFrameEnds \/ WriteEnd \/ CloseConn
      PROVE  /\ UNCHANGED <<call, sendChan, wire, hand, lost>>
             /\ wpump' = "writing" <=> wpump = "writing"
  <2> USE DEF calls, writes, pumps
  <2>1. CASE UNCHANGED socketVars \/ ReadStep
    BY <2>1 DEF socketVars, ReadStep, ReadCheck, ReadMessage, handleMessage, ReadErr, ReadEnd
  <2>2. CASE Start
    BY <2>2 DEF Start, SocketInv, StartInv
  <2>3. CASE PingStep \/ OverlapPanics \/ CloseConn
    BY <2>3 DEF PingStep, PingTick, Pinged, PingCancelled, OverlapPanics, CloseConn
  <2>4. CASE WriteTick \/ WriteClosed \/ WriteCancelled
    BY <2>4 DEF WriteTick, WriteClosed, WriteCancelled
  <2>5. CASE WritePinged \/ CloseFrameEnds \/ WriteEnd
    BY <2>5 DEF WritePinged, CloseFrameEnds, WriteEnd
  <2> QED
    BY <1>8, <2>1, <2>2, <2>3, <2>4, <2>5
<1> QED
  BY <1>1, <1>2, <1>3, <1>4, <1>5, <1>6, <1>7, <1>8
  DEF SocketNext, SendMessage, WriteStep, WriteSelect, CloseStep

\* A frame that SendMessage accepted is written, on its way, or counted as
\* lost; so while the writers do not meet, at most two vanish.
THEOREM AcceptedAccounted == SocketSpec => []NothingVanishes
<1>1. SocketInit => TransitInv
  BY DEF SocketInit, TransitInv, NothingVanishes
<1>2. TransitInv => NothingVanishes
  BY DEF TransitInv
<1> QED
  BY <1>1, <1>2, TransitInvStep, SocketInvInit, SocketInvStep, PTL DEF SocketSpec

===============================================================================
