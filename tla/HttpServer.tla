------------------------------ MODULE HttpServer ------------------------------
(***************************************************************************)
(* libs/server/server_http.go and backend_http.go, the life of the server, *)
(* access.go and handler.go, the life of a request, and PerformHTTPRequest *)
(* of utils/http.go, which sends one and sends it again.  The server is    *)
(* started by Startup, in the caller's goroutine, or by                    *)
(* StartWithGracefulShutdown, which serves in a goroutine of its own and   *)
(* waits for a signal; GracefulStop, Stop and the Stop of a Backend, which *)
(* waits for a signal first, end it from elsewhere.  A request is bound    *)
(* to, validated in and read from the one h.req that its route's Handler   *)
(* keeps.                                                                  *)
(*                                                                         *)
(* External: the engine.  Its Shutdown closes the listener, which makes    *)
(* Start return ErrServerClosed at once, and returns when no request is    *)
(* active, or with an error when its context expires.  Fatal of the logger *)
(* exits the process, and so does a signal nobody asked to be notified of. *)
(* The network may fail at any moment.  The application keeps the token of *)
(* a user's last login in Redis.                                           *)
(***************************************************************************)
EXTENDS Naturals, FiniteSets

CONSTANTS
    Calls,      \* calls of PerformHTTPRequest
    Retries,    \* retryCount, the attempts of a call
    HasBody,    \* the calls whose http.Request has a body
    Tokens,     \* bound: the tokens of one user, one for each login
    TokenOf,    \* the token in the jwt of each call
    Fields,
    Body,       \* of each call: the fields it sends
    Invalid,    \* the calls whose values do not pass the validator
    Stoppers,   \* callers of GracefulStop
    Forever,    \* callers of Stop, which sets no time limit
    MaxStops,   \* bound: how many of them call it
    Modes,      \* how the server may be started
    None        \* a field that was never set, a token before any login

ASSUME HttpAssumption ==
    /\ Retries \in Nat \ {0}
    /\ HasBody \subseteq Calls /\ Invalid \subseteq Calls
    /\ TokenOf \in [Calls -> Tokens]
    /\ Body \in [Calls -> SUBSET Fields]
    /\ \A c \in Invalid : Body[c] # {}     \* it is a value that is refused

Waiter == "WaitForShutdown"
Shutters == Stoppers \cup Forever \cup {Waiter}     \* who calls Shutdown
Requests == Calls \X (1 .. Retries)                 \* the attempts

VARIABLES
    mode,       \* the method that started the server
    starter,    \* the goroutine in engine.Start, and what it returned
    shutdown,   \* Shutdown was called: the listener is closed
    quit,       \* a signal is in the channel quit
    shutter,    \* of each caller of Shutdown: place and result
    exited,     \* the process ended
    req,        \* of each request: where it is; at last "ok" or "bad", its status
    toBind,     \* the fields Bind has still to set
    hreq,       \* h.req: of each field, the call whose value it has
    got,        \* the h.req that Func was called with
    met,        \* history: requests that were in GetFunc together with others
    token,      \* the token of the user in Redis
    replaced,   \* history: the tokens of earlier logins
    late,       \* history: requests that arrived after their token was replaced
    caller,     \* of each call: place and result
    attempt     \* the attempts it has begun

serverVars == <<mode, starter, shutdown, quit, shutter, exited>>
requestVars == <<req, toBind, hreq, got, met>>
tokenVars == <<token, replaced, late>>
clientVars == <<caller, attempt>>
vars == <<serverVars, requestVars, tokenVars, clientVars>>

InFunc == {"binding", "bound", "validated", "running"}
Serving == InFunc \cup {"access"}
Active == {r \in Requests : req[r] \in Serving}
Valid(h) == \A f \in Fields : h[f] \notin Invalid

\* The type invariant.
TypeOK ==
    /\ mode \in Modes \cup {"none"}
    /\ starter \in {"idle", "starting", "serving", "errClosed", "errOther", "nil", "silent"}
    /\ shutdown \in BOOLEAN /\ quit \in BOOLEAN /\ exited \in BOOLEAN
    /\ shutter \in [Shutters -> {"idle", "waiting", "shutdown", "nil", "err"}]
    /\ req \in [Requests -> Serving \cup {"new", "ok", "bad"}]
    /\ toBind \in [Requests -> SUBSET Fields]
    /\ hreq \in [Fields -> Calls \cup {None}]
    /\ got \in [Requests -> [Fields -> Calls \cup {None}]]
    /\ met \subseteq Requests /\ late \subseteq Requests
    /\ token \in Tokens \cup {None} /\ replaced \subseteq Tokens
    /\ caller \in [Calls -> {"idle", "waiting", "asleep", "ok", "failed", "panicked"}]
    /\ attempt \in [Calls -> 0 .. Retries]

Zero == [f \in Fields |-> None]

Init ==
    /\ mode = "none"
    /\ starter = "idle" /\ shutdown = FALSE /\ quit = FALSE /\ exited = FALSE
    /\ shutter = [s \in Shutters |-> "idle"]
    /\ req = [r \in Requests |-> "new"]
    /\ toBind = [r \in Requests |-> {}]
    /\ hreq = Zero
    /\ got = [r \in Requests |-> Zero]
    /\ met = {}
    /\ token = None /\ replaced = {} /\ late = {}
    /\ caller = [c \in Calls |-> "idle"]
    /\ attempt = [c \in Calls |-> 0]

------------------------------------------------------------------------------
(* The server.                                                             *)

Startup ==
    /\ starter = "idle" /\ "Startup" \in Modes
    /\ mode' = "Startup"
    /\ starter' = "starting"
    /\ UNCHANGED <<shutdown, quit, shutter, exited, requestVars, tokenVars, clientVars>>

\* go engine.Start, and WaitForShutdown with its signal channel.
StartWithGracefulShutdown ==
    /\ starter = "idle" /\ "StartWithGracefulShutdown" \in Modes
    /\ mode' = "StartWithGracefulShutdown"
    /\ starter' = "starting"
    /\ shutter' = [shutter EXCEPT ![Waiter] = "waiting"]
    /\ UNCHANGED <<shutdown, quit, exited, requestVars, tokenVars, clientVars>>

\* engine.Start listens, or finds the server shut down, or cannot listen.
EngineStart ==
    /\ starter = "starting"
    /\ \/ ~shutdown /\ starter' = "serving"
       \/ shutdown /\ starter' = "errClosed"
       \/ starter' = "errOther"
    /\ UNCHANGED <<mode, shutdown, quit, shutter, exited, requestVars, tokenVars, clientVars>>

EngineReturns ==
    /\ starter = "serving" /\ shutdown
    /\ starter' = "errClosed"
    /\ UNCHANGED <<mode, shutdown, quit, shutter, exited, requestVars, tokenVars, clientVars>>

\* Startup: any error but ErrServerClosed is fatal.
StartupReturns ==
    /\ mode = "Startup"
    /\ \/ starter = "errClosed" /\ starter' = "nil" /\ UNCHANGED exited
       \/ starter = "errOther" /\ exited' = TRUE /\ UNCHANGED starter
    /\ UNCHANGED <<mode, shutdown, quit, shutter, requestVars, tokenVars, clientVars>>

\* The goroutine: ErrServerClosed is fatal, any other error is dropped.
GoroutineReturns ==
    /\ mode = "StartWithGracefulShutdown"
    /\ \/ starter = "errOther" /\ starter' = "silent" /\ UNCHANGED exited
       \/ starter = "errClosed" /\ exited' = TRUE /\ UNCHANGED starter
    /\ UNCHANGED <<mode, shutdown, quit, shutter, requestVars, tokenVars, clientVars>>

\* Stop of a Backend, whose Start is Startup.
BackendStop ==
    /\ mode = "Startup" /\ shutter[Waiter] = "idle"
    /\ shutter' = [shutter EXCEPT ![Waiter] = "waiting"]
    /\ UNCHANGED <<mode, starter, shutdown, quit, exited, requestVars, tokenVars, clientVars>>

\* A signal before Notify ends the process; one after the first is dropped.
Signal ==
    /\ mode # "none" /\ ~quit
    /\ shutter[Waiter] \in {"idle", "waiting"}
    /\ IF shutter[Waiter] = "idle"
       THEN exited' = TRUE /\ UNCHANGED quit
       ELSE quit' = TRUE /\ UNCHANGED exited
    /\ UNCHANGED <<mode, starter, shutdown, shutter, requestVars, tokenVars, clientVars>>

CallShutdown(s) ==
    /\ shutter' = [shutter EXCEPT ![s] = "shutdown"]
    /\ shutdown' = TRUE
    /\ UNCHANGED <<mode, starter, exited, requestVars, tokenVars, clientVars>>

WaitForShutdown ==
    /\ shutter[Waiter] = "waiting" /\ quit
    /\ quit' = FALSE
    /\ CallShutdown(Waiter)

MayStop(s) ==
    /\ shutter[s] = "idle"
    /\ Cardinality({u \in Shutters \ {Waiter} : shutter[u] # "idle"}) < MaxStops

GracefulStop(s) ==
    /\ s \in Stoppers /\ MayStop(s)
    /\ CallShutdown(s)
    /\ UNCHANGED quit

Stop(s) ==
    /\ s \in Forever /\ MayStop(s)
    /\ CallShutdown(s)
    /\ UNCHANGED quit

\* "server exited gracefully": no request is active any more.
ShutdownReturns(s) ==
    /\ shutter[s] = "shutdown" /\ Active = {}
    /\ shutter' = [shutter EXCEPT ![s] = "nil"]
    /\ UNCHANGED <<mode, starter, shutdown, quit, exited, requestVars, tokenVars, clientVars>>

\* Mutant: the result of Shutdown is not looked at.
TimeoutIsNil(s) ==
    /\ s \notin Forever /\ shutter[s] = "shutdown"
    /\ shutter' = [shutter EXCEPT ![s] = "nil"]
    /\ UNCHANGED <<mode, starter, shutdown, quit, exited, requestVars, tokenVars, clientVars>>

\* "server forced to shutdown": the 30 seconds are over.
ShutdownTimeout(s) ==
    /\ s \notin Forever /\ shutter[s] = "shutdown"
    /\ shutter' = [shutter EXCEPT ![s] = "err"]
    /\ UNCHANGED <<mode, starter, shutdown, quit, exited, requestVars, tokenVars, clientVars>>

------------------------------------------------------------------------------
(* A request: the middleware Access, for requests with a jwt that can be   *)
(* decrypted and without DEBUG, and the function that GetFunc returns.     *)

ReqGoto(r, place) == req' = [req EXCEPT ![r] = place]

\* The server gets a request that was sent.  The reader of a body is used up
\* by the first attempt, so that later ones never arrive.
Accept(r) ==
    /\ starter = "serving" /\ ~shutdown
    /\ caller[r[1]] = "waiting" /\ attempt[r[1]] = r[2]
    /\ r[1] \in HasBody => r[2] = 1
    /\ req[r] = "new"
    /\ ReqGoto(r, "access")
    /\ late' = IF TokenOf[r[1]] \in replaced THEN late \cup {r} ELSE late
    /\ UNCHANGED <<serverVars, toBind, hreq, got, met, token, replaced, clientVars>>

\* External: the user logs in once more.
Login(t) ==
    /\ t \notin replaced \cup {token}
    /\ token' = t
    /\ replaced' = IF token = None THEN replaced ELSE replaced \cup {token}
    /\ UNCHANGED <<serverVars, requestVars, late, clientVars>>

BeginBind(r) ==
    /\ ReqGoto(r, "binding")
    /\ toBind' = [toBind EXCEPT ![r] = Body[r[1]]]
    /\ LET Others == {q \in Requests : req[q] \in InFunc}
       IN met' = IF Others = {} THEN met ELSE met \cup Others \cup {r}

\* Mutant: a token of an earlier login is good too.
AccessEver(r) ==
    /\ req[r] = "access"
    /\ \/ TokenOf[r[1]] \in replaced \cup {token} /\ BeginBind(r)
       \/ ReqGoto(r, "bad") /\ UNCHANGED <<toBind, met>>
    /\ UNCHANGED <<serverVars, hreq, got, tokenVars, clientVars>>

\* 401 unless the token is the one of the last login; Redis may fail.
Access(r) ==
    /\ req[r] = "access"
    /\ \/ TokenOf[r[1]] = token /\ BeginBind(r)
       \/ ReqGoto(r, "bad") /\ UNCHANGED <<toBind, met>>
    /\ UNCHANGED <<serverVars, hreq, got, tokenVars, clientVars>>

\* c.Bind sets the fields that the request has, and leaves the others.
Bind(r) ==
    /\ req[r] = "binding"
    /\ \/ \E f \in toBind[r] :
            /\ hreq' = [hreq EXCEPT ![f] = r[1]]
            /\ toBind' = [toBind EXCEPT ![r] = @ \ {f}]
            /\ UNCHANGED req
       \/ toBind[r] = {} /\ ReqGoto(r, "bound") /\ UNCHANGED <<hreq, toBind>>
    /\ UNCHANGED <<serverVars, got, met, tokenVars, clientVars>>

\* The request is malformed: its error is returned.
BindErr(r) ==
    /\ req[r] = "binding"
    /\ ReqGoto(r, "bad")
    /\ toBind' = [toBind EXCEPT ![r] = {}]
    /\ UNCHANGED <<serverVars, hreq, got, met, tokenVars, clientVars>>

Validate(r) ==
    /\ req[r] = "bound"
    /\ ReqGoto(r, IF Valid(hreq) THEN "validated" ELSE "bad")
    /\ UNCHANGED <<serverVars, toBind, hreq, got, met, tokenVars, clientVars>>

\* h.Func is called with a copy of h.req ...
CallFunc(r) ==
    /\ req[r] = "validated"
    /\ ReqGoto(r, "running")
    /\ got' = [got EXCEPT ![r] = hreq]
    /\ UNCHANGED <<serverVars, toBind, hreq, met, tokenVars, clientVars>>

\* ... and returns, with status 200 or another.
FuncReturns(r) ==
    /\ req[r] = "running"
    /\ ReqGoto(r, "ok") \/ ReqGoto(r, "bad")
    /\ got' = [got EXCEPT ![r] = Zero]
    /\ UNCHANGED <<serverVars, toBind, hreq, met, tokenVars, clientVars>>

------------------------------------------------------------------------------
(* PerformHTTPRequest.                                                     *)

CallerGoto(c, place) ==
    /\ caller' = [caller EXCEPT ![c] = place]
    /\ UNCHANGED <<serverVars, requestVars, tokenVars>>

\* client.Do, at first or after the pause.
Do(c) ==
    /\ caller[c] \in {"idle", "asleep"}
    /\ attempt' = [attempt EXCEPT ![c] = @ + 1]
    /\ CallerGoto(c, "waiting")

\* Status 200 is returned; any other is tried again while attempts are left.
Answer(c) ==
    /\ caller[c] = "waiting"
    /\ LET status == req[<<c, attempt[c]>>]
       IN \/ status = "ok" /\ CallerGoto(c, "ok")
          \/ status = "bad" /\ CallerGoto(c, IF attempt[c] < Retries THEN "asleep" ELSE "failed")
    /\ UNCHANGED attempt

\* Without a response, resp.Body.Close() panics.
TransportErr(c) ==
    /\ caller[c] = "waiting"
    /\ CallerGoto(c, "panicked")
    /\ UNCHANGED attempt

------------------------------------------------------------------------------
StarterStep == EngineStart \/ EngineReturns \/ StartupReturns \/ GoroutineReturns
ShutterStep(s) == ShutdownReturns(s) \/ ShutdownTimeout(s)
RequestStep(r) ==
    \/ Accept(r) \/ Access(r) \/ Bind(r) \/ BindErr(r)
    \/ Validate(r) \/ CallFunc(r) \/ FuncReturns(r)
CallerStep(c) == Do(c) \/ Answer(c) \/ TransportErr(c)

ServerNext ==
    \/ Startup \/ StartWithGracefulShutdown \/ StarterStep
    \/ BackendStop \/ Signal \/ WaitForShutdown
    \/ \E s \in Shutters : GracefulStop(s) \/ Stop(s) \/ ShutterStep(s)
    \/ \E r \in Requests : RequestStep(r)

Next ==
    \/ ~exited /\ ServerNext
    \/ \E t \in Tokens : Login(t)
    \/ \E c \in Calls : CallerStep(c)

Spec == Init /\ [][Next]_vars

------------------------------------------------------------------------------
(* Properties.                                                             *)

\* A Shutdown that returned nil has let every accepted request finish, and none
\* is accepted later, whoever called it and whoever else did.
NilMeansDrained == (\E s \in Shutters : shutter[s] = "nil") => Active = {}

\* What reaches Func: no request that arrived after its user's next login
\* ("the account has logged in on another terminal"), and, of a request that
\* sends every field and that no other request met in GetFunc, its own values,
\* whatever earlier ones left in h.req, and only if they are valid.
AloneGetsOwn ==
    \A r \in Requests :
        req[r] = "running" =>
            /\ r \notin late
            /\ r \notin met /\ Body[r[1]] = Fields =>
                    got[r] = [f \in Fields |-> r[1]] /\ r[1] \notin Invalid

\* "Retry", and "failed after %d attempts. Last error": an attempt that got no
\* answer is tried again or reported as an error, and the caller goes on.
CallsReturn == \A c \in Calls : caller[c] # "panicked"

\* "Shut down gracefully": the process does not exit under a request that it
\* has accepted.
ExitCutsNothing == exited => Active = {}

\* "Bind, validate, execute": what Func is called with passed the validator.
FuncGetsValid == \A r \in Requests : req[r] = "running" => Valid(got[r])

==============================================================================
