------------------------------- MODULE Serving -------------------------------
(***************************************************************************)
(* daemon.py main and run_forever, graph_query_api/transport.py: what the  *)
(* main thread does around Daemon.shutdown (module Daemon), the signal     *)
(* handlers installed at each point, the clients whose connections uvicorn *)
(* waits for, and the API-key gate their requests pass.                    *)
(*                                                                         *)
(* External, modelled from how transport.run uses them: uvicorn.run, which *)
(* captures SIGTERM and SIGINT while it serves, stops accepting when one   *)
(* was captured, waits for connections, restores the handlers it found and *)
(* raises the captured signal again; and asyncio's runner, which waits for *)
(* the worker threads of asyncio.to_thread before it returns.              *)
(***************************************************************************)
EXTENDS Naturals, Sequences, FiniteSets

CONSTANTS
  Clients,      \* connections
  Requests,     \* header lists that requests come with
  ApiKey,       \* GRAPHIFY_DAEMON_API_KEY
  None,
  MaxSignals    \* bound: signals delivered in one behaviour

Signals == {"SIGTERM", "SIGINT"}

\* The API-key gate's view of a request, see Admits
Authorizations == [scheme : STRING, token : STRING]
Headers == [name : STRING \ {"authorization"}, value : STRING]
             \cup [name : {"authorization"}, value : Authorizations]

ASSUME NoneAssumption == None \notin Signals /\ None \notin STRING /\ None \notin Authorizations
\* validate_api_key refuses an empty key.
ASSUME GateAssumption == Requests \subseteq Seq(Headers) /\ ApiKey \in STRING \ {""}

VARIABLES
  pc,           \* where the main thread is
  handler,      \* installed handlers: "default", "daemon" or "uvicorn"
  saved,        \* the handlers uvicorn will restore
  captured,     \* the signal uvicorn captured last, or None
  forced,       \* uvicorn's force_exit
  conns,        \* connections: "none", "refused", "open" or "stream"
  asked,        \* the header list of a connection's request
  workers,      \* clients whose tool call runs in a worker thread
  tried,        \* history: the try of run_forever was entered
  shutdowns,    \* history: calls of daemon.shutdown()
  finished,     \* history: such a call returned
  failed,       \* history: such a call raised
  interrupted,  \* history: a signal came while it ran
  signals

exitVars == <<pc, shutdowns, interrupted>>
signalVars == <<handler, saved, captured, forced, signals>>
clientVars == <<conns, asked, workers>>
endVars == <<finished, failed>>
vars == <<exitVars, signalVars, clientVars, tried, endVars>>

Init ==
  /\ pc = "configure"
  /\ handler = [s \in Signals |-> "default"] /\ saved = handler
  /\ captured = None /\ forced = FALSE /\ signals = 0
  /\ conns = [c \in Clients |-> "none"] /\ asked = [c \in Clients |-> <<>>]
  /\ workers = {}
  /\ tried = FALSE /\ shutdowns = 0
  /\ finished = FALSE /\ failed = FALSE /\ interrupted = FALSE

-----------------------------------------------------------------------------
(* The API-key gate.  A header is [name, value]; the value of an           *)
(* Authorization header is split into [scheme, token], the scheme in lower *)
(* case and the token stripped.                                            *)

Named(headers, name) == { i \in DOMAIN headers : headers[i].name = name }

\* Mutated form of SingleHeader: the first of several is taken.
FirstHeader(headers, name) ==
  LET matches == Named(headers, name) IN
  IF matches = {} THEN None
  ELSE headers[CHOOSE i \in matches : \A j \in matches : i <= j].value

\* _single_header: a missing and a duplicated header are both None.
SingleHeader(headers, name) ==
  LET matches == Named(headers, name) IN
  IF Cardinality(matches) = 1 THEN headers[CHOOSE i \in matches : TRUE].value ELSE None

BearerToken(authorization) ==
  IF authorization # None /\ authorization.scheme = "bearer" /\ authorization.token # ""
    THEN authorization.token ELSE None

\* _ApiKeyMiddleware.__call__; scopes other than http pass (lifespan).
Admits(scope, headers) ==
  LET key == SingleHeader(headers, "x-api-key")
      provided == IF key # None THEN key
                  ELSE BearerToken(SingleHeader(headers, "authorization"))
  IN scope = "http" => provided # None /\ provided = ApiKey

-----------------------------------------------------------------------------
(* Leaving: an exception or a normal return unwinds to the next `finally`  *)

InLoop == {"startup", "serve", "drain", "restore", "raise"}
InTry == InLoop \cup {"validate", "executor"}

\* Mutated form of Unwind: the signal handler calls shutdown() itself.
UnwindShutsDown ==
  /\ pc' = CASE pc \in InLoop -> "executor"
             [] pc \in InTry \ InLoop -> "shutdown"
             [] OTHER -> "exited"
  /\ shutdowns' = shutdowns + 1
  /\ interrupted' = (interrupted \/ pc = "shutdown")

\* Out of the event loop asyncio's runner is closed, out of `try` comes
\* daemon.shutdown(), and out of everything else the process ends.
Unwind ==
  /\ pc' = CASE pc \in InLoop -> "executor"
             [] pc \in InTry \ InLoop -> "shutdown"
             [] OTHER -> "exited"
  /\ shutdowns' = IF pc \in InTry \ InLoop THEN shutdowns + 1 ELSE shutdowns
  /\ interrupted' = (interrupted \/ pc = "shutdown")

\* The default SIGTERM ends the process on the spot; the default SIGINT raises
\* KeyboardInterrupt, the daemon's handler SystemExit.
Deliver(s) ==
  IF s = "SIGTERM" /\ handler[s] = "default"
    THEN pc' = "exited" /\ UNCHANGED <<shutdowns, interrupted>>
    ELSE Unwind

-----------------------------------------------------------------------------
(* Starting up *)

Goto(from, to) == pc = from /\ pc' = to /\ UNCHANGED <<shutdowns, interrupted>>

\* main() up to daemon.start(): the watcher runs from here on.
StartDaemon ==
  /\ Goto("configure", "watching")
  /\ UNCHANGED <<signalVars, clientVars, tried, endVars>>

\* main() raises outside run_forever: a variable is missing or no number,
\* cold_start fails, or the port is no number (the watcher is running then).
MainRaises ==
  /\ pc \in {"configure", "watching"}
  /\ Unwind
  /\ UNCHANGED <<signalVars, clientVars, tried, endVars>>

Install(s) ==
  /\ handler' = [handler EXCEPT ![s] = "daemon"]
  /\ UNCHANGED <<saved, captured, forced, signals, clientVars, tried, endVars>>

\* Mutated form of InstallSigterm: SIGTERM keeps its default action.
InstallSigintOnly ==
  Goto("watching", "sigterm") /\ UNCHANGED <<signalVars, clientVars, tried, endVars>>

InstallSigterm == Goto("watching", "sigterm") /\ Install("SIGTERM")

InstallSigint == Goto("sigterm", "sigint") /\ Install("SIGINT")

EnterTry ==
  /\ Goto("sigint", "validate")
  /\ tried' = TRUE
  /\ UNCHANGED <<signalVars, clientVars, endVars>>

\* validate_host or validate_api_key raises.
ConfigurationError ==
  /\ pc = "validate"
  /\ Unwind
  /\ UNCHANGED <<signalVars, clientVars, tried, endVars>>

\* uvicorn.run is called and captures the signals.
RunUvicorn ==
  /\ Goto("validate", "startup")
  /\ saved' = handler
  /\ handler' = [s \in Signals |-> "uvicorn"]
  /\ UNCHANGED <<captured, forced, signals, clientVars, tried, endVars>>

\* The lifespan passes the gate and the port is bound.
StartServing ==
  /\ Admits("lifespan", <<>>)
  /\ Goto("startup", IF captured = None THEN "serve" ELSE "restore")
  /\ UNCHANGED <<signalVars, clientVars, tried, endVars>>

\* The port is taken: sys.exit(1), the handlers restored on the way out.
BindFails ==
  /\ pc = "startup"
  /\ Unwind
  /\ handler' = saved
  /\ UNCHANGED <<saved, captured, forced, signals, clientVars, tried, endVars>>

-----------------------------------------------------------------------------
(* Clients *)

ClientStep == UNCHANGED <<exitVars, signalVars, tried, endVars>>

\* A request is refused with 401, starts a tool call in a worker thread, or is
\* a subscriptions/listen whose stream the daemon never closes.
Request(c, headers) ==
  /\ pc = "serve" /\ conns[c] = "none" /\ c \notin workers
  /\ asked' = [asked EXCEPT ![c] = headers]
  /\ IF ~Admits("http", headers)
       THEN conns' = [conns EXCEPT ![c] = "refused"] /\ UNCHANGED workers
       ELSE \/ conns' = [conns EXCEPT ![c] = "open"] /\ workers' = workers \cup {c}
            \/ conns' = [conns EXCEPT ![c] = "stream"] /\ UNCHANGED workers
  /\ ClientStep

WorkerDone(c) ==
  /\ c \in workers
  /\ workers' = workers \ {c}
  /\ UNCHANGED <<conns, asked>> /\ ClientStep

Close(cs) ==
  /\ conns' = [c \in Clients |-> IF c \in cs THEN "none" ELSE conns[c]]
  /\ asked' = [c \in Clients |-> IF c \in cs THEN <<>> ELSE asked[c]]

\* The response is complete and the connection is closed.
Respond(c) ==
  /\ pc \in {"serve", "drain"}
  /\ conns[c] = "refused" \/ (conns[c] = "open" /\ c \notin workers)
  /\ Close({c})
  /\ UNCHANGED workers /\ ClientStep

\* The client goes; its worker thread, if any, runs on.
Disconnect(c) ==
  /\ pc \in {"serve", "drain"} /\ conns[c] \in {"open", "stream"}
  /\ Close({c})
  /\ UNCHANGED workers /\ ClientStep

-----------------------------------------------------------------------------
(* Signals and stopping *)

Signal(s) ==
  /\ pc # "exited" /\ signals < MaxSignals
  /\ signals' = signals + 1
  /\ IF handler[s] = "uvicorn"
       THEN /\ captured' = s
            /\ forced' = (forced \/ (s = "SIGINT" /\ captured # None))
            /\ UNCHANGED exitVars
       ELSE Deliver(s) /\ UNCHANGED <<captured, forced>>
  /\ UNCHANGED <<handler, saved, clientVars, tried, endVars>>

\* uvicorn's main loop sees that it should exit.
BeginDrain ==
  /\ captured # None
  /\ Goto("serve", "drain")
  /\ UNCHANGED <<signalVars, clientVars, tried, endVars>>

DrainDone ==
  /\ \/ \A c \in Clients : conns[c] = "none"
     \/ forced
  /\ Goto("drain", "restore")
  /\ UNCHANGED <<signalVars, clientVars, tried, endVars>>

\* Mutated form of DrainTimesOut: uvicorn's default, no timeout.
DrainUnbounded == FALSE /\ UNCHANGED vars

\* timeout_graceful_shutdown is over: what is still open is cancelled.
DrainTimesOut ==
  /\ Goto("drain", "restore")
  /\ Close(Clients)
  /\ UNCHANGED <<signalVars, workers, tried, endVars>>

RestoreHandlers ==
  /\ Goto("restore", "raise")
  /\ handler' = saved
  /\ UNCHANGED <<saved, captured, forced, signals, clientVars, tried, endVars>>

RaiseCaptured ==
  /\ pc = "raise"
  /\ Deliver(captured)
  /\ UNCHANGED <<signalVars, clientVars, tried, endVars>>

\* asyncio's runner closes: worker threads are waited for, then `finally` runs.
CloseRunner ==
  /\ pc = "executor" /\ workers = {}
  /\ Unwind
  /\ UNCHANGED <<signalVars, clientVars, tried, endVars>>

\* daemon.shutdown() returns, and so does main().
ShutdownReturns ==
  /\ Goto("shutdown", "exited")
  /\ finished' = TRUE
  /\ UNCHANGED <<signalVars, clientVars, tried, failed>>

\* The drained batch's compile raises, or persist_on_shutdown does: the exception
\* leaves run_forever's `finally`, and main().
ShutdownRaises ==
  /\ Goto("shutdown", "exited")
  /\ failed' = TRUE
  /\ UNCHANGED <<signalVars, clientVars, tried, finished>>

-----------------------------------------------------------------------------
StartStep ==
  \/ StartDaemon \/ MainRaises \/ InstallSigterm \/ InstallSigint \/ EnterTry
  \/ ConfigurationError \/ RunUvicorn

StopStep ==
  \/ StartServing \/ BindFails \/ BeginDrain \/ DrainDone \/ DrainTimesOut
  \/ RestoreHandlers \/ RaiseCaptured \/ CloseRunner
  \/ ShutdownReturns \/ ShutdownRaises

ClientNext(c) ==
  \/ \E headers \in Requests : Request(c, headers)
  \/ WorkerDone(c) \/ Respond(c) \/ Disconnect(c)

Exited == pc = "exited" /\ UNCHANGED vars

Next ==
  \/ StartStep \/ StopStep
  \/ \E s \in Signals : Signal(s)
  \/ \E c \in Clients : ClientNext(c)
  \/ Exited

Spec == Init /\ [][Next]_vars

\* The main thread runs, its timeout expires, a tool call ends, and shutdown()
\* returns or raises (module Daemon).  Clients need not answer, read or go away.
Fairness ==
  /\ WF_vars(StopStep)
  /\ \A c \in Clients : WF_vars(WorkerDone(c))

FairSpec == Spec /\ Fairness

-----------------------------------------------------------------------------
(* Properties *)

TypeOK ==
  /\ pc \in {"configure", "watching", "sigterm", "sigint", "validate", "startup",
             "serve", "drain", "restore", "raise", "executor", "shutdown", "exited"}
  /\ handler \in [Signals -> {"default", "daemon", "uvicorn"}]
  /\ saved \in [Signals -> {"default", "daemon"}]
  /\ captured \in Signals \cup {None}
  /\ conns \in [Clients -> {"none", "refused", "open", "stream"}]
  /\ asked \in [Clients -> Requests \cup {<<>>}] /\ workers \subseteq Clients
  /\ {forced, tried, finished, failed, interrupted} \subseteq BOOLEAN
  /\ shutdowns \in 0..1 /\ signals \in Nat

\* run_forever: from its `try` on there is no way out of the process, by any of
\* the two signals at any point, a bad host or key, or a taken port, that does
\* not call daemon.shutdown(); and the call comes to its end, returning or with
\* an exception of its own, unless a signal cuts it that is not the one that
\* stopped uvicorn: a first SIGTERM never cuts the clean-up it asks for.
CleanupOnEveryWayOut ==
  pc = "exited" /\ tried =>
    /\ shutdowns = 1
    /\ \/ finished \/ failed
       \/ interrupted /\ signals > (IF captured = None THEN 0 ELSE 1)

\* A signal uvicorn captured ends the process through daemon.shutdown(), though
\* clients hold streams open for ever and tool calls are running.
StopReachesShutdown == captured # None ~> pc = "exited" /\ shutdowns = 1

\* The header carries the key on its own.
Carries(h) ==
  \/ h.name = "x-api-key" /\ h.value = ApiKey
  \/ h.name = "authorization" /\ h.value = [scheme |-> "bearer", token |-> ApiKey]

\* Who gets past the gate has sent the key in a header that nothing of the same
\* name stands beside, in either order, and a wrong x-api-key is not made good
\* by a bearer token; who sent the key and no other credential gets past it.
GateAgrees ==
  \A c \in Clients : LET hs == asked[c] IN
    /\ conns[c] \in {"open", "stream"} =>
         \E i \in DOMAIN hs :
           /\ Carries(hs[i])
           /\ \A j \in DOMAIN hs \ {i} : hs[j].name # hs[i].name
           /\ hs[i].name = "authorization" => Cardinality(Named(hs, "x-api-key")) # 1
    /\ conns[c] = "refused" =>
         \A i \in DOMAIN hs : Carries(hs[i]) =>
           \E j \in DOMAIN hs \ {i} : hs[j].name \in {"x-api-key", "authorization"}

=============================================================================
