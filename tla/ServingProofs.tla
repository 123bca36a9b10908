---------------------------- MODULE ServingProofs ----------------------------
(***************************************************************************)
(* Proofs about Serving for any clients, requests and number of signals:   *)
(* the types, that every way out of run_forever's try goes through         *)
(* daemon.shutdown(), and whom the API-key gate lets in.                   *)
(***************************************************************************)
EXTENDS Serving, FiniteSetTheorems, TLAPS

BeforeTry == {"configure", "watching", "sigterm", "sigint"}

\* Which handlers are installed where: from the try on never the default ones,
\* which would end the process on the spot, not even after uvicorn's restore.
HandlersInv ==
  /\ pc \in {"sigterm", "sigint"} => handler["SIGTERM"] = "daemon"
  /\ pc = "sigint" => handler["SIGINT"] = "daemon"
  /\ pc \in {"validate", "raise", "executor", "shutdown"} =>
       \A s \in Signals : handler[s] = "daemon"
  /\ pc \in InLoop => \A s \in Signals : saved[s] = "daemon"
  /\ pc \in BeforeTry => \A s \in Signals : handler[s] # "uvicorn"
  /\ pc \in InLoop \ {"raise"} => \A s \in Signals : handler[s] = "uvicorn"

\* How often shutdown() has been called where, and that there is a signal to
\* raise again, which is one of those delivered.
ProgressInv ==
  /\ pc \in BeforeTry => ~tried
  /\ pc \in InTry \cup {"shutdown"} => tried
  /\ pc \in BeforeTry \cup InTry => shutdowns = 0
  /\ pc = "shutdown" => shutdowns = 1
  /\ pc \in {"drain", "restore", "raise"} => captured # None
  /\ captured # None => signals >= 1
  /\ pc = "exited" /\ ~tried => shutdowns = 0

\* The part of TypeOK the argument uses; the booleans are taken one by one.
ControlType ==
  /\ pc \in BeforeTry \cup InTry \cup {"shutdown", "exited"}
  /\ handler \in [Signals -> {"default", "daemon", "uvicorn"}]
  /\ saved \in [Signals -> {"default", "daemon"}]
  /\ captured \in Signals \cup {None}
  /\ shutdowns \in 0..1 /\ signals \in Nat

\* The inductive invariant
ServingInv == ControlType /\ HandlersInv /\ ProgressInv /\ CleanupOnEveryWayOut

-----------------------------------------------------------------------------
\* Before main() starts its work the default handlers are installed.
LEMMA ServingInit == Init => ServingInv
BY DEF Init, ServingInv, ControlType, HandlersInv, ProgressInv, CleanupOnEveryWayOut,
       BeforeTry, InTry, InLoop, Signals

\* Start-up, its errors included, keeps the invariant.
LEMMA StartInv ==
  ASSUME ServingInv, StartStep
  PROVE  ServingInv'
<1>. USE DEF ServingInv, ControlType, HandlersInv, ProgressInv, CleanupOnEveryWayOut,
         BeforeTry, InTry, InLoop, Signals, Goto, signalVars, endVars
<1>1. CASE StartDaemon
  BY <1>1 DEF StartDaemon
<1>2. CASE MainRaises
  BY <1>2 DEF MainRaises, Unwind
<1>3. CASE InstallSigterm
  BY <1>3 DEF InstallSigterm, Install
<1>4. CASE InstallSigint
  BY <1>4 DEF InstallSigint, Install
<1>5. CASE EnterTry
  BY <1>5 DEF EnterTry
<1>6. CASE ConfigurationError
  BY <1>6 DEF ConfigurationError, Unwind
<1>7. CASE RunUvicorn
  BY <1>7 DEF RunUvicorn
<1>. QED BY <1>1, <1>2, <1>3, <1>4, <1>5, <1>6, <1>7 DEF StartStep

\* So does a signal, whoever handles it, sent or raised again by uvicorn.
LEMMA DeliverInv ==
  ASSUME ServingInv, NEW s \in Signals, pc # "exited", handler[s] # "uvicorn",
         Deliver(s), UNCHANGED <<handler, saved, captured, tried, endVars>>,
         signals' \in {signals, signals + 1}, pc = "shutdown" => signals' = signals + 1
  PROVE  ServingInv'
<1>. USE DEF ServingInv, ControlType, HandlersInv, ProgressInv, CleanupOnEveryWayOut,
         BeforeTry, InTry, InLoop, Signals, endVars
<1>1. CASE s = "SIGTERM" /\ handler[s] = "default"
  <2>1. pc \in BeforeTry /\ shutdowns = 0 /\ ~tried
    BY <1>1
  <2>2. pc' = "exited" /\ UNCHANGED <<handler, saved, captured, shutdowns>> /\ ~tried'
    BY <1>1, <2>1 DEF Deliver
  <2>3. ControlType' /\ HandlersInv'
    BY <2>2
  <2>4. ProgressInv' /\ CleanupOnEveryWayOut'
    BY <2>1, <2>2
  <2>. QED BY <2>3, <2>4
<1>2. CASE ~(s = "SIGTERM" /\ handler[s] = "default")
  <2>0. Unwind
    BY <1>2 DEF Deliver
  <2>1. CASE pc \in BeforeTry
    <3>1. pc' = "exited" /\ shutdowns' = 0 /\ ~tried'
      BY <2>0, <2>1 DEF Unwind
    <3>. QED BY <3>1
  <2>2. CASE pc = "raise"
    <3>1. pc' = "executor" /\ shutdowns' = 0 /\ tried'
      BY <2>0, <2>2 DEF Unwind
    <3>. QED BY <2>2, <3>1
  <2>3. CASE pc \in {"validate", "executor"}
    <3>1. pc' = "shutdown" /\ shutdowns' = 1 /\ tried'
      BY <2>0, <2>3 DEF Unwind
    <3>. QED BY <2>3, <3>1
  <2>4. CASE pc = "shutdown"
    <3>1. pc' = "exited" /\ shutdowns' = 1 /\ tried' /\ interrupted'
      BY <2>0, <2>4 DEF Unwind
    <3>2. signals' > (IF captured' = None THEN 0 ELSE 1)
      BY <2>4
    <3>. QED BY <3>1, <3>2
  <2>. QED BY <2>1, <2>2, <2>3, <2>4
<1>. QED BY <1>1, <1>2

\* A signal that comes from outside keeps it, captured by uvicorn or not.
LEMMA SignalInv ==
  ASSUME ServingInv, NEW s \in Signals, Signal(s)
  PROVE  ServingInv'
<1>1. CASE handler[s] = "uvicorn"
  <2>1. /\ captured' = s /\ UNCHANGED <<pc, shutdowns, interrupted>>
        /\ UNCHANGED <<handler, saved, tried, finished, failed>> /\ signals' = signals + 1
    BY <1>1 DEF Signal, exitVars, endVars
  <2>2. captured' \in Signals /\ captured' # None
    BY <2>1, NoneAssumption
  <2>. QED BY <2>1, <2>2
       DEF ServingInv, ControlType, HandlersInv, ProgressInv, CleanupOnEveryWayOut
<1>2. CASE handler[s] # "uvicorn"
  <2>1. pc # "exited" /\ Deliver(s) /\ UNCHANGED <<handler, saved, captured, tried, endVars>>
    BY <1>2 DEF Signal
  <2>2. signals' = signals + 1
    BY DEF Signal
  <2>. QED BY <1>2, <2>1, <2>2, DeliverInv
<1>. QED BY <1>1, <1>2

\* So do uvicorn's start and stop, asyncio's runner and the final shutdown().
LEMMA StopInv ==
  ASSUME ServingInv, StopStep
  PROVE  ServingInv'
<1>. USE DEF ServingInv, ControlType, HandlersInv, ProgressInv, CleanupOnEveryWayOut,
         BeforeTry, InTry, InLoop, Signals, Goto, signalVars, endVars
<1>1. CASE StartServing
  BY <1>1 DEF StartServing
<1>2. CASE BindFails
  BY <1>2 DEF BindFails, Unwind
<1>3. CASE BeginDrain \/ DrainDone \/ DrainTimesOut
  BY <1>3 DEF BeginDrain, DrainDone, DrainTimesOut
<1>4. CASE RestoreHandlers
  BY <1>4 DEF RestoreHandlers
<1>5. CASE RaiseCaptured
  <2>1. captured \in Signals /\ pc = "raise" /\ Deliver(captured)
    BY <1>5 DEF RaiseCaptured
  <2>2. handler[captured] # "uvicorn"
    BY <2>1
  <2>3. UNCHANGED <<handler, saved, captured, tried, endVars, signals>>
    BY <1>5 DEF RaiseCaptured
  <2>. QED BY <2>1, <2>2, <2>3, DeliverInv
<1>6. CASE CloseRunner
  BY <1>6 DEF CloseRunner, Unwind
<1>7. CASE ShutdownReturns \/ ShutdownRaises
  BY <1>7 DEF ShutdownReturns, ShutdownRaises
<1>. QED BY <1>1, <1>2, <1>3, <1>4, <1>5, <1>6, <1>7 DEF StopStep

\* The invariant is inductive: clients change nothing it speaks of.
LEMMA ServingStep == ServingInv /\ [Next]_vars => ServingInv'
<1>. SUFFICES ASSUME ServingInv, [Next]_vars PROVE ServingInv'
  OBVIOUS
<1>1. CASE UNCHANGED <<exitVars, signalVars, tried, endVars>>
  BY <1>1 DEF exitVars, signalVars, endVars, ServingInv, ControlType, HandlersInv, ProgressInv,
              CleanupOnEveryWayOut
<1>2. ASSUME NEW c \in Clients, ClientNext(c) PROVE UNCHANGED <<exitVars, signalVars, tried, endVars>>
  BY <1>2 DEF ClientNext, Request, WorkerDone, Respond, Disconnect, ClientStep
<1>3. CASE UNCHANGED vars
  BY <1>1, <1>3 DEF vars
<1>4. CASE Exited
  BY <1>3, <1>4 DEF Exited
<1>. QED BY <1>1, <1>2, <1>3, <1>4, StartInv, StopInv, SignalInv DEF Next

\* The inductive invariant holds in every reachable state.
THEOREM ServingInvariant == Spec => []ServingInv
BY ServingInit, ServingStep, PTL DEF Spec

\* From run_forever's try on, no signal, start-up error or return ends the
\* process without a call of daemon.shutdown() that returned, raised, or was cut
\* by a signal; and the one signal that made uvicorn stop cuts no such call.
THEOREM CleanupGuaranteed == Spec => []CleanupOnEveryWayOut
BY ServingInvariant, PTL DEF ServingInv

-----------------------------------------------------------------------------
(* The rest of the types *)

ClientTypes ==
  /\ conns \in [Clients -> {"none", "refused", "open", "stream"}]
  /\ asked \in [Clients -> Requests \cup {<<>>}]
  /\ workers \subseteq Clients

FlagTypes ==
  /\ forced \in BOOLEAN /\ tried \in BOOLEAN /\ finished \in BOOLEAN
  /\ failed \in BOOLEAN /\ interrupted \in BOOLEAN /\ signals \in Nat

\* Requests are what the clients may send, and only main and signals set flags.
LEMMA ClientTypesStep ==
  ASSUME ClientTypes, [Next]_vars
  PROVE  ClientTypes'
<1>1. CASE UNCHANGED clientVars
  BY <1>1 DEF clientVars, ClientTypes
<1>2. CASE DrainTimesOut
  BY <1>2 DEF DrainTimesOut, Close, ClientTypes
<1>3. ASSUME NEW c \in Clients, ClientNext(c) PROVE ClientTypes'
  BY <1>3 DEF ClientNext, Request, WorkerDone, Respond, Disconnect, Close, ClientTypes
<1>4. \/ UNCHANGED clientVars \/ DrainTimesOut \/ \E c \in Clients : ClientNext(c)
  BY DEF vars, Next, Exited, Signal, StartStep, StopStep, StartDaemon, MainRaises, InstallSigterm,
       InstallSigint, Install, EnterTry, ConfigurationError, RunUvicorn, StartServing, BindFails,
       BeginDrain, DrainDone, RestoreHandlers, RaiseCaptured, CloseRunner, ShutdownReturns,
       ShutdownRaises, endVars
<1>. QED BY <1>1, <1>2, <1>3, <1>4

LEMMA FlagTypesStep ==
  ASSUME FlagTypes, [Next]_vars
  PROVE  FlagTypes'
<1>1. forced' = forced \/ forced' \in BOOLEAN
  BY DEF vars, exitVars, signalVars, Next, Exited, Signal, StartStep, StopStep, StartDaemon,
       MainRaises, InstallSigterm, InstallSigint, Install, EnterTry, ConfigurationError, RunUvicorn,
       StartServing, BindFails, BeginDrain, DrainDone, DrainTimesOut, RestoreHandlers,
       RaiseCaptured, CloseRunner, ShutdownReturns,
       ShutdownRaises, endVars, ClientNext, Request, WorkerDone, Respond,
       Disconnect, ClientStep
<1>0. signals' \in {signals, signals + 1}
  BY DEF vars, exitVars, signalVars, Next, Exited, Signal, StartStep, StopStep, StartDaemon,
       MainRaises, InstallSigterm, InstallSigint, Install, EnterTry, ConfigurationError, RunUvicorn,
       StartServing, BindFails, BeginDrain, DrainDone, DrainTimesOut, RestoreHandlers,
       RaiseCaptured, CloseRunner, ShutdownReturns,
       ShutdownRaises, endVars, ClientNext, Request, WorkerDone, Respond,
       Disconnect, ClientStep
<1>2. /\ (tried' = tried \/ tried' = TRUE) /\ (finished' = finished \/ finished' = TRUE)
      /\ (failed' = failed \/ failed' = TRUE)
  BY DEF vars, exitVars, signalVars, Next, Exited, Signal, StartStep, StopStep, StartDaemon,
       MainRaises, InstallSigterm, InstallSigint, Install, EnterTry, ConfigurationError, RunUvicorn,
       StartServing, BindFails, BeginDrain, DrainDone, DrainTimesOut, RestoreHandlers,
       RaiseCaptured, CloseRunner, ShutdownReturns,
       ShutdownRaises, endVars, ClientNext, Request, WorkerDone, Respond,
       Disconnect, ClientStep
<1>3. interrupted' = interrupted \/ interrupted' = (interrupted \/ pc = "shutdown")
  BY DEF vars, exitVars, signalVars, Next, Exited, Signal, StartStep, StopStep, StartDaemon,
       MainRaises, InstallSigterm, InstallSigint, Install, EnterTry, ConfigurationError, RunUvicorn,
       StartServing, BindFails, BeginDrain, DrainDone, DrainTimesOut, RestoreHandlers,
       RaiseCaptured, CloseRunner, ShutdownReturns,
       ShutdownRaises, endVars, ClientNext, Request, WorkerDone, Respond,
       Disconnect, ClientStep, Deliver, Unwind, Goto
<1>4. /\ interrupted' \in BOOLEAN /\ forced' \in BOOLEAN /\ tried' \in BOOLEAN
      /\ finished' \in BOOLEAN /\ failed' \in BOOLEAN
  BY <1>1, <1>2, <1>3 DEF FlagTypes
<1>5. signals' \in Nat
  BY <1>0 DEF FlagTypes
<1>. QED BY <1>4, <1>5 DEF FlagTypes

\* Types of the handlers, the connections and the histories; shutdown() is called
\* at most once.
THEOREM TypeCorrect == Spec => []TypeOK
<1>1. Init => ClientTypes /\ FlagTypes
  <2>1. Init => ClientTypes
    BY DEF Init, ClientTypes
  <2>2. ASSUME Init PROVE FlagTypes
    <3>1. /\ forced \in BOOLEAN /\ tried \in BOOLEAN /\ finished \in BOOLEAN
          /\ failed \in BOOLEAN /\ interrupted \in BOOLEAN
      BY <2>2 DEF Init
    <3>2. signals \in Nat
      BY <2>2 DEF Init
    <3>. QED BY <3>1, <3>2 DEF FlagTypes
  <2>. QED BY <2>1, <2>2
<1>2. ClientTypes /\ FlagTypes /\ [Next]_vars => ClientTypes' /\ FlagTypes'
  BY ClientTypesStep, FlagTypesStep
<1>3. ServingInv /\ ClientTypes /\ FlagTypes => TypeOK
  <2>. SUFFICES ASSUME ServingInv, ClientTypes, FlagTypes PROVE TypeOK
    OBVIOUS
  <2>1. {forced, tried, finished, failed, interrupted} \subseteq BOOLEAN
    BY DEF FlagTypes
  <2>2. signals \in Nat
    BY DEF FlagTypes
  <2>. QED BY <2>1, <2>2 DEF ServingInv, ControlType, ClientTypes, TypeOK, BeforeTry, InTry, InLoop
<1>. QED BY <1>1, <1>2, <1>3, ServingInvariant, PTL DEF Spec

-----------------------------------------------------------------------------
(* The API-key gate *)

\* _single_header gives a value when, and only when, one header has the name.
LEMMA SingleHeaderMeans ==
  ASSUME NEW hs \in Seq(Headers), NEW n
  PROVE  /\ \A i \in DOMAIN hs : Named(hs, n) = {i} => SingleHeader(hs, n) = hs[i].value
         /\ Cardinality(Named(hs, n)) = 1 => \E i \in DOMAIN hs : Named(hs, n) = {i}
         /\ Cardinality(Named(hs, n)) # 1 => SingleHeader(hs, n) = None
         /\ \A i : Named(hs, n) = {i} => Cardinality(Named(hs, n)) = 1
<1>. DEFINE N == Named(hs, n)
<1>1. IsFiniteSet(DOMAIN hs)
  <2>1. Len(hs) \in Int /\ 1 \in Int /\ DOMAIN hs = 1..Len(hs)
    OBVIOUS
  <2>2. IsFiniteSet(1..Len(hs))
    BY ONLY <2>1, FS_Interval, Zenon
  <2>. QED BY <2>1, <2>2
<1>2. N \subseteq DOMAIN hs
  BY DEF Named
<1>3. IsFiniteSet(N)
  BY <1>1, <1>2, FS_Subset
<1>4. Cardinality(N) = 1 => \E i \in DOMAIN hs : N = {i}
  BY <1>2, <1>3, FS_Singleton
<1>5. \A i : N = {i} => Cardinality(N) = 1
  BY FS_Singleton
<1>6. \A i \in DOMAIN hs : N = {i} => SingleHeader(hs, n) = hs[i].value
  BY <1>5 DEF SingleHeader
<1>7. Cardinality(N) # 1 => SingleHeader(hs, n) = None
  BY DEF SingleHeader
<1>. QED BY <1>4, <1>5, <1>6, <1>7

\* What a header's value is, by its name.
LEMMA HeaderValues ==
  ASSUME NEW h \in Headers
  PROVE  /\ h.name = "x-api-key" => h.value \in STRING /\ h.value # None
         /\ h.name = "authorization" =>
              h.value # None /\ h.value = [scheme |-> h.value.scheme, token |-> h.value.token]
BY NoneAssumption DEF Headers, Authorizations

\* Who is let in has sent the key, in a header alone of its name, with no single
\* x-api-key beside a bearer token.
LEMMA AdmittedHasKey ==
  ASSUME NEW hs \in Seq(Headers), Admits("http", hs)
  PROVE  \E i \in DOMAIN hs :
           /\ Carries(hs[i])
           /\ \A j \in DOMAIN hs \ {i} : hs[j].name # hs[i].name
           /\ hs[i].name = "authorization" => Cardinality(Named(hs, "x-api-key")) # 1
<1>. DEFINE key == SingleHeader(hs, "x-api-key")
            auth == SingleHeader(hs, "authorization")
<1>0. ApiKey # None
  BY GateAssumption, NoneAssumption
<1>1. CASE key # None
  <2>1. PICK i \in DOMAIN hs : Named(hs, "x-api-key") = {i}
    BY <1>1, SingleHeaderMeans
  <2>2. key = hs[i].value
    BY <2>1, SingleHeaderMeans
  <2>3. hs[i].value = ApiKey
    BY <1>1, <2>2 DEF Admits
  <2>4. hs[i].name = "x-api-key" /\ \A j \in DOMAIN hs \ {i} : hs[j].name # "x-api-key"
    BY <2>1 DEF Named
  <2>. QED BY <2>3, <2>4 DEF Carries
<1>2. CASE key = None
  <2>1. BearerToken(auth) = ApiKey
    BY <1>2 DEF Admits
  <2>2. auth # None /\ auth.scheme = "bearer" /\ auth.token = ApiKey
    BY <1>0, <2>1 DEF BearerToken
  <2>3. PICK i \in DOMAIN hs : Named(hs, "authorization") = {i}
    BY <2>2, SingleHeaderMeans
  <2>4. auth = hs[i].value
    BY <2>3, SingleHeaderMeans
  <2>5. /\ hs[i].name = "authorization"
        /\ \A j \in DOMAIN hs \ {i} : hs[j].name # "authorization"
    BY <2>3 DEF Named
  <2>6. hs[i] \in Headers
    OBVIOUS
  <2>7. hs[i].value = [scheme |-> "bearer", token |-> ApiKey]
    BY <2>2, <2>4, <2>5, <2>6, HeaderValues
  <2>8. Cardinality(Named(hs, "x-api-key")) # 1
    <3>1. SUFFICES ASSUME Cardinality(Named(hs, "x-api-key")) = 1 PROVE FALSE
      OBVIOUS
    <3>2. PICK j \in DOMAIN hs : Named(hs, "x-api-key") = {j}
      BY <3>1, SingleHeaderMeans
    <3>3. key = hs[j].value /\ hs[j].name = "x-api-key" /\ hs[j] \in Headers
      <4>1. hs[j].name = "x-api-key" /\ hs[j] \in Headers
        BY <3>2 DEF Named
      <4>. QED BY <3>2, <4>1, SingleHeaderMeans
    <3>. QED BY <1>2, <3>3, HeaderValues
  <2>. QED BY <2>5, <2>7, <2>8 DEF Carries
<1>. QED BY <1>1, <1>2

\* Who is refused has not sent the key as the only credential.
LEMMA RefusedHasOther ==
  ASSUME NEW hs \in Seq(Headers), ~Admits("http", hs), NEW i \in DOMAIN hs, Carries(hs[i])
  PROVE  \E j \in DOMAIN hs \ {i} : hs[j].name \in {"x-api-key", "authorization"}
<1>. SUFFICES ASSUME \A j \in DOMAIN hs \ {i} : hs[j].name \notin {"x-api-key", "authorization"}
              PROVE  Admits("http", hs)
  OBVIOUS
<1>0. ApiKey # None /\ ApiKey # ""
  BY GateAssumption, NoneAssumption
<1>1. CASE hs[i].name = "x-api-key" /\ hs[i].value = ApiKey
  <2>1. Named(hs, "x-api-key") = {i}
    BY <1>1 DEF Named
  <2>2. SingleHeader(hs, "x-api-key") = ApiKey
    BY <1>1, <2>1, SingleHeaderMeans
  <2>. QED BY <1>0, <2>2 DEF Admits
<1>2. CASE hs[i].name = "authorization" /\ hs[i].value = [scheme |-> "bearer", token |-> ApiKey]
  <2>1. Named(hs, "authorization") = {i} /\ Named(hs, "x-api-key") = {}
    BY <1>2 DEF Named
  <2>2. Cardinality(Named(hs, "x-api-key")) # 1
    <3>1. ~\E j \in DOMAIN hs : Named(hs, "x-api-key") = {j}
      BY <2>1
    <3>. QED BY <3>1, SingleHeaderMeans
  <2>3. SingleHeader(hs, "x-api-key") = None
    BY <2>2, SingleHeaderMeans
  <2>4. SingleHeader(hs, "authorization") = [scheme |-> "bearer", token |-> ApiKey]
    BY <1>2, <2>1, SingleHeaderMeans
  <2>5. [scheme |-> "bearer", token |-> ApiKey] # None
    <3>1. hs[i] \in Headers
      OBVIOUS
    <3>. QED BY <1>2, <3>1, HeaderValues
  <2>6. BearerToken(SingleHeader(hs, "authorization")) = ApiKey
    <3>. DEFINE auth == [scheme |-> "bearer", token |-> ApiKey]
    <3>1. auth.scheme = "bearer" /\ auth.token = ApiKey /\ auth # None
      BY <2>5
    <3>. HIDE DEF auth
    <3>2. BearerToken(auth) = ApiKey
      BY <1>0, <3>1 DEF BearerToken
    <3>. QED BY <2>4, <3>2 DEF auth
  <2>. QED BY <1>0, <2>3, <2>6 DEF Admits
<1>. QED BY <1>1, <1>2 DEF Carries

\* The gate has judged every connection by the headers it came with.
GateJudged ==
  \A c \in Clients :
    /\ conns[c] \in {"open", "stream"} => Admits("http", asked[c])
    /\ conns[c] = "refused" => ~Admits("http", asked[c])

LEMMA GateJudgedStep ==
  ASSUME ClientTypes, GateJudged, [Next]_vars
  PROVE  GateJudged'
<1>1. CASE UNCHANGED clientVars
  BY <1>1 DEF clientVars, GateJudged
<1>2. ASSUME NEW cs, Close(cs) PROVE GateJudged'
  <2>1. \A d \in Clients : conns'[d] = "none" \/ (conns'[d] = conns[d] /\ asked'[d] = asked[d])
    BY <1>2 DEF Close
  <2>. QED BY <2>1 DEF GateJudged
<1>3. ASSUME NEW c \in Clients, NEW hs \in Requests, Request(c, hs) PROVE GateJudged'
  <2>1. asked'[c] = hs /\ \A d \in Clients \ {c} : asked'[d] = asked[d] /\ conns'[d] = conns[d]
    BY <1>3 DEF Request, ClientTypes
  <2>2. IF Admits("http", hs) THEN conns'[c] \in {"open", "stream"} ELSE conns'[c] = "refused"
    BY <1>3 DEF Request, ClientTypes
  <2>. QED BY <2>1, <2>2 DEF GateJudged
<1>4. ASSUME NEW c \in Clients, ClientNext(c) PROVE GateJudged'
  <2>1. CASE WorkerDone(c)
    BY <2>1 DEF WorkerDone, GateJudged
  <2>. QED BY <1>2, <1>3, <1>4, <2>1 DEF ClientNext, Respond, Disconnect
<1>5. CASE DrainTimesOut
  BY <1>2, <1>5 DEF DrainTimesOut
<1>6. \/ UNCHANGED clientVars \/ DrainTimesOut \/ \E c \in Clients : ClientNext(c)
  BY DEF vars, Next, Exited, Signal, StartStep, StopStep, StartDaemon, MainRaises, InstallSigterm,
       InstallSigint, Install, EnterTry, ConfigurationError, RunUvicorn, StartServing, BindFails,
       BeginDrain, DrainDone, RestoreHandlers, RaiseCaptured, CloseRunner, ShutdownReturns,
       ShutdownRaises, endVars
<1>. QED BY <1>1, <1>4, <1>5, <1>6

\* In every reachable state, for every header list: who is past the gate sent the
\* key in a header nothing of its name stood beside, and who sent the key and no
\* other credential was not refused (_ApiKeyMiddleware.__call__).
THEOREM GateLetsInTheKey == Spec => []GateAgrees
<1>1. Init => ClientTypes /\ GateJudged
  BY DEF Init, ClientTypes, GateJudged
<1>2. ClientTypes /\ GateJudged /\ [Next]_vars => ClientTypes' /\ GateJudged'
  BY ClientTypesStep, GateJudgedStep
<1>3. ClientTypes /\ GateJudged => GateAgrees
  <2>. SUFFICES ASSUME ClientTypes, GateJudged, NEW c \in Clients
                PROVE  LET hs == asked[c] IN
                    /\ conns[c] \in {"open", "stream"} =>
                         \E i \in DOMAIN hs :
                           /\ Carries(hs[i])
                           /\ \A j \in DOMAIN hs \ {i} : hs[j].name # hs[i].name
                           /\ hs[i].name = "authorization" =>
                                Cardinality(Named(hs, "x-api-key")) # 1
                    /\ conns[c] = "refused" =>
                         \A i \in DOMAIN hs : Carries(hs[i]) =>
                           \E j \in DOMAIN hs \ {i} : hs[j].name \in {"x-api-key", "authorization"}
    BY DEF GateAgrees
  <2>1. asked[c] \in Seq(Headers)
    <3>1. <<>> \in Seq(Headers)
      OBVIOUS
    <3>2. asked[c] \in Requests \cup {<<>>}
      BY DEF ClientTypes
    <3>. QED BY <3>1, <3>2, GateAssumption
  <2>. QED BY <2>1, AdmittedHasKey, RefusedHasOther DEF GateJudged
<1>. QED BY <1>1, <1>2, <1>3, PTL DEF Spec

=============================================================================
