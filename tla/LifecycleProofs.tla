--------------------------- MODULE LifecycleProofs ---------------------------
(* Theorems about Lifecycle, for any environments, documents and requests    *)
(* and any number of signals.                                                *)
EXTENDS Lifecycle, TLAPS

-----------------------------------------------------------------------------
(* Load *)

\* A configuration has a transport of its own.
LEMMA LoadHasTransport ==
  ASSUME NEW e, NEW o, Legal(e)
  PROVE  Load(e, o).transport \in {"stdio", "http"} /\ Load(e, o) # NoConfig
<1>1. Load(e, o).transport = Transport(e)
  BY DEF Load
<1>2. Transport(e) \in {"stdio", "http"}
  BY DEF Legal
<1>3. NoConfig.transport = "none"
  BY DEF NoConfig
<1> QED BY <1>1, <1>2, <1>3

\* The setting of a legal burst is a natural number.
LEMMA BurstSettingIsNatural ==
  ASSUME NEW e \in Envs, Legal(e)
  PROVE  BurstSetting(e) \in Nat
<1>1. BurstSetting(e) \in Int
  BY LifecycleAssumption DEF BurstSetting, ParseNumber, Number
<1>2. BurstSetting(e) >= 0
  BY DEF Legal
<1> QED BY <1>1, <1>2

\* Thousandths rounded up to whole calls.
LEMMA CeilBounds ==
  ASSUME NEW n \in Int, n > 0, Fits(Number(n)), NEW o
  PROVE  /\ Ceil(Number(n), o) \in Nat
         /\ Ceil(Number(n), o) >= 1
         /\ Ceil(Number(n), o) * Thousand <= n + Thousand - 1
<1>1. Ceil(Number(n), o) = (n + 1000 - 1) \div 1000
  BY DEF Ceil, Fits, Number, Thousand
<1>2. PICK q \in Int : q = (n + 1000 - 1) \div 1000
  OBVIOUS
<1>3. q >= 1 /\ q * 1000 <= n + 1000 - 1
  BY <1>2
<1> QED BY <1>1, <1>2, <1>3 DEF Thousand

-----------------------------------------------------------------------------
(* The invariant *)

\* A process starts in order.
LEMMA InitInv == Init => Inv
BY LifecycleAssumption DEF Init, Inv, TypeOK, InOrder, Phases, Open, NoConfig

\* Main's phases after the start have a configuration.
LEMMA Configured ==
  ASSUME Inv, cfg # NoConfig
  PROVE  cfg.transport \in {"stdio", "http"}
BY LoadHasTransport DEF Inv, TypeOK

\* The end of the process, with its open requests cut.
LEMMA FinishInv ==
  ASSUME Inv, NEW how \in {"ok", "error", "killed"}, phase # "exited",
         Finish(how), UNCHANGED cfg,
         ctx' \in {"none", "live", "done"}, signals' \in 0 .. MaxSignals,
         how = "ok" => Open = {},
         how = "ok" /\ cfg.transport = "http" => ctx' = "done"
  PROVE  Inv'
<1>1. TypeOK'
  BY DEF Finish, Inv, TypeOK, Phases
<1>2. Open' = {}
  BY DEF Finish, Inv, TypeOK, Open
<1>3. how = "ok" => \A r \in Requests : requests'[r] # "cut"
  BY DEF Finish, Inv, TypeOK, InOrder, Open
<1>4. InOrder'
  BY <1>2, <1>3 DEF Finish, Inv, TypeOK, InOrder
<1> QED BY <1>1, <1>4 DEF Inv

\* A signal, at any moment.
LEMMA SignalInv ==
  ASSUME Inv, Signal
  PROVE  Inv'
<1> USE LifecycleAssumption
<1>1. signals' \in 0 .. MaxSignals
  BY DEF Signal, Inv, TypeOK
<1>2. CASE phase = "load"
  <2>1. Finish("killed") /\ UNCHANGED <<cfg, ctx>>
    BY <1>2 DEF Signal
  <2> QED BY <1>1, <1>2, <2>1, FinishInv DEF Inv, TypeOK
<1>3. CASE phase # "load"
  <2>1. /\ ctx' = "done"
        /\ phase' = IF phase = "stdio" THEN "interrupted" ELSE phase
        /\ UNCHANGED <<env, cfg, endpoints, serving, exit>>
    BY <1>3 DEF Signal
  <2>2. TypeOK'
    BY <1>1, <2>1 DEF serving, Inv, TypeOK, Phases
  <2>3. Open' = Open
    BY <2>1 DEF Open, serving
  <2>4. InOrder'
    BY <1>3, <2>1, <2>3 DEF serving, Signal, Inv, TypeOK, InOrder
  <2> QED BY <2>2, <2>4 DEF Inv
<1> QED BY <1>2, <1>3

\* From main's start to the transport.
LEMMA StartupInv ==
  ASSUME Inv, LoadSucceeds \/ FetchSucceeds \/ IndexSucceeds \/ Register
  PROVE  Inv'
<1>1. CASE LoadSucceeds
  <2>1. PICK o \in Overflows : cfg' = Load(env, o)
    BY <1>1 DEF LoadSucceeds
  <2>2. Legal(env) /\ cfg' # NoConfig
    BY <1>1, <2>1, LoadHasTransport DEF LoadSucceeds
  <2>3. TypeOK'
    BY <1>1, <2>1, <2>2 DEF LoadSucceeds, serving, Inv, TypeOK, Phases
  <2>4. Open' = Open
    BY <1>1 DEF LoadSucceeds, serving, Open
  <2>5. InOrder'
    BY <1>1, <2>2, <2>4 DEF LoadSucceeds, serving, Inv, TypeOK, InOrder
  <2> QED BY <2>3, <2>5 DEF Inv
<1>2. CASE FetchSucceeds
  <2>1. Filtered(ParseSpec) \subseteq ParseSpec
    BY DEF Filtered, FilterByTags, FilterReadOnly
  <2>2. TypeOK'
    BY <1>2, <2>1 DEF FetchSucceeds, serving, Inv, TypeOK, Phases
  <2>3. Open' = Open
    BY <1>2 DEF FetchSucceeds, serving, Open
  <2>4. InOrder'
    BY <1>2, <2>3 DEF FetchSucceeds, serving, Inv, TypeOK, InOrder
  <2> QED BY <2>2, <2>4 DEF Inv
<1>3. CASE IndexSucceeds
  <2>1. TypeOK'
    BY <1>3 DEF IndexSucceeds, serving, Inv, TypeOK, Phases
  <2>2. Open' = Open
    BY <1>3 DEF IndexSucceeds, serving, Open
  <2>3. InOrder'
    BY <1>3, <2>2 DEF IndexSucceeds, serving, Inv, TypeOK, InOrder
  <2> QED BY <2>1, <2>3 DEF Inv
<1>4. CASE Register
  <2>1. cfg # NoConfig
    BY <1>4 DEF Register, Inv, InOrder
  <2>2. cfg.transport \in {"stdio", "http"}
    BY <2>1, Configured
  <2>3. TypeOK'
    BY <1>4, <2>2 DEF Register, Inv, TypeOK, Phases
  <2>4. Open' = Open
    BY <1>4 DEF Register, Open
  <2>5. Open = {}
    BY <1>4 DEF Register, Inv, InOrder
  <2>6. InOrder'
    BY <1>4, <2>1, <2>2, <2>4, <2>5 DEF Register, Inv, TypeOK, InOrder
  <2> QED BY <2>3, <2>6 DEF Inv
<1> QED BY <1>1, <1>2, <1>3, <1>4

\* The listener, its clients, runHTTP's shutdown and the cleanup goroutine.
LEMMA ServiceInv ==
  ASSUME Inv,
         \/ SweeperReturns \/ Listens \/ ListenFails \/ ShutDown
         \/ \E r \in Requests : Connect(r) \/ Reply(r)
  PROVE  Inv'
<1>1. CASE SweeperReturns
  <2>1. TypeOK'
    BY <1>1 DEF SweeperReturns, Inv, TypeOK
  <2>2. InOrder'
    BY <1>1 DEF SweeperReturns, Inv, InOrder, Open
  <2> QED BY <2>1, <2>2 DEF Inv
<1>2. CASE Listens
  <2>1. TypeOK'
    BY <1>2 DEF Listens, Inv, TypeOK
  <2>2. InOrder'
    BY <1>2 DEF Listens, Inv, InOrder, Open
  <2> QED BY <2>1, <2>2 DEF Inv
<1>3. CASE ListenFails
  <2>1. errCh = 0
    BY <1>3 DEF ListenFails, Inv, TypeOK, InOrder
  <2>2. TypeOK'
    BY <1>3, <2>1 DEF ListenFails, Inv, TypeOK
  <2>3. InOrder'
    BY <1>3, <2>1 DEF ListenFails, Inv, InOrder, Open
  <2> QED BY <2>2, <2>3 DEF Inv
<1>4. CASE ShutDown
  <2>1. TypeOK'
    BY <1>4 DEF ShutDown, Inv, TypeOK, Phases
  <2>2. InOrder'
    BY <1>4 DEF ShutDown, Inv, InOrder, Open
  <2> QED BY <2>1, <2>2 DEF Inv
<1>5. ASSUME NEW r \in Requests, Connect(r) PROVE Inv'
  <2>1. TypeOK'
    BY <1>5 DEF Connect, Inv, TypeOK
  <2>2. phase \in {"http", "drain"}
    BY <1>5 DEF Connect, Inv, TypeOK, InOrder, Phases
  <2>3. InOrder'
    BY <1>5, <2>2 DEF Connect, Inv, TypeOK, InOrder
  <2> QED BY <2>1, <2>3 DEF Inv
<1>6. ASSUME NEW r \in Requests, Reply(r) PROVE Inv'
  <2>1. TypeOK'
    BY <1>6 DEF Reply, Inv, TypeOK
  <2>2. Open' \subseteq Open
    BY <1>6 DEF Reply, Inv, TypeOK, Open
  <2>3. InOrder'
    BY <1>6, <2>2 DEF Reply, Inv, TypeOK, InOrder
  <2> QED BY <2>1, <2>3 DEF Inv
<1> QED BY <1>1, <1>2, <1>3, <1>4, <1>5, <1>6

\* The ways in which the process ends.
LEMMA EndInv ==
  ASSUME Inv,
         \/ LoadFails \/ FetchFails \/ IndexFails \/ ReportFailure
         \/ Drained \/ DrainTimesOut \/ InputEnds \/ StdioReturns
  PROVE  Inv'
<1>0. ctx \in {"none", "live", "done"} /\ signals \in 0 .. MaxSignals
  BY DEF Inv, TypeOK
<1>1. CASE LoadFails \/ FetchFails \/ IndexFails \/ ReportFailure \/ DrainTimesOut
  <2>1. Finish("error") /\ UNCHANGED <<cfg, ctx, signals>> /\ phase # "exited"
    BY <1>1 DEF LoadFails, FetchFails, IndexFails, ReportFailure, DrainTimesOut
  <2> QED BY <1>0, <2>1, FinishInv
<1>2. CASE Drained
  <2>1. Finish("ok") /\ UNCHANGED <<cfg, ctx, signals>> /\ phase = "drain" /\ Open = {}
    BY <1>2 DEF Drained
  <2>2. ctx = "done"
    BY <2>1 DEF Inv, InOrder
  <2> QED BY <1>0, <2>1, <2>2, FinishInv
<1>3. CASE InputEnds \/ StdioReturns
  <2>1. PICK how \in {"ok", "error"} : Finish(how)
    BY <1>3 DEF InputEnds, StdioReturns
  <2>2. UNCHANGED <<cfg, ctx, signals>> /\ phase \in {"stdio", "interrupted"}
    BY <1>3 DEF InputEnds, StdioReturns
  <2>3. Open = {} /\ cfg.transport = "stdio"
    BY <2>2 DEF Inv, InOrder
  <2> QED BY <1>0, <2>1, <2>2, <2>3, FinishInv
<1> QED BY <1>1, <1>2, <1>3

\* What main is doing determines what the rest of the process may be doing.
THEOREM ProcessInOrder == Spec => []Inv
<1>1. Inv /\ [Next]_vars => Inv'
  <2> SUFFICES ASSUME Inv, [Next]_vars PROVE Inv'
    OBVIOUS
  <2>1. CASE UNCHANGED vars
    BY <2>1 DEF vars, Inv, TypeOK, InOrder, Open
  <2>2. CASE Next
    BY <2>2, SignalInv, StartupInv, ServiceInv, EndInv DEF Next, Main, OllamaAnswers
  <2> QED BY <2>1, <2>2
<1> QED BY InitInv, <1>1, PTL DEF Spec

\* An exit status of 0 is given to nobody's cost.
THEOREM CleanExits == Spec => []CleanExitCutsNobody
<1>1. Inv => CleanExitCutsNobody
  BY DEF Inv, InOrder, CleanExitCutsNobody
<1> QED BY ProcessInOrder, <1>1, PTL

\* A limiter whose burst was set, or whose rate an int can hold, has room for a first
\* call.
THEOREM FirstCalls == Spec => []FirstCallIsAdmitted
<1>1. Inv => FirstCallIsAdmitted
  <2> SUFFICES ASSUME Inv, cfg # NoConfig, IsLimited(cfg),
                      BurstSetting(env) # 0 \/ Fits(cfg.rateLimit)
               PROVE  cfg.burst >= 1
    BY DEF FirstCallIsAdmitted
  <2>1. PICK o \in Overflows : Legal(env) /\ cfg = Load(env, o)
    BY DEF Inv, TypeOK
  <2>2. cfg.burst = Burst(env, o) /\ cfg.rateLimit = RateLimit(env)
    BY <2>1 DEF Load
  <2>3. BurstSetting(env) \in Nat
    BY <2>1, BurstSettingIsNatural DEF Inv, TypeOK
  <2>4. CASE BurstSetting(env) # 0
    BY <2>2, <2>3, <2>4 DEF Burst
  <2>5. CASE BurstSetting(env) = 0
    <3>1. Fits(RateLimit(env)) /\ RateLimit(env).kind = "number"
      BY <2>2, <2>5 DEF Fits
    <3>2. RateLimit(env).n \in Int /\ RateLimit(env).n > 0
      BY <2>2, <3>1, LifecycleAssumption
         DEF Inv, TypeOK, RateLimit, ParseNumber, Number, IsLimited
    <3>3. cfg.burst = Ceil(RateLimit(env), o)
      BY <2>2, <2>5, <3>1, <3>2 DEF Burst, Positive
    <3>4. /\ Ceil(RateLimit(env), o) = Ceil(Number(RateLimit(env).n), o)
          /\ Fits(Number(RateLimit(env).n))
      BY <3>1 DEF Ceil, Fits, Number
    <3> QED BY <3>2, <3>3, <3>4, CeilBounds
  <2> QED BY <2>4, <2>5
<1> QED BY ProcessInOrder, <1>1, PTL

\* With the default burst a bucket refills before its user is forgotten.
THEOREM DefaultsRefill == Spec => []DefaultBurstRefillsInTime
<1>1. Inv => DefaultBurstRefillsInTime
  <2> SUFFICES ASSUME Inv, cfg # NoConfig, BurstSetting(env) = 0,
                      cfg.rateLimit.kind = "number", cfg.rateLimit.n >= 2
               PROVE  cfg.burst * Thousand <= TTL * cfg.rateLimit.n
    BY DEF DefaultBurstRefillsInTime
  <2>1. PICK o \in Overflows : Legal(env) /\ cfg = Load(env, o)
    BY DEF Inv, TypeOK
  <2>2. cfg.burst = Burst(env, o) /\ cfg.rateLimit = RateLimit(env)
    BY <2>1 DEF Load
  <2>3. RateLimit(env).n \in Int /\ RateLimit(env).kind = "number" /\ RateLimit(env).n >= 2
    BY <2>2, LifecycleAssumption DEF Inv, TypeOK, RateLimit, ParseNumber, Number
  <2>4. cfg.burst = Ceil(RateLimit(env), o)
    BY <2>2, <2>3 DEF Burst, Positive
  <2>5. CASE Fits(RateLimit(env))
    <3>1. /\ Ceil(RateLimit(env), o) = Ceil(Number(RateLimit(env).n), o)
          /\ Fits(Number(RateLimit(env).n))
      BY <2>3, <2>5 DEF Ceil, Fits, Number
    <3>2. cfg.burst \in Nat /\ cfg.burst * Thousand <= RateLimit(env).n + Thousand - 1
      BY <2>3, <2>4, <3>1, CeilBounds
    <3> QED BY <2>2, <2>3, <3>2 DEF Thousand, TTL
  <2>6. CASE ~ Fits(RateLimit(env))
    <3>1. RateLimit(env).n > MaxInt * 1000
      BY <2>3, <2>6, MaxIntAssumption DEF Fits, Thousand
    <3>2. cfg.burst \in Int /\ cfg.burst <= MaxInt
      BY <2>4, <2>6, LifecycleAssumption, MaxIntAssumption DEF Ceil
    <3> QED BY <2>2, <2>3, <3>1, <3>2, MaxIntAssumption DEF Thousand, TTL
  <2> QED BY <2>5, <2>6
<1> QED BY ProcessInOrder, <1>1, PTL

\* A server that serves has a token of its own or a caller's.
THEOREM SomeToken == Spec => []SomebodyIsForwarded
<1>1. Inv => SomebodyIsForwarded
  <2> SUFFICES ASSUME Inv, phase \in {"http", "stdio"}, cfg.token = ""
               PROVE  HasMiddleware
    BY DEF SomebodyIsForwarded
  <2>1. PICK o \in Overflows : Legal(env) /\ cfg = Load(env, o)
    BY DEF Inv, TypeOK, InOrder
  <2>2. env.token = "" /\ cfg.authMode = AuthMode(env) /\ cfg.transport = Transport(env)
    BY <2>1 DEF Load
  <2> QED BY <2>1, <2>2 DEF Legal, HasMiddleware
<1> QED BY ProcessInOrder, <1>1, PTL
=============================================================================
