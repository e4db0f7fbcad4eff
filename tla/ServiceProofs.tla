---------------------------- MODULE ServiceProofs ----------------------------
(***************************************************************************)
(* The safety properties of Service, for every set of configuration files, *)
(* environments and faults.                                                *)
(*                                                                         *)
(* Inv adds two parts to TypeOK.  Lifetimes: no goroutine exists before    *)
(* RunWorker and none is left after main, the listener returns only when   *)
(* ctx is cancelled, and the worker after its listener.  Configured: the   *)
(* file could be decoded, and what New has parsed comes from it.           *)
(***************************************************************************)
EXTENDS Service, TLAPS

NotStarted ==
    web = "off" /\ worker = "off" /\ watcher = "off" /\ shutdown = "off" /\ closer = "off"

Lifetimes ==
    /\ main \notin {"wait", "exited"} => NotStarted
    /\ main = "exited" => NotStarted \/ Group = {"returned"}
    /\ watcher = "returned" => cancelled
    /\ worker = "returned" => watcher = "returned"

\* Where main has what New parsed.
AfterLoad == {"dial", "database", "limits", "overrides", "chainID", "key", "run", "wait"}
AfterLimits == {"overrides", "chainID", "key", "run", "wait"}
AfterOverrides == {"chainID", "key", "run", "wait"}

Configured ==
    /\ main \in AfterLoad => Decodes(file, environment)
    /\ main \in AfterLimits => globalLimits \in ParseLimitsConfig(conf.limits)
    /\ main \in AfterOverrides => userOverrides \in ParseUserOverrides(conf.perUserOverrides)

Inv == TypeOK /\ Lifetimes /\ Configured

LEMMA InitInv == Init => Inv
BY DEF Init, Inv, TypeOK, Lifetimes, NotStarted, Configured, AfterLoad, AfterLimits,
       AfterOverrides, Listener!States

-----------------------------------------------------------------------------
(***************************************************************************)
(* The steps of main and New.                                              *)
(***************************************************************************)
\* Init and New leave the goroutines alone until main runs them.
LEMMA MainLifetimes ==
    ASSUME Inv, Arguments \/ LoadConfig \/ New
    PROVE  Lifetimes'
BY DEF Inv, TypeOK, Lifetimes, NotStarted, Group, Arguments, LoadConfig, New, Dial, OpenDatabase,
       ParseLimits, ParseOverrides, ChainID, PrivateKey, GoOn, Exit, NewFails, goroutines

LEMMA MainType ==
    ASSUME Inv, Arguments \/ LoadConfig \/ New
    PROVE  TypeOK'
<1>1. CASE Arguments
  BY <1>1 DEF Inv, TypeOK, Arguments, GoOn, Exit, goroutines, inputs, checker
<1>2. CASE LoadConfig
  BY <1>2 DEF Inv, TypeOK, LoadConfig, GoOn, Exit, goroutines, inputs, checker
<1>3. CASE New
  BY <1>3 DEF Inv, TypeOK, New, Dial, OpenDatabase, ParseLimits, ParseOverrides, ChainID,
              PrivateKey, GoOn, Exit, NewFails, goroutines, inputs, checker
<1> QED
  BY <1>1, <1>2, <1>3

LEMMA MainConfigured ==
    ASSUME Inv, Arguments \/ LoadConfig \/ New
    PROVE  Configured'
<1> USE DEF Inv, TypeOK, Configured, AfterLoad, AfterLimits, AfterOverrides, GoOn, Exit, inputs,
            checker, conf
<1>1. CASE Arguments
  BY <1>1 DEF Arguments
<1>2. CASE LoadConfig
  BY <1>2 DEF LoadConfig
<1>3. CASE New
  BY <1>3 DEF New, Dial, OpenDatabase, ParseLimits, ParseOverrides, ChainID, PrivateKey, NewFails
<1> QED
  BY <1>1, <1>2, <1>3

-----------------------------------------------------------------------------
(***************************************************************************)
(* The steps of the goroutines, and of main while it waits for them.       *)
(***************************************************************************)
Goroutines == RunWorker \/ Interrupt \/ Serve \/ Stop \/ Watch \/ Work \/ Mined

\* A listener goes on until ctx is cancelled.
LEMMA ListenerSteps ==
    ASSUME Listener!Connect \/ Listener!Disconnect \/ Listener!Offer \/ Listener!Sent
              \/ Listener!Return,
           cancelled \in BOOLEAN, watcher \in Listener!States \union {"off"}
    PROVE  /\ watcher' \in Listener!States
           /\ watcher \notin {"off", "returned"}
           /\ watcher' = "returned" => cancelled
BY DEF Listener!Connect, Listener!Disconnect, Listener!Offer, Listener!Sent, Listener!Return,
       Listener!Loop, Listener!States

LEMMA GoroutinesType ==
    ASSUME Inv, Goroutines
    PROVE  TypeOK'
<1> USE DEF Inv, TypeOK, Running, inputs, checker
<1>1. CASE RunWorker
  BY <1>1 DEF RunWorker, Listener!States
<1>2. CASE Interrupt \/ Serve
  BY <1>2 DEF Interrupt, Serve, Listener!Cancel
<1>3. CASE WebReturns \/ Shutdown \/ Drained \/ CloseClient
  BY <1>3 DEF WebReturns, Shutdown, Drained, CloseClient, ReturnError, ReturnNil
<1>4. CASE Wait
  BY <1>4 DEF Wait, Exit, goroutines
<1>5. CASE Watch
  BY <1>5, ListenerSteps DEF Watch, WorkerStep
<1>6. CASE Work \/ Mined
  BY <1>6, ListenerSteps DEF Work, Mined, Receive, Process, WaitMinedCancelled, WorkerReturns,
                             WorkerStep, ReturnNil
<1> QED
  BY <1>1, <1>2, <1>3, <1>4, <1>5, <1>6 DEF Goroutines, Stop

LEMMA GoroutinesLifetimes ==
    ASSUME Inv, Goroutines
    PROVE  Lifetimes'
<1> USE DEF Inv, TypeOK, Lifetimes, NotStarted, Group, Running
<1>1. CASE RunWorker
  BY <1>1 DEF RunWorker
<1>2. CASE Interrupt \/ Serve
  BY <1>2 DEF Interrupt, Serve, Listener!Cancel
<1>3. CASE Stop
  BY <1>3 DEF Stop, WebReturns, Shutdown, Drained, CloseClient, Wait, Exit, ReturnError,
              ReturnNil, goroutines
<1>4. CASE Watch
  BY <1>4, ListenerSteps DEF Watch, WorkerStep
<1>5. CASE Work \/ Mined
  BY <1>5, ListenerSteps DEF Work, Mined, Receive, Process, WaitMinedCancelled, WorkerReturns,
                             WorkerStep, ReturnNil, SinkClosed, Listener!Closed
<1> QED
  BY <1>1, <1>2, <1>3, <1>4, <1>5 DEF Goroutines

LEMMA GoroutinesConfigured ==
    ASSUME Inv, Goroutines
    PROVE  Configured'
BY DEF conf, Inv, TypeOK, Configured, AfterLoad, AfterLimits, AfterOverrides, Goroutines, RunWorker,
       Interrupt, Serve, Stop, WebReturns, Shutdown, Drained, CloseClient, Wait, Exit, Watch, Work,
       Mined, Receive, Process, WaitMinedCancelled, WorkerReturns, WorkerStep, Running, inputs, checker

\* Inv holds of every state of every execution.
THEOREM Invariance == Spec => []Inv
<1>1. Inv /\ [Next]_vars => Inv'
  <2> SUFFICES ASSUME Inv, [Next]_vars PROVE Inv'
    OBVIOUS
  <2>1. CASE Arguments \/ LoadConfig \/ New
    BY <2>1, MainLifetimes, MainType, MainConfigured DEF Inv
  <2>2. CASE Goroutines
    BY <2>2, GoroutinesType, GoroutinesLifetimes, GoroutinesConfigured DEF Inv
  <2>3. CASE UNCHANGED vars
    BY <2>3 DEF Inv, TypeOK, Lifetimes, NotStarted, Group, Configured, vars, goroutines,
                 inputs, checker, conf
  <2> QED
    BY <2>1, <2>2, <2>3 DEF Next, Goroutines
<1> QED
  BY InitInv, <1>1, PTL DEF Spec

-----------------------------------------------------------------------------
(***************************************************************************)
(* What Load and the parsers return.                                       *)
(***************************************************************************)
\* A path is set, whatever Load is given.
LEMMA PathIsSet == conf.dbPath # Empty
BY ConfigurationAssumption DEF conf, Load, WithDefaults, Unmarshal, OrDefault

\* The result has the limits of one spelling of each address.
LEMMA ParsedLimits ==
    ASSUME NEW lc, NEW parsed \in ParseLimitsConfig(lc)
    PROVE  /\ DOMAIN parsed = Addresses(lc)
           /\ (\A s, t \in DOMAIN lc : AddressOf[s] = AddressOf[t] => s = t)
                 => \A s \in DOMAIN lc : parsed[AddressOf[s]] = LimitOf(lc[s])
<1>1. PICK spelling \in [Addresses(lc) -> DOMAIN lc] :
         /\ \A a \in Addresses(lc) : AddressOf[spelling[a]] = a
         /\ parsed = [a \in Addresses(lc) |-> LimitOf(lc[spelling[a]])]
  BY DEF ParseLimitsConfig
<1>2. ASSUME \A s, t \in DOMAIN lc : AddressOf[s] = AddressOf[t] => s = t, NEW s \in DOMAIN lc
      PROVE  parsed[AddressOf[s]] = LimitOf(lc[s])
  <2>1. AddressOf[s] \in Addresses(lc)
    BY DEF Addresses
  <2>2. spelling[AddressOf[s]] \in DOMAIN lc /\ AddressOf[spelling[AddressOf[s]]] = AddressOf[s]
    BY <1>1, <2>1
  <2>3. spelling[AddressOf[s]] = s
    BY <2>2, <1>2
  <2> QED
    BY <1>1, <2>1, <2>3
<1> QED
  BY <1>1, <1>2

\* Where keys stay apart, each has what it had before it was expanded.
LEMMA ExpandedKeys ==
    ASSUME NEW map, Unique(map, environment), NEW s \in DOMAIN map
    PROVE  /\ Expand(s, environment) \in Expanded(map, environment)
           /\ At(map, environment, Expand(s, environment)) = map[s]
<1> DEFINE key == Expand(s, environment)
           t == CHOOSE t \in DOMAIN map : Expand(t, environment) = key
<1>1. t \in DOMAIN map /\ Expand(t, environment) = key
  OBVIOUS
<1>2. t = s
  BY <1>1 DEF Unique
<1> QED
  BY <1>2 DEF Expanded, At

\* Expanded and parsed, the limits are enforced as the file has them.
LEMMA ExpandedLimits ==
    ASSUME NEW lc, Unique(lc, environment),
           NEW parsed \in ParseLimitsConfig(ExpandLimits(lc, environment))
    PROVE  Enforces(parsed, lc)
<1> DEFINE E(string) == Expand(string, environment)
           expanded == ExpandLimits(lc, environment)
<1>1. DOMAIN expanded = {E(s) : s \in DOMAIN lc}
  BY DEF ExpandLimits, Expanded
<1>2. ASSUME NEW s \in DOMAIN lc
      PROVE  LimitOf(expanded[E(s)])
                = [hourly |-> Amount(E(lc[s].hourly)), daily |-> Amount(E(lc[s].daily))]
  <2>1. expanded[E(s)] = [hourly |-> E(lc[s].hourly), daily |-> E(lc[s].daily)]
    BY ExpandedKeys DEF ExpandLimits
  <2> QED
    BY <2>1 DEF LimitOf
<1>3. DOMAIN parsed = {AddressOf[E(s)] : s \in DOMAIN lc}
  <2>1. DOMAIN parsed = Addresses(expanded)
    BY ParsedLimits
  <2> HIDE DEF expanded, E
  <2> QED
    BY <1>1, <2>1 DEF Addresses
<1>4. ASSUME OneSpelling(lc), NEW s \in DOMAIN lc
      PROVE  parsed[AddressOf[E(s)]] = LimitOf(expanded[E(s)])
  <2>1. \A x, y \in DOMAIN expanded : AddressOf[x] = AddressOf[y] => x = y
    BY <1>1, <1>4 DEF OneSpelling
  <2>2. E(s) \in DOMAIN expanded
    BY <1>1
  <2>3. parsed \in ParseLimitsConfig(expanded)
    OBVIOUS
  <2> HIDE DEF expanded, E
  <2> QED
    BY <2>1, <2>2, <2>3, ParsedLimits
<1> HIDE DEF expanded
<1> QED
  BY <1>2, <1>3, <1>4 DEF Enforces

\* Limits that validateLimitsConfig accepts are parsed.
LEMMA ValidLimitsParse ==
    ASSUME NEW lc, ValidLimits(lc)
    PROVE  ParseLimitsConfig(lc) # {}
<1>1. \A s \in DOMAIN lc : IsHexAddress(s) /\ ParseLimit(lc[s])
  BY DEF ValidLimits, ValidLimit, ParseLimit
<1> DEFINE spelling == [a \in Addresses(lc) |-> CHOOSE s \in DOMAIN lc : AddressOf[s] = a]
<1>2. \A a \in Addresses(lc) : spelling[a] \in DOMAIN lc /\ AddressOf[spelling[a]] = a
  BY DEF Addresses
<1>3. spelling \in [Addresses(lc) -> DOMAIN lc]
  BY <1>2
<1> HIDE DEF spelling
<1>4. [a \in Addresses(lc) |-> LimitOf(lc[spelling[a]])] \in ParseLimitsConfig(lc)
  BY <1>1, <1>2, <1>3 DEF ParseLimitsConfig
<1> QED
  BY <1>4

\* Overrides are parsed if those of each user are.
LEMMA OverridesParse ==
    ASSUME NEW overrides,
           \A s \in DOMAIN overrides : IsHexAddress(s) /\ ParseLimitsConfig(overrides[s]) # {}
    PROVE  ParseUserOverrides(overrides) # {}
<1> DEFINE limits(s) == CHOOSE l \in ParseLimitsConfig(overrides[s]) : TRUE
           user(a) == CHOOSE s \in DOMAIN overrides : AddressOf[s] = a
           parsed == [a \in Addresses(overrides) |-> limits(user(a))]
<1>1. ASSUME NEW a \in Addresses(overrides)
      PROVE  /\ user(a) \in DOMAIN overrides /\ AddressOf[user(a)] = a
             /\ limits(user(a)) \in ParseLimitsConfig(overrides[user(a)])
  <2>1. user(a) \in DOMAIN overrides /\ AddressOf[user(a)] = a
    BY DEF Addresses
  <2> HIDE DEF user
  <2> QED
    BY <2>1
<1> HIDE DEF limits, user
<1>2. parsed \in [Addresses(overrides) ->
                     UNION {ParseLimitsConfig(overrides[s]) : s \in DOMAIN overrides}]
  BY <1>1
<1>3. \A a \in Addresses(overrides) : \E s \in DOMAIN overrides :
         AddressOf[s] = a /\ parsed[a] \in ParseLimitsConfig(overrides[s])
  BY <1>1
<1> HIDE DEF parsed
<1>4. parsed \in ParseUserOverrides(overrides)
  BY <1>2, <1>3 DEF ParseUserOverrides
<1> QED
  BY <1>4

-----------------------------------------------------------------------------
(***************************************************************************)
(* The properties.                                                         *)
(***************************************************************************)
\* Every variable keeps its type.
THEOREM TypeCorrect == Spec => []TypeOK
BY Invariance, PTL DEF Inv

\* As long as ctx is not cancelled the worker takes events: the listener may lose its
\* connection any number of times and does not close the sink.
THEOREM WorkerServesUntilCancelled == Spec => []WorkerServes
<1>1. Inv => WorkerServes
  BY DEF Inv, Lifetimes, WorkerServes
<1> QED
  BY <1>1, Invariance, PTL

\* When RunWorkerWithContext has returned, the goroutine of the listener, of which the
\* errgroup does not know, has ended too.
THEOREM NothingIsLeft == Spec => []ExitLeavesNothing
<1>1. Inv => ExitLeavesNothing
  BY DEF Inv, Lifetimes, NotStarted, Group, ExitLeavesNothing
<1> QED
  BY <1>1, Invariance, PTL

\* From New on there is a path for the database, whatever the file and the environment
\* leave out.
THEOREM DatabaseIsAFile == Spec => []DatabasePersists
<1>1. Inv => DatabasePersists
  BY PathIsSet DEF DatabasePersists
<1> QED
  BY <1>1, Invariance, PTL

\* New does not fail on limits that Validate accepts.
THEOREM ValidConfigurationsParse == Spec => []ValidatedParses
<1>1. Inv => ValidatedParses
  <2> SUFFICES ASSUME Inv, main \in {"limits", "overrides"}, Valid(conf)
               PROVE  /\ ParseLimitsConfig(conf.limits) # {}
                      /\ ParseUserOverrides(conf.perUserOverrides) # {}
    BY DEF ValidatedParses
  <2>1. ParseLimitsConfig(conf.limits) # {}
    BY ValidLimitsParse DEF Valid
  <2>2. \A s \in DOMAIN conf.perUserOverrides :
           IsHexAddress(s) /\ ParseLimitsConfig(conf.perUserOverrides[s]) # {}
    BY ValidLimitsParse DEF Valid
  <2> QED
    BY <2>1, <2>2, OverridesParse
<1> QED
  BY <1>1, Invariance, PTL

\* The checker of a running worker enforces every limit that the file spells out or
\* leaves to a variable, unless the file and its variables give it twice: as what it is
\* once variables are expanded, that is not at all where one is unset.
THEOREM LimitsAreEnforced == Spec => []EnforcedAsConfigured
<1>1. Inv => EnforcedAsConfigured
  <2> DEFINE overrides == file.perUserOverrides
             E(string) == Expand(string, environment)
  <2> SUFFICES ASSUME Inv, main = "wait"
               PROVE  /\ Enforces(globalLimits, file.limits)
                      /\ OneSpelling(overrides) =>
                            \A u \in DOMAIN overrides :
                                Enforces(userOverrides[AddressOf[E(u)]], overrides[u])
    BY DEF EnforcedAsConfigured
  <2>1. Decodes(file, environment) /\ globalLimits \in ParseLimitsConfig(conf.limits)
        /\ userOverrides \in ParseUserOverrides(conf.perUserOverrides)
    BY DEF Inv, Configured, AfterLoad, AfterLimits, AfterOverrides
  <2>2. /\ conf.limits = ExpandLimits(file.limits, environment)
        /\ conf.perUserOverrides = [key \in Expanded(overrides, environment) |->
               ExpandLimits(At(overrides, environment, key), environment)]
    BY DEF conf, Load, WithDefaults, Unmarshal
  <2>3. Enforces(globalLimits, file.limits)
    BY <2>1, <2>2, ExpandedLimits DEF Decodes
  <2>4. ASSUME OneSpelling(overrides), NEW u \in DOMAIN overrides
        PROVE  Enforces(userOverrides[AddressOf[E(u)]], overrides[u])
    <3> DEFINE expanded == conf.perUserOverrides
    <3>1. /\ DOMAIN expanded = {E(s) : s \in DOMAIN overrides}
          /\ expanded[E(u)] = ExpandLimits(overrides[u], environment)
      BY <2>1, <2>2, ExpandedKeys DEF Decodes, Expanded
    <3>2. AddressOf[E(u)] \in Addresses(expanded)
      BY <3>1 DEF Addresses
    <3>3. PICK s \in DOMAIN expanded :
             /\ AddressOf[s] = AddressOf[E(u)]
             /\ userOverrides[AddressOf[E(u)]] \in ParseLimitsConfig(expanded[s])
      BY <2>1, <3>2 DEF ParseUserOverrides
    <3>4. s = E(u)
      BY <2>4, <3>1, <3>3 DEF OneSpelling
    <3>5. Unique(overrides[u], environment)
      BY <2>1 DEF Decodes
    <3> QED
      BY <3>1, <3>3, <3>4, <3>5, ExpandedLimits
  <2> QED
    BY <2>3, <2>4
<1> QED
  BY <1>1, Invariance, PTL
=============================================================================
