------------------------------ MODULE Service ------------------------------
(***************************************************************************)
(* The process: main loads the configuration, New builds the service from  *)
(* it, and RunWorkerWithContext runs it in an errgroup of four goroutines  *)
(* and a listener of which the group does not know.  An interrupt, or the  *)
(* first error of the group, cancels ctx, and the goroutines end one after *)
(* the other.  What the worker does with an event is in Nitewatch, how the *)
(* listener gets one in Listener.                                          *)
(***************************************************************************)
EXTENDS Configuration

CONSTANTS
    Files,          \* the configuration files there may be
    Environments,   \* functions from the variables a file refers to
    Faults          \* which calls may fail, of the set below

FaultKinds ==
    {"read",        \* the file cannot be read or is not YAML
     "dial", "database", "chainID",     \* New
     "listen",      \* the address is in use
     "drain"}       \* a connection is busy for all of the five seconds

ASSUME ServiceAssumption == Faults \subseteq FaultKinds

VARIABLES
    file, environment,  \* what the process is started with
    main,           \* what main is at
    globalLimits, userOverrides,    \* of the checker
    client,         \* the Ethereum client: "none", "open", "closed"
    workerReady,
    cancelled,      \* ctx of the group
    err,            \* the first error of the group
    web, worker, watcher, shutdown, closer,     \* the goroutines
    exitCode

inputs == <<file, environment>>
checker == <<globalLimits, userOverrides>>
goroutines == <<web, worker, watcher, shutdown, closer>>
vars == <<inputs, main, checker, client, workerReady, cancelled, err, goroutines, exitCode>>

Listener == INSTANCE EventListener WITH state <- watcher

\* What Load returns.
conf == Load(file, environment)

NoLimits == [a \in {} |-> Empty]

TypeOK ==
    /\ file \in Files /\ environment \in Environments
    /\ main \in {"args", "load", "dial", "database", "limits", "overrides", "chainID", "key",
                 "run", "wait", "exited"}
    /\ client \in {"none", "open", "closed"}
    /\ workerReady \in BOOLEAN /\ cancelled \in BOOLEAN
    /\ err \in {"none", "web", "shutdown"}
    /\ web \in {"off", "starting", "serving", "returned"}
    /\ worker \in {"off", "range", "busy", "mining", "returned"}
    /\ watcher \in Listener!States \union {"off"}
    /\ shutdown \in {"off", "waiting", "draining", "returned"}
    /\ closer \in {"off", "waiting", "returned"}
    /\ exitCode \in {-1, 0, 1}
    /\ exitCode # -1 <=> main = "exited"

Init ==
    /\ file \in Files /\ environment \in Environments
    /\ main = "args"
    /\ globalLimits = NoLimits /\ userOverrides = NoLimits
    /\ client = "none"
    /\ workerReady = FALSE /\ cancelled = FALSE /\ err = "none"
    /\ web = "off" /\ worker = "off" /\ watcher = "off" /\ shutdown = "off" /\ closer = "off"
    /\ exitCode = -1

-----------------------------------------------------------------------------
(***************************************************************************)
(* main and New.  Each call goes on or ends the process, and New closes    *)
(* its client when it fails.                                               *)
(***************************************************************************)
GoOn(from, to) ==
    /\ main = from
    /\ main' = to
    /\ UNCHANGED <<inputs, workerReady, cancelled, err, goroutines, exitCode>>

\* mutant: the error is logged, without a return
GoesOn(from, code) ==
    /\ main = from
    /\ main' = main
    /\ exitCode' = code
    /\ UNCHANGED <<inputs, checker, workerReady, cancelled, err, goroutines>>

Exit(from, code) ==
    /\ main = from
    /\ main' = "exited"
    /\ exitCode' = code
    /\ UNCHANGED <<inputs, checker, workerReady, cancelled, err, goroutines>>

\* The arguments are "worker", or main prints its usage.
Arguments ==
    /\ GoOn("args", "load") \/ Exit("args", 1)
    /\ UNCHANGED <<checker, client>>

LoadConfig ==
    /\ \/ GoOn("load", "dial") /\ Decodes(file, environment)
       \/ Exit("load", 1) /\ (~Decodes(file, environment) \/ "read" \in Faults)
    /\ UNCHANGED <<checker, client>>

\* Dial connects to a WebSocket and to a socket file, and to an HTTP server only
\* when it is used.
Dials == conf.rpcURL \in DOMAIN SchemeOf /\ SchemeOf[conf.rpcURL] \in {"ws", "wss", "http"}

Dial ==
    \/ /\ GoOn("dial", "database") /\ Dials
       /\ client' = "open"
       /\ UNCHANGED checker
    \/ /\ Exit("dial", 1)
       /\ ~Dials \/ "dial" \in Faults
       /\ UNCHANGED client

NewFails(from) == Exit(from, 1) /\ client' = "closed"

\* gorm.Open and NewAdapter, which migrates the tables.
OpenDatabase ==
    \/ GoOn("database", "limits") /\ UNCHANGED <<checker, client>>
    \/ "database" \in Faults /\ NewFails("database")

ParseLimits ==
    \/ /\ GoOn("limits", "overrides")
       /\ globalLimits' \in ParseLimitsConfig(conf.limits)
       /\ UNCHANGED <<userOverrides, client>>
    \/ NewFails("limits") /\ ParseLimitsConfig(conf.limits) = {}

ParseOverrides ==
    \/ /\ GoOn("overrides", "chainID")
       /\ userOverrides' \in ParseUserOverrides(conf.perUserOverrides)
       /\ UNCHANGED <<globalLimits, client>>
    \/ NewFails("overrides") /\ ParseUserOverrides(conf.perUserOverrides) = {}

\* The first use of the node.
ChainID ==
    \/ GoOn("chainID", "key") /\ UNCHANGED <<checker, client>>
    \/ "chainID" \in Faults /\ NewFails("chainID")

\* What is left cannot fail: a contract address that is none is taken as it is.
PrivateKey ==
    \/ GoOn("key", "run") /\ conf.privateKey \in Keys /\ UNCHANGED <<checker, client>>
    \/ NewFails("key") /\ conf.privateKey \notin Keys

New == Dial \/ OpenDatabase \/ ParseLimits \/ ParseOverrides \/ ChainID \/ PrivateKey

-----------------------------------------------------------------------------
(***************************************************************************)
(* RunWorkerWithContext.                                                   *)
(***************************************************************************)
\* The worker goroutine starts the listener before it takes events from it.
RunWorker ==
    /\ main = "run"
    /\ main' = "wait"
    /\ web' = "starting" /\ worker' = "range" /\ shutdown' = "waiting" /\ closer' = "waiting"
    /\ watcher' = "connecting"
    /\ workerReady' = TRUE
    /\ UNCHANGED <<inputs, checker, client, cancelled, err, exitCode>>

Running == UNCHANGED <<inputs, main, checker, workerReady, exitCode>>

Interrupt ==
    /\ main = "wait"
    /\ Listener!Cancel
    /\ Running /\ UNCHANGED <<client, err, web, worker, shutdown, closer>>

\* An error is kept if it is the first, and cancels ctx.
ReturnError(e) ==
    /\ err' = IF err = "none" THEN e ELSE err
    /\ cancelled' = TRUE

ReturnNil == UNCHANGED <<err, cancelled>>

\* Shutdown was called; ListenAndServe returns ErrServerClosed from now on.
Closed == shutdown \in {"draining", "returned"}

Serve ==
    /\ web = "starting" /\ ~Closed
    /\ web' = "serving"
    /\ Running /\ UNCHANGED <<client, cancelled, err, worker, watcher, shutdown, closer>>

WebReturns ==
    /\ \/ web \in {"starting", "serving"} /\ Closed
       \/ web = "starting" /\ "listen" \in Faults
    /\ web' = "returned"
    /\ ReturnError("web")
    /\ Running /\ UNCHANGED <<client, worker, watcher, shutdown, closer>>

Shutdown ==
    /\ shutdown = "waiting" /\ cancelled
    /\ shutdown' = "draining"
    /\ Running /\ UNCHANGED <<client, cancelled, err, web, worker, watcher, closer>>

\* It returns nil, or the error of its own ctx after five seconds.
Drained ==
    /\ shutdown = "draining"
    /\ shutdown' = "returned"
    /\ ReturnNil \/ ("drain" \in Faults /\ ReturnError("shutdown"))
    /\ Running /\ UNCHANGED <<client, web, worker, watcher, closer>>

CloseClient ==
    /\ closer = "waiting" /\ cancelled
    /\ closer' = "returned"
    /\ client' = "closed"
    /\ ReturnNil
    /\ Running /\ UNCHANGED <<web, worker, watcher, shutdown>>

-----------------------------------------------------------------------------
(***************************************************************************)
(* The worker and its listener.                                            *)
(***************************************************************************)
WorkerStep == Running /\ UNCHANGED <<client, cancelled, err, web, shutdown, closer>>

Watch ==
    /\ Listener!Connect \/ Listener!Disconnect \/ Listener!Offer \/ Listener!Return
    /\ WorkerStep /\ UNCHANGED worker

\* for event := range withdrawals
Receive ==
    /\ worker = "range"
    /\ worker' = "busy"
    /\ Listener!Sent
    /\ WorkerStep

\* processWithdrawal skips or decides the event, or sends a transaction.
Process ==
    /\ worker = "busy"
    /\ worker' \in {"range", "mining"}
    /\ WorkerStep /\ UNCHANGED watcher

Mined ==
    /\ worker = "mining"
    /\ worker' = "range"
    /\ WorkerStep /\ UNCHANGED watcher

NotInterruptible == FALSE   \* mutant

Interruptible == cancelled

\* WaitMined has no timeout of its own.
WaitMinedCancelled ==
    /\ worker = "mining" /\ Interruptible
    /\ worker' = "range"
    /\ WorkerStep /\ UNCHANGED watcher

SinkClosed == Listener!Closed

WorkerReturns ==
    /\ worker = "range" /\ SinkClosed
    /\ worker' = "returned"
    /\ ReturnNil
    /\ WorkerStep /\ UNCHANGED watcher

GroupButWorker == {web, shutdown, closer}   \* mutant

Group == {web, worker, shutdown, closer}

\* g.Wait, and main: any error of the group ends the process with 1.
Wait ==
    /\ Group = {"returned"}
    /\ Exit("wait", IF err = "none" THEN 0 ELSE 1)
    /\ UNCHANGED client

Stop == WebReturns \/ Shutdown \/ Drained \/ CloseClient \/ Wait

Work == Receive \/ Process \/ WaitMinedCancelled \/ WorkerReturns

Next ==
    \/ Arguments \/ LoadConfig \/ New \/ RunWorker
    \/ Interrupt \/ Serve \/ Stop
    \/ Watch \/ Work \/ Mined

(***************************************************************************)
(* Every goroutine that can run does, and calls that have a deadline or a  *)
(* cancelled ctx return.  Nothing makes a connection, an event, a mined    *)
(* transaction or an interrupt come.                                       *)
(***************************************************************************)
Fairness ==
    /\ WF_vars(WebReturns) /\ WF_vars(Shutdown) /\ WF_vars(Drained) /\ WF_vars(CloseClient)
    /\ WF_vars(Wait)
    /\ WF_vars(Work)
    /\ WF_vars(Listener!Return /\ WorkerStep /\ UNCHANGED worker)

Spec == Init /\ [][Next]_vars /\ Fairness

-----------------------------------------------------------------------------
\* Validate and the parsers are written twice: what the one accepts, the others do.
ValidatedParses ==
    main \in {"limits", "overrides"} /\ Valid(conf) =>
        ParseLimitsConfig(conf.limits) # {} /\ ParseUserOverrides(conf.perUserOverrides) # {}

\* SQLite takes an empty path for a database that is gone with the process, and with
\* it the cursor and the totals: neither a missing entry of the file nor an unset
\* variable leads to one.
DatabasePersists == main \in {"limits", "run", "wait"} => conf.dbPath # Empty

\* The file with its variables expanded gives each address once.
OneSpelling(map) ==
    \A s, t \in DOMAIN map :
        AddressOf[Expand(s, environment)] = AddressOf[Expand(t, environment)] => s = t

Enforces(parsed, lc) ==
    OneSpelling(lc) =>
        /\ DOMAIN parsed = {AddressOf[Expand(s, environment)] : s \in DOMAIN lc}
        /\ \A s \in DOMAIN lc :
              parsed[AddressOf[Expand(s, environment)]]
                 = [hourly |-> Amount(Expand(lc[s].hourly, environment)),
                    daily |-> Amount(Expand(lc[s].daily, environment))]

\* The checker of a running worker enforces each hourly and daily limit that the file
\* spells out or leaves to a variable, for its user and token and no other.  An unset
\* variable is no mistake: it makes the limit nil, which enforces nothing.
EnforcedAsConfigured ==
    main = "wait" =>
        /\ Enforces(globalLimits, file.limits)
        /\ OneSpelling(file.perUserOverrides) =>
              \A u \in DOMAIN file.perUserOverrides :
                  Enforces(userOverrides[AddressOf[Expand(u, environment)]],
                           file.perUserOverrides[u])

\* The group does not end when its worker does.  The worker serves until ctx is
\* cancelled, whatever happens to the connection.
WorkerServes == worker = "returned" => cancelled

\* When main returns, no event is half processed or left on the sink.
ExitLeavesNothing ==
    main = "exited" => worker \in {"off", "returned"} /\ watcher \in {"off", "returned"}

\* An interrupt or an address in use ends the process, also while a transaction is
\* never mined, an event waits on the sink or the connection is lost.
CancelledExits == cancelled ~> main = "exited"
=============================================================================
