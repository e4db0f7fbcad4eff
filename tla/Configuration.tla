--------------------------- MODULE Configuration ---------------------------
(***************************************************************************)
(* config.go, and the parsing of limits in service.go.  A string is a      *)
(* value of which the code finds out what AddressOf, SchemeOf, AmountOf    *)
(* and Keys say.  A variable of the environment holds such a string.       *)
(*                                                                         *)
(* Go iterates over a map in any order, so that of two spellings of one    *)
(* address either may be the last: parsing returns a set of results, which *)
(* is empty when it fails.                                                 *)
(***************************************************************************)
EXTENDS Integers

CONSTANTS
    AddressOf,      \* function from the strings that are hex addresses
    SchemeOf,       \* function from the RPC URLs with a scheme
    AmountOf,       \* function from the strings that are decimal numbers
    Keys,           \* the strings that are private keys
    Empty           \* the empty string, and a limit that is nil

ASSUME ConfigurationAssumption ==
    /\ Empty \notin DOMAIN AddressOf \union DOMAIN SchemeOf \union DOMAIN AmountOf \union Keys
    /\ \A string \in DOMAIN AmountOf : AmountOf[string] \in Int
    /\ Empty \notin Int
    /\ Empty # "nitewatch.db"

IsHexAddress(s) == s \in DOMAIN AddressOf

-----------------------------------------------------------------------------
(***************************************************************************)
(* Load: variables are expanded in the text of the file, in keys and in    *)
(* values, an unset one to nothing; YAML refuses a key that occurs twice;  *)
(* then two defaults are filled in.                                        *)
(***************************************************************************)
Expand(string, environment) ==
    IF string \in DOMAIN environment THEN environment[string] ELSE string

Unique(map, environment) ==
    \A s, t \in DOMAIN map : Expand(s, environment) = Expand(t, environment) => s = t

\* The keys after it, and what the map has there.
Expanded(map, environment) == {Expand(s, environment) : s \in DOMAIN map}

At(map, environment, key) == map[CHOOSE s \in DOMAIN map : Expand(s, environment) = key]

ExpandLimits(lc, environment) ==
    [key \in Expanded(lc, environment) |->
        [hourly |-> Expand(At(lc, environment, key).hourly, environment),
         daily |-> Expand(At(lc, environment, key).daily, environment)]]

Decodes(file, environment) ==
    /\ Unique(file.limits, environment)
    /\ Unique(file.perUserOverrides, environment)
    /\ \A s \in DOMAIN file.perUserOverrides : Unique(file.perUserOverrides[s], environment)

Unmarshal(file, environment) ==
    [rpcURL |-> Expand(file.rpcURL, environment),
     contractAddr |-> Expand(file.contractAddr, environment),
     privateKey |-> Expand(file.privateKey, environment),
     limits |-> ExpandLimits(file.limits, environment),
     perUserOverrides |->
        [key \in Expanded(file.perUserOverrides, environment) |->
            ExpandLimits(At(file.perUserOverrides, environment, key), environment)],
     listenAddr |-> Expand(file.listenAddr, environment),
     dbPath |-> Expand(file.dbPath, environment)]

OrDefault(string, default) == IF string = Empty THEN default ELSE string

WithDefaults(conf) ==
    [conf EXCEPT !.dbPath = OrDefault(@, "nitewatch.db"), !.listenAddr = OrDefault(@, ":8080")]

\* The default is looked at before the variable.
DefaultFirst(file, environment) == Unmarshal(WithDefaults(file), environment)   \* mutant

Load(file, environment) == WithDefaults(Unmarshal(file, environment))

-----------------------------------------------------------------------------
(***************************************************************************)
(* Validate, which no code calls.                                          *)
(***************************************************************************)
ValidBlockchain(conf) ==
    /\ conf.rpcURL \in DOMAIN SchemeOf /\ SchemeOf[conf.rpcURL] \in {"ws", "wss"}
    /\ IsHexAddress(conf.contractAddr)
    /\ conf.privateKey # Empty

ValidLimit(limit) == {limit.hourly, limit.daily} \subseteq DOMAIN AmountOf \union {Empty}

ValidLimits(lc) == \A s \in DOMAIN lc : IsHexAddress(s) /\ ValidLimit(lc[s])

Valid(conf) ==
    /\ ValidBlockchain(conf)
    /\ DOMAIN conf.limits # {}
    /\ ValidLimits(conf.limits)
    /\ \A s \in DOMAIN conf.perUserOverrides :
          IsHexAddress(s) /\ ValidLimits(conf.perUserOverrides[s])

-----------------------------------------------------------------------------
(***************************************************************************)
(* parseLimitsConfig and parseUserOverrides: functions from addresses.  A  *)
(* limit that is not given is nil.                                         *)
(***************************************************************************)
ParsePositive(limit) ==     \* mutant
    \A s \in {limit.hourly, limit.daily} \ {Empty} : s \in DOMAIN AmountOf /\ AmountOf[s] > 0

ParseLimit(limit) == \A s \in {limit.hourly, limit.daily} : s # Empty => s \in DOMAIN AmountOf

Addresses(lc) == {AddressOf[s] : s \in DOMAIN lc}

Amount(string) == IF string = Empty THEN Empty ELSE AmountOf[string]

HourlyOnly(limit) == [hourly |-> Amount(limit.hourly), daily |-> Empty]   \* mutant

LimitOf(limit) == [hourly |-> Amount(limit.hourly), daily |-> Amount(limit.daily)]

ParseLimitsConfig(lc) ==
    IF \A s \in DOMAIN lc : IsHexAddress(s) /\ ParseLimit(lc[s])
    THEN {[a \in Addresses(lc) |-> LimitOf(lc[spelling[a]])] :
             spelling \in {f \in [Addresses(lc) -> DOMAIN lc] :
                              \A a \in Addresses(lc) : AddressOf[f[a]] = a}}
    ELSE {}

ParseUserOverrides(overrides) ==
    IF \A s \in DOMAIN overrides : IsHexAddress(s) /\ ParseLimitsConfig(overrides[s]) # {}
    THEN {parsed \in [Addresses(overrides) ->
                         UNION {ParseLimitsConfig(overrides[s]) : s \in DOMAIN overrides}] :
             \A a \in Addresses(overrides) : \E s \in DOMAIN overrides :
                AddressOf[s] = a /\ parsed[a] \in ParseLimitsConfig(overrides[s])}
    ELSE {}
=============================================================================
