----------------------------- MODULE MCService -----------------------------
EXTENDS Service, TLC

CONSTANTS alice, usdc, dai, custody

MCAddressOf == ("0xa1ce" :> alice) @@ ("0xA1CE" :> alice) @@ ("0xdc" :> usdc) @@ ("0xDC" :> usdc)
               @@ ("0xda1" :> dai) @@ ("0xc0de" :> custody)
MCSchemeOf == ("wss://node" :> "wss") @@ ("http://node" :> "http")
MCAmountOf == ("1" :> 1) @@ ("2" :> 2) @@ ("5" :> 5) @@ ("-1" :> -1)
MCKeys == {"secret"}

Hourly(n) == [hourly |-> n, daily |-> Empty]
Usdc(limit) == "0xdc" :> limit

\* Two tokens, no limit, a negative one, two spellings of one token, mistakes, and
\* variables.
MCLimits == {Usdc([hourly |-> "2", daily |-> "5"]) @@ ("0xda1" :> Hourly("1")), <<>>,
             Usdc(Hourly("-1")), Usdc(Hourly("2")) @@ ("0xDC" :> Hourly("5")),
             Usdc([hourly |-> "2", daily |-> "two"]), "usdc" :> Hourly("2"),
             Usdc([hourly |-> "$AMOUNT", daily |-> "5"]) @@ ("$TOKEN" :> Hourly("1"))}

MCOverrides == {"0xa1ce" :> Usdc([hourly |-> Empty, daily |-> "1"]), <<>>,
                ("0xa1ce" :> Usdc(Hourly("1"))) @@ ("0xA1CE" :> ("0xda1" :> Hourly("1"))),
                "alice" :> Usdc(Hourly("1")), "0xa1ce" :> Usdc(Hourly("two")),
                "$USER" :> ("$TOKEN" :> Hourly("$AMOUNT"))}

File == [rpcURL |-> "wss://node", contractAddr |-> "0xc0de", privateKey |-> "secret",
         limits |-> Usdc(Hourly("2")), perUserOverrides |-> <<>>,
         listenAddr |-> Empty, dbPath |-> "$PATH"]

MCFiles ==
    {[File EXCEPT !.limits = l, !.perUserOverrides = o] : l \in MCLimits, o \in MCOverrides} \union
    {[File EXCEPT !.rpcURL = u, !.privateKey = k, !.contractAddr = a, !.dbPath = d] :
        u \in DOMAIN MCSchemeOf \union {Empty, "node"}, k \in {"secret", "key"},
        a \in {"0xc0de", Empty}, d \in {"db", Empty}} \union
    {[File EXCEPT !.rpcURL = "$NODE", !.contractAddr = "$CONTRACT", !.privateKey = "$KEY"]}

Variables == {"$NODE", "$CONTRACT", "$KEY", "$PATH", "$USER", "$TOKEN", "$AMOUNT"}

AllSet == ("$NODE" :> "wss://node") @@ ("$CONTRACT" :> "0xc0de") @@ ("$KEY" :> "secret")
          @@ ("$PATH" :> "db") @@ ("$USER" :> "0xa1ce") @@ ("$TOKEN" :> "0xda1")
          @@ ("$AMOUNT" :> "2")

\* All are set; none is; a limit and the path are not; a key occurs twice; a spelling of
\* a key does; a mistake.
MCEnvironments ==
    {AllSet, [v \in Variables |-> Empty],
     [AllSet EXCEPT !["$AMOUNT"] = Empty, !["$PATH"] = Empty],
     [AllSet EXCEPT !["$TOKEN"] = "0xdc"], [AllSet EXCEPT !["$TOKEN"] = "0xDC"],
     [AllSet EXCEPT !["$AMOUNT"] = "two", !["$KEY"] = Empty]}
=============================================================================
