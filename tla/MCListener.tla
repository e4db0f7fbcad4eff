----------------------------- MODULE MCListener -----------------------------
EXTENDS Listener

S == "WithdrawStarted"
D == "Deposited"

MCContents == {<<>>, <<D, S>>}
MCSparse == {<<>>, <<S>>}

\* What the service gives its listener: no IDeposit.
MCWatches == [event : {S, D}, bound : {{"IWithdraw"}}]
=============================================================================
