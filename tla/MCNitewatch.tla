---------------------------- MODULE MCNitewatch ----------------------------
EXTENDS Nitewatch, TLC

CONSTANTS alice, bob, zeroAddress, usdc, dai, neodax

MCAccounts == {alice, bob, zeroAddress}
MCTokens == {usdc, dai}

Withdraw(u, t, n, k) == [user |-> u, token |-> t, amount |-> n, nonce |-> k]

\* Alice alone can reach her own hourly limit, both together the global ones.
MCRequests == {Withdraw(alice, usdc, 1, 0), Withdraw(alice, usdc, 1, 1), Withdraw(bob, usdc, 2, 0)}

\* Two that together exceed the hourly limit and fit the daily one.
MCTwoRequests == {Withdraw(alice, usdc, 1, 0), Withdraw(bob, usdc, 2, 0)}

\* One of them of a token without limits.
MCOddRequests == {Withdraw(alice, dai, 1, 0), Withdraw(bob, usdc, 1, 0)}

MCFunds == (usdc :> 4) @@ (dai :> 1)

MCGlobalLimits == usdc :> [hourly |-> 2, daily |-> 3]
MCUserOverrides == <<alice, usdc>> :> [hourly |-> 1, daily |-> NoLimit]
=============================================================================
