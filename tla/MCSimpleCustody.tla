-------------------------- MODULE MCSimpleCustody --------------------------
EXTENDS SimpleCustody

CONSTANTS desk, watcher, usdc, zeroAddress

MCAccounts == {desk, watcher}
MCRoleChanges == {<<"NITEWATCH_ROLE", watcher>>, <<"NEODAX_ROLE", watcher>>}
MCERC20s == {usdc}

\* One withdrawal per token, of different sizes, to the account that also watches.
MCRequests ==
    {[user |-> watcher, token |-> zeroAddress, amount |-> 1, nonce |-> 0],
     [user |-> watcher, token |-> usdc, amount |-> 2, nonce |-> 0]}
=============================================================================
