-------------------------- MODULE MCQuorumCustody --------------------------
EXTENDS QuorumCustody

CONSTANTS ann, ben, cat, usdc, zeroAddress

MCAccounts == {ann, ben, cat}
MCERC20s == {usdc}
MCInitialSigners == <<ann, ben, cat>>

\* A withdrawal to one of the signers.
MCRequests == {[user |-> ben, token |-> usdc, amount |-> 1, nonce |-> 0]}

Change(op, list, newQuorum) ==
    [op |-> op, list |-> list, newQuorum |-> newQuorum, deadline |-> 1]

\* Ben leaves and comes back, two leave at once, and what not every contract takes:
\* the zero address as a signer, with a lower quorum.
MCChanges ==
    {Change("remove", <<ben>>, 2), Change("add", <<ben>>, 2),
     Change("remove", <<ann, cat>>, 1),
     Change("add", <<zeroAddress>>, 1)}
=============================================================================
