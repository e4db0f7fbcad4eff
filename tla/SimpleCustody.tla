--------------------------- MODULE SimpleCustody ---------------------------
(***************************************************************************)
(* SimpleCustody.sol: custody with a NeoDAX role that starts withdrawals   *)
(* and a Nitewatch role that finalizes or rejects them.                    *)
(*                                                                         *)
(* Two calls leave the contract: an ERC20 transferFrom in deposit and the  *)
(* transfer to the user in finalizeWithdraw.  The callee may call back, so *)
(* each is two steps, the call and the return, with any other step allowed *)
(* between them that the ReentrancyGuard does not forbid.  calls is the    *)
(* stack of such unfinished calls; an entry keeps the state to restore if  *)
(* it reverts.  A transaction that reverts outside such a call leaves no   *)
(* trace and is no step.                                                   *)
(***************************************************************************)
EXTENDS Integers, Sequences, FiniteSetsExt

CONSTANTS
    Accounts,   \* callers, role holders and users
    ERC20s,     \* ERC20 token addresses
    Zero,       \* address(0): native ether, and a cleared user
    Requests,   \* arguments of startWithdraw: [user, token, amount, nonce]
    admin, neodax, nitewatch,   \* the constructor's arguments
    RoleChanges,    \* bound: the <<role, account>> pairs admins grant or revoke
    Supply,     \* bound: the most the contract can own of one token
    MaxDepth    \* bound: unfinished calls (the EVM allows 1024)

Tokens == ERC20s \union {Zero}

Roles == {"DEFAULT_ADMIN_ROLE", "NEODAX_ROLE", "NITEWATCH_ROLE"}

ASSUME CustodyAssumption ==
    /\ Zero \notin ERC20s
    /\ {admin, neodax, nitewatch} \subseteq Accounts /\ IsFiniteSet(Accounts)
    /\ RoleChanges \subseteq Roles \X Accounts
    /\ Requests \subseteq [user : Accounts, token : Tokens, amount : Nat, nonce : Nat]
    /\ Supply \in Nat
    /\ MaxDepth \in Nat \ {0}

VARIABLES
    withdrawals,    \* withdrawals[id], the contract's mapping
    roles,          \* roles[role]: its holders (AccessControl)
    balance,        \* balance[t]: what the contract owns of token t
    credited,       \* credited[t]: sum of the Deposited events of token t
    paid,           \* paid[u][t]: what finalizeWithdraw transferred to u
    calls           \* unfinished external calls, innermost first

storage == <<withdrawals, roles, balance, credited, paid>>
vars == <<withdrawals, roles, balance, credited, paid, calls>>

WithdrawalRequest ==
    [user : Accounts \union {Zero}, token : Tokens, amount : Nat,
     exists : BOOLEAN, finalized : BOOLEAN]

NoRequest ==
    [user |-> Zero, token |-> Zero, amount |-> 0, exists |-> FALSE, finalized |-> FALSE]

ClearedNotMarked ==  \* mutant
    [user |-> Zero, token |-> Zero, amount |-> 0, exists |-> TRUE, finalized |-> FALSE]

Cleared ==
    [user |-> Zero, token |-> Zero, amount |-> 0, exists |-> TRUE, finalized |-> TRUE]

Storage ==
    [withdrawals : [Requests -> WithdrawalRequest],
     roles : [Roles -> SUBSET Accounts],
     balance : [Tokens -> Nat],
     credited : [Tokens -> Nat],
     paid : [Accounts -> [Tokens -> Nat]]]

Call == [op : {"deposit", "pay"}, token : Tokens, amount : Nat, before : Nat, saved : Storage]

TypeOK ==
    /\ withdrawals \in [Requests -> WithdrawalRequest]
    /\ roles \in [Roles -> SUBSET Accounts]
    /\ balance \in [Tokens -> Nat]
    /\ credited \in [Tokens -> Nat]
    /\ paid \in [Accounts -> [Tokens -> Nat]]
    /\ calls \in Seq(Call)

\* The constructor grants each role to one account.
Init ==
    /\ withdrawals = [r \in Requests |-> NoRequest]
    /\ roles = [role \in Roles |->
          IF role = "DEFAULT_ADMIN_ROLE" THEN {admin}
          ELSE IF role = "NEODAX_ROLE" THEN {neodax} ELSE {nitewatch}]
    /\ balance = [t \in Tokens |-> 0]
    /\ credited = [t \in Tokens |-> 0]
    /\ paid = [u \in Accounts |-> [t \in Tokens |-> 0]]
    /\ calls = <<>>

-----------------------------------------------------------------------------
Unguarded == TRUE   \* mutant

\* nonReentrant: no function that carries it is running.
NonReentrant == calls = <<>>

Snapshot ==
    [withdrawals |-> withdrawals, roles |-> roles, balance |-> balance,
     credited |-> credited, paid |-> paid]

CallOut(op, token, amount) ==
    /\ Len(calls) < MaxDepth
    /\ calls' = <<[op |-> op, token |-> token, amount |-> amount,
                   before |-> balance[token], saved |-> Snapshot]>> \o calls

\* Tokens arrive from anyone; the supply bounds what there is to send.
Arrive(t, n) ==
    /\ balance[t] + n <= Supply
    /\ balance' = [balance EXCEPT ![t] = @ + n]

-----------------------------------------------------------------------------
DepositETH(amount) ==
    /\ NonReentrant
    /\ amount # 0
    /\ Arrive(Zero, amount)
    /\ credited' = [credited EXCEPT ![Zero] = @ + amount]
    /\ UNCHANGED <<withdrawals, roles, paid, calls>>

\* transferFrom may move less than it was asked to (fee on transfer).
DepositERC20(t, amount, moved) ==
    /\ NonReentrant
    /\ amount # 0
    /\ CallOut("deposit", t, amount)
    /\ Arrive(t, moved)
    /\ UNCHANGED <<withdrawals, roles, credited, paid>>

Requested(call) == call.amount  \* mutant

Received(call) == balance[call.token] - call.before

\* received underflows into a revert.
DepositReturns ==
    /\ calls # <<>>
    /\ LET call == Head(calls)
       IN  /\ call.op = "deposit"
           /\ Received(call) >= 0
           /\ credited' = [credited EXCEPT ![call.token] = @ + Received(call)]
    /\ calls' = Tail(calls)
    /\ UNCHANGED <<withdrawals, roles, balance, paid>>

StartWithdraw(caller, r) ==
    /\ caller \in roles["NEODAX_ROLE"]
    /\ NonReentrant
    /\ r.amount # 0
    /\ ~withdrawals[r].exists
    /\ withdrawals' = [withdrawals EXCEPT ![r] =
          [user |-> r.user, token |-> r.token, amount |-> r.amount,
           exists |-> TRUE, finalized |-> FALSE]]
    /\ UNCHANGED <<roles, balance, credited, paid, calls>>

Unchecked(request) == TRUE  \* mutant

HasLiquidity(request) == balance[request.token] >= request.amount

\* The record is marked and cleared, and the transfer runs; then the user's code.
FinalizeWithdraw(caller, r) ==
    LET request == withdrawals[r]
    IN  /\ caller \in roles["NITEWATCH_ROLE"]
        /\ NonReentrant
        /\ request.exists
        /\ ~request.finalized
        /\ HasLiquidity(request)
        /\ withdrawals' = [withdrawals EXCEPT ![r] = Cleared]
        /\ CallOut("pay", request.token, request.amount)
        /\ balance' = [balance EXCEPT ![request.token] = @ - request.amount]
        /\ paid' = [paid EXCEPT ![request.user][request.token] = @ + request.amount]
        /\ UNCHANGED <<roles, credited>>

FinalizeReturns ==
    /\ calls # <<>>
    /\ Head(calls).op = "pay"
    /\ calls' = Tail(calls)
    /\ UNCHANGED storage

\* The callee fails, and both callers revert: SafeERC20, or ETHTransferFailed.
CallReverts ==
    /\ calls # <<>>
    /\ LET saved == Head(calls).saved
       IN  /\ withdrawals' = saved.withdrawals
           /\ roles' = saved.roles
           /\ balance' = saved.balance
           /\ credited' = saved.credited
           /\ paid' = saved.paid
    /\ calls' = Tail(calls)

\* Unlike a finalized request, a rejected one keeps its fields.
RejectWithdraw(caller, r) ==
    /\ caller \in roles["NITEWATCH_ROLE"]
    /\ NonReentrant
    /\ withdrawals[r].exists
    /\ ~withdrawals[r].finalized
    /\ withdrawals' = [withdrawals EXCEPT ![r].finalized = TRUE]
    /\ UNCHANGED <<roles, balance, credited, paid, calls>>

-----------------------------------------------------------------------------
\* AccessControl's entry points are not nonReentrant: a callee may call them.
GrantRole(caller, role, account) ==
    /\ caller \in roles["DEFAULT_ADMIN_ROLE"]
    /\ roles' = [roles EXCEPT ![role] = @ \union {account}]
    /\ UNCHANGED <<withdrawals, balance, credited, paid, calls>>

\* revokeRole by an admin, renounceRole by the holder.
RemoveRole(caller, role, account) ==
    /\ caller = account \/ caller \in roles["DEFAULT_ADMIN_ROLE"]
    /\ roles' = [roles EXCEPT ![role] = @ \ {account}]
    /\ UNCHANGED <<withdrawals, balance, credited, paid, calls>>

\* A plain ERC20 transfer, or ether forced on the contract.
ReceiveTokens(t, n) ==
    /\ Arrive(t, n)
    /\ UNCHANGED <<withdrawals, roles, credited, paid, calls>>

Next ==
    \/ \E n \in 1 .. Supply : DepositETH(n)
    \/ \E t \in ERC20s, n \in 1 .. Supply, moved \in 0 .. Supply :
          moved <= n /\ DepositERC20(t, n, moved)
    \/ DepositReturns
    \/ \E c \in Accounts, r \in Requests :
          \/ StartWithdraw(c, r)
          \/ FinalizeWithdraw(c, r)
          \/ RejectWithdraw(c, r)
    \/ FinalizeReturns
    \/ CallReverts
    \/ \E c \in Accounts, change \in RoleChanges :
          GrantRole(c, change[1], change[2]) \/ RemoveRole(c, change[1], change[2])
    \/ \E t \in Tokens, n \in 1 .. Supply : ReceiveTokens(t, n)

Spec == Init /\ [][Next]_vars

-----------------------------------------------------------------------------
(***************************************************************************)
(* The rest of the world sees a transaction only when it commits: inside a *)
(* call it sees the state the outermost call would restore.                *)
(***************************************************************************)
Committed == IF calls = <<>> THEN Snapshot ELSE calls[Len(calls)].saved

StageOf(request) ==
    IF ~request.exists THEN "none"
    ELSE IF ~request.finalized THEN "pending"
    ELSE IF request.amount = 0 THEN "paid" ELSE "rejected"

Lifecycle == INSTANCE WithdrawLifecycle WITH
    stage <- [r \in Requests |-> StageOf(Committed.withdrawals[r])],
    held <- Committed.balance,
    credited <- Committed.credited,
    paid <- Committed.paid

\* Committed transactions behave as the lifecycle of IWithdraw: one start, then
\* one full payment to the user named in the id or one rejection, and neither a
\* reentrant callee nor a failed transfer takes more, or credits a deposit twice.
ImplementsLifecycle == Lifecycle!LifecycleSpec

Intact(mapping) ==
    \A r \in Requests :
        LET request == mapping[r]
        IN  request.exists /\ ~request.finalized =>
                /\ request.user = r.user
                /\ request.token = r.token
                /\ request.amount = r.amount
                /\ r.amount > 0

\* Until it is finalized a stored request holds exactly the parameters hashed
\* into its id, also inside a call, so what is paid is what was started.
PendingIntact == Intact(withdrawals)

\* The deposits announced for a token never exceed what the contract holds of
\* it plus what it paid out: off-chain ledgers that credit Deposited events stay
\* covered, whatever a token contract does inside transferFrom.
CreditsBacked ==
    \A t \in Tokens :
        credited[t] <= balance[t] + MapThenSumSet(LAMBDA u : paid[u][t], Accounts)
=============================================================================
