--------------------------- MODULE QuorumCustody ---------------------------
(***************************************************************************)
(* QuorumCustody.sol: any signer starts a withdrawal, a quorum of signers  *)
(* approves it, and after an hour any signer may reject it.  The signers   *)
(* change themselves, with signatures that a quorum of them made off-line. *)
(*                                                                         *)
(* ThresholdCustody.sol has the same withdrawal functions, line for line,  *)
(* and keeps its signers in OpenZeppelin's MultiSignerERC7913; what that   *)
(* library checks is known from its tests.                                 *)
(*                                                                         *)
(* As in SimpleCustody, a call to foreign code is two steps with a stack   *)
(* of unfinished calls.  The functions that change the signers do not      *)
(* carry nonReentrant, so a callee that is a signer may run them.          *)
(***************************************************************************)
EXTENDS Integers, Sequences, SequencesExt, FiniteSetsExt

CONSTANTS
    Contracts,  \* which of the two contracts may be deployed
    Accounts,   \* callers, signers and users
    ERC20s,     \* ERC20 token addresses
    Zero,       \* address(0): native ether, and no user
    Requests,   \* arguments of startWithdraw: [user, token, amount, nonce]
    initialSigners, initialQuorum,  \* the constructor's arguments
    Changes,    \* what signers may sign: [op, list, newQuorum, deadline]
    OPERATION_EXPIRY,   \* one hour, in clock ticks
    Fees,       \* what a token may keep of a transferFrom
    Supply, MaxTime, MaxDepth, MaxChanges, MaxSignatures    \* bounds

Tokens == ERC20s \union {Zero}

ASSUME QuorumCustodyAssumption ==
    /\ Contracts \subseteq {"QuorumCustody", "ThresholdCustody"}
    /\ Zero \notin ERC20s \union Accounts
    /\ Requests \subseteq
         [user : Accounts \union {Zero}, token : Tokens, amount : Nat, nonce : Nat]
    /\ Changes \subseteq [op : {"add", "remove"}, list : Seq(Accounts \union {Zero}),
                          newQuorum : Nat, deadline : Nat]
    /\ {OPERATION_EXPIRY, Supply, MaxChanges, MaxSignatures} \subseteq Nat
    /\ Fees \subseteq Nat
    /\ MaxDepth \in Nat \ {0} /\ MaxTime \in Nat \ {0}
    \* the constructor reverts unless these hold
    /\ initialSigners \in Seq(Accounts)
    /\ IsInjective(initialSigners)
    /\ initialQuorum \in 1 .. Len(initialSigners)

VARIABLES
    contract,       \* the one that is deployed
    withdrawals,    \* withdrawals[id]
    approvals,      \* withdrawalApprovals[id]: the signers that approved
    signers,        \* the array
    isSigner,       \* isSigner: the accounts it maps to true
    quorum,
    signerNonce,
    balance, credited, paid,    \* as in SimpleCustody
    uses,           \* history: the signatures that each change of signers used
    calls,          \* unfinished external calls, innermost first
    signatures,     \* what was signed, off-line: [signer, change, nonce]
    clock           \* block.timestamp

governance == <<contract, signers, isSigner, quorum, signerNonce, uses>>
money == <<balance, credited, paid>>
requests == <<withdrawals, approvals>>
vars == <<requests, governance, money, calls, signatures, clock>>

WithdrawalRequest ==
    [user : Accounts \union {Zero}, token : Tokens, amount : Nat, finalized : BOOLEAN,
     createdAt : Nat, requiredQuorum : Nat]

NoRequest ==
    [user |-> Zero, token |-> Zero, amount |-> 0, finalized |-> FALSE,
     createdAt |-> 0, requiredQuorum |-> 0]

Signatures == [signer : Accounts, change : Changes, nonce : Nat]

Storage ==
    [withdrawals : [Requests -> WithdrawalRequest],
     approvals : [Requests -> SUBSET Accounts],
     signers : Seq(Accounts \union {Zero}), isSigner : SUBSET (Accounts \union {Zero}),
     quorum : Nat, signerNonce : Nat, uses : Seq(SUBSET Signatures),
     balance : [Tokens -> Nat], credited : [Tokens -> Nat],
     paid : [Accounts -> [Tokens -> Nat]]]

Call ==
    [op : {"deposit"}, token : Tokens, amount : Nat, saved : Storage]
        \union [op : {"pay"}, id : Requests, saved : Storage]

Snapshot ==
    [withdrawals |-> withdrawals, approvals |-> approvals, signers |-> signers,
     isSigner |-> isSigner, quorum |-> quorum, signerNonce |-> signerNonce, uses |-> uses,
     balance |-> balance, credited |-> credited, paid |-> paid]

ByThreshold == contract = "ThresholdCustody"

TypeOK ==
    /\ contract \in Contracts
    /\ Snapshot \in Storage
    /\ ByThreshold \/ signers \in Seq(Accounts)
    /\ calls \in Seq(Call)
    /\ signatures \subseteq Signatures
    /\ clock \in 1 .. MaxTime

\* block.timestamp is never 0, which stands for "no such request".
Init ==
    /\ contract \in Contracts
    /\ withdrawals = [r \in Requests |-> NoRequest]
    /\ approvals = [r \in Requests |-> {}]
    /\ signers = initialSigners
    /\ isSigner = ToSet(initialSigners)
    /\ quorum = initialQuorum
    /\ signerNonce = 0
    /\ balance = [t \in Tokens |-> 0]
    /\ credited = [t \in Tokens |-> 0]
    /\ paid = [u \in Accounts |-> [t \in Tokens |-> 0]]
    /\ uses = <<>>
    /\ calls = <<>>
    /\ signatures = {}
    /\ clock = 1

NonReentrant == calls = <<>>

CallOut(call) ==
    /\ Len(calls) < MaxDepth
    /\ calls' = <<call>> \o calls

Arrive(t, n) ==
    /\ balance[t] + n <= Supply
    /\ balance' = [balance EXCEPT ![t] = @ + n]

\* All of a transaction has one timestamp; MaxTime stands for every later one.
Tick ==
    /\ calls = <<>>
    /\ clock' = Min({clock + 1, MaxTime})
    /\ UNCHANGED <<requests, governance, money, calls, signatures>>

-----------------------------------------------------------------------------
(***************************************************************************)
(* Changing the signers.                                                   *)
(***************************************************************************)
\* Anyone may sign anything; scripts sign for the nonce they read.  With a threshold
\* a change has the caller's signature too, so the bound grows with the changes.
Sign(account, change) ==
    /\ calls = <<>>
    /\ Cardinality(signatures) < MaxSignatures + (IF ByThreshold THEN Len(uses) ELSE 0)
    /\ signatures' = signatures \union
         {[signer |-> account, change |-> change, nonce |-> signerNonce]}
    /\ UNCHANGED <<requests, governance, money, calls, clock>>

\* _verifySignatures: sorting the signatures makes their signers distinct, and the
\* caller counts without one.  With a threshold, the caller has to sign as well.
Verifies(caller, given, change) ==
    LET signed == {s.signer : s \in given}
    IN  /\ \A s \in given : s.change = change /\ s.nonce = signerNonce
        /\ signed \subseteq isSigner
        /\ \/ ByThreshold /\ Cardinality(signed) >= quorum
           \/ ~ByThreshold /\ caller \notin signed /\ Cardinality(signed) + 1 >= quorum

\* mutant
NonceKept(given) == signerNonce' = signerNonce /\ uses' = Append(uses, given)

UseNonce(given) == signerNonce' = signerNonce + 1 /\ uses' = Append(uses, given)

\* mutant: without InvalidSigner
JoinUnlessSigner(list) == IsInjective(list) /\ ToSet(list) \intersect isSigner = {}

\* _addSigner, for each of the list; the library takes any address.
MayJoin(list) ==
    /\ IsInjective(list)
    /\ ToSet(list) \intersect isSigner = {}
    /\ ByThreshold \/ Zero \notin ToSet(list)

AddSigners(caller, change, given) ==
    LET newSigners == change.list
    IN  /\ Len(uses) < MaxChanges
        /\ change.op = "add"
        /\ caller \in isSigner
        /\ clock <= change.deadline
        /\ newSigners # <<>>
        /\ change.newQuorum \in 1 .. Len(signers) + Len(newSigners)
        /\ ByThreshold \/ change.newQuorum >= quorum
        /\ Verifies(caller, given, change)
        /\ MayJoin(newSigners)
        /\ UseNonce(given)
        /\ UNCHANGED contract
        /\ signers' = signers \o newSigners
        /\ isSigner' = isSigner \union ToSet(newSigners)
        /\ quorum' = change.newQuorum
        /\ UNCHANGED <<requests, money, calls, signatures, clock>>

\* mutant: the rest moves up by one, and the last one is popped as well
DropTwo(array, s) == SelectSeq(Front(array), LAMBDA x : x # s)

\* The last signer takes the place of the removed one.
SwapAndPop(array, s) ==
    LET j == CHOOSE i \in DOMAIN array : array[i] = s
    IN  Front([array EXCEPT ![j] = Last(array)])

RemoveSigners(caller, change, given) ==
    LET signersToRemove == change.list
        remainingCount == Len(signers) - Len(signersToRemove)
    IN  /\ Len(uses) < MaxChanges
        /\ change.op = "remove"
        /\ caller \in isSigner
        /\ clock <= change.deadline
        /\ signersToRemove # <<>>
        /\ remainingCount > 0
        /\ change.newQuorum \in 1 .. remainingCount
        /\ \/ ByThreshold /\ remainingCount >= quorum
           \/ ~ByThreshold /\ change.newQuorum >= Min({quorum, remainingCount})
        /\ Verifies(caller, given, change)
        /\ IsInjective(signersToRemove)
        /\ ToSet(signersToRemove) \subseteq isSigner
        /\ UseNonce(given)
        /\ UNCHANGED contract
        /\ signers' = FoldLeft(SwapAndPop, signers, signersToRemove)
        /\ isSigner' = isSigner \ ToSet(signersToRemove)
        /\ quorum' = change.newQuorum
        /\ UNCHANGED <<requests, money, calls, signatures, clock>>

-----------------------------------------------------------------------------
(***************************************************************************)
(* Deposits and withdrawals.                                               *)
(***************************************************************************)
DepositETH(amount) ==
    /\ NonReentrant
    /\ amount # 0
    /\ Arrive(Zero, amount)
    /\ credited' = [credited EXCEPT ![Zero] = @ + amount]
    /\ UNCHANGED <<requests, governance, paid, calls, signatures, clock>>

DepositERC20(t, amount, fee) ==
    /\ NonReentrant
    /\ amount # 0 /\ fee <= amount
    /\ CallOut([op |-> "deposit", token |-> t, amount |-> amount, saved |-> Snapshot])
    /\ Arrive(t, amount - fee)
    /\ UNCHANGED <<requests, governance, credited, paid, signatures, clock>>

\* What is announced is what was asked for, not what arrived.
DepositReturns ==
    /\ calls # <<>>
    /\ Head(calls).op = "deposit"
    /\ credited' = [credited EXCEPT ![Head(calls).token] = @ + Head(calls).amount]
    /\ calls' = Tail(calls)
    /\ UNCHANGED <<requests, governance, balance, paid, signatures, clock>>

StartWithdraw(caller, r) ==
    /\ caller \in isSigner
    /\ NonReentrant
    /\ r.user # Zero
    /\ r.amount # 0
    /\ withdrawals[r].createdAt = 0
    /\ withdrawals' = [withdrawals EXCEPT ![r] =
          [user |-> r.user, token |-> r.token, amount |-> r.amount, finalized |-> FALSE,
           createdAt |-> clock, requiredQuorum |-> quorum]]
    /\ UNCHANGED <<approvals, governance, money, calls, signatures, clock>>

AllApprovals(approved) == Cardinality(approved) \* mutant

\* _countValidApprovals: approvals of those who are signers now.
ValidApprovals(approved) ==
    Cardinality({i \in DOMAIN signers : signers[i] \in approved})

Expired(r) == clock > withdrawals[r].createdAt + OPERATION_EXPIRY

MayFinalize(caller, r) ==
    /\ caller \in isSigner
    /\ NonReentrant
    /\ withdrawals[r].createdAt # 0
    /\ ~withdrawals[r].finalized
    /\ ~Expired(r)
    /\ caller \notin approvals[r]

\* finalizeWithdraw, below the quorum.
Approve(caller, r) ==
    /\ MayFinalize(caller, r)
    /\ approvals' = [approvals EXCEPT ![r] = @ \union {caller}]
    /\ ValidApprovals(approvals[r] \union {caller}) < withdrawals[r].requiredQuorum
    /\ UNCHANGED <<withdrawals, governance, money, calls, signatures, clock>>

\* finalizeWithdraw with the approval that reaches the quorum: _executeWithdrawal.
FinalizeWithdraw(caller, r) ==
    LET request == withdrawals[r]
    IN  /\ MayFinalize(caller, r)
        /\ approvals' = [approvals EXCEPT ![r] = @ \union {caller}]
        /\ ValidApprovals(approvals[r] \union {caller}) >= request.requiredQuorum
        /\ withdrawals' = [withdrawals EXCEPT ![r].finalized = TRUE]
        /\ balance[request.token] >= request.amount
        /\ CallOut([op |-> "pay", id |-> r, saved |-> Snapshot])
        /\ balance' = [balance EXCEPT ![request.token] = @ - request.amount]
        /\ paid' = [paid EXCEPT ![request.user][request.token] = @ + request.amount]
        /\ UNCHANGED <<governance, credited, signatures, clock>>

\* The fields of the request are cleared after the transfer.
FinalizeReturns ==
    /\ calls # <<>>
    /\ Head(calls).op = "pay"
    /\ withdrawals' = [withdrawals EXCEPT ![Head(calls).id] =
          [@ EXCEPT !.user = Zero, !.token = Zero, !.amount = 0]]
    /\ calls' = Tail(calls)
    /\ UNCHANGED <<approvals, governance, money, signatures, clock>>

\* mutant: a failed transfer does not revert the payment
SendFailsSilently ==
    /\ calls # <<>>
    /\ Head(calls).op = "pay"
    /\ withdrawals' = [withdrawals EXCEPT ![Head(calls).id] =
          [@ EXCEPT !.user = Zero, !.token = Zero, !.amount = 0]]
    /\ balance' = Head(calls).saved.balance
    /\ paid' = Head(calls).saved.paid
    /\ calls' = Tail(calls)
    /\ UNCHANGED <<approvals, governance, credited, signatures, clock>>

CallReverts ==
    /\ calls # <<>>
    /\ LET saved == Head(calls).saved
       IN  /\ withdrawals' = saved.withdrawals /\ approvals' = saved.approvals
           /\ signers' = saved.signers /\ isSigner' = saved.isSigner
           /\ quorum' = saved.quorum /\ signerNonce' = saved.signerNonce
           /\ uses' = saved.uses /\ UNCHANGED contract
           /\ balance' = saved.balance
           /\ credited' = saved.credited
           /\ paid' = saved.paid
    /\ calls' = Tail(calls)
    /\ UNCHANGED <<signatures, clock>>

RejectWithdraw(caller, r) ==
    /\ caller \in isSigner
    /\ NonReentrant
    /\ withdrawals[r].createdAt # 0
    /\ ~withdrawals[r].finalized
    /\ Expired(r)
    /\ withdrawals' = [withdrawals EXCEPT ![r].finalized = TRUE]
    /\ UNCHANGED <<approvals, governance, money, calls, signatures, clock>>

\* A plain ERC20 transfer, or ether forced on the contract.
ReceiveTokens(t, n) ==
    /\ Arrive(t, n)
    /\ UNCHANGED <<requests, governance, credited, paid, calls, signatures, clock>>

Next ==
    \/ Tick
    \/ \E a \in Accounts, change \in Changes :
          \/ Sign(a, change)
          \/ \E given \in SUBSET signatures :
                AddSigners(a, change, given) \/ RemoveSigners(a, change, given)
    \/ \E n \in 1 .. Supply : DepositETH(n)
    \/ \E t \in ERC20s, n \in 1 .. Supply, fee \in Fees : DepositERC20(t, n, fee)
    \/ DepositReturns
    \/ \E t \in Tokens, n \in 1 .. Supply : ReceiveTokens(t, n)
    \/ \E a \in Accounts, r \in Requests :
          \/ StartWithdraw(a, r)
          \/ Approve(a, r) \/ FinalizeWithdraw(a, r)
          \/ RejectWithdraw(a, r)
    \/ FinalizeReturns
    \/ CallReverts

Spec == Init /\ [][Next]_vars

-----------------------------------------------------------------------------
\* The array and the mapping name the same signers, each once, and the quorum is
\* one they can reach, after any changes, also those a callee makes.
SignersConsistent ==
    /\ IsInjective(signers)
    /\ ToSet(signers) = isSigner
    /\ quorum \in 1 .. Len(signers)

\* A signature changes the signers at most once.
SignaturesUsedOnce ==
    \A i, j \in DOMAIN uses : i # j => uses[i] \intersect uses[j] = {}

\* A payment has the approvals of as many present signers as the quorum was when
\* the withdrawal started: an account that was removed does not count.
PaidByQuorum ==
    [][\A r \in Requests :
          withdrawals'[r].finalized /\ ~withdrawals[r].finalized /\ paid' # paid =>
              Cardinality(approvals'[r] \intersect isSigner) >= withdrawals[r].requiredQuorum]_vars

Committed == IF calls = <<>> THEN Snapshot ELSE calls[Len(calls)].saved

StageOf(request) ==
    IF request.createdAt = 0 THEN "none"
    ELSE IF ~request.finalized THEN "pending"
    ELSE IF request.amount = 0 THEN "paid" ELSE "rejected"

Lifecycle == INSTANCE WithdrawLifecycle WITH
    stage <- [r \in Requests |-> StageOf(Committed.withdrawals[r])],
    held <- Committed.balance,
    credited <- Committed.credited,
    paid <- Committed.paid

\* For tokens that move what they are asked to, committed transactions behave as
\* the lifecycle of IWithdraw, although a callee may change the signers and the
\* request is cleared only after it ran.
ImplementsLifecycle == Lifecycle!LifecycleSpec
=============================================================================
