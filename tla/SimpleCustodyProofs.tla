------------------------ MODULE SimpleCustodyProofs ------------------------
(***************************************************************************)
(* Proofs about SimpleCustody: type correctness, that a pending request    *)
(* stays what was hashed into its id, that the deposits it announced are   *)
(* backed, and that it implements the lifecycle of IWithdraw.  They hold   *)
(* for every finite set of accounts (an address has 160 bits), every set   *)
(* of tokens and requests, every supply and admissible depth of calls.     *)
(***************************************************************************)
EXTENDS SimpleCustody, DataTheorems, TLAPS

PaidSince(saved, r) ==
    /\ saved.withdrawals[r].exists
    /\ ~saved.withdrawals[r].finalized
    /\ withdrawals = [saved.withdrawals EXCEPT ![r] = Cleared]
    /\ paid = [saved.paid EXCEPT ![r.user][r.token] = @ + r.amount]
    /\ balance[r.token] >= saved.balance[r.token] - r.amount
    /\ \A t \in Tokens \ {r.token} : balance[t] >= saved.balance[t]

(***************************************************************************)
(* What holds while a call is out: nothing but the caller's own effect,    *)
(* role changes and gifts separates the state from the one to restore.     *)
(***************************************************************************)
Running(call) ==
    /\ Intact(call.saved.withdrawals)
    /\ credited = call.saved.credited
    /\ call.op = "deposit" =>
          /\ withdrawals = call.saved.withdrawals
          /\ paid = call.saved.paid
          /\ call.before = call.saved.balance[call.token]
          /\ \A t \in Tokens : balance[t] >= call.saved.balance[t]
    /\ call.op = "pay" => \E r \in Requests : PaidSince(call.saved, r)

Inv ==
    /\ TypeOK
    /\ PendingIntact
    /\ calls = <<>> \/ \E call \in Call : calls = <<call>> /\ Running(call)

-----------------------------------------------------------------------------
LEMMA Singleton ==
    ASSUME NEW S, NEW c \in S
    PROVE  /\ <<c>> \in Seq(S)
           /\ <<c>> # <<>>
           /\ Head(<<c>>) = c
           /\ Tail(<<c>>) = <<>>
           /\ Len(<<c>>) = 1
           /\ <<c>>[1] = c
           /\ <<c>> \o <<>> = <<c>>
  OBVIOUS

\* The record of a call that is made is well formed.
LEMMA CallOutType ==
    ASSUME TypeOK, NEW op \in {"deposit", "pay"}, NEW t \in Tokens, NEW n \in Nat,
           NonReentrant, CallOut(op, t, n)
    PROVE  \E call \in Call :
              /\ calls' = <<call>>
              /\ call = [op |-> op, token |-> t, amount |-> n,
                         before |-> balance[t], saved |-> Snapshot]
  <1>1. Snapshot \in Storage
    BY DEF TypeOK, Snapshot, Storage
  <1>2. [op |-> op, token |-> t, amount |-> n, before |-> balance[t],
         saved |-> Snapshot] \in Call
    BY <1>1 DEF Call, TypeOK
  <1> QED
    BY <1>2, Singleton DEF CallOut, NonReentrant

LEMMA InitInv == Init => Inv
  <1> SUFFICES ASSUME Init PROVE Inv
    OBVIOUS
  <1>1. NoRequest \in WithdrawalRequest
    BY DEF NoRequest, WithdrawalRequest, Tokens
  <1>2. roles \in [Roles -> SUBSET Accounts]
    BY CustodyAssumption DEF Init, Roles
  <1>3. TypeOK
    BY <1>1, <1>2 DEF Init, TypeOK
  <1>4. PendingIntact
    BY DEF Init, PendingIntact, Intact, NoRequest
  <1> QED
    BY <1>3, <1>4 DEF Inv, Init

-----------------------------------------------------------------------------
(***************************************************************************)
(* Each action preserves Inv.  First the ones nonReentrant forbids inside  *)
(* a call, then the returns of calls, then the ones a callee may run.      *)
(***************************************************************************)
LEMMA ArriveType ==
    ASSUME TypeOK, NEW t \in Tokens, NEW n \in Nat, Arrive(t, n)
    PROVE  /\ balance' \in [Tokens -> Nat]
           /\ \A other \in Tokens : balance'[other] >= balance[other]
           /\ balance'[t] = balance[t] + n
  BY DEF TypeOK, Arrive

LEMMA DepositETHInv ==
    ASSUME Inv, NEW n \in Nat, DepositETH(n)
    PROVE  Inv'
  <1>1. Zero \in Tokens
    BY DEF Tokens
  <1>2. TypeOK'
    BY <1>1, ArriveType DEF Inv, DepositETH, TypeOK
  <1> QED
    BY <1>2 DEF Inv, DepositETH, NonReentrant, PendingIntact, Intact

LEMMA DepositERC20Inv ==
    ASSUME Inv, NEW t \in ERC20s, NEW n \in Nat, NEW moved \in Nat,
           DepositERC20(t, n, moved)
    PROVE  Inv'
  <1>1. t \in Tokens
    BY DEF Tokens
  <1>2. PICK call \in Call :
           /\ calls' = <<call>>
           /\ call = [op |-> "deposit", token |-> t, amount |-> n,
                      before |-> balance[t], saved |-> Snapshot]
    BY <1>1, CallOutType DEF Inv, DepositERC20
  <1>3. TypeOK'
    BY <1>1, <1>2, ArriveType, Singleton DEF Inv, DepositERC20, TypeOK
  <1>4. Running(call)'
    BY <1>1, <1>2, ArriveType
    DEF Inv, DepositERC20, Running, Snapshot, PendingIntact
  <1> QED
    BY <1>2, <1>3, <1>4 DEF Inv, DepositERC20, PendingIntact, Intact

LEMMA StartWithdrawInv ==
    ASSUME Inv, NEW c \in Accounts, NEW r \in Requests, StartWithdraw(c, r)
    PROVE  Inv'
  <1>1. r \in [user : Accounts, token : Tokens, amount : Nat, nonce : Nat]
    BY CustodyAssumption
  <1>2. TypeOK'
    BY <1>1 DEF Inv, StartWithdraw, TypeOK, WithdrawalRequest
  <1>3. PendingIntact'
    BY <1>1 DEF Inv, StartWithdraw, PendingIntact, Intact, TypeOK
  <1> QED
    BY <1>2, <1>3 DEF Inv, StartWithdraw, NonReentrant

LEMMA FinalizeWithdrawInv ==
    ASSUME Inv, NEW c \in Accounts, NEW r \in Requests, FinalizeWithdraw(c, r)
    PROVE  Inv'
  <1> DEFINE request == withdrawals[r]
  <1>1. /\ request.user = r.user
        /\ request.token = r.token
        /\ request.amount = r.amount
        /\ r.user \in Accounts
        /\ r.token \in Tokens
        /\ r.amount \in Nat
    BY CustodyAssumption DEF Inv, FinalizeWithdraw, HasLiquidity, PendingIntact, Intact
  <1>2. PICK call \in Call :
           /\ calls' = <<call>>
           /\ call = [op |-> "pay", token |-> r.token, amount |-> r.amount,
                      before |-> balance[r.token], saved |-> Snapshot]
    BY <1>1, CallOutType DEF Inv, FinalizeWithdraw, HasLiquidity
  <1>3. Cleared \in WithdrawalRequest
    BY DEF Cleared, WithdrawalRequest, Tokens
  <1>4. TypeOK'
    <2>1. withdrawals' \in [Requests -> WithdrawalRequest] /\ roles' \in [Roles -> SUBSET Accounts]
      BY <1>3 DEF Inv, FinalizeWithdraw, TypeOK
    <2>2. balance' \in [Tokens -> Nat]
      BY <1>1 DEF Inv, FinalizeWithdraw, HasLiquidity, TypeOK
    <2>3. paid' \in [Accounts -> [Tokens -> Nat]] /\ credited' \in [Tokens -> Nat]
      BY <1>1 DEF Inv, FinalizeWithdraw, TypeOK
    <2>4. calls' \in Seq(Call)
      BY <1>2, Singleton
    <2> QED
      BY <2>1, <2>2, <2>3, <2>4 DEF TypeOK
  <1>5. PendingIntact'
    BY <1>1 DEF Inv, FinalizeWithdraw, HasLiquidity, PendingIntact, Intact, TypeOK, Cleared
  <1>6. PaidSince(call.saved, r)'
    <2>1. call.saved = Snapshot
      BY <1>2
    <2>2. balance \in [Tokens -> Nat]
      BY DEF Inv, TypeOK
    <2> QED
      BY <1>1, <2>1, <2>2 DEF FinalizeWithdraw, HasLiquidity, PaidSince, Snapshot
  <1>7. Running(call)'
    BY <1>2, <1>6 DEF Inv, FinalizeWithdraw, HasLiquidity, Running, Snapshot, PendingIntact
  <1> QED
    BY <1>2, <1>4, <1>5, <1>7 DEF Inv

LEMMA RejectWithdrawInv ==
    ASSUME Inv, NEW c \in Accounts, NEW r \in Requests, RejectWithdraw(c, r)
    PROVE  Inv'
  <1>1. TypeOK'
    BY DEF Inv, RejectWithdraw, TypeOK, WithdrawalRequest
  <1>2. PendingIntact'
    BY DEF Inv, RejectWithdraw, PendingIntact, Intact, TypeOK, WithdrawalRequest
  <1> QED
    BY <1>1, <1>2 DEF Inv, RejectWithdraw, NonReentrant

LEMMA ReturnsInv ==
    ASSUME Inv, DepositReturns \/ FinalizeReturns
    PROVE  Inv'
  <1>1. PICK call \in Call : calls = <<call>>
    BY DEF Inv, DepositReturns, Received, FinalizeReturns
  <1>2. Head(calls) = call /\ calls' = <<>>
    BY <1>1, Singleton DEF DepositReturns, Received, FinalizeReturns
  <1>3. credited' \in [Tokens -> Nat]
    <2>1. /\ credited \in [Tokens -> Nat]
          /\ balance \in [Tokens -> Nat]
          /\ call.token \in Tokens
          /\ call.before \in Nat
      BY DEF Inv, TypeOK, Call
    <2> QED
      BY <1>2, <2>1 DEF DepositReturns, Received, FinalizeReturns, storage
  <1>4. TypeOK'
    BY <1>2, <1>3 DEF Inv, DepositReturns, Received, FinalizeReturns, TypeOK, storage
  <1> QED
    BY <1>2, <1>4 DEF Inv, DepositReturns, Received, FinalizeReturns, storage, PendingIntact, Intact

LEMMA CallRevertsInv ==
    ASSUME Inv, CallReverts
    PROVE  Inv'
  <1>1. PICK call \in Call : calls = <<call>> /\ Running(call)
    BY DEF Inv, CallReverts
  <1>2. Head(calls) = call /\ calls' = <<>>
    BY <1>1, Singleton DEF CallReverts
  <1>3. call.saved \in Storage
    BY DEF Call
  <1>4. TypeOK'
    <2>1. calls' \in Seq(Call)
      BY <1>2
    <2> QED
      BY <1>2, <1>3, <2>1 DEF CallReverts, TypeOK, Storage
  <1> QED
    BY <1>1, <1>2, <1>4 DEF Inv, CallReverts, Running, PendingIntact, Intact

LEMMA RolesInv ==
    ASSUME Inv, NEW c \in Accounts, NEW change \in RoleChanges,
           \/ GrantRole(c, change[1], change[2])
           \/ RemoveRole(c, change[1], change[2])
    PROVE  Inv'
  <1>1. change[1] \in Roles /\ change[2] \in Accounts
    BY CustodyAssumption
  <1>2. UNCHANGED <<withdrawals, balance, credited, paid, calls>>
    BY DEF GrantRole, RemoveRole
  <1>3. roles' \in [Roles -> SUBSET Accounts]
    <2>1. roles \in [Roles -> SUBSET Accounts]
      BY DEF Inv, TypeOK
    <2> QED
      BY <1>1, <2>1 DEF GrantRole, RemoveRole
  <1>4. TypeOK'
    BY <1>2, <1>3 DEF Inv, TypeOK
  <1>5. ASSUME NEW call \in Call, Running(call)
        PROVE  Running(call)'
    BY <1>2, <1>5 DEF Running, PaidSince
  <1> QED
    BY <1>2, <1>4, <1>5 DEF Inv, PendingIntact

LEMMA ReceiveTokensInv ==
    ASSUME Inv, NEW t \in Tokens, NEW n \in Nat, ReceiveTokens(t, n)
    PROVE  Inv'
  <1>1. TypeOK'
    BY ArriveType DEF Inv, ReceiveTokens, TypeOK
  <1>2. ASSUME NEW call \in Call, calls = <<call>>, Running(call)
        PROVE  Running(call)'
    <2>1. /\ \A other \in Tokens : balance'[other] >= balance[other]
          /\ balance \in [Tokens -> Nat]
          /\ balance' \in [Tokens -> Nat]
          /\ call.saved.balance \in [Tokens -> Nat]
      BY ArriveType DEF Inv, TypeOK, ReceiveTokens, Call, Storage
    <2>2. ASSUME NEW r \in Requests, PaidSince(call.saved, r)
          PROVE  PaidSince(call.saved, r)'
      <3>1. r.token \in Tokens /\ r.amount \in Nat
        BY CustodyAssumption
      <3> QED
        BY <2>1, <2>2, <3>1 DEF PaidSince, ReceiveTokens
    <2> QED
      BY <1>2, <2>1, <2>2 DEF Running, ReceiveTokens
  <1> QED
    BY <1>1, <1>2 DEF Inv, ReceiveTokens, PendingIntact, Intact

THEOREM StepInv == Inv /\ [Next]_vars => Inv'
  <1> SUFFICES ASSUME Inv, [Next]_vars PROVE Inv'
    OBVIOUS
  <1>0. 1 .. Supply \subseteq Nat /\ 0 .. Supply \subseteq Nat
    BY CustodyAssumption
  <1>1. CASE \E n \in 1 .. Supply : DepositETH(n)
    BY <1>0, <1>1, DepositETHInv
  <1>2. CASE \E t \in ERC20s, n \in 1 .. Supply, moved \in 0 .. Supply :
                moved <= n /\ DepositERC20(t, n, moved)
    BY <1>0, <1>2, DepositERC20Inv
  <1>3. CASE \E c \in Accounts, r \in Requests :
                \/ StartWithdraw(c, r)
                \/ FinalizeWithdraw(c, r)
                \/ RejectWithdraw(c, r)
    BY <1>3, StartWithdrawInv, FinalizeWithdrawInv, RejectWithdrawInv
  <1>4. CASE DepositReturns \/ FinalizeReturns
    BY <1>4, ReturnsInv
  <1>5. CASE CallReverts
    BY <1>5, CallRevertsInv
  <1>6. CASE \E c \in Accounts, change \in RoleChanges :
                \/ GrantRole(c, change[1], change[2])
                \/ RemoveRole(c, change[1], change[2])
    BY <1>6, RolesInv
  <1>7. CASE \E t \in Tokens, n \in 1 .. Supply : ReceiveTokens(t, n)
    BY <1>0, <1>7, ReceiveTokensInv
  <1>8. CASE UNCHANGED vars
    <2>1. TypeOK'
      BY <1>8 DEF Inv, TypeOK, vars
    <2>2. ASSUME NEW call \in Call, Running(call)
          PROVE  Running(call)'
      BY <1>8, <2>2 DEF Running, PaidSince, vars
    <2> QED
      BY <1>8, <2>1, <2>2 DEF Inv, vars, PendingIntact
  <1> QED
    BY <1>1, <1>2, <1>3, <1>4, <1>5, <1>6, <1>7, <1>8 DEF Next

THEOREM Invariance == Spec => []Inv
  BY InitInv, StepInv, PTL DEF Spec

\* Every reachable state is well typed, for every deployment.
THEOREM TypeCorrect == Spec => []TypeOK
  <1>1. Inv => TypeOK
    BY DEF Inv
  <1> QED
    BY <1>1, Invariance, PTL

\* finalizeWithdraw can only read the parameters startWithdraw hashed.
THEOREM PendingIsIntact == Spec => []PendingIntact
  <1>1. Inv => PendingIntact
    BY DEF Inv
  <1> QED
    BY <1>1, Invariance, PTL

-----------------------------------------------------------------------------
(***************************************************************************)
(* Refinement.  Committed is the snapshot outside a call and the saved     *)
(* state inside one, so the steps that matter are those that start and end *)
(* outside a call, and the returns.                                        *)
(***************************************************************************)
LEMMA CommittedOutside ==
    /\ calls = <<>> => Committed = Snapshot
    /\ calls' = <<>> => Committed' = Snapshot'
  BY DEF Committed

LEMMA CommittedInside ==
    ASSUME NEW call \in Call, calls = <<call>>
    PROVE  Committed = call.saved
  BY Singleton DEF Committed

LEMMA SnapshotFields ==
    /\ Snapshot.withdrawals = withdrawals
    /\ Snapshot.balance = balance
    /\ Snapshot.credited = credited
    /\ Snapshot.paid = paid
    /\ Snapshot'.withdrawals = withdrawals'
    /\ Snapshot'.balance = balance'
    /\ Snapshot'.credited = credited'
    /\ Snapshot'.paid = paid'
  BY DEF Snapshot

LEMMA SameLifecycle ==
    ASSUME Committed'.withdrawals = Committed.withdrawals,
           Committed'.balance = Committed.balance,
           Committed'.credited = Committed.credited,
           Committed'.paid = Committed.paid
    PROVE  UNCHANGED Lifecycle!lifecycleVars
  BY DEF Lifecycle!lifecycleVars

LEMMA LifecycleInitially == Init => Lifecycle!LifecycleInit
  BY CommittedOutside, SnapshotFields DEF Init, Lifecycle!LifecycleInit, StageOf, NoRequest

\* A call out of the contract commits nothing.
LEMMA CallOutStutters ==
    ASSUME TypeOK, NEW op \in {"deposit", "pay"}, NEW t \in Tokens, NEW n \in Nat,
           NonReentrant, CallOut(op, t, n)
    PROVE  Committed' = Committed
  <1>1. PICK call \in Call :
           /\ calls' = <<call>>
           /\ call = [op |-> op, token |-> t, amount |-> n,
                      before |-> balance[t], saved |-> Snapshot]
    BY CallOutType
  <1>2. Committed' = call.saved
    BY <1>1, Singleton DEF Committed
  <1> QED
    BY <1>1, <1>2, CommittedOutside DEF NonReentrant

\* Outside a call the lifecycle's variables are the contract's own.
LEMMA OutsideSteps ==
    ASSUME calls = <<>>, calls' = <<>>
    PROVE  /\ Committed.withdrawals = withdrawals
           /\ Committed.balance = balance
           /\ Committed.credited = credited
           /\ Committed.paid = paid
           /\ Committed'.withdrawals = withdrawals'
           /\ Committed'.balance = balance'
           /\ Committed'.credited = credited'
           /\ Committed'.paid = paid'
  BY CommittedOutside, SnapshotFields

LEMMA DepositETHRefines ==
    ASSUME Inv, NEW n \in Nat, DepositETH(n)
    PROVE  Lifecycle!Deposit(Zero)
  <1>1. Zero \in Tokens
    BY DEF Tokens
  <1>2. /\ balance \in [Tokens -> Nat]
        /\ credited \in [Tokens -> Nat]
    BY DEF Inv, TypeOK
  <1>3. /\ balance' \in [Tokens -> Nat]
        /\ \A t \in Tokens : balance'[t] >= balance[t]
        /\ balance'[Zero] = balance[Zero] + n
    BY <1>1, <1>2 DEF DepositETH, Arrive
  <1>4. /\ credited' \in [Tokens -> Nat]
        /\ credited'[Zero] = credited[Zero] + n
        /\ \A t \in Tokens \ {Zero} : credited'[t] = credited[t]
    BY <1>1, <1>2 DEF DepositETH
  <1>5. calls = <<>> /\ calls' = <<>> /\ UNCHANGED <<withdrawals, paid>>
    BY DEF DepositETH, NonReentrant
  <1>6. /\ Committed.balance = balance /\ Committed'.balance = balance'
        /\ Committed.credited = credited /\ Committed'.credited = credited'
        /\ Committed'.withdrawals = Committed.withdrawals
        /\ Committed'.paid = Committed.paid
    BY <1>5, OutsideSteps
  <1>7. Lifecycle!Keeps
    BY <1>2, <1>3, <1>6 DEF Lifecycle!Keeps, Lifecycle!LosesAtMost
  <1>8. /\ Committed'.credited \in [Tokens -> Nat]
        /\ Committed'.credited[Zero] - Committed.credited[Zero]
              \in 0 .. Committed'.balance[Zero] - Committed.balance[Zero]
        /\ \A t \in Tokens \ {Zero} : Committed'.credited[t] = Committed.credited[t]
    <2>1. balance[Zero] \in Nat /\ credited[Zero] \in Nat
      BY <1>1, <1>2
    <2>2. credited'[Zero] - credited[Zero] = n /\ balance'[Zero] - balance[Zero] = n
      BY <1>3, <1>4, <2>1
    <2> QED
      BY <1>4, <1>6, <2>2
  <1> QED
    BY <1>6, <1>7, <1>8 DEF Lifecycle!Deposit

LEMMA StageTypes ==
    ASSUME Inv, NEW r \in Requests
    PROVE  /\ withdrawals \in [Requests -> WithdrawalRequest]
           /\ balance \in [Tokens -> Nat]
           /\ r.user \in Accounts
           /\ r.token \in Tokens
           /\ r.amount \in Nat
  BY CustodyAssumption DEF Inv, TypeOK

LEMMA StartWithdrawRefines ==
    ASSUME Inv, NEW c \in Accounts, NEW r \in Requests, StartWithdraw(c, r)
    PROVE  Lifecycle!Start(r)
  <1>1. calls = <<>> /\ calls' = <<>> /\ UNCHANGED <<balance, credited, paid>>
    BY DEF StartWithdraw, NonReentrant
  <1>2. StageOf(withdrawals[r]) = "none" /\ r.amount > 0
    BY StageTypes DEF StartWithdraw, StageOf
  <1>3. [q \in Requests |-> StageOf(withdrawals'[q])]
          = [[q \in Requests |-> StageOf(withdrawals[q])] EXCEPT ![r] = "pending"]
    BY StageTypes DEF StartWithdraw, StageOf
  <1>4. Lifecycle!Keeps
    BY <1>1, StageTypes, OutsideSteps DEF Lifecycle!Keeps, Lifecycle!LosesAtMost
  <1> QED
    BY <1>1, <1>2, <1>3, <1>4, OutsideSteps DEF Lifecycle!Start

LEMMA RejectWithdrawRefines ==
    ASSUME Inv, NEW c \in Accounts, NEW r \in Requests, RejectWithdraw(c, r)
    PROVE  Lifecycle!Reject(r)
  <1>1. calls = <<>> /\ calls' = <<>> /\ UNCHANGED <<balance, credited, paid>>
    BY DEF RejectWithdraw, NonReentrant
  <1>2. /\ withdrawals[r].amount # 0
        /\ StageOf(withdrawals[r]) = "pending"
    BY StageTypes DEF RejectWithdraw, StageOf, Inv, PendingIntact, Intact
  <1>3. /\ withdrawals'[r].exists
        /\ withdrawals'[r].finalized
        /\ withdrawals'[r].amount # 0
        /\ \A q \in Requests \ {r} : withdrawals'[q] = withdrawals[q]
    BY <1>2, StageTypes DEF RejectWithdraw, WithdrawalRequest
  <1>4. [q \in Requests |-> StageOf(withdrawals'[q])]
          = [[q \in Requests |-> StageOf(withdrawals[q])] EXCEPT ![r] = "rejected"]
    BY <1>3 DEF StageOf
  <1>5. Lifecycle!Keeps
    BY <1>1, StageTypes, OutsideSteps DEF Lifecycle!Keeps, Lifecycle!LosesAtMost
  <1> QED
    BY <1>1, <1>2, <1>4, <1>5, OutsideSteps DEF Lifecycle!Reject

LEMMA DepositReturnsRefines ==
    ASSUME Inv, DepositReturns
    PROVE  \E t \in Tokens : Lifecycle!Deposit(t)
  <1>1. PICK call \in Call : calls = <<call>> /\ Running(call)
    BY DEF Inv, DepositReturns, Received
  <1>2. Head(calls) = call /\ calls' = <<>> /\ UNCHANGED <<withdrawals, balance, paid>>
    BY <1>1, Singleton DEF DepositReturns, Received
  <1> DEFINE t == call.token
             received == balance[t] - call.before
  <1>3. /\ Committed = call.saved
        /\ Committed'.withdrawals = withdrawals
        /\ Committed'.balance = balance
        /\ Committed'.credited = credited'
        /\ Committed'.paid = paid
    BY <1>1, <1>2, CommittedInside, CommittedOutside, SnapshotFields
  <1>4. /\ call.op = "deposit"
        /\ received >= 0
        /\ credited' = [credited EXCEPT ![t] = @ + received]
    BY <1>2 DEF DepositReturns, Received
  <1>5. /\ withdrawals = call.saved.withdrawals
        /\ paid = call.saved.paid
        /\ credited = call.saved.credited
        /\ call.before = call.saved.balance[t]
        /\ \A other \in Tokens : balance[other] >= call.saved.balance[other]
    BY <1>1, <1>4 DEF Running
  <1>6. /\ t \in Tokens
        /\ call.before \in Nat
        /\ balance \in [Tokens -> Nat]
        /\ credited \in [Tokens -> Nat]
        /\ call.saved.balance \in [Tokens -> Nat]
    BY DEF Inv, TypeOK, Call, Storage
  <1>7. /\ credited' \in [Tokens -> Nat]
        /\ credited'[t] - credited[t] = received
        /\ \A other \in Tokens \ {t} : credited'[other] = credited[other]
    BY <1>4, <1>6
  <1>8. Lifecycle!Keeps
    BY <1>3, <1>5, <1>6 DEF Lifecycle!Keeps, Lifecycle!LosesAtMost
  <1>9. Lifecycle!Deposit(t)
    BY <1>3, <1>4, <1>5, <1>6, <1>7, <1>8 DEF Lifecycle!Deposit
  <1> QED
    BY <1>6, <1>9

LEMMA FinalizeReturnsRefines ==
    ASSUME Inv, FinalizeReturns
    PROVE  \E r \in Requests : Lifecycle!Pay(r)
  <1>1. PICK call \in Call : calls = <<call>> /\ Running(call)
    BY DEF Inv, FinalizeReturns
  <1>2. /\ Head(calls) = call
        /\ calls' = <<>>
        /\ call.op = "pay"
        /\ UNCHANGED <<withdrawals, balance, credited, paid>>
    BY <1>1, Singleton DEF FinalizeReturns, storage
  <1>3. /\ Committed = call.saved
        /\ Committed'.withdrawals = withdrawals
        /\ Committed'.balance = balance
        /\ Committed'.credited = credited
        /\ Committed'.paid = paid
    BY <1>1, <1>2, CommittedInside, CommittedOutside, SnapshotFields
  <1>4. PICK r \in Requests : PaidSince(call.saved, r)
    BY <1>1, <1>2 DEF Running
  <1>5. /\ call.saved \in Storage
        /\ balance \in [Tokens -> Nat]
    BY DEF Inv, TypeOK, Call
  <1>6. /\ StageOf(call.saved.withdrawals[r]) = "pending"
        /\ [q \in Requests |-> StageOf(withdrawals[q])]
             = [[q \in Requests |-> StageOf(call.saved.withdrawals[q])] EXCEPT ![r] = "paid"]
    <2>1. call.saved.withdrawals \in [Requests -> WithdrawalRequest]
      BY <1>5 DEF Storage
    <2>2. StageOf(call.saved.withdrawals[r]) = "pending"
      BY <1>4 DEF PaidSince, StageOf
    <2>3. /\ withdrawals[r] = Cleared
          /\ \A q \in Requests \ {r} : withdrawals[q] = call.saved.withdrawals[q]
      BY <1>4, <2>1 DEF PaidSince
    <2>4. /\ withdrawals[r].exists
          /\ withdrawals[r].finalized
          /\ withdrawals[r].amount = 0
      BY <2>3 DEF Cleared
    <2> DEFINE old == call.saved.withdrawals
    <2>5. \A q \in Requests \ {r} : withdrawals[q] = old[q]
      BY <2>3
    <2> HIDE DEF old
    <2>6. [q \in Requests |-> StageOf(withdrawals[q])]
            = [[q \in Requests |-> StageOf(old[q])] EXCEPT ![r] = "paid"]
      BY <2>4, <2>5 DEF StageOf
    <2> QED
      BY <2>2, <2>6 DEF old
  <1>7. Lifecycle!LosesAtMost(r.token, r.amount)
    BY <1>3, <1>4, <1>5 DEF PaidSince, Lifecycle!LosesAtMost
  <1>8. paid = [call.saved.paid EXCEPT ![r.user][r.token] = @ + r.amount]
    BY <1>4 DEF PaidSince
  <1>9. credited = call.saved.credited
    BY <1>1 DEF Running
  <1> QED
    BY <1>3, <1>6, <1>7, <1>8, <1>9 DEF Lifecycle!Pay

\* A revert restores what everyone else saw all along.
LEMMA CallRevertsStutters ==
    ASSUME Inv, CallReverts
    PROVE  UNCHANGED Lifecycle!lifecycleVars
  <1>1. PICK call \in Call : calls = <<call>>
    BY DEF Inv, CallReverts
  <1>2. Head(calls) = call /\ calls' = <<>>
    BY <1>1, Singleton DEF CallReverts
  <1>3. Committed = call.saved
    BY <1>1, CommittedInside
  <1> QED
    BY <1>2, <1>3, CommittedOutside, SnapshotFields, SameLifecycle DEF CallReverts

LEMMA RolesStutter ==
    ASSUME NEW c, NEW role, NEW a, GrantRole(c, role, a) \/ RemoveRole(c, role, a)
    PROVE  UNCHANGED Lifecycle!lifecycleVars
  <1>1. UNCHANGED <<withdrawals, balance, credited, paid, calls>>
    BY DEF GrantRole, RemoveRole
  <1> QED
    BY <1>1, SnapshotFields, SameLifecycle DEF Committed

LEMMA ReceiveTokensRefines ==
    ASSUME Inv, NEW t \in Tokens, NEW n \in Nat, ReceiveTokens(t, n)
    PROVE  Lifecycle!Receive \/ UNCHANGED Lifecycle!lifecycleVars
  <1>1. UNCHANGED <<withdrawals, credited, paid, calls>>
    BY DEF ReceiveTokens
  <1>2. CASE calls = <<>>
    <2>1. /\ balance' \in [Tokens -> Nat]
          /\ balance \in [Tokens -> Nat]
          /\ \A other \in Tokens : balance'[other] >= balance[other]
      <3>1. TypeOK /\ Arrive(t, n)
        BY DEF Inv, ReceiveTokens
      <3> QED
        BY <3>1, ArriveType DEF TypeOK
    <2>2. Lifecycle!Keeps
      BY <1>1, <1>2, <2>1, OutsideSteps DEF Lifecycle!Keeps, Lifecycle!LosesAtMost
    <2> QED
      BY <1>1, <1>2, <2>2, OutsideSteps DEF Lifecycle!Receive
  <1>3. CASE calls # <<>>
    <2>1. Committed' = Committed
      BY <1>1, <1>3 DEF Committed
    <2> QED
      BY <2>1, SameLifecycle
  <1> QED
    BY <1>2, <1>3

LEMMA StepRefines ==
    Inv /\ [Next]_vars => [Lifecycle!LifecycleNext]_Lifecycle!lifecycleVars
  <1> SUFFICES ASSUME Inv, [Next]_vars
               PROVE  Lifecycle!LifecycleNext \/ UNCHANGED Lifecycle!lifecycleVars
    OBVIOUS
  <1>0. /\ 1 .. Supply \subseteq Nat
        /\ 0 .. Supply \subseteq Nat
        /\ Zero \in Tokens
        /\ ERC20s \subseteq Tokens
        /\ TypeOK
    BY CustodyAssumption DEF Tokens, Inv
  <1>1. CASE \E n \in 1 .. Supply : DepositETH(n)
    BY <1>0, <1>1, DepositETHRefines DEF Lifecycle!LifecycleNext
  <1>2. CASE \E t \in ERC20s, n \in 1 .. Supply, moved \in 0 .. Supply :
                moved <= n /\ DepositERC20(t, n, moved)
    <2>1. PICK t \in ERC20s, n \in 1 .. Supply : NonReentrant /\ CallOut("deposit", t, n)
      BY <1>2 DEF DepositERC20
    <2> QED
      BY <1>0, <2>1, CallOutStutters, SameLifecycle
  <1>3. CASE \E c \in Accounts, r \in Requests : StartWithdraw(c, r) \/ RejectWithdraw(c, r)
    BY <1>3, StartWithdrawRefines, RejectWithdrawRefines DEF Lifecycle!LifecycleNext
  <1>4. CASE \E c \in Accounts, r \in Requests : FinalizeWithdraw(c, r)
    <2>1. PICK r \in Requests :
             NonReentrant /\ CallOut("pay", withdrawals[r].token, withdrawals[r].amount)
      BY <1>4 DEF FinalizeWithdraw
    <2>2. withdrawals[r].token \in Tokens /\ withdrawals[r].amount \in Nat
      BY <1>0 DEF TypeOK, WithdrawalRequest
    <2> QED
      BY <1>0, <2>1, <2>2, CallOutStutters, SameLifecycle
  <1>5. CASE DepositReturns
    BY <1>5, DepositReturnsRefines DEF Lifecycle!LifecycleNext
  <1>6. CASE FinalizeReturns
    BY <1>6, FinalizeReturnsRefines DEF Lifecycle!LifecycleNext
  <1>7. CASE CallReverts
    BY <1>7, CallRevertsStutters
  <1>8. CASE \E c \in Accounts, change \in RoleChanges :
                \/ GrantRole(c, change[1], change[2])
                \/ RemoveRole(c, change[1], change[2])
    BY <1>8, RolesStutter
  <1>9. CASE \E t \in Tokens, n \in 1 .. Supply : ReceiveTokens(t, n)
    BY <1>0, <1>9, ReceiveTokensRefines DEF Lifecycle!LifecycleNext
  <1>10. CASE UNCHANGED vars
    <2>1. Committed' = Committed
      BY <1>10 DEF vars, Committed, Snapshot
    <2> QED
      BY <2>1, SameLifecycle
  <1> QED
    BY <1>1, <1>2, <1>3, <1>4, <1>5, <1>6, <1>7, <1>8, <1>9, <1>10 DEF Next

\* The contract implements the lifecycle of IWithdraw: no reentrant callee, failed
\* transfer or change of roles makes it pay twice, pay less, or credit too much.
THEOREM Refinement == Spec => ImplementsLifecycle
  BY LifecycleInitially, Invariance, StepRefines, PTL
  DEF Spec, ImplementsLifecycle, Lifecycle!LifecycleSpec

-----------------------------------------------------------------------------
(***************************************************************************)
(* What is credited is backed.  A deposit is credited with the difference  *)
(* to a balance read before the call, so the inequality has to hold of the *)
(* saved state too: that difference is what the contract gained since.     *)
(***************************************************************************)
\* What every account was paid of a token.
PaidOf(p, t) == [u \in Accounts |-> p[u][t]]

Backed(s) == \A t \in Tokens : s.credited[t] <= s.balance[t] + Sum(PaidOf(s.paid, t), Accounts)

BackedInv ==
    /\ Backed(Snapshot)
    /\ \A call \in Call : calls = <<call>> => Backed(call.saved)

Money(s) ==
    /\ s.balance \in [Tokens -> Nat]
    /\ s.credited \in [Tokens -> Nat]
    /\ s.paid \in [Accounts -> [Tokens -> Nat]]

LEMMA PaidSum ==
    ASSUME NEW t
    PROVE  MapThenSumSet(LAMBDA u : paid[u][t], Accounts) = Sum(PaidOf(paid, t), Accounts)
  <1> DEFINE Q(e) == e = [s \in SUBSET Accounts |->
                             IF s = {} THEN 0 ELSE paid[Pick(s)][t] + e[s \ {Pick(s)}]]
             g == CHOOSE e : Q(e)
  <1>1. MapThenSumSet(LAMBDA u : paid[u][t], Accounts) = g[Accounts]
    BY DEF MapThenSumSet, MapThenFoldSet, Pick
  <1>2. ASSUME NEW e PROVE Q(e) <=> Sums(PaidOf(paid, t), e, Accounts)
    <2>1. \A s \in SUBSET Accounts : s # {} => PaidOf(paid, t)[Pick(s)] = paid[Pick(s)][t]
      BY PickIn DEF PaidOf
    <2> QED
      BY <2>1 DEF Sums, Step
  <1>3. IsFiniteSet(Accounts)
    BY CustodyAssumption
  <1>4. Q(g)
    BY <1>2, <1>3, SumsExist
  <1> QED
    BY <1>1, <1>2, <1>3, <1>4, SumIs

LEMMA PaidType ==
    ASSUME NEW p \in [Accounts -> [Tokens -> Nat]], NEW t \in Tokens
    PROVE  /\ \A u \in Accounts : PaidOf(p, t)[u] \in Nat
           /\ Sum(PaidOf(p, t), Accounts) \in Nat
  <1>1. \A u \in Accounts : PaidOf(p, t)[u] \in Nat
    BY DEF PaidOf
  <1>2. IsFiniteSet(Accounts)
    BY CustodyAssumption
  <1> QED
    BY <1>1, <1>2, SumPart

Pays(p, q, u, token, n) ==
    /\ q \in [Accounts -> [Tokens -> Nat]]
    /\ \A a \in Accounts, x \in Tokens :
          q[a][x] = IF a = u /\ x = token THEN p[a][x] + n ELSE p[a][x]

\* One payment adds its amount to the sum of its token, and to no other.
LEMMA PaidGrows ==
    ASSUME NEW p \in [Accounts -> [Tokens -> Nat]], NEW u \in Accounts, NEW token \in Tokens,
           NEW n \in Nat, NEW t \in Tokens, NEW q, Pays(p, q, u, token, n)
    PROVE  /\ t = token => Sum(PaidOf(q, t), Accounts) = Sum(PaidOf(p, t), Accounts) + n
           /\ t # token => Sum(PaidOf(q, t), Accounts) = Sum(PaidOf(p, t), Accounts)
  <1> DEFINE old == PaidOf(p, t)
             new == PaidOf(q, t)
  <1>1. /\ new[u] = IF t = token THEN old[u] + n ELSE old[u]
        /\ \A other \in Accounts \ {u} : new[other] = old[other]
    BY DEF PaidOf, Pays
  <1>2. /\ \A a \in Accounts : old[a] \in Nat /\ new[a] \in Nat
        /\ Sum(old, Accounts) \in Nat /\ Sum(new, Accounts) \in Nat
    BY PaidType DEF Pays
  <1>3. IsFiniteSet(Accounts)
    BY CustodyAssumption
  <1> HIDE DEF old, new
  <1>4. Sum(new, Accounts) - new[u] = Sum(old, Accounts) - old[u]
    BY <1>1, <1>2, <1>3, SumChanges
  <1>5. old[u] \in Nat /\ new[u] \in Nat
    BY <1>2
  <1>6. /\ t = token => Sum(new, Accounts) = Sum(old, Accounts) + n
        /\ t # token => Sum(new, Accounts) = Sum(old, Accounts)
    <2> DEFINE a == Sum(new, Accounts)
               b == Sum(old, Accounts)
               c == new[u]
               d == old[u]
    <2>1. a \in Nat /\ b \in Nat /\ c \in Nat /\ d \in Nat /\ a - c = b - d
      BY <1>2, <1>4, <1>5
    <2>2. c = IF t = token THEN d + n ELSE d
      BY <1>1
    <2> HIDE DEF a, b, c, d
    <2>3. ASSUME c = d + n PROVE a = b + n
      BY <2>1, <2>3
    <2>4. ASSUME c = d PROVE a = b
      BY <2>1, <2>4
    <2> QED
      BY <2>2, <2>3, <2>4 DEF a, b
  <1> QED
    BY <1>6 DEF new, old

LEMMA MoneyTypes ==
    /\ Inv => Money(Snapshot)
    /\ Inv' => Money(Snapshot')
    /\ \A call \in Call : Money(call.saved)
  BY SnapshotFields DEF Inv, TypeOK, Money, Call, Storage

\* Gifts only help.
LEMMA BackedMore ==
    ASSUME NEW s, Money(s), Backed(s), NEW z, Money(z),
           z.credited = s.credited, z.paid = s.paid, \A t \in Tokens : z.balance[t] >= s.balance[t]
    PROVE  Backed(z)
  <1> SUFFICES ASSUME NEW t \in Tokens
               PROVE  z.credited[t] <= z.balance[t] + Sum(PaidOf(z.paid, t), Accounts)
    BY DEF Backed
  <1>1. /\ s.credited[t] \in Nat /\ s.balance[t] \in Nat /\ z.balance[t] \in Nat
        /\ z.balance[t] >= s.balance[t]
    BY DEF Money
  <1>2. Sum(PaidOf(s.paid, t), Accounts) \in Nat
    BY PaidType DEF Money
  <1>3. s.credited[t] <= s.balance[t] + Sum(PaidOf(s.paid, t), Accounts)
    BY DEF Backed
  <1> QED
    BY <1>1, <1>2, <1>3

LEMMA BackedInitially == Init => BackedInv
  <1> SUFFICES ASSUME Init PROVE BackedInv
    OBVIOUS
  <1>1. Inv
    BY InitInv
  <1>2. Backed(Snapshot)
    <2> SUFFICES ASSUME NEW t \in Tokens
                 PROVE  credited[t] <= balance[t] + Sum(PaidOf(paid, t), Accounts)
      BY SnapshotFields DEF Backed
    <2>1. Sum(PaidOf(paid, t), Accounts) \in Nat
      BY <1>1, PaidType DEF Inv, TypeOK
    <2>2. credited[t] = 0 /\ balance[t] = 0
      BY DEF Init
    <2> QED
      BY <2>1, <2>2
  <1>3. calls = <<>>
    BY DEF Init
  <1> QED
    BY <1>2, <1>3, Singleton DEF BackedInv

LEMMA DepositETHBacked ==
    ASSUME Inv, Inv', BackedInv, NEW n \in Nat, DepositETH(n)
    PROVE  Backed(Snapshot')
  <1> SUFFICES ASSUME NEW t \in Tokens
               PROVE  credited'[t] <= balance'[t] + Sum(PaidOf(paid', t), Accounts)
    BY SnapshotFields DEF Backed
  <1>1. /\ balance \in [Tokens -> Nat] /\ credited \in [Tokens -> Nat]
        /\ Sum(PaidOf(paid, t), Accounts) \in Nat
    BY PaidType DEF Inv, TypeOK
  <1>2. credited[t] <= balance[t] + Sum(PaidOf(paid, t), Accounts)
    BY SnapshotFields DEF BackedInv, Backed
  <1>3. /\ paid' = paid
        /\ \/ t # Zero /\ credited'[t] = credited[t] /\ balance'[t] = balance[t]
           \/ credited'[t] = credited[t] + n /\ balance'[t] = balance[t] + n
    BY <1>1 DEF DepositETH, Arrive
  <1>4. credited[t] \in Nat /\ balance[t] \in Nat
    BY <1>1
  <1> QED
    BY <1>1, <1>2, <1>3, <1>4

LEMMA FinalizeWithdrawBacked ==
    ASSUME Inv, Inv', BackedInv, NEW c \in Accounts, NEW r \in Requests, FinalizeWithdraw(c, r)
    PROVE  Backed(Snapshot')
  <1> SUFFICES ASSUME NEW t \in Tokens
               PROVE  credited'[t] <= balance'[t] + Sum(PaidOf(paid', t), Accounts)
    BY SnapshotFields DEF Backed
  <1>1. /\ r.user \in Accounts /\ r.token \in Tokens /\ r.amount \in Nat
        /\ withdrawals[r].user = r.user /\ withdrawals[r].token = r.token
        /\ withdrawals[r].amount = r.amount
    BY CustodyAssumption DEF Inv, FinalizeWithdraw, HasLiquidity, PendingIntact, Intact
  <1>2. /\ balance \in [Tokens -> Nat] /\ credited \in [Tokens -> Nat]
        /\ paid \in [Accounts -> [Tokens -> Nat]]
        /\ Sum(PaidOf(paid, t), Accounts) \in Nat
    BY PaidType DEF Inv, TypeOK
  <1>3. /\ credited' = credited
        /\ t = r.token => balance'[t] = balance[t] - r.amount
        /\ t # r.token => balance'[t] = balance[t]
    BY <1>1, <1>2 DEF FinalizeWithdraw
  <1>4. /\ t = r.token =>
              Sum(PaidOf(paid', t), Accounts) = Sum(PaidOf(paid, t), Accounts) + r.amount
        /\ t # r.token => Sum(PaidOf(paid', t), Accounts) = Sum(PaidOf(paid, t), Accounts)
    <2>1. Pays(paid, paid', r.user, r.token, r.amount)
      BY <1>1, <1>2 DEF FinalizeWithdraw, Pays
    <2> QED
      BY <1>1, <1>2, <2>1, PaidGrows
  <1>5. credited[t] <= balance[t] + Sum(PaidOf(paid, t), Accounts)
    BY SnapshotFields DEF BackedInv, Backed
  <1>6. credited[t] \in Nat /\ balance[t] \in Nat
    BY <1>1, <1>2
  <1> QED
    BY <1>1, <1>2, <1>3, <1>4, <1>5, <1>6

LEMMA DepositReturnsBacked ==
    ASSUME Inv, Inv', BackedInv, DepositReturns
    PROVE  Backed(Snapshot')
  <1>1. PICK call \in Call : calls = <<call>> /\ Running(call)
    BY DEF Inv, DepositReturns
  <1>2. Head(calls) = call
    BY <1>1, Singleton
  <1> DEFINE saved == call.saved
  <1>3. /\ credited' = [credited EXCEPT ![call.token] = @ + (balance[call.token] - call.before)]
        /\ UNCHANGED <<balance, paid>> /\ call.op = "deposit"
    BY <1>2 DEF DepositReturns, Received
  <1>4. /\ credited = saved.credited /\ paid = saved.paid
        /\ call.before = saved.balance[call.token]
        /\ \A t \in Tokens : balance[t] >= saved.balance[t]
    BY <1>1, <1>3 DEF Running
  <1>5. Backed(saved) /\ Money(saved) /\ call.token \in Tokens
    BY <1>1, MoneyTypes DEF BackedInv, Call
  <1> SUFFICES ASSUME NEW t \in Tokens
               PROVE  credited'[t] <= balance'[t] + Sum(PaidOf(paid', t), Accounts)
    BY SnapshotFields DEF Backed
  <1> DEFINE sum == Sum(PaidOf(paid, t), Accounts)
             token == call.token
  <1>6. /\ saved.balance[t] \in Nat /\ saved.credited[t] \in Nat /\ balance[t] \in Nat
        /\ saved.balance[token] \in Nat
        /\ credited \in [Tokens -> Nat] /\ sum \in Nat
    BY <1>5, PaidType DEF Money, Inv, TypeOK
  <1>7. credited[t] <= saved.balance[t] + sum
    BY <1>4, <1>5 DEF Backed
  <1>8. /\ t # token => credited'[t] = credited[t]
        /\ t = token => credited'[t] = credited[t] + (balance[t] - saved.balance[t])
    BY <1>3, <1>4, <1>5, <1>6
  <1>9. balance'[t] = balance[t] /\ paid' = paid /\ credited[t] \in Nat
        /\ balance[t] >= saved.balance[t]
    BY <1>3, <1>4, <1>6
  <1> HIDE DEF sum, token, saved
  <1>10. credited'[t] <= balance[t] + sum
    BY <1>6, <1>7, <1>8, <1>9
  <1> QED
    BY <1>9, <1>10 DEF sum

LEMMA CallRevertsBacked ==
    ASSUME Inv, Inv', BackedInv, CallReverts
    PROVE  Backed(Snapshot')
  <1>1. PICK call \in Call : calls = <<call>> /\ Running(call)
    BY DEF Inv, CallReverts
  <1>2. Head(calls) = call /\ Backed(call.saved) /\ Money(call.saved)
    BY <1>1, Singleton, MoneyTypes DEF BackedInv
  <1>3. /\ balance' = call.saved.balance /\ credited' = call.saved.credited
        /\ paid' = call.saved.paid
    BY <1>2 DEF CallReverts
  <1> QED
    BY <1>2, <1>3, SnapshotFields DEF Backed

\* The other steps leave what was credited and paid alone.
LEMMA OtherStepsBacked ==
    ASSUME Inv, Inv', BackedInv, UNCHANGED <<credited, paid>>,
           \A t \in Tokens : balance'[t] >= balance[t]
    PROVE  Backed(Snapshot')
  <1>1. Money(Snapshot) /\ Money(Snapshot') /\ Backed(Snapshot)
    BY MoneyTypes DEF BackedInv
  <1> QED
    BY <1>1, SnapshotFields, BackedMore

LEMMA StepBacked ==
    ASSUME Inv, Inv', BackedInv, [Next]_vars
    PROVE  Backed(Snapshot')
  <1>0. /\ 1 .. Supply \subseteq Nat /\ 0 .. Supply \subseteq Nat /\ ERC20s \subseteq Tokens
        /\ balance \in [Tokens -> Nat]
    BY CustodyAssumption DEF Inv, TypeOK, Tokens
  <1>1. CASE \E n \in 1 .. Supply : DepositETH(n)
    BY <1>0, <1>1, DepositETHBacked
  <1>2. CASE \E c \in Accounts, r \in Requests : FinalizeWithdraw(c, r)
    BY <1>2, FinalizeWithdrawBacked
  <1>3. CASE DepositReturns
    BY <1>3, DepositReturnsBacked
  <1>4. CASE CallReverts
    BY <1>4, CallRevertsBacked
  <1>5. CASE \E t \in Tokens, n \in Nat : Arrive(t, n) /\ UNCHANGED <<credited, paid>>
    <2>1. \A t \in Tokens : balance'[t] >= balance[t]
      BY <1>5, ArriveType DEF Inv
    <2> QED
      BY <1>5, <2>1, OtherStepsBacked
  <1>6. CASE UNCHANGED <<balance, credited, paid>>
    BY <1>0, <1>6, OtherStepsBacked
  <1>7. CASE \/ \E t \in ERC20s, n \in 1 .. Supply, moved \in 0 .. Supply :
                   moved <= n /\ DepositERC20(t, n, moved)
             \/ \E t \in Tokens, n \in 1 .. Supply : ReceiveTokens(t, n)
    <2>1. \E t \in Tokens, n \in Nat : Arrive(t, n) /\ UNCHANGED <<credited, paid>>
      BY <1>0, <1>7 DEF DepositERC20, ReceiveTokens
    <2> QED
      BY <1>5, <2>1
  <1>8. CASE \/ \E c \in Accounts, r \in Requests : StartWithdraw(c, r) \/ RejectWithdraw(c, r)
             \/ FinalizeReturns
             \/ \E c \in Accounts, change \in RoleChanges :
                   GrantRole(c, change[1], change[2]) \/ RemoveRole(c, change[1], change[2])
             \/ UNCHANGED vars
    BY <1>6, <1>8 DEF StartWithdraw, RejectWithdraw, FinalizeReturns, storage, GrantRole,
                      RemoveRole, vars
  <1> QED
    BY <1>1, <1>2, <1>3, <1>4, <1>7, <1>8 DEF Next

\* The saved state of a call is the snapshot of the step that made it.
LEMMA SavedBacked ==
    ASSUME Inv, BackedInv, [Next]_vars, NEW call \in Call, calls' = <<call>>
    PROVE  Backed(call.saved)
  <1>0. 1 .. Supply \subseteq Nat /\ ERC20s \subseteq Tokens /\ TypeOK
    BY CustodyAssumption DEF Inv, Tokens
  <1>1. CASE UNCHANGED calls
    BY <1>1 DEF BackedInv
  <1>2. CASE \E op \in {"deposit", "pay"}, t \in Tokens, n \in Nat :
                NonReentrant /\ CallOut(op, t, n)
    <2>1. PICK made \in Call : calls' = <<made>> /\ made.saved = Snapshot
      BY <1>0, <1>2, CallOutType
    <2>2. made = call
      BY <2>1
    <2> QED
      BY <2>1, <2>2 DEF BackedInv
  <1>3. CASE \/ \E t \in ERC20s, n \in 1 .. Supply, moved \in 0 .. Supply :
                   moved <= n /\ DepositERC20(t, n, moved)
             \/ \E c \in Accounts, r \in Requests : FinalizeWithdraw(c, r)
    <2>1. \A r \in Requests : withdrawals[r].token \in Tokens /\ withdrawals[r].amount \in Nat
      BY <1>0 DEF TypeOK, WithdrawalRequest
    <2>2. \E op \in {"deposit", "pay"}, t \in Tokens, n \in Nat :
             NonReentrant /\ CallOut(op, t, n)
      BY <1>0, <1>3, <2>1 DEF DepositERC20, FinalizeWithdraw
    <2> QED
      BY <1>2, <2>2
  <1>4. CASE DepositReturns \/ FinalizeReturns \/ CallReverts
    <2>1. calls' = <<>>
      BY <1>4, Singleton DEF Inv, DepositReturns, FinalizeReturns, CallReverts
    <2> QED
      BY <2>1, Singleton
  <1>5. CASE \/ \E n \in 1 .. Supply : DepositETH(n)
             \/ \E c \in Accounts, r \in Requests : StartWithdraw(c, r) \/ RejectWithdraw(c, r)
             \/ \E c \in Accounts, change \in RoleChanges :
                   GrantRole(c, change[1], change[2]) \/ RemoveRole(c, change[1], change[2])
             \/ \E t \in Tokens, n \in 1 .. Supply : ReceiveTokens(t, n)
             \/ UNCHANGED vars
    BY <1>1, <1>5 DEF DepositETH, StartWithdraw, RejectWithdraw, GrantRole, RemoveRole,
                      ReceiveTokens, vars
  <1> QED
    BY <1>3, <1>4, <1>5 DEF Next

\* deposit credits what it measures, and what it measures arrived: however a token
\* behaves in transferFrom, the announced deposits are held or were paid out.
THEOREM CreditsAreBacked == Spec => []CreditsBacked
  <1>1. Inv /\ Inv' /\ BackedInv /\ [Next]_vars => BackedInv'
    <2> SUFFICES ASSUME Inv, Inv', BackedInv, [Next]_vars PROVE BackedInv'
      OBVIOUS
    <2>1. Backed(Snapshot')
      BY StepBacked
    <2>2. \A call \in Call : calls' = <<call>> => Backed(call.saved)
      BY SavedBacked
    <2> QED
      BY <2>1, <2>2 DEF BackedInv, Backed
  <1>2. BackedInv => CreditsBacked
    <2> SUFFICES ASSUME BackedInv, NEW t \in Tokens
                 PROVE  credited[t] <= balance[t] + MapThenSumSet(LAMBDA u : paid[u][t], Accounts)
      BY DEF CreditsBacked
    <2>1. credited[t] <= balance[t] + Sum(PaidOf(paid, t), Accounts)
      BY SnapshotFields DEF BackedInv, Backed
    <2>2. MapThenSumSet(LAMBDA u : paid[u][t], Accounts) = Sum(PaidOf(paid, t), Accounts)
      BY PaidSum
    <2> QED
      BY <2>1, <2>2
  <1> QED
    BY <1>1, <1>2, BackedInitially, Invariance, PTL DEF Spec
=============================================================================
