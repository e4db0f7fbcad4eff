------------------------- MODULE WithdrawLifecycle -------------------------
(***************************************************************************)
(* What a custody contract promises, however it approves and whatever runs *)
(* inside its transactions: a withdrawal is started once, then either paid *)
(* in full to its user or rejected, and the funds shrink by nothing else.  *)
(* SimpleCustody and QuorumCustody implement this module; Nitewatch runs   *)
(* the daemon over it.                                                     *)
(*                                                                         *)
(* An id is the record of the hashed parameters (keccak256 is collision    *)
(* free, and one deployment fixes the chain id and the contract address).  *)
(***************************************************************************)
EXTENDS Integers

CONSTANTS
    Accounts,   \* addresses that receive withdrawals
    Tokens,     \* ERC20 addresses, and the zero address for native ether
    Requests    \* what NeoDAX may start: [user, token, amount, nonce] records

VARIABLES
    stage,      \* stage[id]
    held,       \* held[t]: what the contract owns of token t
    credited,   \* credited[t]: sum of the Deposited events of token t
    paid        \* paid[u][t]: what withdrawals transferred to u

lifecycleVars == <<stage, held, credited, paid>>

Stages == {"none", "pending", "paid", "rejected"}

LifecycleTypeOK ==
    /\ stage \in [Requests -> Stages]
    /\ held \in [Tokens -> Nat]
    /\ credited \in [Tokens -> Nat]
    /\ paid \in [Accounts -> [Tokens -> Nat]]

LifecycleInit ==
    /\ stage = [r \in Requests |-> "none"]
    /\ held = [t \in Tokens |-> 0]
    /\ credited = [t \in Tokens |-> 0]
    /\ paid = [u \in Accounts |-> [t \in Tokens |-> 0]]

-----------------------------------------------------------------------------
(***************************************************************************)
(* Anyone may send tokens to the contract at any time, also from inside a  *)
(* transaction of its own, so a step bounds what it may lose.              *)
(***************************************************************************)
LosesAtMost(t, n) ==
    /\ held' \in [Tokens -> Nat]
    /\ held'[t] >= held[t] - n
    /\ \A other \in Tokens \ {t} : held'[other] >= held[other]

Keeps == \A t \in Tokens : LosesAtMost(t, 0)

\* A Deposited event announces at most what the contract gained.
Deposit(t) ==
    /\ Keeps
    /\ credited' \in [Tokens -> Nat]
    /\ credited'[t] - credited[t] \in 0 .. held'[t] - held[t]
    /\ \A other \in Tokens \ {t} : credited'[other] = credited[other]
    /\ UNCHANGED <<stage, paid>>

Receive ==
    /\ Keeps
    /\ UNCHANGED <<stage, credited, paid>>

Start(r) ==
    /\ stage[r] = "none"
    /\ r.amount > 0
    /\ stage' = [stage EXCEPT ![r] = "pending"]
    /\ Keeps
    /\ UNCHANGED <<credited, paid>>

Pay(r) ==
    /\ stage[r] = "pending"
    /\ stage' = [stage EXCEPT ![r] = "paid"]
    /\ paid' = [paid EXCEPT ![r.user][r.token] = @ + r.amount]
    /\ LosesAtMost(r.token, r.amount)
    /\ UNCHANGED credited

Reject(r) ==
    /\ stage[r] = "pending"
    /\ stage' = [stage EXCEPT ![r] = "rejected"]
    /\ Keeps
    /\ UNCHANGED <<credited, paid>>

LifecycleNext ==
    \/ \E t \in Tokens : Deposit(t)
    \/ Receive
    \/ \E r \in Requests : Start(r) \/ Pay(r) \/ Reject(r)

LifecycleSpec == LifecycleInit /\ [][LifecycleNext]_lifecycleVars
=============================================================================
