------------------------ MODULE QuorumCustodyProofs ------------------------
(***************************************************************************)
(* Proofs about QuorumCustody and ThresholdCustody: the array of signers,  *)
(* the mapping and the quorum agree after any changes, a signature is used *)
(* once, a payment has the approvals it needs, and the contract implements *)
(* the lifecycle of IWithdraw.  They hold for every set of accounts,       *)
(* tokens, requests and changes, every supply and every depth of calls.    *)
(***************************************************************************)
EXTENDS QuorumCustody, FiniteSetTheorems, NaturalsInduction, SequenceTheorems, TLAPS

LEMMA Singleton ==
    ASSUME NEW S, NEW c \in S
    PROVE  /\ <<c>> \in Seq(S)
           /\ <<c>> # <<>>
           /\ Head(<<c>>) = c
           /\ Tail(<<c>>) = <<>>
           /\ Len(<<c>>) = 1
           /\ <<c>>[1] = c
           /\ <<c>> \o <<>> = <<c>>
  OBVIOUS

LEMMA LeastNatural ==
    ASSUME NEW U \in SUBSET Nat, U # {}
    PROVE  \E m \in U : \A k \in 0 .. m - 1 : k \notin U
  <1>1. PICK m \in U : \A k \in U : <<k, m>> \notin OpToRel(<, Nat)
    BY NatLessThanWellFounded, WFMin
  <1>2. ASSUME NEW k \in 0 .. m - 1, k \in U
        PROVE  FALSE
    <2>1. m \in Nat /\ k \in Nat /\ k < m
      OBVIOUS
    <2>2. <<k, m>> \in OpToRel(<, Nat)
      BY <2>1 DEF OpToRel
    <2> QED
      BY <1>1, <1>2, <2>2
  <1> QED
    BY <1>2

-----------------------------------------------------------------------------
(***************************************************************************)
(* Removing signers.  The array stays free of duplicates and holds those   *)
(* who are not removed, whatever their places and the order of the list.   *)
(***************************************************************************)
LEMMA SwapAndPopRemoves ==
    ASSUME NEW S, NEW array \in Seq(S), IsInjective(array), NEW s \in ToSet(array)
    PROVE  /\ SwapAndPop(array, s) \in Seq(S)
           /\ Len(SwapAndPop(array, s)) = Len(array) - 1
           /\ IsInjective(SwapAndPop(array, s))
           /\ ToSet(SwapAndPop(array, s)) = ToSet(array) \ {s}
  <1> DEFINE n == Len(array)
             j == CHOOSE i \in DOMAIN array : array[i] = s
             moved == [array EXCEPT ![j] = array[n]]
             rest == SubSeq(moved, 1, n - 1)
  <1>1. n \in Nat /\ DOMAIN array = 1 .. n /\ \A i \in 1 .. n : array[i] \in S
    OBVIOUS
  <1>2. j \in 1 .. n /\ array[j] = s /\ n \in 1 .. n
    BY <1>1 DEF ToSet
  <1>3. /\ moved \in Seq(S) /\ Len(moved) = n
        /\ \A i \in 1 .. n : moved[i] = IF i = j THEN array[n] ELSE array[i]
    BY <1>1, <1>2
  <1>4. SwapAndPop(array, s) = rest
    BY <1>3 DEF SwapAndPop, Front, Last
  <1> HIDE DEF j
  <1>5. /\ rest \in Seq(S) /\ Len(rest) = n - 1
        /\ \A i \in 1 .. n - 1 : rest[i] = moved[i]
    <2>1. \A i \in 1 .. n - 1 : moved[i] \in S
      BY <1>1, <1>2, <1>3
    <2> HIDE DEF moved
    <2> QED
      BY <1>1, <1>2, <2>1, SubSeqProperties
  <1>6. \A i \in 1 .. n - 1 : rest[i] = IF i = j THEN array[n] ELSE array[i]
    BY <1>1, <1>3, <1>5
  <1>7. DOMAIN rest = 1 .. n - 1
    BY <1>5
  <1> HIDE DEF n, rest, moved
  <1>8. \A a, b \in 1 .. n : array[a] = array[b] => a = b
    BY <1>1 DEF IsInjective
  <1>9. IsInjective(rest)
    BY <1>1, <1>2, <1>6, <1>7, <1>8 DEF IsInjective
  <1>10. ToSet(rest) \subseteq ToSet(array) \ {s}
    BY <1>1, <1>2, <1>6, <1>7, <1>8 DEF ToSet
  <1>11. ASSUME NEW x \in ToSet(array), x # s
         PROVE  x \in ToSet(rest)
    <2>1. PICK i \in 1 .. n : x = array[i] /\ i # j
      BY <1>1, <1>2, <1>11 DEF ToSet
    <2>2. CASE i = n
      <3>1. j \in 1 .. n - 1
        BY <1>1, <1>2, <2>1, <2>2
      <3>2. rest[j] = x
        BY <1>6, <2>1, <2>2, <3>1
      <3> QED
        BY <3>1, <3>2, <1>7 DEF ToSet
    <2>3. CASE i # n
      <3>1. i \in 1 .. n - 1
        BY <1>1, <2>3
      <3>2. rest[i] = x
        BY <1>6, <2>1, <3>1
      <3> QED
        BY <3>1, <3>2, <1>7 DEF ToSet
    <2> QED
      BY <2>2, <2>3
  <1> QED
    BY <1>4, <1>5, <1>9, <1>10, <1>11 DEF n

\* e[s] is the array without list[i], for each i in s in order.
Removes(e, S, array, list) ==
    e = [s \in SUBSET S |->
            IF s = {} THEN array ELSE SwapAndPop(e[s \ {Max(s)}], list[Max(s)])]

LEMMA MaxIs ==
    ASSUME NEW k \in Nat, NEW s \in SUBSET (1 .. k + 1), k + 1 \in s
    PROVE  Max(s) = k + 1
  <1>1. \A y \in s : y \in Int /\ k + 1 >= y
    OBVIOUS
  <1>2. \A x \in s : (\A y \in s : x >= y) => x = k + 1
    BY <1>1
  <1> QED
    BY <1>1, <1>2 DEF Max

LEMMA RemovesExists ==
    ASSUME NEW array, NEW list, NEW n \in Nat
    PROVE  \E e : Removes(e, 1 .. n, array, list)
  <1> DEFINE U == {k \in Nat : \A e : ~Removes(e, 1 .. k, array, list)}
  <1> SUFFICES ASSUME U # {} PROVE FALSE
    OBVIOUS
  <1>1. PICK m \in U : \A k \in 0 .. m - 1 : k \notin U
    <2>1. U \in SUBSET Nat
      OBVIOUS
    <2> HIDE DEF U
    <2> QED
      BY <2>1, LeastNatural
  <1>2. CASE m = 0
    <2> DEFINE e == [s \in SUBSET (1 .. 0) |-> array]
    <2>1. SUBSET (1 .. 0) = {{}}
      OBVIOUS
    <2>2. Removes(e, 1 .. 0, array, list)
      BY <2>1 DEF Removes
    <2> QED
      BY <1>2, <2>2
  <1>3. CASE m # 0
    <2> DEFINE k == m - 1
    <2>1. k \in Nat /\ m = k + 1 /\ k \notin U
      BY <1>1, <1>3
    <2>2. PICK e : Removes(e, 1 .. k, array, list)
      BY <2>1
    <2> HIDE DEF k
    <2> DEFINE g == [s \in SUBSET (1 .. m) |->
                        IF m \in s THEN SwapAndPop(e[s \ {m}], list[m]) ELSE e[s]]
    <2>3. ASSUME NEW s \in SUBSET (1 .. m)
          PROVE  g[s] = IF s = {} THEN array
                        ELSE SwapAndPop(g[s \ {Max(s)}], list[Max(s)])
      <3>1. CASE m \in s
        <4>1. Max(s) = m
          BY <2>1, <3>1, MaxIs
        <4>2. g[s \ {m}] = e[s \ {m}]
          OBVIOUS
        <4> QED
          BY <3>1, <4>1, <4>2
      <3>2. CASE m \notin s
        <4>0. \A i \in 1 .. m : i # m => i \in 1 .. k
          BY <2>1
        <4>1. s \in SUBSET (1 .. k) /\ m \notin s \ {Max(s)} /\ s \ {Max(s)} \in SUBSET (1 .. m)
          BY <4>0, <3>2
        <4>2. g[s] = e[s] /\ g[s \ {Max(s)}] = e[s \ {Max(s)}]
          BY <3>2, <4>1
        <4>3. e[s] = IF s = {} THEN array ELSE SwapAndPop(e[s \ {Max(s)}], list[Max(s)])
          BY <2>2, <4>1 DEF Removes
        <4> QED
          BY <4>2, <4>3
      <3> QED
        BY <3>1, <3>2
    <2>4. Removes(g, 1 .. m, array, list)
      BY <2>3 DEF Removes
    <2> QED
      BY <2>4
  <1> QED
    BY <1>2, <1>3

LEMMA FoldRemoves ==
    ASSUME NEW array, NEW list, DOMAIN list = 1 .. Len(list), Len(list) \in Nat
    PROVE  \E e : /\ Removes(e, 1 .. Len(list), array, list)
                  /\ FoldLeft(SwapAndPop, array, list) = e[1 .. Len(list)]
  <1> DEFINE n == Len(list)
             e == CHOOSE f : Removes(f, 1 .. n, array, list)
  <1>1. FoldLeft(SwapAndPop, array, list) = e[1 .. n]
    BY DEF FoldLeft, MapThenFoldSet, Removes
  <1>2. Removes(e, 1 .. n, array, list)
    BY RemovesExists
  <1> QED
    BY <1>1, <1>2

\* Removing the signers of a list, one after the other, leaves the others.
LEMMA RemovalLeavesTheOthers ==
    ASSUME NEW S, NEW array \in Seq(S), IsInjective(array),
           NEW list \in Seq(S), IsInjective(list), ToSet(list) \subseteq ToSet(array)
    PROVE  LET rest == FoldLeft(SwapAndPop, array, list)
           IN  /\ rest \in Seq(S)
               /\ Len(rest) = Len(array) - Len(list)
               /\ IsInjective(rest)
               /\ ToSet(rest) = ToSet(array) \ ToSet(list)
  <1> DEFINE n == Len(list)
             Removed(k) == {list[i] : i \in 1 .. k}
             Left(rest, k) ==
                /\ rest \in Seq(S)
                /\ Len(rest) = Len(array) - k
                /\ IsInjective(rest)
                /\ ToSet(rest) = ToSet(array) \ Removed(k)
  <1>1. n \in Nat /\ DOMAIN list = 1 .. n
    OBVIOUS
  <1>2. PICK e : /\ Removes(e, 1 .. n, array, list)
                 /\ FoldLeft(SwapAndPop, array, list) = e[1 .. n]
    BY <1>1, FoldRemoves
  <1> DEFINE U == {k \in 0 .. n : ~Left(e[1 .. k], k)}
  <1>3. SUFFICES ASSUME U # {} PROVE FALSE
    <2>1. n \in 0 .. n /\ Removed(n) = ToSet(list)
      BY <1>1 DEF ToSet
    <2>2. Left(e[1 .. n], n)
      BY <2>1
    <2> QED
      BY <1>2, <2>1, <2>2
  <1>4. PICK m \in U : \A k \in 0 .. m - 1 : k \notin U
    <2>1. U \in SUBSET Nat
      BY <1>1
    <2> HIDE DEF U
    <2> QED
      BY <1>3, <2>1, LeastNatural
  <1>5. CASE m = 0
    <2>1. e[1 .. 0] = array
      BY <1>1, <1>2 DEF Removes
    <2>2. Removed(0) = {}
      OBVIOUS
    <2> QED
      BY <1>5, <2>1, <2>2
  <1>6. CASE m # 0
    <2> DEFINE k == m - 1
    <2>1. k \in 0 .. n /\ m = k + 1 /\ m \in 1 .. n /\ k \in Nat
      BY <1>1, <1>6
    <2>2. Left(e[1 .. k], k)
      BY <1>4, <2>1
    <2> HIDE DEF k
    <2>3. e[1 .. m] = SwapAndPop(e[1 .. k], list[m])
      <3>1. Max(1 .. m) = m
        BY <2>1, MaxIs
      <3>2. (1 .. m) \ {m} = 1 .. k
        BY <2>1
      <3>3. 1 .. m \in SUBSET (1 .. n) /\ 1 .. m # {}
        <4>1. m \in 1 .. m /\ \A i \in 1 .. m : i \in 1 .. n
          BY <1>1, <2>1
        <4> QED
          BY <4>1
      <3> QED
        BY <1>2, <3>1, <3>2, <3>3 DEF Removes
    <2>4. list[m] \in ToSet(array) \ Removed(k)
      <3>1. list[m] \in ToSet(array)
        BY <1>1, <2>1 DEF ToSet
      <3>2. \A i \in 1 .. k : i \in 1 .. n /\ i # m
        BY <2>1
      <3> QED
        BY <1>1, <2>1, <3>1, <3>2 DEF IsInjective
    <2>5. Removed(m) = Removed(k) \union {list[m]}
      <3>1. 1 .. m = (1 .. k) \union {m}
        BY <2>1
      <3> QED
        BY <3>1
    <2> DEFINE before == e[1 .. k]
    <2>6. /\ before \in Seq(S) /\ IsInjective(before) /\ list[m] \in ToSet(before)
          /\ Len(before) = Len(array) - k /\ ToSet(before) = ToSet(array) \ Removed(k)
      BY <2>2, <2>4
    <2> HIDE DEF before
    <2>7. /\ SwapAndPop(before, list[m]) \in Seq(S)
          /\ Len(SwapAndPop(before, list[m])) = Len(before) - 1
          /\ IsInjective(SwapAndPop(before, list[m]))
          /\ ToSet(SwapAndPop(before, list[m])) = ToSet(before) \ {list[m]}
      BY <2>6, SwapAndPopRemoves
    <2>8. Len(array) - k - 1 = Len(array) - m
      BY <2>1
    <2>9. Left(SwapAndPop(before, list[m]), m)
      <3> HIDE DEF Removed
      <3> QED
        BY <2>5, <2>6, <2>7, <2>8
    <2> QED
      BY <2>3, <2>9 DEF before
  <1> QED
    BY <1>5, <1>6
LEMMA JoinAdds ==
    ASSUME NEW S, NEW array \in Seq(S), IsInjective(array),
           NEW list \in Seq(S), IsInjective(list), ToSet(list) \intersect ToSet(array) = {}
    PROVE  /\ array \o list \in Seq(S)
           /\ Len(array \o list) = Len(array) + Len(list)
           /\ IsInjective(array \o list)
           /\ ToSet(array \o list) = ToSet(array) \union ToSet(list)
  <1> DEFINE n == Len(array)
             l == Len(list)
             both == array \o list
  <1>1. /\ both \in Seq(S) /\ Len(both) = n + l
        /\ \A i \in 1 .. n + l : both[i] = IF i <= n THEN array[i] ELSE list[i - n]
    BY ConcatProperties
  <1>2. n \in Nat /\ l \in Nat /\ DOMAIN array = 1 .. n /\ DOMAIN list = 1 .. l
    OBVIOUS
  <1>3. DOMAIN both = 1 .. n + l
    BY <1>1
  <1> HIDE DEF both, n, l
  <1>4. \A i \in 1 .. n + l : \/ i \in 1 .. n /\ both[i] = array[i]
                              \/ i > n /\ i - n \in 1 .. l /\ both[i] = list[i - n]
    BY <1>1, <1>2
  <1>5. \A i \in 1 .. n, k \in 1 .. l : array[i] # list[k]
    BY <1>2 DEF ToSet
  <1>6. IsInjective(both)
    <2> SUFFICES ASSUME NEW a \in 1 .. n + l, NEW b \in 1 .. n + l, both[a] = both[b]
                 PROVE  a = b
      BY <1>3 DEF IsInjective
    <2>1. CASE a \in 1 .. n /\ b \in 1 .. n
      <3>1. both[a] = array[a] /\ both[b] = array[b]
        BY <1>1, <1>2, <2>1
      <3> QED
        BY <1>2, <2>1, <3>1 DEF IsInjective
    <2>2. CASE a > n /\ b > n
      <3>1. a - n \in 1 .. l /\ b - n \in 1 .. l /\ list[a - n] = list[b - n]
        BY <1>1, <1>2, <2>2
      <3>2. a - n = b - n
        BY <1>2, <3>1 DEF IsInjective
      <3> QED
        BY <1>2, <3>2
    <2> QED
      BY <1>2, <1>4, <1>5, <2>1, <2>2
  <1>7. ASSUME NEW i \in 1 .. n
        PROVE  i \in 1 .. n + l /\ both[i] = array[i]
    BY <1>1, <1>2
  <1>8. ASSUME NEW i \in 1 .. l
        PROVE  n + i \in 1 .. n + l /\ both[n + i] = list[i]
    <2>1. n + i \in 1 .. n + l /\ ~(n + i <= n) /\ (n + i) - n = i
      BY <1>2
    <2> QED
      BY <1>1, <2>1
  <1>9. ToSet(both) = ToSet(array) \union ToSet(list)
    <2>1. ToSet(both) \subseteq ToSet(array) \union ToSet(list)
      BY <1>2, <1>3, <1>4 DEF ToSet
    <2>2. ToSet(array) \subseteq ToSet(both)
      BY <1>2, <1>3, <1>7 DEF ToSet
    <2>3. ToSet(list) \subseteq ToSet(both)
      BY <1>2, <1>3, <1>8 DEF ToSet
    <2> QED
      BY <2>1, <2>2, <2>3
  <1> QED
    BY <1>1, <1>6, <1>9 DEF both, n, l

LEMMA SeqOfPart ==
    ASSUME NEW S, NEW T, NEW list \in Seq(S), ToSet(list) \subseteq T
    PROVE  list \in Seq(T)
  BY DEF ToSet

LEMMA ElementsOfSeq ==
    ASSUME NEW S, NEW list \in Seq(S)
    PROVE  ToSet(list) \subseteq S
  BY DEF ToSet

-----------------------------------------------------------------------------
(***************************************************************************)
(* The inductive invariant.  A revert restores a saved state, so what is   *)
(* kept for the present state is kept for the saved one as well, and while *)
(* a call is out the two differ by the caller's own effect, by gifts and   *)
(* by changes of the signers.                                              *)
(***************************************************************************)
Sound(s) ==
    /\ ByThreshold \/ s.signers \in Seq(Accounts)
    /\ IsInjective(s.signers)
    /\ ToSet(s.signers) = s.isSigner
    /\ s.quorum \in 1 .. Len(s.signers)
    /\ s.signerNonce = Len(s.uses)
    /\ \A i \in DOMAIN s.uses : \A x \in s.uses[i] : x.nonce = i - 1

Open(request) == request.createdAt # 0 /\ ~request.finalized

\* An open request is still the one that was hashed into its id.
Intact(requested) ==
    \A r \in Requests :
        /\ Open(requested[r]) =>
              /\ r.user # Zero /\ r.amount # 0
              /\ requested[r].user = r.user
              /\ requested[r].token = r.token
              /\ requested[r].amount = r.amount
        /\ requested[r].createdAt = 0 => ~requested[r].finalized

Depositing(call) ==
    /\ withdrawals = call.saved.withdrawals /\ paid = call.saved.paid
    /\ \A t \in Tokens : balance[t] >= call.saved.balance[t]
    /\ Fees \subseteq {0} => balance[call.token] >= call.saved.balance[call.token] + call.amount

Paying(saved, r) ==
    /\ Open(saved.withdrawals[r])
    /\ withdrawals = [saved.withdrawals EXCEPT ![r].finalized = TRUE]
    /\ paid = [saved.paid EXCEPT ![r.user][r.token] = @ + r.amount]
    /\ \A t \in Tokens : balance[t] + (IF t = r.token THEN r.amount ELSE 0) >= saved.balance[t]

Running(call) ==
    /\ Sound(call.saved)
    /\ Intact(call.saved.withdrawals)
    /\ credited = call.saved.credited
    /\ call.op = "deposit" => Depositing(call)
    /\ call.op = "pay" => Paying(call.saved, call.id)

Inv ==
    /\ TypeOK
    /\ Sound(Snapshot)
    /\ Intact(withdrawals)
    /\ calls = <<>> \/ \E call \in Call : calls = <<call>> /\ Running(call)

-----------------------------------------------------------------------------
LEMMA SnapshotFields ==
    /\ Snapshot.withdrawals = withdrawals /\ Snapshot.approvals = approvals
    /\ Snapshot.signers = signers /\ Snapshot.isSigner = isSigner
    /\ Snapshot.quorum = quorum /\ Snapshot.signerNonce = signerNonce
    /\ Snapshot.uses = uses
    /\ Snapshot.balance = balance /\ Snapshot.credited = credited
    /\ Snapshot.paid = paid
    /\ Snapshot'.withdrawals = withdrawals'
    /\ Snapshot'.balance = balance' /\ Snapshot'.credited = credited'
    /\ Snapshot'.paid = paid'
  BY DEF Snapshot

\* The storage is well typed when each of its variables is.
LEMMA StorageType ==
    Snapshot \in Storage <=>
        /\ withdrawals \in [Requests -> WithdrawalRequest]
        /\ approvals \in [Requests -> SUBSET Accounts]
        /\ signers \in Seq(Accounts \union {Zero}) /\ isSigner \in SUBSET (Accounts \union {Zero})
        /\ quorum \in Nat /\ signerNonce \in Nat /\ uses \in Seq(SUBSET Signatures)
        /\ balance \in [Tokens -> Nat] /\ credited \in [Tokens -> Nat]
        /\ paid \in [Accounts -> [Tokens -> Nat]]
  BY DEF Snapshot, Storage

LEMMA SoundNow ==
    Sound(Snapshot) <=>
        /\ ByThreshold \/ signers \in Seq(Accounts)
        /\ IsInjective(signers)
        /\ ToSet(signers) = isSigner
        /\ quorum \in 1 .. Len(signers)
        /\ signerNonce = Len(uses)
        /\ \A i \in DOMAIN uses : \A x \in uses[i] : x.nonce = i - 1
  BY DEF Sound, Snapshot

LEMMA InitInv == Init => Inv
  <1> SUFFICES ASSUME Init PROVE Inv
    OBVIOUS
  <1>1. NoRequest \in WithdrawalRequest
    BY DEF NoRequest, WithdrawalRequest, Tokens
  <1>2. /\ initialSigners \in Seq(Accounts) /\ IsInjective(initialSigners)
        /\ initialSigners \in Seq(Accounts \union {Zero})
        /\ ToSet(initialSigners) \subseteq Accounts
        /\ initialQuorum \in 1 .. Len(initialSigners) /\ initialQuorum \in Nat
    BY QuorumCustodyAssumption, ElementsOfSeq
  <1>3. Snapshot \in Storage
    BY <1>1, <1>2, StorageType DEF Init
  <1>4. clock \in 1 .. MaxTime
    BY QuorumCustodyAssumption DEF Init
  <1>5. TypeOK
    BY <1>2, <1>3, <1>4 DEF Init, TypeOK
  <1>6. Sound(Snapshot)
    BY <1>2, SoundNow DEF Init
  <1>7. Intact(withdrawals)
    BY DEF Init, Intact, Open, NoRequest
  <1> QED
    BY <1>5, <1>6, <1>7 DEF Inv, Init

LEMMA ArriveType ==
    ASSUME balance \in [Tokens -> Nat], NEW t \in Tokens, NEW n \in Nat, Arrive(t, n)
    PROVE  /\ balance' \in [Tokens -> Nat]
           /\ \A other \in Tokens : balance'[other] >= balance[other]
           /\ balance'[t] = balance[t] + n
  BY DEF Arrive

LEMMA Typed ==
    ASSUME Inv
    PROVE  /\ withdrawals \in [Requests -> WithdrawalRequest]
           /\ approvals \in [Requests -> SUBSET Accounts]
           /\ signers \in Seq(Accounts \union {Zero}) /\ isSigner \in SUBSET (Accounts \union {Zero})
           /\ quorum \in Nat /\ signerNonce \in Nat /\ uses \in Seq(SUBSET Signatures)
           /\ balance \in [Tokens -> Nat] /\ credited \in [Tokens -> Nat]
           /\ paid \in [Accounts -> [Tokens -> Nat]]
           /\ clock \in Nat /\ clock # 0
           /\ Snapshot \in Storage
  BY StorageType, QuorumCustodyAssumption DEF Inv, TypeOK

LEMMA RequestTypes ==
    ASSUME NEW r \in Requests
    PROVE  /\ r.user \in Accounts \union {Zero} /\ r.token \in Tokens /\ r.amount \in Nat
           /\ Zero \in Tokens /\ Zero \notin Accounts
  BY QuorumCustodyAssumption DEF Tokens

-----------------------------------------------------------------------------
(***************************************************************************)
(* Each action preserves Inv.                                              *)
(***************************************************************************)
\* What a callee may do leaves the caller where it was.
LEMMA CallKept ==
    ASSUME Inv, UNCHANGED <<contract, withdrawals, credited, paid, calls>>,
           balance' \in [Tokens -> Nat], \A t \in Tokens : balance'[t] >= balance[t]
    PROVE  calls' = <<>> \/ \E call \in Call : calls' = <<call>> /\ Running(call)'
  <1>1. CASE calls = <<>>
    BY <1>1
  <1>2. CASE calls # <<>>
    <2>1. PICK call \in Call : calls = <<call>> /\ Running(call)
      BY <1>2 DEF Inv
    <2>2. Sound(call.saved)'
      BY <2>1 DEF Running, Sound, ByThreshold
    <2>3. balance \in [Tokens -> Nat] /\ call.saved.balance \in [Tokens -> Nat]
      BY Typed DEF Call, Storage
    <2>4. ASSUME call.op = "deposit"
          PROVE  Depositing(call)'
      <3>1. call.token \in Tokens /\ call.amount \in Nat /\ Depositing(call)
        BY <2>1, <2>4 DEF Running, Call
      <3> QED
        BY <2>3, <3>1 DEF Depositing
    <2>5. ASSUME call.op = "pay"
          PROVE  Paying(call.saved, call.id)'
      <3>1. call.id \in Requests /\ Paying(call.saved, call.id)
        BY <2>1, <2>5 DEF Running, Call
      <3>2. call.id.amount \in Nat
        BY <3>1, RequestTypes
      <3> QED
        BY <2>3, <3>1, <3>2 DEF Paying
    <2>6. Running(call)'
      BY <2>1, <2>2, <2>4, <2>5 DEF Running
    <2> QED
      BY <2>1, <2>6
  <1> QED
    BY <1>1, <1>2

\* The steps that leave the signers alone.
LEMMA SoundKept ==
    ASSUME Inv, UNCHANGED governance
    PROVE  Sound(Snapshot)' /\ contract' \in Contracts /\ (ByThreshold \/ signers \in Seq(Accounts))'
  <1>1. UNCHANGED <<contract, signers, isSigner, quorum, signerNonce, uses>>
    BY DEF governance
  <1>2. Sound(Snapshot) /\ contract \in Contracts /\ (ByThreshold \/ signers \in Seq(Accounts))
    BY DEF Inv, TypeOK
  <1> QED
    BY <1>1, <1>2 DEF Sound, Snapshot, ByThreshold

LEMMA SignInv ==
    ASSUME Inv, NEW a \in Accounts, NEW change \in Changes, Sign(a, change)
    PROVE  Inv'
  <1>1. [signer |-> a, change |-> change, nonce |-> signerNonce] \in Signatures
    BY Typed DEF Signatures
  <1>2. UNCHANGED <<requests, governance, money, calls, clock>>
    BY DEF Sign
  <1>3. signatures' \subseteq Signatures
    BY <1>1 DEF Inv, TypeOK, Sign
  <1>4. calls' = <<>> \/ \E call \in Call : calls' = <<call>> /\ Running(call)'
    BY DEF Sign
  <1>5. TypeOK'
    <2>1. Snapshot' = Snapshot
      BY <1>2 DEF Snapshot, requests, governance, money
    <2> QED
      BY <1>2, <1>3, <2>1, SoundKept DEF Inv, TypeOK
  <1>6. Intact(withdrawals)'
    BY <1>2 DEF Inv, requests
  <1> QED
    BY <1>2, <1>4, <1>5, <1>6, SoundKept DEF Inv

LEMMA TickInv ==
    ASSUME Inv, Tick
    PROVE  Inv'
  <1>1. UNCHANGED <<requests, governance, money, calls, signatures>>
    BY DEF Tick
  <1>2. clock' \in 1 .. MaxTime
    <2>1. clock \in 1 .. MaxTime /\ MaxTime \in Nat /\ clock' = Min({clock + 1, MaxTime})
      BY QuorumCustodyAssumption DEF Inv, TypeOK, Tick
    <2>2. clock + 1 \in 1 .. MaxTime \/ clock = MaxTime
      BY <2>1
    <2>3. Min({clock + 1, MaxTime}) \in {clock + 1, MaxTime}
          /\ \A y \in {clock + 1, MaxTime} : Min({clock + 1, MaxTime}) =< y
      <3>1. \E x \in {clock + 1, MaxTime} : \A y \in {clock + 1, MaxTime} : x =< y
        <4>1. clock + 1 \in Int /\ MaxTime \in Int
          BY <2>1
        <4> QED
          BY <4>1
      <3> QED
        BY <3>1 DEF Min
    <2> QED
      BY <2>1, <2>2, <2>3
  <1>3. TypeOK'
    <2>1. Snapshot' = Snapshot
      BY <1>1 DEF Snapshot, requests, governance, money
    <2> QED
      BY <1>1, <1>2, <2>1, SoundKept DEF Inv, TypeOK
  <1>4. Intact(withdrawals)' /\ calls' = <<>>
    BY <1>1 DEF Inv, requests, Tick
  <1> QED
    BY <1>1, <1>3, <1>4, SoundKept DEF Inv

\* A change of signers takes the next nonce, and signatures for that nonce only.
LEMMA UsesGrow ==
    ASSUME Inv, NEW caller, NEW change, NEW given \in SUBSET signatures,
           Verifies(caller, given, change), UseNonce(given)
    PROVE  /\ uses' \in Seq(SUBSET Signatures)
           /\ signerNonce' \in Nat
           /\ signerNonce' = Len(uses')
           /\ \A i \in DOMAIN uses' : \A x \in uses'[i] : x.nonce = i - 1
  <1>1. /\ uses \in Seq(SUBSET Signatures) /\ given \in SUBSET Signatures
        /\ signerNonce = Len(uses)
        /\ \A i \in DOMAIN uses : \A x \in uses[i] : x.nonce = i - 1
    BY Typed, SoundNow DEF Inv, TypeOK
  <1>2. uses' = Append(uses, given) /\ signerNonce' = signerNonce + 1
    BY DEF UseNonce
  <1>3. \A x \in given : x.nonce = signerNonce
    BY DEF Verifies
  <1>4. /\ uses' \in Seq(SUBSET Signatures) /\ Len(uses') = Len(uses) + 1
        /\ \A i \in 1 .. Len(uses) : uses'[i] = uses[i]
        /\ uses'[Len(uses) + 1] = given
    BY <1>1, <1>2, AppendProperties
  <1>5. ASSUME NEW i \in DOMAIN uses'
        PROVE  \A x \in uses'[i] : x.nonce = i - 1
    <2>1. i \in 1 .. Len(uses) \/ i = Len(uses) + 1
      BY <1>1, <1>4
    <2>2. CASE i \in 1 .. Len(uses)
      BY <1>1, <1>4, <2>2
    <2>3. CASE i = Len(uses) + 1
      <3>1. signerNonce = i - 1
        BY <1>1, <2>3
      <3> QED
        BY <1>3, <1>4, <2>3, <3>1
    <2> QED
      BY <2>1, <2>2, <2>3
  <1> QED
    BY <1>1, <1>2, <1>4, <1>5

\* What is left of a change once the array, the mapping and the quorum agree.
LEMMA ChangeInv ==
    ASSUME Inv, NEW caller, NEW change, NEW given \in SUBSET signatures,
           Verifies(caller, given, change), UseNonce(given),
           UNCHANGED <<contract, requests, money, calls, signatures, clock>>,
           signers' \in Seq(Accounts \union {Zero}), ByThreshold \/ signers' \in Seq(Accounts),
           IsInjective(signers'), ToSet(signers') = isSigner', quorum' \in 1 .. Len(signers')
    PROVE  Inv'
  <1>1. /\ uses' \in Seq(SUBSET Signatures)
        /\ signerNonce' \in Nat
        /\ signerNonce' = Len(uses')
        /\ \A i \in DOMAIN uses' : \A x \in uses'[i] : x.nonce = i - 1
    BY UsesGrow
  <1>2. UNCHANGED <<contract, withdrawals, approvals, balance, credited, paid, calls>>
    BY DEF requests, money
  <1>3. isSigner' \in SUBSET (Accounts \union {Zero}) /\ quorum' \in Nat
    BY ElementsOfSeq
  <1>4. (Snapshot \in Storage)'
    BY <1>1, <1>2, <1>3, Typed DEF Snapshot, Storage
  <1>5. (ByThreshold \/ signers \in Seq(Accounts))'
    BY DEF ByThreshold
  <1>6. TypeOK'
    BY <1>2, <1>4, <1>5 DEF Inv, TypeOK
  <1>7. Sound(Snapshot)'
    BY <1>1, <1>5 DEF Sound, Snapshot
  <1>8. Intact(withdrawals)'
    BY <1>2 DEF Inv
  <1>9. calls' = <<>> \/ \E call \in Call : calls' = <<call>> /\ Running(call)'
    <2>1. balance \in [Tokens -> Nat]
      BY Typed
    <2> QED
      BY <1>2, <2>1, CallKept
  <1> QED
    BY <1>6, <1>7, <1>8, <1>9 DEF Inv

LEMMA ChangeTypes ==
    ASSUME NEW change \in Changes
    PROVE  /\ change.list \in Seq(Accounts \union {Zero})
           /\ change.newQuorum \in Nat
  BY QuorumCustodyAssumption

LEMMA AddSignersInv ==
    ASSUME Inv, NEW caller, NEW change \in Changes, NEW given \in SUBSET signatures,
           AddSigners(caller, change, given)
    PROVE  Inv'
  <1> DEFINE list == change.list
             both == signers \o list
  <1>1. /\ signers \in Seq(Accounts \union {Zero}) /\ list \in Seq(Accounts \union {Zero})
        /\ IsInjective(signers) /\ IsInjective(list)
        /\ ToSet(signers) = isSigner /\ ToSet(list) \intersect ToSet(signers) = {}
    BY Typed, SoundNow, ChangeTypes DEF Inv, AddSigners, MayJoin
  <1>2. /\ both \in Seq(Accounts \union {Zero})
        /\ Len(both) = Len(signers) + Len(list)
        /\ IsInjective(both)
        /\ ToSet(both) = ToSet(signers) \union ToSet(list)
    BY <1>1, JoinAdds
  <1>3. ByThreshold \/ both \in Seq(Accounts)
    <2>1. CASE ~ByThreshold
      <3>1. signers \in Seq(Accounts) /\ Zero \notin ToSet(list)
        BY <2>1 DEF Inv, TypeOK, AddSigners, MayJoin
      <3>2. ToSet(both) \subseteq Accounts
        BY <1>1, <1>2, <3>1, ElementsOfSeq
      <3> QED
        BY <1>2, <3>2, SeqOfPart
    <2> QED
      BY <2>1
  <1>4. /\ signers' = both /\ isSigner' = isSigner \union ToSet(list) /\ quorum' = change.newQuorum
        /\ change.newQuorum \in 1 .. Len(signers) + Len(list)
        /\ Verifies(caller, given, change) /\ UseNonce(given)
        /\ UNCHANGED <<contract, requests, money, calls, signatures, clock>>
    BY DEF AddSigners
  <1> HIDE DEF both
  <1> QED
    BY <1>1, <1>2, <1>3, <1>4, ChangeInv

LEMMA RemoveSignersInv ==
    ASSUME Inv, NEW caller, NEW change \in Changes, NEW given \in SUBSET signatures,
           RemoveSigners(caller, change, given)
    PROVE  Inv'
  <1> DEFINE list == change.list
             rest == FoldLeft(SwapAndPop, signers, list)
  <1>1. /\ signers \in Seq(Accounts \union {Zero}) /\ list \in Seq(Accounts \union {Zero})
        /\ IsInjective(signers) /\ IsInjective(list)
        /\ ToSet(signers) = isSigner /\ ToSet(list) \subseteq ToSet(signers)
    BY Typed, SoundNow, ChangeTypes DEF Inv, RemoveSigners
  <1>2. /\ rest \in Seq(Accounts \union {Zero})
        /\ Len(rest) = Len(signers) - Len(list)
        /\ IsInjective(rest)
        /\ ToSet(rest) = ToSet(signers) \ ToSet(list)
    BY <1>1, RemovalLeavesTheOthers
  <1>3. /\ signers' = rest /\ isSigner' = isSigner \ ToSet(list) /\ quorum' = change.newQuorum
        /\ change.newQuorum \in 1 .. Len(signers) - Len(list)
        /\ Verifies(caller, given, change) /\ UseNonce(given)
        /\ UNCHANGED <<contract, requests, money, calls, signatures, clock>>
    BY DEF RemoveSigners
  <1> HIDE DEF rest
  <1>4. ByThreshold \/ rest \in Seq(Accounts)
    <2>1. CASE ~ByThreshold
      <3>1. ToSet(rest) \subseteq Accounts
        BY <1>2, <2>1, ElementsOfSeq DEF Inv, TypeOK
      <3> QED
        BY <1>2, <3>1, SeqOfPart
    <2> QED
      BY <2>1
  <1> QED
    BY <1>1, <1>2, <1>3, <1>4, ChangeInv

\* What is left of a step that leaves the signers alone.
LEMMA OtherStepInv ==
    ASSUME Inv, UNCHANGED <<governance, signatures, clock>>,
           withdrawals' \in [Requests -> WithdrawalRequest],
           approvals' \in [Requests -> SUBSET Accounts],
           balance' \in [Tokens -> Nat], credited' \in [Tokens -> Nat],
           paid' \in [Accounts -> [Tokens -> Nat]],
           calls' \in Seq(Call),
           Intact(withdrawals'),
           calls' = <<>> \/ \E call \in Call : calls' = <<call>> /\ Running(call)'
    PROVE  Inv'
  <1>1. (Snapshot \in Storage)'
    BY Typed DEF Snapshot, Storage, governance
  <1>2. TypeOK'
    BY <1>1, SoundKept DEF Inv, TypeOK
  <1> QED
    BY <1>2, SoundKept DEF Inv

\* A call that is made saves a sound state.
LEMMA CallOutType ==
    ASSUME Inv, NEW call, call \in [op : {"deposit"}, token : Tokens, amount : Nat, saved : {Snapshot}]
                              \union [op : {"pay"}, id : Requests, saved : {Snapshot}],
           NonReentrant, CallOut(call)
    PROVE  /\ calls' = <<call>> /\ call \in Call /\ calls' \in Seq(Call)
           /\ call.saved = Snapshot
           /\ Sound(call.saved) /\ Intact(call.saved.withdrawals)
  <1>1. Snapshot \in Storage
    BY Typed
  <1>2. call \in Call /\ call.saved = Snapshot
    BY <1>1 DEF Call
  <1>3. calls' = <<call>>
    BY <1>2, Singleton DEF CallOut, NonReentrant
  <1> QED
    BY <1>2, <1>3, Singleton, SnapshotFields DEF Inv

LEMMA SavedStaysSound ==
    ASSUME NEW saved, Sound(saved), UNCHANGED governance
    PROVE  Sound(saved)'
  BY DEF Sound, ByThreshold, governance

LEMMA DepositETHInv ==
    ASSUME Inv, NEW n \in Nat, DepositETH(n)
    PROVE  Inv'
  <1>1. /\ UNCHANGED <<requests, governance, paid, calls, signatures, clock>>
        /\ calls = <<>> /\ Arrive(Zero, n) /\ credited' = [credited EXCEPT ![Zero] = @ + n]
    BY DEF DepositETH, NonReentrant
  <1>2. Zero \in Tokens
    BY DEF Tokens
  <1>3. balance' \in [Tokens -> Nat]
    BY <1>1, <1>2, Typed, ArriveType
  <1>4. credited' \in [Tokens -> Nat]
    BY <1>1, <1>2, Typed
  <1> QED
    BY <1>1, <1>3, <1>4, Typed, OtherStepInv DEF Inv, TypeOK, requests

LEMMA DepositERC20Inv ==
    ASSUME Inv, NEW t \in ERC20s, NEW n \in Nat, NEW fee \in Fees, DepositERC20(t, n, fee)
    PROVE  Inv'
  <1> DEFINE call == [op |-> "deposit", token |-> t, amount |-> n, saved |-> Snapshot]
  <1>1. t \in Tokens /\ fee \in Nat /\ fee <= n /\ n - fee \in Nat
    BY QuorumCustodyAssumption DEF Tokens, DepositERC20
  <1>2. /\ UNCHANGED <<requests, governance, credited, paid, signatures, clock>>
        /\ NonReentrant /\ CallOut(call) /\ Arrive(t, n - fee)
    BY DEF DepositERC20
  <1>3. /\ call.op = "deposit" /\ call.token = t /\ call.amount = n
        /\ call \in [op : {"deposit"}, token : Tokens, amount : Nat, saved : {Snapshot}]
    BY <1>1
  <1> HIDE DEF call
  <1>4. /\ calls' = <<call>> /\ call \in Call /\ calls' \in Seq(Call)
        /\ call.saved = Snapshot
        /\ Sound(call.saved) /\ Intact(call.saved.withdrawals)
    BY <1>2, <1>3, CallOutType
  <1>5. /\ balance' \in [Tokens -> Nat]
        /\ \A other \in Tokens : balance'[other] >= balance[other]
        /\ balance'[t] = balance[t] + (n - fee)
    BY <1>1, <1>2, Typed, ArriveType
  <1>6. ASSUME NEW c, c = call
        PROVE  Running(c)'
    <2>2. Sound(c.saved)'
      BY <1>2, <1>4, <1>6, SavedStaysSound
    <2>3. Depositing(c)'
      <3>1. Fees \subseteq {0} => balance'[t] = balance[t] + n
        <4>1. balance[t] \in Nat
          BY <1>1, Typed
        <4>2. fee = 0 => balance[t] + (n - fee) = balance[t] + n
          BY <4>1
        <4> QED
          BY <1>5, <4>2
      <3>2. Fees \subseteq {0} => balance'[t] >= balance[t] + n
        <4>1. balance'[t] \in Nat
          BY <1>1, <1>5
        <4> QED
          BY <3>1, <4>1
      <3> QED
        BY <1>2, <1>3, <1>4, <1>5, <1>6, <3>2, SnapshotFields DEF Depositing, requests
    <2>4. credited' = c.saved.credited
      BY <1>2, <1>4, <1>6, SnapshotFields
    <2> QED
      BY <1>3, <1>4, <1>6, <2>2, <2>3, <2>4 DEF Running
  <1>7. \E c \in Call : calls' = <<c>> /\ Running(c)'
    BY <1>4, <1>6
  <1> QED
    BY <1>2, <1>4, <1>5, <1>7, Typed, OtherStepInv DEF Inv, requests

LEMMA StartWithdrawInv ==
    ASSUME Inv, NEW caller, NEW r \in Requests, StartWithdraw(caller, r)
    PROVE  Inv'
  <1>1. /\ UNCHANGED <<approvals, governance, money, calls, signatures, clock>>
        /\ calls = <<>> /\ r.user # Zero /\ r.amount # 0
    BY DEF StartWithdraw, NonReentrant
  <1> DEFINE request == [user |-> r.user, token |-> r.token, amount |-> r.amount,
                         finalized |-> FALSE, createdAt |-> clock, requiredQuorum |-> quorum]
  <1>2. request \in WithdrawalRequest
    BY Typed, RequestTypes DEF WithdrawalRequest
  <1>3. /\ request.user = r.user /\ request.token = r.token /\ request.amount = r.amount
        /\ ~request.finalized
    OBVIOUS
  <1>4. withdrawals' = [withdrawals EXCEPT ![r] = request]
    BY DEF StartWithdraw
  <1> HIDE DEF request
  <1>5. withdrawals' \in [Requests -> WithdrawalRequest]
    BY <1>2, <1>4, Typed
  <1>6. Intact(withdrawals')
    <2>1. \A q \in Requests : withdrawals'[q] = IF q = r THEN request ELSE withdrawals[q]
      BY <1>4, Typed
    <2> QED
      BY <1>1, <1>3, <2>1 DEF Inv, Intact
  <1> QED
    BY <1>1, <1>5, <1>6, Typed, OtherStepInv DEF Inv, TypeOK, money

LEMMA ApproveInv ==
    ASSUME Inv, NEW caller \in Accounts, NEW r \in Requests, Approve(caller, r)
    PROVE  Inv'
  <1>1. /\ UNCHANGED <<withdrawals, governance, money, calls, signatures, clock>>
        /\ calls = <<>> /\ approvals' = [approvals EXCEPT ![r] = @ \union {caller}]
    BY DEF Approve, MayFinalize, NonReentrant
  <1>2. approvals' \in [Requests -> SUBSET Accounts]
    BY <1>1, Typed
  <1> QED
    BY <1>1, <1>2, Typed, OtherStepInv DEF Inv, TypeOK, money

LEMMA RejectWithdrawInv ==
    ASSUME Inv, NEW caller, NEW r \in Requests, RejectWithdraw(caller, r)
    PROVE  Inv'
  <1>1. /\ UNCHANGED <<approvals, governance, money, calls, signatures, clock>>
        /\ calls = <<>> /\ withdrawals' = [withdrawals EXCEPT ![r].finalized = TRUE]
        /\ withdrawals[r].createdAt # 0
    BY DEF RejectWithdraw, NonReentrant
  <1>2. withdrawals' \in [Requests -> WithdrawalRequest]
    BY <1>1, Typed DEF WithdrawalRequest
  <1>3. Intact(withdrawals')
    <2>1. /\ \A q \in Requests \ {r} : withdrawals'[q] = withdrawals[q]
          /\ withdrawals'[r].finalized /\ withdrawals'[r].createdAt = withdrawals[r].createdAt
      BY <1>1, Typed DEF WithdrawalRequest
    <2> QED
      BY <1>1, <2>1 DEF Inv, Intact, Open
  <1> QED
    BY <1>1, <1>2, <1>3, Typed, OtherStepInv DEF Inv, TypeOK, money

LEMMA ReceiveTokensInv ==
    ASSUME Inv, NEW t \in Tokens, NEW n \in Nat, ReceiveTokens(t, n)
    PROVE  Inv'
  <1>1. /\ UNCHANGED <<requests, governance, credited, paid, calls, signatures, clock>>
        /\ Arrive(t, n)
    BY DEF ReceiveTokens
  <1>2. balance' \in [Tokens -> Nat] /\ \A other \in Tokens : balance'[other] >= balance[other]
    BY <1>1, Typed, ArriveType
  <1>3. calls' = <<>> \/ \E call \in Call : calls' = <<call>> /\ Running(call)'
    BY <1>1, <1>2, CallKept DEF governance, requests
  <1> QED
    BY <1>1, <1>2, <1>3, Typed, OtherStepInv DEF Inv, TypeOK, requests

LEMMA FinalizeWithdrawInv ==
    ASSUME Inv, NEW caller \in Accounts, NEW r \in Requests, FinalizeWithdraw(caller, r)
    PROVE  Inv'
  <1> DEFINE request == withdrawals[r]
             call == [op |-> "pay", id |-> r, saved |-> Snapshot]
  <1>1. /\ NonReentrant /\ request.createdAt # 0 /\ ~request.finalized
        /\ approvals' = [approvals EXCEPT ![r] = @ \union {caller}]
        /\ withdrawals' = [withdrawals EXCEPT ![r].finalized = TRUE]
        /\ balance[request.token] >= request.amount
        /\ CallOut(call)
        /\ balance' = [balance EXCEPT ![request.token] = @ - request.amount]
        /\ paid' = [paid EXCEPT ![request.user][request.token] = @ + request.amount]
        /\ UNCHANGED <<governance, credited, signatures, clock>>
    BY DEF FinalizeWithdraw, MayFinalize
  <1>2. /\ request.user = r.user /\ request.token = r.token /\ request.amount = r.amount
        /\ r.user # Zero
    BY <1>1 DEF Inv, Intact, Open
  <1>3. r.user \in Accounts /\ r.token \in Tokens /\ r.amount \in Nat
    BY <1>2, RequestTypes
  <1>4. /\ call \in [op : {"pay"}, id : Requests, saved : {Snapshot}]
        /\ call.op = "pay" /\ call.id = r
    OBVIOUS
  <1> HIDE DEF call, request
  <1>5. /\ calls' = <<call>> /\ call \in Call /\ calls' \in Seq(Call)
        /\ call.saved = Snapshot
        /\ Sound(call.saved) /\ Intact(call.saved.withdrawals)
    BY <1>1, <1>4, CallOutType
  <1>6. withdrawals' \in [Requests -> WithdrawalRequest]
    BY <1>1, Typed DEF WithdrawalRequest
  <1>7. approvals' \in [Requests -> SUBSET Accounts]
    BY <1>1, Typed
  <1>8. /\ balance' \in [Tokens -> Nat]
        /\ balance'[r.token] = balance[r.token] - r.amount
        /\ \A t \in Tokens \ {r.token} : balance'[t] = balance[t]
    <2>1. balance \in [Tokens -> Nat] /\ balance[r.token] - r.amount \in Nat
      BY <1>1, <1>2, <1>3, Typed
    <2> QED
      BY <1>1, <1>2, <1>3, <2>1
  <1>9. paid' \in [Accounts -> [Tokens -> Nat]]
    <2>1. paid \in [Accounts -> [Tokens -> Nat]]
      BY Typed
    <2> QED
      BY <1>1, <1>2, <1>3, <2>1
  <1>10. Intact(withdrawals')
    <2>1. /\ \A q \in Requests \ {r} : withdrawals'[q] = withdrawals[q]
          /\ withdrawals'[r].finalized /\ withdrawals'[r].createdAt = request.createdAt
      BY <1>1, Typed DEF WithdrawalRequest, request
    <2> QED
      BY <1>1, <2>1 DEF Inv, Intact, Open
  <1>11. ASSUME NEW c, c = call
         PROVE  Running(c)'
    <2>1. Sound(c.saved)'
      BY <1>1, <1>5, <1>11, SavedStaysSound
    <2>2. Open(c.saved.withdrawals[r])
      BY <1>1, <1>5, <1>11, SnapshotFields DEF Open, request
    <2>3. withdrawals' = [c.saved.withdrawals EXCEPT ![r].finalized = TRUE]
      BY <1>1, <1>5, <1>11, SnapshotFields
    <2>4. paid' = [c.saved.paid EXCEPT ![r.user][r.token] = @ + r.amount]
      BY <1>1, <1>2, <1>5, <1>11, SnapshotFields
    <2>5. \A t \in Tokens :
             balance'[t] + (IF t = r.token THEN r.amount ELSE 0) >= c.saved.balance[t]
      <3>1. c.saved.balance = balance /\ balance \in [Tokens -> Nat]
        BY <1>5, <1>11, SnapshotFields, Typed
      <3> QED
        BY <1>3, <1>8, <3>1
    <2>6. Paying(c.saved, c.id)'
      BY <1>4, <1>11, <2>2, <2>3, <2>4, <2>5 DEF Paying
    <2> QED
      BY <1>1, <1>4, <1>5, <1>11, <2>1, <2>6, SnapshotFields DEF Running
  <1>12. \E c \in Call : calls' = <<c>> /\ Running(c)'
    BY <1>5, <1>11
  <1> QED
    BY <1>1, <1>5, <1>6, <1>7, <1>8, <1>9, <1>10, <1>12, Typed, OtherStepInv

\* The call that returns or reverts is the only one there is.
LEMMA TheCall ==
    ASSUME Inv, calls # <<>>
    PROVE  \E call \in Call :
              /\ calls = <<call>> /\ Running(call)
              /\ Head(calls) = call /\ Tail(calls) = <<>>
  <1>1. PICK call \in Call : calls = <<call>> /\ Running(call)
    BY DEF Inv
  <1> QED
    BY <1>1, Singleton

LEMMA DepositReturnsInv ==
    ASSUME Inv, DepositReturns
    PROVE  Inv'
  <1>1. PICK call \in Call : Head(calls) = call /\ Tail(calls) = <<>>
    BY TheCall DEF DepositReturns
  <1>2. /\ UNCHANGED <<requests, governance, balance, paid, signatures, clock>>
        /\ calls' = <<>> /\ call.op = "deposit"
        /\ credited' = [credited EXCEPT ![call.token] = @ + call.amount]
    BY <1>1 DEF DepositReturns
  <1>3. call.token \in Tokens /\ call.amount \in Nat
    BY <1>2 DEF Call
  <1>4. credited' \in [Tokens -> Nat] /\ calls' \in Seq(Call)
    BY <1>2, <1>3, Typed
  <1> QED
    BY <1>2, <1>4, Typed, OtherStepInv DEF Inv, requests

LEMMA FinalizeReturnsInv ==
    ASSUME Inv, FinalizeReturns
    PROVE  Inv'
  <1>1. PICK call \in Call : Running(call) /\ Head(calls) = call /\ Tail(calls) = <<>>
    BY TheCall DEF FinalizeReturns
  <1>2. /\ UNCHANGED <<approvals, governance, money, signatures, clock>>
        /\ calls' = <<>> /\ call.op = "pay"
        /\ withdrawals' = [withdrawals EXCEPT ![call.id] =
              [@ EXCEPT !.user = Zero, !.token = Zero, !.amount = 0]]
    BY <1>1 DEF FinalizeReturns
  <1>3. call.id \in Requests /\ call.saved \in Storage
    BY <1>2 DEF Call
  <1>4. /\ withdrawals \in [Requests -> WithdrawalRequest]
        /\ call.saved.withdrawals \in [Requests -> WithdrawalRequest]
    BY <1>3, Typed DEF Storage
  <1>5. withdrawals[call.id].finalized /\ withdrawals[call.id].createdAt # 0
    <2>1. Paying(call.saved, call.id)
      BY <1>1, <1>2 DEF Running
    <2> DEFINE id == call.id
               old == call.saved.withdrawals
    <2>2. Open(old[id]) /\ withdrawals = [old EXCEPT ![id].finalized = TRUE]
      BY <2>1 DEF Paying
    <2>3. id \in Requests /\ old \in [Requests -> WithdrawalRequest]
      BY <1>3, <1>4
    <2> HIDE DEF id, old
    <2>4. withdrawals[id].finalized /\ withdrawals[id].createdAt = old[id].createdAt
      BY <2>2, <2>3 DEF WithdrawalRequest
    <2> QED
      BY <2>2, <2>4 DEF Open, id
  <1>6. withdrawals' \in [Requests -> WithdrawalRequest]
    BY <1>2, <1>3, <1>4, RequestTypes DEF WithdrawalRequest
  <1>7. /\ \A q \in Requests \ {call.id} : withdrawals'[q] = withdrawals[q]
        /\ withdrawals'[call.id].finalized /\ withdrawals'[call.id].createdAt # 0
    BY <1>2, <1>3, <1>4, <1>5 DEF WithdrawalRequest
  <1>8. Intact(withdrawals')
    BY <1>7 DEF Inv, Intact, Open
  <1> QED
    <2>1. calls' \in Seq(Call)
      BY <1>2
    <2> QED
      BY <1>2, <1>6, <1>8, <2>1, Typed, OtherStepInv DEF money

LEMMA CallRevertsInv ==
    ASSUME Inv, CallReverts
    PROVE  Inv'
  <1>1. PICK call \in Call : Running(call) /\ Head(calls) = call /\ Tail(calls) = <<>>
    BY TheCall DEF CallReverts
  <1>2. call.saved \in Storage
    BY DEF Call
  <1> DEFINE saved == call.saved
  <1>3. /\ withdrawals' = saved.withdrawals /\ approvals' = saved.approvals
        /\ signers' = saved.signers /\ isSigner' = saved.isSigner
        /\ quorum' = saved.quorum /\ signerNonce' = saved.signerNonce
        /\ uses' = saved.uses /\ UNCHANGED <<contract, signatures, clock>>
        /\ balance' = saved.balance /\ credited' = saved.credited /\ paid' = saved.paid
        /\ calls' = <<>>
    BY <1>1 DEF CallReverts
  <1>4. (Snapshot \in Storage)'
    BY <1>2, <1>3 DEF Snapshot, Storage
  <1>5. Sound(saved) /\ Intact(saved.withdrawals)
    BY <1>1 DEF Running
  <1>6. Sound(Snapshot)'
    BY <1>3, <1>5 DEF Sound, Snapshot, ByThreshold
  <1>7. (ByThreshold \/ signers \in Seq(Accounts))'
    BY <1>3, <1>5 DEF Sound, ByThreshold
  <1>8. TypeOK'
    <2>1. calls' \in Seq(Call)
      BY <1>3
    <2> QED
      BY <1>3, <1>4, <1>7, <2>1 DEF Inv, TypeOK
  <1> QED
    BY <1>3, <1>5, <1>6, <1>8 DEF Inv

THEOREM StepInv == Inv /\ [Next]_vars => Inv'
  <1> SUFFICES ASSUME Inv, [Next]_vars PROVE Inv'
    OBVIOUS
  <1>0. 1 .. Supply \subseteq Nat
    BY QuorumCustodyAssumption
  <1>1. CASE Tick
    BY <1>1, TickInv
  <1>2. CASE \E a \in Accounts, change \in Changes :
                \/ Sign(a, change)
                \/ \E given \in SUBSET signatures :
                      AddSigners(a, change, given) \/ RemoveSigners(a, change, given)
    BY <1>2, SignInv, AddSignersInv, RemoveSignersInv
  <1>3. CASE \E n \in 1 .. Supply : DepositETH(n)
    BY <1>0, <1>3, DepositETHInv
  <1>4. CASE \E t \in ERC20s, n \in 1 .. Supply, fee \in Fees : DepositERC20(t, n, fee)
    BY <1>0, <1>4, DepositERC20Inv
  <1>5. CASE DepositReturns
    BY <1>5, DepositReturnsInv
  <1>6. CASE \E t \in Tokens, n \in 1 .. Supply : ReceiveTokens(t, n)
    BY <1>0, <1>6, ReceiveTokensInv
  <1>7. CASE \E a \in Accounts, r \in Requests :
                \/ StartWithdraw(a, r)
                \/ Approve(a, r) \/ FinalizeWithdraw(a, r)
                \/ RejectWithdraw(a, r)
    BY <1>7, StartWithdrawInv, ApproveInv, FinalizeWithdrawInv, RejectWithdrawInv
  <1>8. CASE FinalizeReturns
    BY <1>8, FinalizeReturnsInv
  <1>9. CASE CallReverts
    BY <1>9, CallRevertsInv
  <1>10. CASE UNCHANGED vars
    <2>1. UNCHANGED <<governance, withdrawals, credited, paid, calls, balance, approvals, signatures, clock>>
      BY <1>10 DEF vars, requests, money
    <2>2. calls' = <<>> \/ \E call \in Call : calls' = <<call>> /\ Running(call)'
      <3>1. balance \in [Tokens -> Nat]
        BY Typed
      <3> QED
        BY <2>1, <3>1, CallKept DEF governance
    <2>3. calls' \in Seq(Call) /\ Intact(withdrawals')
      BY <2>1 DEF Inv, TypeOK
    <2> QED
      BY <2>1, <2>2, <2>3, Typed, OtherStepInv
  <1> QED
    BY <1>1, <1>2, <1>3, <1>4, <1>5, <1>6, <1>7, <1>8, <1>9, <1>10 DEF Next

THEOREM Invariance == Spec => []Inv
  BY InitInv, StepInv, PTL DEF Spec

\* Every reachable state is well typed, for every deployment.
THEOREM TypeCorrect == Spec => []TypeOK
  <1>1. Inv => TypeOK
    BY DEF Inv
  <1> QED
    BY <1>1, Invariance, PTL

\* addSigners and removeSigners keep the array, the mapping and the quorum in step,
\* also when a callee runs them and its transaction reverts.
THEOREM SignersStayConsistent == Spec => []SignersConsistent
  <1>1. Inv => SignersConsistent
    BY SoundNow DEF Inv, SignersConsistent
  <1> QED
    BY <1>1, Invariance, PTL

\* _verifySignatures takes the signatures of one nonce, and a change takes the next.
THEOREM SignaturesServeOnce == Spec => []SignaturesUsedOnce
  <1>1. Inv => SignaturesUsedOnce
    <2> SUFFICES ASSUME Inv, NEW i \in DOMAIN uses, NEW j \in DOMAIN uses,
                        NEW x \in uses[i], x \in uses[j]
                 PROVE  i = j
      BY DEF SignaturesUsedOnce
    <2>1. x.nonce = i - 1 /\ x.nonce = j - 1
      BY SoundNow DEF Inv
    <2>2. i \in Int /\ j \in Int
      BY Typed
    <2> QED
      BY <2>1, <2>2
  <1> QED
    BY <1>1, Invariance, PTL

-----------------------------------------------------------------------------
(***************************************************************************)
(* A payment has the approvals it needs.                                   *)
(***************************************************************************)
\* The places in the array whose signers approved are as many as those signers.
LEMMA ValidApprovalsCount ==
    ASSUME Inv, NEW approved
    PROVE  /\ ValidApprovals(approved) <= Cardinality(approved \intersect isSigner)
           /\ ValidApprovals(approved) \in Nat
           /\ Cardinality(approved \intersect isSigner) \in Nat
  <1> DEFINE I == {i \in DOMAIN signers : signers[i] \in approved}
             T == approved \intersect isSigner
             f == [i \in I |-> signers[i]]
  <1>1. IsInjective(signers) /\ ToSet(signers) = isSigner /\ DOMAIN signers = 1 .. Len(signers)
        /\ Len(signers) \in Nat
    BY Typed, SoundNow DEF Inv
  <1>2. f \in Injection(I, T)
    BY <1>1 DEF Injection, IsInjective, ToSet
  <1>3. IsFiniteSet(isSigner)
    <2> DEFINE g == [i \in 1 .. Len(signers) |-> signers[i]]
    <2>1. g \in Surjection(1 .. Len(signers), isSigner)
      BY <1>1 DEF Surjection, ToSet
    <2>2. IsFiniteSet(1 .. Len(signers))
      BY <1>1, FS_Interval
    <2> HIDE DEF g
    <2> QED
      BY <2>1, <2>2, FS_Surjection
  <1>4. IsFiniteSet(T)
    BY <1>3, FS_Subset
  <1> HIDE DEF f, T
  <1>5. Cardinality(I) <= Cardinality(T) /\ Cardinality(I) \in Nat /\ Cardinality(T) \in Nat
    <2> HIDE DEF I
    <2> QED
      BY <1>2, <1>4, FS_Injection, FS_CardinalityType
  <1> QED
    BY <1>5 DEF ValidApprovals, T

HasApprovals(r) ==
    withdrawals'[r].finalized /\ ~withdrawals[r].finalized /\ paid' # paid =>
        Cardinality(approvals'[r] \intersect isSigner) >= withdrawals[r].requiredQuorum

LEMMA FinalizeHasApprovals ==
    ASSUME Inv, NEW caller \in Accounts, NEW q \in Requests, FinalizeWithdraw(caller, q),
           NEW r \in Requests
    PROVE  HasApprovals(r)
  <1>1. /\ withdrawals' = [withdrawals EXCEPT ![q].finalized = TRUE]
        /\ approvals' = [approvals EXCEPT ![q] = @ \union {caller}]
        /\ ValidApprovals(approvals[q] \union {caller}) >= withdrawals[q].requiredQuorum
    BY DEF FinalizeWithdraw
  <1>2. CASE r # q
    <2>1. withdrawals'[r] = withdrawals[r]
      BY <1>1, <1>2, Typed
    <2> QED
      BY <2>1 DEF HasApprovals
  <1>3. CASE r = q
    <2>1. approvals'[q] = approvals[q] \union {caller}
      BY <1>1, Typed
    <2>2. /\ ValidApprovals(approvals'[q]) <= Cardinality(approvals'[q] \intersect isSigner)
          /\ ValidApprovals(approvals'[q]) \in Nat
          /\ Cardinality(approvals'[q] \intersect isSigner) \in Nat
      BY ValidApprovalsCount
    <2>3. withdrawals[q].requiredQuorum \in Nat
      BY Typed DEF WithdrawalRequest
    <2> QED
      BY <1>1, <1>3, <2>1, <2>2, <2>3 DEF HasApprovals
  <1> QED
    BY <1>2, <1>3

\* A revert finalizes nothing: what the saved state had finalized still is.
LEMMA RevertHasApprovals ==
    ASSUME Inv, CallReverts, NEW r \in Requests
    PROVE  HasApprovals(r)
  <1>1. PICK call \in Call : Running(call) /\ Head(calls) = call
    BY TheCall DEF CallReverts
  <1> DEFINE old == call.saved.withdrawals
  <1>2. withdrawals' = old /\ old \in [Requests -> WithdrawalRequest]
    BY <1>1 DEF CallReverts, Call, Storage
  <1>3. \/ withdrawals = old
        \/ \E id \in Requests : withdrawals = [old EXCEPT ![id].finalized = TRUE]
    BY <1>1 DEF Running, Depositing, Paying, Call
  <1> HIDE DEF old
  <1>4. old[r].finalized => withdrawals[r].finalized
    BY <1>2, <1>3 DEF WithdrawalRequest
  <1> QED
    BY <1>2, <1>4 DEF HasApprovals

LEMMA StepHasApprovals ==
    ASSUME Inv, [Next]_vars, NEW r \in Requests
    PROVE  HasApprovals(r)
  <1>1. CASE \E a \in Accounts, q \in Requests : FinalizeWithdraw(a, q)
    BY <1>1, FinalizeHasApprovals
  <1>2. CASE CallReverts
    BY <1>2, RevertHasApprovals
  <1>3. CASE UNCHANGED paid
    BY <1>3 DEF HasApprovals
  <1>4. \/ UNCHANGED paid
        \/ CallReverts
        \/ \E a \in Accounts, q \in Requests : FinalizeWithdraw(a, q)
    BY DEF Next, vars, money, Tick, Sign, AddSigners, RemoveSigners, DepositETH, DepositERC20,
           DepositReturns, ReceiveTokens, StartWithdraw, Approve, RejectWithdraw, FinalizeReturns
  <1> QED
    BY <1>1, <1>2, <1>3, <1>4

\* finalizeWithdraw pays when as many present signers approved as the quorum was at the
\* start: neither a removed signer's approval nor a reentrant or reverted call adds one.
THEOREM PaymentsHaveApprovals == Spec => PaidByQuorum
  <1>1. Inv /\ [Next]_vars =>
           [\A r \in Requests :
              withdrawals'[r].finalized /\ ~withdrawals[r].finalized /\ paid' # paid =>
                  Cardinality(approvals'[r] \intersect isSigner) >= withdrawals[r].requiredQuorum]_vars
    BY StepHasApprovals DEF HasApprovals
  <1> QED
    BY <1>1, Invariance, PTL DEF Spec, PaidByQuorum

-----------------------------------------------------------------------------
(***************************************************************************)
(* Refinement, for tokens that move what they are asked to: with a fee, a  *)
(* deposit credits more than arrives.  As for SimpleCustody, Committed is  *)
(* the snapshot outside a call and the saved state inside one.             *)
(***************************************************************************)
LEMMA CommittedOutside ==
    /\ calls = <<>> => Committed = Snapshot
    /\ calls' = <<>> => Committed' = Snapshot'
  BY DEF Committed

LEMMA CommittedInside ==
    ASSUME NEW call \in Call, calls = <<call>>
    PROVE  Committed = call.saved
  BY Singleton DEF Committed

LEMMA SameLifecycle ==
    ASSUME Committed'.withdrawals = Committed.withdrawals,
           Committed'.balance = Committed.balance,
           Committed'.credited = Committed.credited,
           Committed'.paid = Committed.paid
    PROVE  UNCHANGED Lifecycle!lifecycleVars
  BY DEF Lifecycle!lifecycleVars

\* Outside a call the lifecycle's variables are the contract's own.
LEMMA OutsideSteps ==
    ASSUME calls = <<>>, calls' = <<>>
    PROVE  /\ Committed.withdrawals = withdrawals /\ Committed.balance = balance
           /\ Committed.credited = credited /\ Committed.paid = paid
           /\ Committed'.withdrawals = withdrawals' /\ Committed'.balance = balance'
           /\ Committed'.credited = credited' /\ Committed'.paid = paid'
  BY CommittedOutside, SnapshotFields

LEMMA LifecycleInitially == Init => Lifecycle!LifecycleInit
  BY CommittedOutside, SnapshotFields DEF Init, Lifecycle!LifecycleInit, StageOf, NoRequest

\* Neither do the approvals, the signers, or what is signed matter to the lifecycle.
LEMMA QuietStutters ==
    ASSUME UNCHANGED <<withdrawals, money, calls>>
    PROVE  UNCHANGED Lifecycle!lifecycleVars
  <1>1. UNCHANGED <<withdrawals, balance, credited, paid, calls>>
    BY DEF money
  <1>2. CASE calls = <<>>
    BY <1>1, <1>2, OutsideSteps, SameLifecycle
  <1>3. CASE calls # <<>>
    BY <1>1, <1>3, SameLifecycle DEF Committed
  <1> QED
    BY <1>2, <1>3

\* A call out of the contract commits nothing.
LEMMA CallOutStutters ==
    ASSUME Inv, NEW call, call \in [op : {"deposit"}, token : Tokens, amount : Nat, saved : {Snapshot}]
                              \union [op : {"pay"}, id : Requests, saved : {Snapshot}],
           NonReentrant, CallOut(call)
    PROVE  UNCHANGED Lifecycle!lifecycleVars
  <1>1. calls' = <<call>> /\ call \in Call /\ call.saved = Snapshot
    BY CallOutType
  <1>2. Committed' = Snapshot
    BY <1>1, Singleton DEF Committed
  <1> QED
    BY <1>2, CommittedOutside, SameLifecycle DEF NonReentrant

LEMMA DepositETHRefines ==
    ASSUME Inv, NEW n \in Nat, DepositETH(n)
    PROVE  Lifecycle!Deposit(Zero)
  <1>1. Zero \in Tokens
    BY DEF Tokens
  <1>2. balance \in [Tokens -> Nat] /\ credited \in [Tokens -> Nat]
    BY Typed
  <1>3. /\ balance' \in [Tokens -> Nat]
        /\ \A t \in Tokens : balance'[t] >= balance[t]
        /\ balance'[Zero] = balance[Zero] + n
    BY <1>1, <1>2 DEF DepositETH, Arrive
  <1>4. /\ credited' \in [Tokens -> Nat]
        /\ credited'[Zero] = credited[Zero] + n
        /\ \A t \in Tokens \ {Zero} : credited'[t] = credited[t]
    BY <1>1, <1>2 DEF DepositETH
  <1>5. calls = <<>> /\ calls' = <<>> /\ UNCHANGED <<withdrawals, paid>>
    BY DEF DepositETH, NonReentrant, requests
  <1> QED
    BY <1>1, <1>2, <1>3, <1>4, <1>5, OutsideSteps
    DEF Lifecycle!Deposit, Lifecycle!Keeps, Lifecycle!LosesAtMost

LEMMA KeepsTheMoney ==
    ASSUME Inv, calls = <<>>, calls' = <<>>, UNCHANGED money
    PROVE  /\ Lifecycle!Keeps
           /\ Committed'.credited = Committed.credited /\ Committed'.paid = Committed.paid
  <1>1. UNCHANGED <<balance, credited, paid>> /\ balance \in [Tokens -> Nat]
    BY Typed DEF money
  <1> QED
    BY <1>1, OutsideSteps DEF Lifecycle!Keeps, Lifecycle!LosesAtMost

LEMMA StartWithdrawRefines ==
    ASSUME Inv, NEW caller, NEW r \in Requests, StartWithdraw(caller, r)
    PROVE  Lifecycle!Start(r)
  <1>1. calls = <<>> /\ calls' = <<>> /\ UNCHANGED money
    BY DEF StartWithdraw, NonReentrant
  <1>2. StageOf(withdrawals[r]) = "none" /\ r.amount > 0
    BY RequestTypes DEF StartWithdraw, StageOf
  <1>3. /\ withdrawals'[r].createdAt = clock /\ ~withdrawals'[r].finalized
        /\ \A q \in Requests \ {r} : withdrawals'[q] = withdrawals[q]
    BY Typed DEF StartWithdraw
  <1>4. StageOf(withdrawals'[r]) = "pending"
    BY <1>3, Typed DEF StageOf
  <1>5. [q \in Requests |-> StageOf(withdrawals'[q])]
          = [[q \in Requests |-> StageOf(withdrawals[q])] EXCEPT ![r] = "pending"]
    BY <1>3, <1>4
  <1> QED
    BY <1>1, <1>2, <1>5, OutsideSteps, KeepsTheMoney DEF Lifecycle!Start

LEMMA RejectWithdrawRefines ==
    ASSUME Inv, NEW caller, NEW r \in Requests, RejectWithdraw(caller, r)
    PROVE  Lifecycle!Reject(r)
  <1>1. calls = <<>> /\ calls' = <<>> /\ UNCHANGED money
    BY DEF RejectWithdraw, NonReentrant
  <1>2. Open(withdrawals[r])
    BY DEF RejectWithdraw, Open
  <1>3. StageOf(withdrawals[r]) = "pending" /\ withdrawals[r].amount # 0
    BY <1>2 DEF StageOf, Open, Inv, Intact
  <1>4. /\ withdrawals'[r].createdAt # 0 /\ withdrawals'[r].finalized
        /\ withdrawals'[r].amount # 0
        /\ \A q \in Requests \ {r} : withdrawals'[q] = withdrawals[q]
    BY <1>2, <1>3, Typed DEF RejectWithdraw, WithdrawalRequest, Open
  <1>5. StageOf(withdrawals'[r]) = "rejected"
    BY <1>4 DEF StageOf
  <1>6. [q \in Requests |-> StageOf(withdrawals'[q])]
          = [[q \in Requests |-> StageOf(withdrawals[q])] EXCEPT ![r] = "rejected"]
    BY <1>4, <1>5
  <1> QED
    BY <1>1, <1>3, <1>6, OutsideSteps, KeepsTheMoney DEF Lifecycle!Reject

\* Inside a call the lifecycle is where the saved state is, and moves to the present.
LEMMA ReturnSteps ==
    ASSUME NEW call \in Call, calls = <<call>>, calls' = <<>>
    PROVE  /\ Committed = call.saved
           /\ Committed'.withdrawals = withdrawals' /\ Committed'.balance = balance'
           /\ Committed'.credited = credited' /\ Committed'.paid = paid'
  BY CommittedInside, CommittedOutside, SnapshotFields

LEMMA DepositReturnsRefines ==
    ASSUME Fees \subseteq {0}, Inv, DepositReturns
    PROVE  \E t \in Tokens : Lifecycle!Deposit(t)
  <1>1. PICK call \in Call :
           calls = <<call>> /\ Running(call) /\ Head(calls) = call /\ Tail(calls) = <<>>
    BY TheCall DEF DepositReturns
  <1> DEFINE t == call.token
             n == call.amount
             saved == call.saved
  <1>2. /\ calls' = <<>> /\ UNCHANGED <<withdrawals, balance, paid>> /\ call.op = "deposit"
        /\ credited' = [credited EXCEPT ![t] = @ + n]
    BY <1>1 DEF DepositReturns, requests
  <1>3. /\ withdrawals = saved.withdrawals /\ paid = saved.paid /\ credited = saved.credited
        /\ \A other \in Tokens : balance[other] >= saved.balance[other]
        /\ balance[t] >= saved.balance[t] + n
    BY <1>1, <1>2 DEF Running, Depositing
  <1>4. /\ t \in Tokens /\ n \in Nat
        /\ balance \in [Tokens -> Nat] /\ credited \in [Tokens -> Nat]
        /\ saved.balance \in [Tokens -> Nat]
    BY <1>2, Typed DEF Call, Storage
  <1>5. /\ Committed = saved
        /\ Committed'.withdrawals = withdrawals /\ Committed'.balance = balance
        /\ Committed'.credited = credited' /\ Committed'.paid = paid
    BY <1>1, <1>2, ReturnSteps
  <1> HIDE DEF t, n, saved
  <1>6. /\ credited' \in [Tokens -> Nat]
        /\ credited'[t] - credited[t] = n
        /\ \A other \in Tokens \ {t} : credited'[other] = credited[other]
    BY <1>2, <1>4
  <1>7. n \in 0 .. balance[t] - saved.balance[t]
    BY <1>3, <1>4
  <1>8. Lifecycle!Keeps
    BY <1>3, <1>4, <1>5 DEF Lifecycle!Keeps, Lifecycle!LosesAtMost
  <1>9. Lifecycle!Deposit(t)
    BY <1>3, <1>5, <1>6, <1>7, <1>8 DEF Lifecycle!Deposit
  <1> QED
    BY <1>4, <1>9

LEMMA FinalizeReturnsRefines ==
    ASSUME Inv, FinalizeReturns
    PROVE  \E r \in Requests : Lifecycle!Pay(r)
  <1>1. PICK call \in Call :
           calls = <<call>> /\ Running(call) /\ Head(calls) = call /\ Tail(calls) = <<>>
    BY TheCall DEF FinalizeReturns
  <1> DEFINE r == call.id
             saved == call.saved
             old == saved.withdrawals
  <1>2. /\ calls' = <<>> /\ UNCHANGED <<balance, credited, paid>> /\ call.op = "pay"
        /\ withdrawals' = [withdrawals EXCEPT ![r] =
              [@ EXCEPT !.user = Zero, !.token = Zero, !.amount = 0]]
    BY <1>1 DEF FinalizeReturns, money
  <1>3. /\ Open(old[r]) /\ withdrawals = [old EXCEPT ![r].finalized = TRUE]
        /\ paid = [saved.paid EXCEPT ![r.user][r.token] = @ + r.amount]
        /\ \A t \in Tokens :
              balance[t] + (IF t = r.token THEN r.amount ELSE 0) >= saved.balance[t]
        /\ credited = saved.credited
    BY <1>1, <1>2 DEF Running, Paying
  <1>4. /\ r \in Requests /\ old \in [Requests -> WithdrawalRequest]
        /\ balance \in [Tokens -> Nat] /\ saved.balance \in [Tokens -> Nat]
    BY <1>2, Typed DEF Call, Storage
  <1>5. r.token \in Tokens /\ r.amount \in Nat
    BY <1>4, RequestTypes
  <1>6. /\ Committed = saved
        /\ Committed'.withdrawals = withdrawals' /\ Committed'.balance = balance
        /\ Committed'.credited = credited /\ Committed'.paid = paid
    BY <1>1, <1>2, ReturnSteps
  <1>7. StageOf(old[r]) = "pending"
    BY <1>3 DEF Open, StageOf
  <1> HIDE DEF r, old
  <1>8. /\ withdrawals'[r].createdAt = old[r].createdAt /\ withdrawals'[r].finalized
        /\ withdrawals'[r].amount = 0
        /\ \A q \in Requests \ {r} : withdrawals'[q] = old[q]
    BY <1>2, <1>3, <1>4 DEF WithdrawalRequest
  <1>9. StageOf(withdrawals'[r]) = "paid"
    BY <1>3, <1>8 DEF StageOf, Open
  <1>10. [q \in Requests |-> StageOf(withdrawals'[q])]
           = [[q \in Requests |-> StageOf(old[q])] EXCEPT ![r] = "paid"]
    BY <1>8, <1>9
  <1>11. Lifecycle!LosesAtMost(r.token, r.amount)
    <2>1. balance[r.token] >= saved.balance[r.token] - r.amount
      BY <1>3, <1>4, <1>5
    <2>2. \A t \in Tokens \ {r.token} : balance[t] >= saved.balance[t]
      BY <1>3, <1>4
    <2> QED
      BY <1>4, <1>6, <2>1, <2>2 DEF Lifecycle!LosesAtMost
  <1>12. Lifecycle!Pay(r)
    BY <1>3, <1>4, <1>6, <1>7, <1>10, <1>11 DEF Lifecycle!Pay, old
  <1> QED
    BY <1>4, <1>12

\* A revert restores what everyone else saw all along.
LEMMA CallRevertsStutters ==
    ASSUME Inv, CallReverts
    PROVE  UNCHANGED Lifecycle!lifecycleVars
  <1>1. PICK call \in Call : calls = <<call>> /\ Head(calls) = call /\ Tail(calls) = <<>>
    BY TheCall DEF CallReverts
  <1>2. /\ calls' = <<>>
        /\ withdrawals' = call.saved.withdrawals /\ balance' = call.saved.balance
        /\ credited' = call.saved.credited /\ paid' = call.saved.paid
    BY <1>1 DEF CallReverts
  <1> QED
    BY <1>1, <1>2, ReturnSteps, SameLifecycle

LEMMA ReceiveTokensRefines ==
    ASSUME Inv, NEW t \in Tokens, NEW n \in Nat, ReceiveTokens(t, n)
    PROVE  Lifecycle!Receive \/ UNCHANGED Lifecycle!lifecycleVars
  <1>1. UNCHANGED <<withdrawals, credited, paid, calls>> /\ Arrive(t, n)
    BY DEF ReceiveTokens, requests
  <1>2. CASE calls = <<>>
    <2>1. /\ balance' \in [Tokens -> Nat]
          /\ balance \in [Tokens -> Nat]
          /\ \A other \in Tokens : balance'[other] >= balance[other]
      BY <1>1, Typed, ArriveType
    <2>2. Lifecycle!Keeps
      BY <1>1, <1>2, <2>1, OutsideSteps DEF Lifecycle!Keeps, Lifecycle!LosesAtMost
    <2> QED
      BY <1>1, <1>2, <2>2, OutsideSteps DEF Lifecycle!Receive
  <1>3. CASE calls # <<>>
    <2>1. Committed' = Committed
      BY <1>1, <1>3 DEF Committed
    <2> QED
      BY <2>1, SameLifecycle
  <1> QED
    BY <1>2, <1>3

LEMMA StepRefines ==
    ASSUME Fees \subseteq {0}
    PROVE  Inv /\ [Next]_vars => [Lifecycle!LifecycleNext]_Lifecycle!lifecycleVars
  <1> SUFFICES ASSUME Inv, [Next]_vars
               PROVE  Lifecycle!LifecycleNext \/ UNCHANGED Lifecycle!lifecycleVars
    OBVIOUS
  <1>0. 1 .. Supply \subseteq Nat /\ Zero \in Tokens /\ ERC20s \subseteq Tokens
    BY QuorumCustodyAssumption DEF Tokens
  <1>1. CASE \/ Tick \/ UNCHANGED vars
             \/ \E a \in Accounts, change \in Changes :
                   \/ Sign(a, change)
                   \/ \E given \in SUBSET signatures :
                         AddSigners(a, change, given) \/ RemoveSigners(a, change, given)
             \/ \E a \in Accounts, r \in Requests : Approve(a, r)
    <2>1. UNCHANGED <<withdrawals, money, calls>>
      BY <1>1 DEF vars, requests, Tick, Sign, AddSigners, RemoveSigners, Approve
    <2> QED
      BY <2>1, QuietStutters
  <1>2. CASE \E n \in 1 .. Supply : DepositETH(n)
    BY <1>0, <1>2, DepositETHRefines DEF Lifecycle!LifecycleNext
  <1>3. CASE \E t \in ERC20s, n \in 1 .. Supply, fee \in Fees : DepositERC20(t, n, fee)
    <2>1. PICK t \in ERC20s, n \in 1 .. Supply :
             /\ NonReentrant
             /\ CallOut([op |-> "deposit", token |-> t, amount |-> n, saved |-> Snapshot])
      BY <1>3 DEF DepositERC20
    <2> QED
      BY <1>0, <2>1, CallOutStutters
  <1>4. CASE DepositReturns
    BY <1>4, DepositReturnsRefines DEF Lifecycle!LifecycleNext
  <1>5. CASE \E t \in Tokens, n \in 1 .. Supply : ReceiveTokens(t, n)
    BY <1>0, <1>5, ReceiveTokensRefines DEF Lifecycle!LifecycleNext
  <1>6. CASE \E a \in Accounts, r \in Requests : StartWithdraw(a, r) \/ RejectWithdraw(a, r)
    BY <1>6, StartWithdrawRefines, RejectWithdrawRefines DEF Lifecycle!LifecycleNext
  <1>7. CASE \E a \in Accounts, r \in Requests : FinalizeWithdraw(a, r)
    <2>1. PICK r \in Requests :
             NonReentrant /\ CallOut([op |-> "pay", id |-> r, saved |-> Snapshot])
      BY <1>7 DEF FinalizeWithdraw, MayFinalize
    <2> QED
      BY <2>1, CallOutStutters
  <1>8. CASE FinalizeReturns
    BY <1>8, FinalizeReturnsRefines DEF Lifecycle!LifecycleNext
  <1>9. CASE CallReverts
    BY <1>9, CallRevertsStutters
  <1> QED
    BY <1>1, <1>2, <1>3, <1>4, <1>5, <1>6, <1>7, <1>8, <1>9 DEF Next

\* Both contracts implement the lifecycle of IWithdraw, with tokens that keep no fee:
\* no reentrant callee, change of signers or failed transfer makes them pay twice, pay
\* less, or credit too much.
THEOREM Refinement == Fees \subseteq {0} => (Spec => ImplementsLifecycle)
  <1> SUFFICES ASSUME Fees \subseteq {0} PROVE Spec => ImplementsLifecycle
    OBVIOUS
  <1>1. Inv /\ [Next]_vars => [Lifecycle!LifecycleNext]_Lifecycle!lifecycleVars
    BY StepRefines
  <1> QED
    BY <1>1, LifecycleInitially, Invariance, PTL
    DEF Spec, ImplementsLifecycle, Lifecycle!LifecycleSpec
=============================================================================
