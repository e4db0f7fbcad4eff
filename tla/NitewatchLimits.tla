-------------------------- MODULE NitewatchLimits --------------------------
(***************************************************************************)
(* Proofs about the policy: what is recorded, and what is paid, stays      *)
(* within the limits, and what is recorded as rejected is rejected.        *)
(***************************************************************************)
EXTENDS NitewatchProofs, DataTheorems

Row == [id : Requests, at : 0 .. MaxTime]

-----------------------------------------------------------------------------
(***************************************************************************)
(* Hours and days: multiples of a length.                                  *)
(***************************************************************************)
LEMMA TruncateIs ==
    ASSUME NEW a \in Nat, NEW length \in Nat \ {0}
    PROVE  /\ Truncate(a, length) \in Int
           /\ Truncate(a, length) <= a /\ a < Truncate(a, length) + length
           /\ \E q \in Int : Truncate(a, length) = length * q
  <1>1. /\ a = length * (a \div length) + (a % length)
        /\ a % length \in 0 .. length - 1 /\ a \div length \in Int
    OBVIOUS
  <1> QED
    BY <1>1 DEF Truncate

LEMMA Multiples ==
    ASSUME NEW length \in Nat \ {0}, NEW p \in Int, NEW q \in Int, length * p < length * q
    PROVE  length * p + length <= length * q
  <1>1. p < q
    OBVIOUS
  <1>2. p + 1 <= q
    BY <1>1
  <1>3. length * (p + 1) <= length * q
    BY <1>2
  <1> QED
    BY <1>3

\* An earlier time is in the same period as a later one just if it is not before it.
LEMMA TruncatePeriod ==
    ASSUME NEW a \in Nat, NEW b \in Nat, a <= b, NEW length \in Nat \ {0}
    PROVE  /\ Truncate(a, length) <= Truncate(b, length)
           /\ a >= Truncate(b, length) <=> Truncate(a, length) = Truncate(b, length)
  <1>1. PICK p, q \in Int : /\ Truncate(a, length) = length * p
                            /\ Truncate(b, length) = length * q
    BY TruncateIs
  <1> DEFINE x == length * p
             y == length * q
  <1>2. x < y => x + length <= y
    BY Multiples
  <1>3. y < x => y + length <= x
    BY Multiples
  <1>4. x \in Int /\ y \in Int
    OBVIOUS
  <1>5. x <= a /\ a < x + length /\ y <= b /\ b < y + length
    BY <1>1, TruncateIs
  <1> HIDE DEF x, y
  <1>6. x <= y /\ (a >= y <=> x = y)
    BY <1>2, <1>3, <1>4, <1>5
  <1> QED
    BY <1>1, <1>6 DEF x, y

-----------------------------------------------------------------------------
(***************************************************************************)
(* Totals of rows.                                                         *)
(***************************************************************************)
Amount == [w \in Row |-> w.id.amount]

LEMMA AmountType == \A w \in Row : Amount[w] \in Nat /\ Amount[w] = w.id.amount
  BY RequestTypes DEF Amount, Row

LEMMA AmountSum ==
    ASSUME NEW S \in SUBSET Row, IsFiniteSet(S)
    PROVE  MapThenSumSet(LAMBDA w : w.id.amount, S) = Sum(Amount, S)
  <1> DEFINE Q(e) == e = [s \in SUBSET S |-> IF s = {} THEN 0
                                             ELSE Pick(s).id.amount + e[s \ {Pick(s)}]]
             g == CHOOSE e : Q(e)
  <1>1. MapThenSumSet(LAMBDA w : w.id.amount, S) = g[S]
    BY DEF MapThenSumSet, MapThenFoldSet, Pick
  <1>2. ASSUME NEW e PROVE Q(e) <=> Sums(Amount, e, S)
    <2>1. \A s \in SUBSET S : s # {} => Amount[Pick(s)] = Pick(s).id.amount
      BY PickIn, AmountType
    <2> QED
      BY <2>1 DEF Sums, Step
  <1>3. Q(g)
    BY <1>2, SumsExist
  <1> QED
    BY <1>1, <1>2, <1>3, SumIs

LEMMA TotalIs ==
    ASSUME NEW rows \in SUBSET Row, IsFiniteSet(rows), NEW since \in Int
    PROVE  LET counted == {w \in rows : w.at >= since}
           IN  /\ counted \in SUBSET Row /\ IsFiniteSet(counted)
               /\ Total(rows, since) = Sum(Amount, counted)
               /\ Total(rows, since) \in Nat
  <1> DEFINE counted == {w \in rows : w.at >= since}
  <1>1. counted \in SUBSET rows /\ counted \in SUBSET Row
    OBVIOUS
  <1>2. Total(rows, since) = MapThenSumSet(LAMBDA w : w.id.amount, counted)
    BY DEF Total
  <1> HIDE DEF counted
  <1>3. IsFiniteSet(counted)
    BY <1>1, FS_Subset
  <1>4. Total(rows, since) = Sum(Amount, counted)
    BY <1>1, <1>2, <1>3, AmountSum
  <1>5. Sum(Amount, counted) \in Nat
    BY <1>1, <1>3, SumPart, AmountType
  <1> QED
    BY <1>1, <1>3, <1>4, <1>5 DEF counted

\* Later, and of fewer rows, no more is counted.
LEMMA TotalShrinks ==
    ASSUME NEW rows \in SUBSET Row, IsFiniteSet(rows), NEW part \in SUBSET rows,
           NEW since \in Int, NEW later \in Int, since <= later
    PROVE  Total(part, later) <= Total(rows, since)
  <1> DEFINE few == {w \in part : w.at >= later}
             many == {w \in rows : w.at >= since}
  <1>1. \A w \in rows : w.at \in Int
    BY DEF Row
  <1>2. few \in SUBSET many
    BY <1>1
  <1>3. IsFiniteSet(part) /\ part \in SUBSET Row
    BY FS_Subset
  <1>4. Total(part, later) = Sum(Amount, few)
    BY <1>3, TotalIs
  <1>5. Total(rows, since) = Sum(Amount, many) /\ IsFiniteSet(many) /\ many \in SUBSET Row
    BY TotalIs
  <1> HIDE DEF few, many
  <1> QED
    BY <1>2, <1>4, <1>5, SumPart, AmountType

-----------------------------------------------------------------------------
\* What one bound allows now is kept by the row that takes it.
LEMMA PeriodsAdd ==
    ASSUME TypeOK, NEW bound \in Int \union {NoLimit}, NEW length \in Nat \ {0},
           NEW rows \in SUBSET Row, IsFiniteSet(rows), \A w \in rows : w.at <= clock,
           NEW new \in Row, new \notin rows, new.at = clock,
           bound # NoLimit => Total(rows, Truncate(clock, length)) + new.id.amount <= bound,
           PeriodsWithin(bound, length, rows)
    PROVE  PeriodsWithin(bound, length, rows \union {new})
  <1> DEFINE Period(S, w) == {v \in S : Truncate(v.at, length) = Truncate(w.at, length)}
             more == rows \union {new}
  <1> SUFFICES ASSUME bound # NoLimit, NEW w \in more
               PROVE  Total(Period(more, w), 0) <= bound
    BY DEF PeriodsWithin
  <1>1. \A v \in Row : v.at \in Nat /\ v.at >= 0
    BY DEF Row
  <1>2. CASE Truncate(w.at, length) = Truncate(clock, length)
    <2> DEFINE before == {v \in rows : v.at >= Truncate(clock, length)}
    <2>1. Truncate(clock, length) \in Int /\ clock \in Nat
      BY <1>1, TruncateIs
    <2>2. \A v \in rows : v.at >= Truncate(clock, length)
                              <=> Truncate(v.at, length) = Truncate(clock, length)
      BY <1>1, <2>1, TruncatePeriod
    <2>3. Period(more, w) = before \union {new}
      BY <1>2, <2>2
    <2>4. /\ before \in SUBSET Row /\ IsFiniteSet(before)
          /\ Total(rows, Truncate(clock, length)) = Sum(Amount, before)
      BY <2>1, TotalIs
    <2>5. new \notin before
      OBVIOUS
    <2> HIDE DEF before
    <2>6. IsFiniteSet(before \union {new}) /\ before \union {new} \in SUBSET Row
      BY <2>4, FS_AddElement
    <2>7. {v \in before \union {new} : v.at >= 0} = before \union {new}
      BY <1>1, <2>6
    <2>8. Total(before \union {new}, 0) = Sum(Amount, before \union {new})
      BY <2>6, <2>7, TotalIs
    <2>9. Sum(Amount, before \union {new}) = Sum(Amount, before) + new.id.amount
      BY <2>4, <2>5, SumAdd, AmountType
    <2> QED
      BY <2>3, <2>4, <2>8, <2>9
  <1>3. CASE Truncate(w.at, length) # Truncate(clock, length)
    <2>1. w \in rows /\ Period(more, w) = Period(rows, w)
      BY <1>3
    <2> QED
      BY <2>1 DEF PeriodsWithin
  <1> QED
    BY <1>2, <1>3

\* The same for both bounds of a limit.
LEMMA LimitAdd ==
    ASSUME TypeOK, NEW limit \in Limit,
           NEW rows \in SUBSET Row, IsFiniteSet(rows), \A w \in rows : w.at <= clock,
           NEW new \in Row, new \notin rows, new.at = clock,
           WithinLimit(limit, rows, new.id.amount),
           PeriodsWithin(limit.hourly, Hour, rows), PeriodsWithin(limit.daily, Day, rows)
    PROVE  /\ PeriodsWithin(limit.hourly, Hour, rows \union {new})
           /\ PeriodsWithin(limit.daily, Day, rows \union {new})
  <1>1. /\ limit.hourly \in Int \union {NoLimit} /\ limit.daily \in Int \union {NoLimit}
        /\ Hour \in Nat \ {0} /\ Day \in Nat \ {0}
    BY NitewatchAssumption DEF Limit
  <1>2. /\ limit.hourly # NoLimit =>
               Total(rows, Truncate(clock, Hour)) + new.id.amount <= limit.hourly
        /\ limit.daily # NoLimit =>
               Total(rows, Truncate(clock, Day)) + new.id.amount <= limit.daily
    BY DEF WithinLimit
  <1> QED
    BY <1>1, <1>2, PeriodsAdd

\* What both checks allow keeps the policy, whatever rows they were asked about.
LEMMA PolicyAdd ==
    ASSUME TypeOK, NEW rows \in SUBSET Row, IsFiniteSet(rows), \A w \in rows : w.at <= clock,
           NEW new \in Row, new \notin rows, new.at = clock,
           WithinPolicy(rows),
           new.id.token \in DOMAIN GlobalLimits,
           WithinLimit(GlobalLimits[new.id.token], {w \in rows : w.id.token = new.id.token},
                       new.id.amount),
           <<new.id.user, new.id.token>> \in DOMAIN UserOverrides =>
               WithinLimit(UserOverrides[<<new.id.user, new.id.token>>],
                           {w \in rows : w.id.user = new.id.user /\ w.id.token = new.id.token},
                           new.id.amount)
    PROVE  WithinPolicy(rows \union {new})
  <1> DEFINE more == rows \union {new}
             OfT(S, t) == {w \in S : w.id.token = t}
             OfP(S, p) == {w \in S : w.id.user = p[1] /\ w.id.token = p[2]}
  <1>1. \A w \in more : w.id.token \in DOMAIN GlobalLimits
    BY DEF WithinPolicy
  <1>2. ASSUME NEW t \in DOMAIN GlobalLimits
        PROVE  /\ PeriodsWithin(GlobalLimits[t].hourly, Hour, OfT(more, t))
               /\ PeriodsWithin(GlobalLimits[t].daily, Day, OfT(more, t))
    <2>1. /\ PeriodsWithin(GlobalLimits[t].hourly, Hour, OfT(rows, t))
          /\ PeriodsWithin(GlobalLimits[t].daily, Day, OfT(rows, t))
      BY DEF WithinPolicy
    <2>2. CASE new.id.token = t
      <3>1. OfT(more, t) = OfT(rows, t) \union {new}
        BY <2>2
      <3>2. GlobalLimits[t] \in Limit
        BY NitewatchAssumption
      <3>3. OfT(rows, t) \in SUBSET rows
        OBVIOUS
      <3>4. WithinLimit(GlobalLimits[t], OfT(rows, t), new.id.amount)
        BY <2>2
      <3> HIDE DEF OfT
      <3>5. /\ OfT(rows, t) \in SUBSET Row /\ IsFiniteSet(OfT(rows, t))
            /\ \A w \in OfT(rows, t) : w.at <= clock
            /\ new \notin OfT(rows, t)
        BY <3>3, FS_Subset
      <3> DEFINE limit == GlobalLimits[t]
                 mine == OfT(rows, t)
      <3>6. /\ limit \in Limit /\ mine \in SUBSET Row /\ IsFiniteSet(mine)
            /\ \A w \in mine : w.at <= clock
            /\ new \notin mine
            /\ WithinLimit(limit, mine, new.id.amount)
            /\ PeriodsWithin(limit.hourly, Hour, mine) /\ PeriodsWithin(limit.daily, Day, mine)
        BY <2>1, <3>2, <3>4, <3>5
      <3> HIDE DEF limit, mine
      <3>7. /\ PeriodsWithin(limit.hourly, Hour, mine \union {new})
            /\ PeriodsWithin(limit.daily, Day, mine \union {new})
        BY <3>6, LimitAdd
      <3> QED
        BY <3>1, <3>7 DEF limit, mine
    <2>3. CASE new.id.token # t
      <3>1. OfT(more, t) = OfT(rows, t)
        BY <2>3
      <3> QED
        BY <2>1, <3>1
    <2> QED
      BY <2>2, <2>3
  <1>3. ASSUME NEW p \in DOMAIN UserOverrides
        PROVE  /\ PeriodsWithin(UserOverrides[p].hourly, Hour, OfP(more, p))
               /\ PeriodsWithin(UserOverrides[p].daily, Day, OfP(more, p))
    <2>1. /\ PeriodsWithin(UserOverrides[p].hourly, Hour, OfP(rows, p))
          /\ PeriodsWithin(UserOverrides[p].daily, Day, OfP(rows, p))
      BY DEF WithinPolicy
    <2>2. CASE new.id.user = p[1] /\ new.id.token = p[2]
      <3>1. OfP(more, p) = OfP(rows, p) \union {new}
        BY <2>2
      <3>2. UserOverrides[p] \in Limit /\ p = <<new.id.user, new.id.token>>
        BY <2>2, NitewatchAssumption
      <3>3. OfP(rows, p) \in SUBSET rows
        OBVIOUS
      <3>4. WithinLimit(UserOverrides[p], OfP(rows, p), new.id.amount)
        BY <2>2, <3>2
      <3> HIDE DEF OfP
      <3>5. /\ OfP(rows, p) \in SUBSET Row /\ IsFiniteSet(OfP(rows, p))
            /\ \A w \in OfP(rows, p) : w.at <= clock
            /\ new \notin OfP(rows, p)
        BY <3>3, FS_Subset
      <3> DEFINE limit == UserOverrides[p]
                 mine == OfP(rows, p)
      <3>6. /\ limit \in Limit /\ mine \in SUBSET Row /\ IsFiniteSet(mine)
            /\ \A w \in mine : w.at <= clock
            /\ new \notin mine
            /\ WithinLimit(limit, mine, new.id.amount)
            /\ PeriodsWithin(limit.hourly, Hour, mine) /\ PeriodsWithin(limit.daily, Day, mine)
        BY <2>1, <3>2, <3>4, <3>5
      <3> HIDE DEF limit, mine
      <3>7. /\ PeriodsWithin(limit.hourly, Hour, mine \union {new})
            /\ PeriodsWithin(limit.daily, Day, mine \union {new})
        BY <3>6, LimitAdd
      <3> QED
        BY <3>1, <3>7 DEF limit, mine
    <2>3. CASE ~(new.id.user = p[1] /\ new.id.token = p[2])
      <3>1. OfP(more, p) = OfP(rows, p)
        BY <2>3
      <3> QED
        BY <2>1, <3>1
    <2> QED
      BY <2>2, <2>3
  <1> QED
    BY <1>1, <1>2, <1>3 DEF WithinPolicy

-----------------------------------------------------------------------------
(***************************************************************************)
(* What the checks have allowed stays allowed while no row is added: time  *)
(* only takes rows out of the current hour and day.                        *)
(***************************************************************************)
GloballyAllowed == {r \in Requests : GlobalAllows(r)}
Allowed == {r \in GloballyAllowed : UserAllows(r)}

Rows ==
    /\ IsFiniteSet(withdrawals)
    /\ \A w \in withdrawals : w.at <= clock
    /\ \A v, w \in withdrawals : v.id = w.id => v = w

LEMMA RowsType ==
    ASSUME TypeOK, Rows, NEW part \in SUBSET withdrawals
    PROVE  part \in SUBSET Row /\ IsFiniteSet(part) /\ \A w \in part : w.at <= clock
  BY FS_Subset DEF TypeOK, Rows, Row

LEMMA TotalLater ==
    ASSUME NEW rows \in SUBSET Row, IsFiniteSet(rows), NEW length \in Nat \ {0},
           clock \in Nat, clock' \in Nat, clock <= clock'
    PROVE  /\ Total(rows, Truncate(clock', length)) <= Total(rows, Truncate(clock, length))
           /\ Total(rows, Truncate(clock', length)) \in Nat
           /\ Total(rows, Truncate(clock, length)) \in Nat
  <1> DEFINE since == Truncate(clock, length)
             later == Truncate(clock', length)
  <1>1. since \in Int /\ later \in Int /\ since <= later
    BY TruncateIs, TruncatePeriod
  <1> HIDE DEF since, later
  <1>2. Total(rows, later) <= Total(rows, since)
    BY <1>1, TotalShrinks
  <1>3. Total(rows, later) \in Nat /\ Total(rows, since) \in Nat
    BY <1>1, TotalIs
  <1> QED
    BY <1>2, <1>3 DEF since, later

LEMMA AllowsLater ==
    ASSUME TypeOK, Rows, NEW r \in Requests,
           UNCHANGED withdrawals, clock' \in Nat, clock <= clock'
    PROVE  /\ GlobalAllows(r) => GlobalAllows(r)'
           /\ UserAllows(r) => UserAllows(r)'
  <1>1. /\ clock \in Nat /\ Hour \in Nat \ {0} /\ Day \in Nat \ {0} /\ r.amount \in Nat
    BY NitewatchAssumption DEF TypeOK
  <1>2. ASSUME NEW limit \in Limit, NEW rows \in SUBSET withdrawals,
               WithinLimit(limit, rows, r.amount)
        PROVE  /\ limit.hourly # NoLimit =>
                      Total(rows, Truncate(clock', Hour)) + r.amount <= limit.hourly
               /\ limit.daily # NoLimit =>
                      Total(rows, Truncate(clock', Day)) + r.amount <= limit.daily
    <2>1. rows \in SUBSET Row /\ IsFiniteSet(rows)
      BY <1>2, RowsType
    <2>2. /\ limit.hourly \in Int \union {NoLimit} /\ limit.daily \in Int \union {NoLimit}
      BY DEF Limit
    <2>3. /\ limit.hourly # NoLimit =>
                 Total(rows, Truncate(clock, Hour)) + r.amount <= limit.hourly
          /\ limit.daily # NoLimit =>
                 Total(rows, Truncate(clock, Day)) + r.amount <= limit.daily
      BY <1>2 DEF WithinLimit
    <2>4. /\ Total(rows, Truncate(clock', Hour)) <= Total(rows, Truncate(clock, Hour))
          /\ Total(rows, Truncate(clock', Hour)) \in Nat
          /\ Total(rows, Truncate(clock, Hour)) \in Nat
      BY <1>1, <2>1, TotalLater
    <2>5. /\ Total(rows, Truncate(clock', Day)) <= Total(rows, Truncate(clock, Day))
          /\ Total(rows, Truncate(clock', Day)) \in Nat
          /\ Total(rows, Truncate(clock, Day)) \in Nat
      BY <1>1, <2>1, TotalLater
    <2> QED
      BY <1>1, <2>2, <2>3, <2>4, <2>5
  <1>3. OfToken(r.token)' = OfToken(r.token) /\ OfToken(r.token) \in SUBSET withdrawals
    BY DEF OfToken
  <1>4. OfUser(r.user, r.token)' = OfUser(r.user, r.token)
        /\ OfUser(r.user, r.token) \in SUBSET withdrawals
    BY <1>3 DEF OfUser
  <1>5. ASSUME GlobalAllows(r) PROVE GlobalAllows(r)'
    <2>1. r.token \in DOMAIN GlobalLimits /\ GlobalLimits[r.token] \in Limit
      BY <1>5, NitewatchAssumption DEF GlobalAllows
    <2> QED
      BY <1>2, <1>3, <1>5, <2>1 DEF GlobalAllows, WithinLimit
  <1>6. ASSUME UserAllows(r) PROVE UserAllows(r)'
    <2>1. CASE <<r.user, r.token>> \in DOMAIN UserOverrides
      <3>1. UserOverrides[<<r.user, r.token>>] \in Limit
        BY <2>1, NitewatchAssumption
      <3> QED
        BY <1>2, <1>4, <1>6, <3>1 DEF UserAllows, WithinLimit
    <2>2. CASE <<r.user, r.token>> \notin DOMAIN UserOverrides
      BY <2>2 DEF UserAllows
    <2> QED
      BY <2>1, <2>2
  <1> QED
    BY <1>5, <1>6

LEMMA StaysAllowed ==
    ASSUME TypeOK, Rows, UNCHANGED withdrawals, clock' \in Nat, clock <= clock'
    PROVE  GloballyAllowed \subseteq GloballyAllowed' /\ Allowed \subseteq Allowed'
  <1>1. ASSUME NEW r \in Requests
        PROVE  /\ GlobalAllows(r) => GlobalAllows(r)'
               /\ UserAllows(r) => UserAllows(r)'
    BY AllowsLater
  <1> QED
    BY <1>1 DEF GloballyAllowed, Allowed

-----------------------------------------------------------------------------
(***************************************************************************)
(* The invariant of the policy.  A row is added when the transaction the   *)
(* worker waited for has been mined: it was the last one sent, so none is  *)
(* left that the new row could forbid.                                     *)
(***************************************************************************)
LastAwaited ==
    /\ pc = "wait" /\ receipt = "none" => mempool # <<>> /\ mempool[Len(mempool)].awaited
    /\ (pc = "wait" /\ receipt # "none") \/ pc = "record" => mempool = <<>>

FinalizeAllowed ==
    /\ pc = "user" => request \in GloballyAllowed
    /\ pc \in {"send", "wait", "record"} /\ verdict = "finalize" => request \in Allowed
    /\ pc = "record" => verdict = "finalize"
    /\ \A i \in DOMAIN mempool : mempool[i].op = "finalize" => mempool[i].id \in Allowed

LimitInv == Rows /\ LastAwaited /\ FinalizeAllowed /\ RecordedWithinLimits

LEMMA MempoolType ==
    ASSUME TypeOK
    PROVE  /\ mempool \in Seq(Transaction) /\ Len(mempool) \in Nat
           /\ DOMAIN mempool = 1 .. Len(mempool)
           /\ mempool = <<>> <=> Len(mempool) = 0
           /\ \A i \in DOMAIN mempool : mempool[i] \in Transaction /\ mempool[i].id \in Requests
  <1>1. mempool \in Seq(Transaction)
    BY DEF TypeOK, Transaction
  <1>2. \A i \in 1 .. Len(mempool) : mempool[i] \in Transaction
    BY <1>1, ElementOfSeq
  <1>3. \A i \in 1 .. Len(mempool) : mempool[i].id \in Requests
    BY <1>2 DEF Transaction
  <1> QED
    BY <1>1, <1>2, <1>3, LenProperties, EmptySeq

\* How the mempool may change: mined, forgotten, or one transaction more.
Mined == mempool # <<>> /\ mempool' = Tail(mempool)

SameTransactions ==
    /\ DOMAIN mempool' = DOMAIN mempool
    /\ \A i \in DOMAIN mempool : /\ mempool'[i].id = mempool[i].id
                                 /\ mempool'[i].op = mempool[i].op

OneMore(tx) ==
    /\ DOMAIN mempool' = DOMAIN mempool \union {Len(mempool) + 1}
    /\ \A i \in DOMAIN mempool : i # Len(mempool) + 1 /\ mempool'[i] = mempool[i]
    /\ mempool'[Len(mempool) + 1] = tx
    /\ Len(mempool') = Len(mempool) + 1

LEMMA EndsMempool ==
    ASSUME TypeOK, Crash \/ Exit \/ WaitCancelled
    PROVE  SameTransactions
  <1>1. mempool' = [i \in DOMAIN mempool |-> [mempool[i] EXCEPT !.awaited = FALSE]]
    BY DEF Crash, Exit, Ends, WaitCancelled
  <1>2. \A i \in DOMAIN mempool : /\ mempool'[i].id = mempool[i].id
                                  /\ mempool'[i].op = mempool[i].op
    BY <1>1, MempoolType, ForgetType
  <1>3. DOMAIN mempool' = DOMAIN mempool
    BY <1>1
  <1> QED
    BY <1>2, <1>3 DEF SameTransactions

LEMMA SubmitMempool ==
    ASSUME Knows, Send \/ SendAnswerLost
    PROVE  \E tx \in Transaction : /\ OneMore(tx)
                                   /\ tx.id = request /\ tx.op = verdict
                                   /\ tx.awaited <=> Send
  <1>1. PICK awaited \in BOOLEAN : pc = "send" /\ Submit(awaited) /\ (awaited <=> Send)
    BY DEF Send, SendAnswerLost, Fails
  <1>2. PICK tx \in Transaction : /\ tx.id = request /\ tx.op = verdict
                                  /\ tx.awaited = awaited
                                  /\ mempool' = Append(mempool, tx)
    BY <1>1, SubmitType DEF Knows
  <1>3. /\ mempool \in Seq(Transaction) /\ Len(mempool) \in Nat
        /\ DOMAIN mempool = 1 .. Len(mempool)
    BY MempoolType DEF Knows
  <1>4. /\ DOMAIN mempool' = 1 .. Len(mempool) + 1
        /\ \A i \in 1 .. Len(mempool) : mempool'[i] = mempool[i]
        /\ mempool'[Len(mempool) + 1] = tx
        /\ Len(mempool') = Len(mempool) + 1
    BY <1>2, <1>3, AppendProperties, LenProperties
  <1>5. 1 .. Len(mempool) + 1 = 1 .. Len(mempool) \union {Len(mempool) + 1}
    BY <1>3
  <1>6. OneMore(tx)
    BY <1>3, <1>4, <1>5 DEF OneMore
  <1> QED
    BY <1>1, <1>2, <1>6

LEMMA MineMempool ==
    ASSUME TypeOK, Mine
    PROVE  /\ Mined /\ UNCHANGED <<pc, ev, verdict, decision, log, store, clock>>
           /\ DOMAIN mempool' \subseteq Nat
           /\ \A i \in DOMAIN mempool' : /\ i + 1 \in DOMAIN mempool
                                         /\ mempool'[i] = mempool[i + 1]
           /\ Len(mempool') = Len(mempool) - 1
           /\ Len(mempool) \in Nat \ {0} /\ 1 \in DOMAIN mempool
           /\ mempool' \in Seq(Transaction)
           /\ \E status \in {"ok", "reverted"} :
                 receipt' = IF mempool[1].awaited THEN status ELSE receipt
  <1>1. PICK status \in {"ok", "reverted"} : MineNext(status)
    BY DEF Mine, MineFinalize, MineReject, MineRevert
  <1> QED
    BY <1>1, HeadType DEF MineNext, Mined

-----------------------------------------------------------------------------
LEMMA StepLastAwaited ==
    ASSUME Knows, LastAwaited, [Next]_vars
    PROVE  LastAwaited'
  <1>1. CASE Mine
    <2>1. UNCHANGED pc /\ mempool # <<>> /\ pc # "record"
      BY <1>1, MineMempool DEF Knows, Mined, LastAwaited
    <2>2. ASSUME pc = "wait"
          PROVE  LastAwaited'
      <3>1. receipt = "none" /\ mempool[Len(mempool)].awaited
        BY <2>1, <2>2 DEF LastAwaited
      <3>2. /\ Len(mempool) \in DOMAIN mempool /\ 1 \in DOMAIN mempool
            /\ Len(mempool) \in Nat
        BY <1>1, MineMempool, MempoolType DEF Knows
      <3>3. mempool[1].awaited => Len(mempool) = 1
        BY <3>1, <3>2 DEF Knows, Awaiting
      <3>4. /\ mempool' \in Seq(Transaction) /\ Len(mempool') = Len(mempool) - 1
            /\ DOMAIN mempool' = 1 .. Len(mempool')
            /\ \A i \in DOMAIN mempool' : mempool'[i] = mempool[i + 1]
        BY <1>1, MineMempool, LenProperties DEF Knows
      <3>5. CASE Len(mempool) = 1
        <4>1. mempool' = <<>>
          BY <3>4, <3>5, EmptySeq
        <4>2. receipt' # "none"
          BY <1>1, <3>1, <3>5, MineMempool DEF Knows
        <4> QED
          BY <2>1, <4>1, <4>2 DEF LastAwaited
      <3>6. CASE Len(mempool) # 1
        <4>1. receipt' = "none"
          BY <1>1, <3>1, <3>3, <3>6, MineMempool DEF Knows
        <4>2. Len(mempool') \in DOMAIN mempool' /\ mempool' # <<>>
          BY <3>2, <3>4, <3>6
        <4>3. mempool'[Len(mempool')] = mempool[Len(mempool)]
          BY <3>2, <3>4, <4>2
        <4> QED
          BY <2>1, <2>2, <3>1, <4>1, <4>2, <4>3 DEF LastAwaited
      <3> QED
        BY <3>5, <3>6
    <2>3. ASSUME pc # "wait"
          PROVE  LastAwaited'
      BY <2>1, <2>3 DEF LastAwaited
    <2> QED
      BY <2>2, <2>3
  <1>2. CASE Send
    <2>1. PICK tx \in Transaction : OneMore(tx) /\ tx.awaited
      BY <1>2, SubmitMempool
    <2>2. mempool' # <<>> /\ mempool'[Len(mempool')].awaited
      BY <2>1 DEF OneMore
    <2> QED
      BY <1>2, <2>2 DEF LastAwaited, Send
  <1>3. CASE WaitMined
    BY <1>3 DEF WaitMined, LastAwaited
  <1>4. CASE pc' \notin {"wait", "record"}
    BY <1>4 DEF LastAwaited
  <1>5. CASE UNCHANGED <<mempool, worker>>
    BY <1>5 DEF LastAwaited, worker
  <1> QED
    BY <1>1, <1>2, <1>3, <1>4, <1>5
    DEF Next, Start, RejectExpired, Approve, Tick, Boot, Crash, Exit, Ends, Interrupt,
        Disconnect, OtherLog, Return, Listen, ReadHeader, Subscribe, OfferHistorical,
        OfferLive, ListenerStep, Work, Receive, CheckGlobalLimits, CheckUserLimits, Verdict,
        SendFails, SendAnswerLost, Fails, WaitCancelled, Record, RecordEvent, vars, worker

\* No step takes time back, and only Record changes the rows.
LEMMA StepClock ==
    ASSUME TypeOK, [Next]_vars
    PROVE  /\ clock \in Nat /\ clock' \in Nat /\ clock <= clock'
           /\ UNCHANGED withdrawals \/ (Record /\ UNCHANGED clock)
  <1>1. clock \in Nat
    BY NitewatchAssumption DEF TypeOK
  <1>2. clock' = clock \/ clock' = clock + 1
    BY DEF Next, Start, RejectExpired, Approve, Mine, MineFinalize, MineReject, MineRevert,
           MineNext, Tick, Boot, Crash, Exit, Ends, Interrupt, Disconnect, OtherLog, Return,
           Listen, ReadHeader, Subscribe, OfferHistorical, OfferLive, ListenerStep, Work,
           Receive, CheckGlobalLimits, CheckUserLimits, Send, SendFails, SendAnswerLost,
           Fails, WaitMined, WaitCancelled, Record, RecordEvent, vars
  <1>3. UNCHANGED withdrawals \/ (Record /\ UNCHANGED clock)
    BY DEF Next, Start, RejectExpired, Approve, Mine, MineFinalize, MineReject, MineRevert,
           MineNext, Tick, Boot, Crash, Exit, Ends, Interrupt, Disconnect, OtherLog, Return,
           Listen, ReadHeader, Subscribe, OfferHistorical, OfferLive, ListenerStep, Work,
           Receive, CheckGlobalLimits, CheckUserLimits, Send, SendFails, SendAnswerLost,
           Fails, WaitMined, WaitCancelled, Record, RecordEvent, vars, store
  <1> QED
    BY <1>1, <1>2, <1>3

LEMMA StepFinalizeAllowed ==
    ASSUME Knows, Rows, LastAwaited, FinalizeAllowed, [Next]_vars
    PROVE  FinalizeAllowed'
  <1>1. ASSUME UNCHANGED withdrawals
        PROVE  GloballyAllowed \subseteq GloballyAllowed' /\ Allowed \subseteq Allowed'
    BY <1>1, StepClock, StaysAllowed DEF Knows
  <1>2. pc \in Busy => ev # 0 /\ request \in Requests /\ ev \in DOMAIN log
    BY RequestIn DEF Knows, Working
  <1>3. ASSUME UNCHANGED withdrawals,
               UNCHANGED mempool \/ SameTransactions \/ Mine
        PROVE  \A i \in DOMAIN mempool' :
                   mempool'[i].op = "finalize" => mempool'[i].id \in Allowed'
    <2>1. \A i \in DOMAIN mempool : mempool[i].op = "finalize" => mempool[i].id \in Allowed'
      BY <1>1, <1>3 DEF FinalizeAllowed
    <2> QED
      BY <1>3, <2>1, MineMempool DEF Knows, SameTransactions
  <1>4. CASE UNCHANGED <<withdrawals, worker, mempool>>
    <2>1. pc \in Busy => request' = request
      BY <1>2, <1>4, StepLog DEF Knows, request, worker
    <2> QED
      BY <1>1, <1>3, <1>4, <2>1 DEF FinalizeAllowed, Busy, worker
  <1>5. CASE Mine
    <2>1. UNCHANGED <<withdrawals, pc, ev, verdict, log>> /\ request' = request
      BY <1>5, MineMempool DEF Knows, store, request
    <2> QED
      BY <1>1, <1>3, <1>5, <2>1 DEF FinalizeAllowed
  <1>6. CASE Crash \/ Exit \/ WaitCancelled
    <2>1. UNCHANGED withdrawals /\ pc' \in {"down", "store"}
      BY <1>6 DEF Crash, Exit, Ends, WaitCancelled, Fails, store
    <2>2. SameTransactions
      BY <1>6, EndsMempool DEF Knows
    <2> QED
      BY <1>3, <2>1, <2>2 DEF FinalizeAllowed
  <1>7. CASE Boot \/ Receive \/ SendFails \/ RecordEvent
    <2>1. UNCHANGED <<withdrawals, mempool>>
      BY <1>7 DEF Boot, Receive, SendFails, Fails, RecordEvent, store
    <2>2. pc' \in {"idle", "global", "store"}
      BY <1>7 DEF Boot, Receive, SendFails, Fails, RecordEvent
    <2> QED
      BY <1>3, <2>1, <2>2 DEF FinalizeAllowed
  <1>8. CASE CheckGlobalLimits
    <2>1. UNCHANGED <<withdrawals, mempool, log, ev>> /\ pc = "global"
      BY <1>8 DEF CheckGlobalLimits, Verdict, store, chain
    <2>2. request' = request /\ request \in Requests
      BY <1>2, <2>1 DEF request, Busy
    <2>3. \/ pc' = "user" /\ request \in GloballyAllowed
          \/ pc' = "send" /\ verdict' = "reject"
      BY <1>8, <2>2 DEF CheckGlobalLimits, Verdict, GloballyAllowed
    <2> QED
      BY <1>1, <1>3, <2>1, <2>2, <2>3 DEF FinalizeAllowed
  <1>9. CASE CheckUserLimits
    <2>1. UNCHANGED <<withdrawals, mempool, log, ev>> /\ pc = "user" /\ pc' = "send"
      BY <1>9 DEF CheckUserLimits, Verdict, store, chain
    <2>2. request' = request /\ request \in GloballyAllowed
      BY <2>1 DEF request, FinalizeAllowed
    <2>3. (verdict' = "finalize" /\ request \in Allowed) \/ verdict' = "reject"
      BY <1>9, <2>2 DEF CheckUserLimits, Verdict, Allowed
    <2> QED
      BY <1>1, <1>3, <2>1, <2>2, <2>3 DEF FinalizeAllowed
  <1>10. CASE Send \/ SendAnswerLost
    <2>1. /\ UNCHANGED <<withdrawals, log, ev, verdict>>
          /\ pc = "send" /\ pc' \in {"wait", "store"}
      BY <1>10 DEF Send, SendAnswerLost, Fails, store, chain
    <2>2. request' = request /\ (verdict = "finalize" => request \in Allowed)
      BY <2>1 DEF request, FinalizeAllowed
    <2>3. PICK tx \in Transaction : OneMore(tx) /\ tx.id = request /\ tx.op = verdict
      BY <1>10, SubmitMempool
    <2>4. ASSUME NEW i \in DOMAIN mempool', mempool'[i].op = "finalize"
          PROVE  mempool'[i].id \in Allowed
      BY <2>2, <2>3, <2>4 DEF OneMore, FinalizeAllowed
    <2> QED
      BY <1>1, <2>1, <2>2, <2>4 DEF FinalizeAllowed
  <1>11. CASE WaitMined
    <2>1. /\ UNCHANGED <<withdrawals, mempool, log, ev, verdict>> /\ pc = "wait"
          /\ (pc' = "record" /\ verdict = "finalize") \/ pc' = "store"
      BY <1>11 DEF WaitMined, Finalized, store, chain
    <2>2. request' = request
      BY <2>1 DEF request
    <2> QED
      BY <1>1, <1>3, <2>1, <2>2 DEF FinalizeAllowed
  <1>12. CASE Record
    <2>1. mempool' = <<>> /\ pc' = "store"
      BY <1>12 DEF Record, LastAwaited
    <2> QED
      BY <2>1 DEF FinalizeAllowed
  <1> QED
    BY <1>4, <1>5, <1>6, <1>7, <1>8, <1>9, <1>10, <1>11, <1>12
    DEF Next, Start, RejectExpired, Approve, Tick, Interrupt, Disconnect, OtherLog, Return,
        Listen, ReadHeader, Subscribe, OfferHistorical, OfferLive, ListenerStep, Work, vars,
        store, process

LEMMA StepRows ==
    ASSUME Knows, Rows, [Next]_vars
    PROVE  Rows'
  <1>1. \A w \in withdrawals : w.at \in Nat
    BY DEF Knows, TypeOK
  <1>2. clock \in Nat /\ clock' \in Nat /\ clock <= clock'
    BY StepClock DEF Knows
  <1>3. CASE UNCHANGED withdrawals
    BY <1>1, <1>2, <1>3 DEF Rows
  <1>4. CASE Record
    <2>1. UNCHANGED clock /\ Save(request)
      BY <1>4 DEF Record
    <2>2. CASE UNCHANGED withdrawals
      BY <1>3, <2>2
    <2>3. CASE /\ \A w \in withdrawals : w.id # request
               /\ withdrawals' = withdrawals \union {[id |-> request, at |-> clock]}
      <3>1. IsFiniteSet(withdrawals')
        BY <2>3, FS_AddElement DEF Rows
      <3> QED
        BY <1>2, <2>1, <2>3, <3>1 DEF Rows
    <2> QED
      BY <2>1, <2>2, <2>3 DEF Save
  <1> QED
    BY <1>3, <1>4, StepClock DEF Knows

LEMMA StepRecordedWithinLimits ==
    ASSUME Knows, Rows, FinalizeAllowed, RecordedWithinLimits, [Next]_vars
    PROVE  RecordedWithinLimits'
  <1>1. RecordedWithinLimits' <=> WithinPolicy(withdrawals')
    BY DEF RecordedWithinLimits
  <1>2. CASE UNCHANGED withdrawals
    BY <1>1, <1>2 DEF RecordedWithinLimits
  <1>3. CASE Record
    <2> DEFINE new == [id |-> request, at |-> clock]
    <2>1. /\ pc = "record" /\ Save(request)
          /\ request \in Requests /\ request \in Allowed
      BY <1>3, RequestIn DEF Record, FinalizeAllowed, Knows, Working, Busy
    <2>2. CASE ~UNCHANGED withdrawals
      <3>1. /\ withdrawals' = withdrawals \union {new}
            /\ \A w \in withdrawals : w.id # request
        BY <2>1, <2>2 DEF Save
      <3>2. new \in Row /\ new.id = request /\ new.at = clock /\ new \notin withdrawals
        BY <2>1, <3>1 DEF Row, Knows, TypeOK
      <3>3. /\ withdrawals \in SUBSET Row /\ IsFiniteSet(withdrawals)
            /\ \A w \in withdrawals : w.at <= clock
        BY RowsType DEF Knows
      <3> HIDE DEF new
      <3>4. /\ new.id.token \in DOMAIN GlobalLimits
            /\ WithinLimit(GlobalLimits[new.id.token],
                           {w \in withdrawals : w.id.token = new.id.token}, new.id.amount)
        BY <2>1, <3>2 DEF Allowed, GloballyAllowed, GlobalAllows, OfToken
      <3>5. OfUser(new.id.user, new.id.token)
              = {w \in withdrawals : w.id.user = new.id.user /\ w.id.token = new.id.token}
        BY DEF OfUser, OfToken
      <3>6. <<new.id.user, new.id.token>> \in DOMAIN UserOverrides =>
                WithinLimit(UserOverrides[<<new.id.user, new.id.token>>],
                            {w \in withdrawals :
                                w.id.user = new.id.user /\ w.id.token = new.id.token},
                            new.id.amount)
        BY <2>1, <3>2, <3>5 DEF Allowed, UserAllows
      <3>7. WithinPolicy(withdrawals)
        BY DEF RecordedWithinLimits
      <3>8. WithinPolicy(withdrawals \union {new})
        BY <3>2, <3>3, <3>4, <3>6, <3>7, PolicyAdd DEF Knows
      <3> QED
        BY <1>1, <3>1, <3>8
    <2> QED
      BY <1>2, <2>2
  <1> QED
    BY <1>2, <1>3, StepClock DEF Knows

LEMMA InitLimitInv == Init => LimitInv
  <1> SUFFICES ASSUME Init PROVE LimitInv
    OBVIOUS
  <1>1. Rows /\ LastAwaited /\ FinalizeAllowed
    BY FS_EmptySet DEF Init, Rows, LastAwaited, FinalizeAllowed
  <1>2. RecordedWithinLimits
    BY DEF Init, RecordedWithinLimits, WithinPolicy, PeriodsWithin
  <1> QED
    BY <1>1, <1>2 DEF LimitInv

LEMMA StepLimitInv == Inv /\ LimitInv /\ [Next]_vars => LimitInv'
  BY StepLastAwaited, StepFinalizeAllowed, StepRows, StepRecordedWithinLimits
  DEF Inv, Knows, LimitInv

\* What the database has recorded in one hour or day never exceeds a limit, global or of
\* a user, under every fault: Check and Record read the clock at different times and a
\* transaction is mined between, but what fits an hour fits the later ones too.
THEOREM RecordsKeepThePolicy == Spec => []RecordedWithinLimits
  <1>1. Init => Inv /\ LimitInv
    BY InitInv, InitLimitInv
  <1>2. Inv /\ LimitInv /\ [Next]_vars => Inv' /\ LimitInv'
    BY StepInv, StepLimitInv
  <1>3. LimitInv => RecordedWithinLimits
    BY DEF LimitInv
  <1> QED
    BY <1>1, <1>2, <1>3, PTL DEF Spec

-----------------------------------------------------------------------------
(***************************************************************************)
(* Rejections.  A rejectWithdraw that the daemon sent can only revert when *)
(* the withdrawal is rejected already: no finalizeWithdraw of it is in the *)
(* mempool, since that one would be allowed still, and other signers       *)
(* cannot complete what has expired.                                       *)
(***************************************************************************)
Rejecting ==
    /\ pc \in {"send", "wait"} /\ verdict = "reject" =>
           \A i \in DOMAIN mempool : mempool[i].op = "finalize" => mempool[i].id # request
    /\ pc = "wait" /\ verdict = "reject" =>
           /\ stage[request] \in {"pending", "rejected"}
           /\ ~SimpleCustody => Expired(request)
           /\ receipt # "none" => stage[request] = "rejected"
    /\ pc = "store" /\ decision = "rejected" => stage[request] = "rejected"

\* How a stage changes: only the daemon's finalizeWithdraw, or another signer's before
\* the withdrawal expires, pays it.
LEMMA StepStage ==
    ASSUME TypeOK, [Next]_vars, NEW r \in Requests
    PROVE  /\ stage'[r] # stage[r] =>
                  \/ stage[r] = "none" /\ stage'[r] = "pending"
                  \/ stage[r] = "pending" /\ stage'[r] = "rejected"
                  \/ /\ stage[r] = "pending" /\ stage'[r] = "paid"
                     /\ \/ MineFinalize /\ r = Head(mempool).id
                        \/ ~SimpleCustody /\ ~Expired(r)
           /\ stage[r] # "none" => createdAt'[r] = createdAt[r]
           /\ quorum' = quorum
  <1>1. stage \in [Requests -> Contract!Stages] /\ createdAt \in [Requests -> 0 .. MaxTime]
    BY DEF TypeOK
  <1>2. ASSUME NEW q \in Requests, Start(q)
        PROVE  /\ stage'[r] # stage[r] => stage[r] = "none" /\ stage'[r] = "pending"
               /\ stage[r] # "none" => createdAt'[r] = createdAt[r]
               /\ quorum' = quorum
    <2>1. stage[q] = "none" /\ stage' = [stage EXCEPT ![q] = "pending"]
      BY <1>2 DEF Start, Contract!Start
    <2>2. createdAt' = createdAt \/ createdAt' = [createdAt EXCEPT ![q] = clock]
      BY <1>2 DEF Start
    <2> QED
      BY <1>1, <1>2, <2>1, <2>2 DEF Start
  <1>3. ASSUME NEW q \in Requests, RejectExpired(q)
        PROVE  /\ stage'[r] # stage[r] => stage[r] = "pending" /\ stage'[r] = "rejected"
               /\ UNCHANGED <<createdAt, quorum>>
    BY <1>1, <1>3 DEF RejectExpired, Contract!Reject
  <1>4. ASSUME NEW q \in Requests, NEW s \in Signers, Approve(s, q)
        PROVE  /\ stage'[r] # stage[r] => /\ stage[r] = "pending" /\ stage'[r] = "paid"
                                          /\ ~SimpleCustody /\ ~Expired(r)
               /\ UNCHANGED <<createdAt, quorum>>
    <2>1. /\ ~SimpleCustody /\ stage[q] = "pending" /\ ~Expired(q)
          /\ UNCHANGED <<createdAt, quorum>>
      BY <1>4 DEF Approve, Callable
    <2>2. UNCHANGED stage \/ stage' = [stage EXCEPT ![q] = "paid"]
      BY <1>4 DEF Approve, CountApproval, Execute, Contract!Pay
    <2> QED
      BY <1>1, <2>1, <2>2
  <1>5. ASSUME MineFinalize
        PROVE  /\ stage'[r] # stage[r] => /\ stage[r] = "pending" /\ stage'[r] = "paid"
                                          /\ r = Head(mempool).id
               /\ UNCHANGED <<createdAt, quorum>>
    <2> DEFINE q == Head(mempool).id
    <2>1. q \in Requests /\ stage[q] = "pending" /\ UNCHANGED <<createdAt, quorum>>
      BY <1>5, HeadType DEF MineFinalize, MineNext, Mineable, Callable
    <2>2. UNCHANGED stage \/ stage' = [stage EXCEPT ![q] = "paid"]
      BY <1>5 DEF MineFinalize, CountApproval, Execute, Contract!Pay
    <2> HIDE DEF q
    <2>3. stage'[r] # stage[r] => stage[r] = "pending" /\ stage'[r] = "paid" /\ r = q
      BY <1>1, <2>1, <2>2
    <2> QED
      BY <2>1, <2>3 DEF q
  <1>6. ASSUME MineReject
        PROVE  /\ stage'[r] # stage[r] => stage[r] = "pending" /\ stage'[r] = "rejected"
               /\ UNCHANGED <<createdAt, quorum>>
    <2>1. Head(mempool).id \in Requests
      BY <1>6, HeadType DEF MineReject, MineNext
    <2> QED
      BY <1>1, <1>6, <2>1 DEF MineReject, MineNext, Contract!Reject
  <1>7. CASE UNCHANGED <<stage, createdAt, quorum>>
    BY <1>7
  <1> QED
    BY <1>2, <1>3, <1>4, <1>5, <1>6, <1>7
    DEF Next, Mine, MineRevert, MineNext, Tick, Boot, Crash, Exit, Ends, Interrupt,
        Disconnect, OtherLog, Return, Listen, ReadHeader, Subscribe, OfferHistorical,
        OfferLive, ListenerStep, Work, Receive, CheckGlobalLimits, CheckUserLimits, Send,
        SendFails, SendAnswerLost, Fails, WaitMined, WaitCancelled, Record, RecordEvent,
        vars, chain, contract

\* While it waits for a rejectWithdraw, the withdrawal is not paid.
LEMMA RejectingStage ==
    ASSUME Knows, Rejecting, [Next]_vars, pc = "wait", verdict = "reject"
    PROVE  /\ stage'[request] \in {"pending", "rejected"}
           /\ stage[request] = "rejected" => stage'[request] = "rejected"
           /\ ~SimpleCustody' => clock' > createdAt'[request] + Hour
  <1>1. request \in Requests
    BY RequestIn DEF Knows, Working, Busy
  <1>2. /\ stage[request] \in {"pending", "rejected"}
        /\ ~SimpleCustody => Expired(request)
    BY DEF Rejecting
  <1>3. ~(MineFinalize /\ request = Head(mempool).id)
    BY MineMempool, HeadType DEF Knows, Mine, MineFinalize, MineNext, Rejecting
  <1>4. /\ stage'[request] \in {"pending", "rejected"}
        /\ stage[request] = "rejected" => stage'[request] = "rejected"
    BY <1>1, <1>2, <1>3, StepStage DEF Knows
  <1>5. createdAt'[request] = createdAt[request] /\ quorum' = quorum
    BY <1>1, <1>2, StepStage DEF Knows
  <1>6. clock \in Nat /\ clock' \in Nat /\ clock <= clock'
    BY StepClock DEF Knows
  <1>7. createdAt[request] \in Nat /\ Hour \in Nat
    BY <1>1, NitewatchAssumption DEF Knows, TypeOK
  <1> QED
    BY <1>2, <1>4, <1>5, <1>6, <1>7 DEF Expired, SimpleCustody

LEMMA MineRejecting ==
    ASSUME Knows, LastAwaited, Rejecting, [Next]_vars, Mine
    PROVE  Rejecting'
  <1>1. /\ UNCHANGED <<pc, ev, verdict, decision, log>> /\ request' = request
        /\ \A i \in DOMAIN mempool' : i + 1 \in DOMAIN mempool /\ mempool'[i] = mempool[i + 1]
    BY MineMempool DEF Knows, request
  <1>2. pc \in Busy => request \in Requests
    BY RequestIn DEF Knows, Working
  <1>3. ASSUME pc = "store", decision = "rejected"
        PROVE  stage'[request] = "rejected"
    BY <1>2, <1>3, StepStage DEF Knows, Rejecting, Busy
  <1>4. ASSUME pc = "wait", verdict = "reject"
        PROVE  /\ stage'[request] \in {"pending", "rejected"}
               /\ ~SimpleCustody' => Expired(request)'
               /\ receipt' # "none" => stage'[request] = "rejected"
    <2>1. /\ stage'[request] \in {"pending", "rejected"}
          /\ stage[request] = "rejected" => stage'[request] = "rejected"
          /\ ~SimpleCustody' => Expired(request)'
      BY <1>1, <1>4, RejectingStage DEF Expired
    <2>2. ASSUME receipt = "none", receipt' # "none"
          PROVE  stage'[request] = "rejected"
      <3>1. mempool[1].awaited /\ 1 \in DOMAIN mempool /\ Head(mempool) = mempool[1]
        BY <2>2, MineMempool, HeadType DEF Knows, Mined
      <3>2. Head(mempool).op = "reject" /\ Head(mempool).id = request
        BY <1>4, <3>1 DEF Knows, Awaiting
      <3>3. CASE MineReject
        <4>1. stage' = [stage EXCEPT ![request] = "rejected"]
          BY <3>2, <3>3 DEF MineReject, Contract!Reject
        <4> QED
          BY <1>2, <1>4, <4>1 DEF Knows, TypeOK, Busy
      <3>4. CASE MineRevert
        <4>1. ~Mineable("reject", request)
          BY <3>2, <3>4 DEF MineRevert
        <4>2. stage[request] # "pending"
          BY <1>4, <4>1 DEF Mineable, Callable, Rejecting
        <4> QED
          BY <1>4, <2>1, <4>2 DEF Rejecting
      <3> QED
        BY <3>2, <3>3, <3>4 DEF Mine, MineFinalize
    <2>3. receipt # "none" => stage[request] = "rejected"
      BY <1>4 DEF Rejecting
    <2> QED
      BY <2>1, <2>2, <2>3
  <1> QED
    BY <1>1, <1>3, <1>4 DEF Rejecting

LEMMA StepRejecting ==
    ASSUME Knows, Knows', LastAwaited, FinalizeAllowed, Rejecting, [Next]_vars,
           "dbread" \notin Faults
    PROVE  Rejecting'
  <1>1. pc \in Busy => ev # 0 /\ request \in Requests /\ ev \in DOMAIN log
    BY RequestIn DEF Knows, Working
  <1>2. ASSUME pc = "store", decision = "rejected"
        PROVE  stage'[request] = "rejected"
    BY <1>1, <1>2, StepStage DEF Knows, Rejecting, Busy
  <1>3. CASE Mine
    BY <1>3, MineRejecting
  <1>4. CASE UNCHANGED <<mempool, worker>>
    <2>1. pc \in Busy => request' = request
      BY <1>1, <1>4, StepLog DEF Knows, request, worker
    <2>2. ASSUME pc = "wait", verdict = "reject"
          PROVE  /\ stage'[request] \in {"pending", "rejected"}
                 /\ stage[request] = "rejected" => stage'[request] = "rejected"
                 /\ ~SimpleCustody' => Expired(request)'
      BY <2>1, <2>2, RejectingStage DEF Expired, Busy
    <2> QED
      BY <1>2, <1>4, <2>1, <2>2 DEF Rejecting, worker, Busy
  <1>5. CASE CheckGlobalLimits \/ CheckUserLimits
    <2>1. /\ UNCHANGED <<mempool, log, ev>> /\ pc \in {"global", "user"}
          /\ pc' \in {"user", "send"}
      BY <1>5 DEF CheckGlobalLimits, CheckUserLimits, Verdict, chain
    <2>2. request' = request /\ request \in Requests
      BY <1>1, <2>1 DEF request, Busy
    <2>3. verdict' = "reject" /\ pc' = "send" => request \notin Allowed
      BY <1>5, <2>2
      DEF CheckGlobalLimits, CheckUserLimits, Verdict, Fault, Allowed, GloballyAllowed
    <2> QED
      BY <2>1, <2>2, <2>3 DEF FinalizeAllowed, Rejecting
  <1>6. CASE Send
    <2>1. /\ UNCHANGED <<log, ev, verdict, stage, quorum, clock, createdAt>>
          /\ pc = "send" /\ pc' = "wait" /\ receipt' = "none"
          /\ Mineable(verdict, request)
      BY <1>6 DEF Send, chain, contract
    <2>2. request' = request
      BY <2>1 DEF request
    <2>3. PICK tx \in Transaction : OneMore(tx) /\ tx.id = request /\ tx.op = verdict
      BY <1>6, SubmitMempool
    <2>4. ASSUME verdict = "reject", NEW i \in DOMAIN mempool', mempool'[i].op = "finalize"
          PROVE  mempool'[i].id # request
      BY <2>1, <2>3, <2>4 DEF OneMore, Rejecting
    <2>5. verdict = "reject" =>
              stage[request] = "pending" /\ (~SimpleCustody => Expired(request))
      BY <2>1 DEF Mineable, Callable
    <2>6. Expired(request)' <=> clock' > createdAt'[request'] + Hour
      BY DEF Expired
    <2> QED
      BY <2>1, <2>2, <2>4, <2>5, <2>6 DEF Rejecting, Expired, SimpleCustody
  <1>7. CASE WaitMined
    <2>1. /\ UNCHANGED <<log, ev, stage>> /\ pc = "wait" /\ receipt # "none"
          /\ pc' = "record" \/ (pc' = "store" /\ decision' = NotFinalized)
      BY <1>7 DEF WaitMined, chain, contract
    <2>2. request' = request
      BY <2>1 DEF request
    <2>3. decision' = NotFinalized /\ decision' = "rejected" => stage[request] = "rejected"
      BY <2>1 DEF NotFinalized, Rejecting
    <2> QED
      BY <2>1, <2>2, <2>3 DEF Rejecting
  <1>8. CASE /\ pc' \notin {"send", "wait"}
             /\ pc' = "store" => decision' # "rejected"
    BY <1>8 DEF Rejecting
  <1> QED
    BY <1>3, <1>4, <1>5, <1>6, <1>7, <1>8
    DEF Next, Start, RejectExpired, Approve, Tick, Boot, Crash, Exit, Ends, Interrupt,
        Disconnect, OtherLog, Return, Listen, ReadHeader, Subscribe, OfferHistorical,
        OfferLive, ListenerStep, Work, Receive, SendFails, SendAnswerLost, Fails,
        WaitCancelled, Record, RecordEvent, vars, worker

LEMMA StepRejectedIsRejected ==
    ASSUME Knows, Rejecting, RejectedIsRejected, [Next]_vars
    PROVE  RejectedIsRejected'
  <1>1. ASSUME NEW r \in Requests, stage[r] = "rejected"
        PROVE  stage'[r] = "rejected"
    BY <1>1, StepStage DEF Knows
  <1>2. CASE RecordEvent
    <2>1. pc = "store" /\ request \in Requests /\ UNCHANGED stage
      BY <1>2, RequestIn DEF RecordEvent, Knows, Working, Busy, chain, contract
    <2>2. \A r \in Requests : events'[r] = events[r] \/ (r = request /\ events'[r] = decision)
      BY <1>2, <2>1 DEF RecordEvent, RecordWithdrawEvent, Knows, TypeOK
    <2> QED
      BY <2>1, <2>2 DEF RejectedIsRejected, Rejecting
  <1>3. CASE UNCHANGED events
    BY <1>1, <1>3 DEF RejectedIsRejected
  <1> QED
    BY <1>2, <1>3
    DEF Next, Start, RejectExpired, Approve, Mine, MineFinalize, MineReject, MineRevert,
        MineNext, Tick, Boot, Crash, Exit, Ends, Interrupt, Disconnect, OtherLog, Return,
        Listen, ReadHeader, Subscribe, OfferHistorical, OfferLive, ListenerStep, Work,
        Receive, CheckGlobalLimits, CheckUserLimits, Send, SendFails, SendAnswerLost, Fails,
        WaitMined, WaitCancelled, Record, vars, store

\* What the daemon records as rejected is rejected on the chain, although it does not
\* look at the status of the receipt.  A HasWithdrawEvent or a check that fails for the
\* database could send a rejectWithdraw after the finalizeWithdraw of an earlier life of
\* the process, so this needs that no database read fails.
THEOREM ReportedRejectionsHold == "dbread" \notin Faults => (Spec => []RejectedIsRejected)
  <1> SUFFICES ASSUME "dbread" \notin Faults PROVE Spec => []RejectedIsRejected
    OBVIOUS
  <1>1. Init => Inv /\ LimitInv /\ Rejecting /\ RejectedIsRejected
    BY InitInv, InitLimitInv DEF Init, Rejecting, RejectedIsRejected
  <1>2. Inv /\ LimitInv /\ Rejecting /\ RejectedIsRejected /\ [Next]_vars
            => Inv' /\ LimitInv' /\ Rejecting' /\ RejectedIsRejected'
    <2> SUFFICES ASSUME Inv, LimitInv, Rejecting, RejectedIsRejected, [Next]_vars
                 PROVE  Inv' /\ LimitInv' /\ Rejecting' /\ RejectedIsRejected'
      OBVIOUS
    <2>1. Inv' /\ LimitInv' /\ Knows /\ Knows'
      BY StepInv, StepLimitInv, StepWorking DEF Inv, Knows
    <2> QED
      BY <2>1, StepRejecting, StepRejectedIsRejected DEF LimitInv
  <1> QED
    BY <1>1, <1>2, PTL DEF Spec

-----------------------------------------------------------------------------
(***************************************************************************)
(* Payments.  While the process runs on and every answer and row gets      *)
(* through, each grant but the one in flight has its row, no younger than  *)
(* the grant, so that what the rows leave room for the grants do too.      *)
(***************************************************************************)
RunsOn == Faults \cap {"crash", "stop", "answer", "dbwrite"} = {}

InFlight(r) ==
    /\ r = request /\ verdict = "finalize"
    /\ pc = "record" \/ (pc = "wait" /\ receipt = "ok")

Counted ==
    /\ ~stopping /\ ~returned
    /\ \A i \in DOMAIN mempool : mempool[i].awaited
    /\ \A r \in Requests :
          grantedAt[r] # -1 => InFlight(r) \/ \E w \in withdrawals : w.id = r
    /\ IsFiniteSet(Granted)

LEMMA TotalInto ==
    ASSUME NEW G \in SUBSET Row, IsFiniteSet(G), NEW R \in SUBSET Row, IsFiniteSet(R),
           \A g, h \in G : g.id = h.id => g = h,
           \A g \in G : \E w \in R : w.id = g.id /\ g.at <= w.at,
           NEW since \in Int
    PROVE  Total(G, since) <= Total(R, since)
  <1> DEFINE few == {g \in G : g.at >= since}
             many == {w \in R : w.at >= since}
             row == [g \in few |-> CHOOSE w \in many : w.id = g.id]
  <1>1. ASSUME NEW g \in few
        PROVE  row[g] \in many /\ row[g].id = g.id
    <2>1. PICK w \in R : w.id = g.id /\ g.at <= w.at
      OBVIOUS
    <2>2. g.at \in Int /\ w.at \in Int /\ g.at >= since
      BY DEF Row
    <2>3. w \in many
      BY <2>1, <2>2
    <2> QED
      BY <2>1, <2>3
  <1>2. row \in [few -> many]
    BY <1>1
  <1> HIDE DEF row
  <1>3. /\ few \in SUBSET Row /\ IsFiniteSet(few) /\ Total(G, since) = Sum(Amount, few)
        /\ many \in SUBSET Row /\ IsFiniteSet(many) /\ Total(R, since) = Sum(Amount, many)
        /\ few \in SUBSET G
    BY TotalIs
  <1> HIDE DEF few, many
  <1>4. /\ \A g, h \in few : row[g] = row[h] => g = h
        /\ \A g \in few : Amount[g] = Amount[row[g]]
    <2>1. \A g, h \in few : row[g] = row[h] => g.id = h.id
      BY <1>1
    <2>2. \A g \in few : g \in Row /\ row[g] \in Row /\ g.id = row[g].id
      BY <1>1, <1>3
    <2>3. \A g \in few : Amount[g] = g.id.amount /\ Amount[row[g]] = row[g].id.amount
      BY <2>2, AmountType
    <2> QED
      BY <1>3, <2>1, <2>2, <2>3
  <1>5. \A w \in many : Amount[w] \in Nat
    BY <1>3, AmountType
  <1>6. Sum(Amount, few) <= Sum(Amount, many)
    BY <1>2, <1>3, <1>4, <1>5, SumInto
  <1> QED
    BY <1>3, <1>6

\* So a limit that leaves room over the rows leaves it over the grants.
LEMMA WithinLimitInto ==
    ASSUME TypeOK, NEW limit \in Limit, NEW amount \in Nat,
           NEW G \in SUBSET Row, IsFiniteSet(G), NEW R \in SUBSET Row, IsFiniteSet(R),
           \A g, h \in G : g.id = h.id => g = h,
           \A g \in G : \E w \in R : w.id = g.id /\ g.at <= w.at,
           WithinLimit(limit, R, amount)
    PROVE  WithinLimit(limit, G, amount)
  <1>1. ASSUME NEW length \in Nat \ {0}, NEW bound \in Int,
               Total(R, Truncate(clock, length)) + amount <= bound
        PROVE  Total(G, Truncate(clock, length)) + amount <= bound
    <2> DEFINE since == Truncate(clock, length)
    <2>1. since \in Int
      BY TruncateIs, NitewatchAssumption DEF TypeOK
    <2> HIDE DEF since
    <2>2. Total(G, since) <= Total(R, since)
      BY <2>1, TotalInto
    <2>3. Total(G, since) \in Nat /\ Total(R, since) \in Nat
      BY <2>1, TotalIs
    <2>4. Total(R, since) + amount <= bound
      BY <1>1 DEF since
    <2>5. Total(G, since) + amount <= bound
      BY <2>2, <2>3, <2>4
    <2> QED
      BY <2>5 DEF since
  <1>2. /\ limit.hourly \in Int \union {NoLimit} /\ limit.daily \in Int \union {NoLimit}
        /\ Hour \in Nat \ {0} /\ Day \in Nat \ {0}
    BY NitewatchAssumption DEF Limit
  <1> QED
    BY <1>1, <1>2 DEF WithinLimit

LEMMA GrantedType ==
    ASSUME TypeOK, Grants
    PROVE  /\ Granted \in SUBSET Row
           /\ \A g \in Granted : g.at = grantedAt[g.id] /\ g.at <= clock
           /\ \A g, h \in Granted : g.id = h.id => g = h
  <1>1. \A r \in Requests : grantedAt[r] \in -1 .. MaxTime /\ grantedAt[r] <= clock
    BY DEF TypeOK, Grants
  <1>2. MaxTime \in Nat
    BY NitewatchAssumption
  <1>3. ASSUME NEW g \in Granted
        PROVE  /\ g.id \in Requests /\ g.at \in 0 .. MaxTime
               /\ g = [id |-> g.id, at |-> g.at]
               /\ g.at = grantedAt[g.id] /\ g.at <= clock
    <2>1. PICK r \in Requests : grantedAt[r] # -1 /\ g = [id |-> r, at |-> grantedAt[r]]
      BY DEF Granted
    <2>2. grantedAt[r] \in 0 .. MaxTime
      BY <1>1, <1>2, <2>1
    <2> QED
      BY <1>1, <2>1, <2>2
  <1>4. Granted \in SUBSET Row
    BY <1>3 DEF Row
  <1>5. ASSUME NEW g \in Granted, NEW h \in Granted, g.id = h.id
        PROVE  g = h
    BY <1>3, <1>5
  <1> QED
    BY <1>3, <1>4, <1>5

\* The daemon's finalizeWithdraw succeeds while it waits for it.
LEMMA GrantIsAwaited ==
    ASSUME Knows, Counted, MineFinalize
    PROVE  /\ Head(mempool).id = request /\ request \in Requests
           /\ pc = "wait" /\ verdict = "finalize" /\ receipt = "none" /\ receipt' = "ok"
           /\ grantedAt[request] = -1 /\ grantedAt' = [grantedAt EXCEPT ![request] = clock]
           /\ UNCHANGED <<pc, ev, log, verdict, withdrawals, clock>>
  <1>1. 1 \in DOMAIN mempool /\ Head(mempool) = mempool[1] /\ Head(mempool).id \in Requests
    BY HeadType DEF Knows, MineFinalize, MineNext
  <1>2. mempool[1].awaited
    BY <1>1 DEF Counted
  <1>3. /\ pc = "wait" /\ receipt = "none"
        /\ mempool[1].id = request /\ mempool[1].op = verdict
    BY <1>1, <1>2 DEF Knows, Awaiting
  <1> QED
    BY <1>1, <1>2, <1>3 DEF MineFinalize, MineNext, Mineable, store

LEMMA StepGranted ==
    ASSUME TypeOK, [Next]_vars, ~MineFinalize
    PROVE  grantedAt' = grantedAt /\ Granted' = Granted
  <1>1. grantedAt' = grantedAt
    BY DEF Next, Start, RejectExpired, Approve, Mine, MineReject, MineRevert, MineNext,
           Tick, Boot, Crash, Exit, Ends, Interrupt, Disconnect, OtherLog, Return, Listen,
           ReadHeader, Subscribe, OfferHistorical, OfferLive, ListenerStep, Work, Receive,
           CheckGlobalLimits, CheckUserLimits, Send, SendFails, SendAnswerLost, Fails,
           WaitMined, WaitCancelled, Record, RecordEvent, vars, chain, contract
  <1> QED
    BY <1>1 DEF Granted

\* A grant is one more row of the policy.
LEMMA GrantAdds ==
    ASSUME Knows, Counted, MineFinalize
    PROVE  LET new == [id |-> request, at |-> clock]
           IN  Granted' = Granted \union {new} /\ new \in Row /\ new \notin Granted
  <1> DEFINE new == [id |-> request, at |-> clock]
  <1>1. /\ request \in Requests /\ grantedAt[request] = -1
        /\ grantedAt' = [grantedAt EXCEPT ![request] = clock]
    BY GrantIsAwaited
  <1>2. grantedAt \in [Requests -> -1 .. MaxTime] /\ clock \in 0 .. MaxTime /\ clock # -1
    BY NitewatchAssumption DEF Knows, TypeOK
  <1>3. \A q \in Requests : grantedAt'[q] = IF q = request THEN clock ELSE grantedAt[q]
    BY <1>1, <1>2
  <1>4. Granted' = {[id |-> r, at |-> grantedAt'[r]] : r \in {q \in Requests : grantedAt'[q] # -1}}
    BY DEF Granted
  <1>5. \A x \in Granted' : x \in Granted \union {new}
    BY <1>3, <1>4 DEF Granted
  <1>6. \A x \in Granted : x \in Granted'
    BY <1>1, <1>3, <1>4 DEF Granted
  <1>7. new \in Granted'
    BY <1>1, <1>2, <1>3, <1>4
  <1>8. new \in Row
    BY <1>1, <1>2 DEF Row
  <1>9. new \notin Granted
    BY <1>1 DEF Granted
  <1> HIDE DEF new
  <1>10. Granted' = Granted \union {new}
    BY <1>5, <1>6, <1>7
  <1> QED
    BY <1>8, <1>9, <1>10 DEF new

LEMMA GrantWithinLimits ==
    ASSUME Inv, LimitInv, Counted, PaidWithinLimits, MineFinalize
    PROVE  PaidWithinLimits'
  <1> DEFINE new == [id |-> request, at |-> clock]
             OfT(S, t) == {w \in S : w.id.token = t}
             OfU(S, u, t) == {w \in S : w.id.user = u /\ w.id.token = t}
  <1>1. Knows /\ TypeOK /\ Grants /\ Recorded
    BY RecordedPaid DEF Inv, Knows
  <1>2. Granted' = Granted \union {new} /\ new \in Row /\ new \notin Granted
    BY <1>1, GrantAdds
  <1>3. request \in Allowed /\ request \in Requests
    BY <1>1, GrantIsAwaited DEF LimitInv, FinalizeAllowed
  <1>4. new.id = request /\ new.at = clock
    OBVIOUS
  <1> HIDE DEF new
  <1>5. /\ Granted \in SUBSET Row /\ IsFiniteSet(Granted)
        /\ \A g \in Granted : g.at = grantedAt[g.id] /\ g.at <= clock
        /\ \A g, h \in Granted : g.id = h.id => g = h
    BY <1>1, GrantedType DEF Counted
  <1>6. \A g \in Granted : \E w \in withdrawals : w.id = g.id /\ g.at <= w.at
    <2>1. \A r \in Requests : ~InFlight(r)
      BY <1>1, GrantIsAwaited DEF InFlight
    <2> SUFFICES ASSUME NEW g \in Granted
                 PROVE  \E w \in withdrawals : w.id = g.id /\ g.at <= w.at
      OBVIOUS
    <2>2. g.id \in Requests /\ g.at = grantedAt[g.id] /\ grantedAt[g.id] # -1
      BY DEF Granted
    <2>3. PICK w \in withdrawals : w.id = g.id
      BY <2>1, <2>2 DEF Counted
    <2> QED
      BY <1>1, <2>2, <2>3 DEF Recorded
  <1>7. withdrawals \in SUBSET Row /\ IsFiniteSet(withdrawals)
    BY <1>1, RowsType DEF LimitInv
  <1>8. ASSUME NEW limit \in Limit, NEW G \in SUBSET Granted, NEW R \in SUBSET withdrawals,
               \A g \in G : \A w \in withdrawals : w.id = g.id => w \in R,
               WithinLimit(limit, R, request.amount)
        PROVE  WithinLimit(limit, G, request.amount)
    <2>1. G \in SUBSET Row /\ IsFiniteSet(G) /\ R \in SUBSET Row /\ IsFiniteSet(R)
      BY <1>5, <1>7, FS_Subset
    <2>2. \A g \in G : \E w \in R : w.id = g.id /\ g.at <= w.at
      BY <1>6, <1>8
    <2>3. \A g, h \in G : g.id = h.id => g = h
      BY <1>5
    <2>4. request.amount \in Nat
      BY <1>3, RequestTypes
    <2> QED
      BY <1>1, <1>8, <2>1, <2>2, <2>3, <2>4, WithinLimitInto
  <1> DEFINE u == request.user
             t == request.token
  <1>9. t \in DOMAIN GlobalLimits /\ WithinLimit(GlobalLimits[t], OfT(Granted, t), request.amount)
    <2>1. /\ t \in DOMAIN GlobalLimits
          /\ WithinLimit(GlobalLimits[t], OfT(withdrawals, t), request.amount)
      BY <1>3 DEF Allowed, GloballyAllowed, GlobalAllows, OfToken
    <2>2. GlobalLimits[t] \in Limit
      BY <2>1, NitewatchAssumption
    <2> QED
      BY <1>8, <2>1, <2>2
  <1>10. ASSUME <<u, t>> \in DOMAIN UserOverrides
         PROVE  WithinLimit(UserOverrides[<<u, t>>], OfU(Granted, u, t), request.amount)
    <2>1. OfUser(u, t) = OfU(withdrawals, u, t)
      BY DEF OfUser, OfToken
    <2>2. WithinLimit(UserOverrides[<<u, t>>], OfU(withdrawals, u, t), request.amount)
      BY <1>3, <1>10, <2>1 DEF Allowed, UserAllows
    <2>3. UserOverrides[<<u, t>>] \in Limit
      BY <1>10, NitewatchAssumption
    <2> QED
      BY <1>8, <2>2, <2>3
  <1>11. WithinPolicy(Granted \union {new})
    BY <1>1, <1>2, <1>4, <1>5, <1>9, <1>10, PolicyAdd DEF PaidWithinLimits
  <1>12. PaidWithinLimits' <=> WithinPolicy(Granted')
    BY DEF PaidWithinLimits
  <1> QED
    BY <1>2, <1>11, <1>12

\* Without interrupts the listener never returns and the process never ends.
LEMMA StepRunning ==
    ASSUME TypeOK, ~stopping, ~returned, RunsOn, [Next]_vars
    PROVE  ~stopping' /\ ~returned' /\ ~Crash /\ ~Exit /\ ~WaitCancelled /\ ~SendAnswerLost
  <1>1. ~Crash /\ ~Exit /\ ~WaitCancelled /\ ~SendAnswerLost /\ ~Interrupt
    BY DEF RunsOn, Fault, Crash, Exit, WaitCancelled, SendAnswerLost, Interrupt
  <1>2. stopping' = stopping
    BY <1>1
    DEF Next, Start, RejectExpired, Approve, Mine, MineFinalize, MineReject, MineRevert,
        MineNext, Tick, Boot, Disconnect, OtherLog, Return, Listen, ReadHeader, Subscribe,
        OfferHistorical, OfferLive, ListenerStep, Work, Receive, CheckGlobalLimits,
        CheckUserLimits, Send, SendFails, Fails, WaitMined, Record, RecordEvent, vars, process
  <1>3. ASSUME ListenerStep, FeedStep PROVE ~returned'
    BY <1>3
    DEF FeedStep, Feed!ReadHeader, Feed!Subscribe, Feed!Disconnect, Feed!OfferHistorical,
        Feed!OfferLive, Feed!OtherLog, Feed!Loop, Feed!Return
  <1>4. ASSUME Receive PROVE ~returned'
    BY <1>4 DEF Receive, Feed!Sent, Feed!Loop
  <1>5. returned' = returned \/ (ListenerStep /\ FeedStep) \/ Receive
    BY <1>1
    DEF Next, Start, RejectExpired, Approve, Mine, MineFinalize, MineReject, MineRevert,
        MineNext, Tick, Boot, Disconnect, OtherLog, Return, Listen, ReadHeader, Subscribe,
        OfferHistorical, OfferLive, FeedStep, Work, CheckGlobalLimits,
        CheckUserLimits, Send, SendFails, Fails, WaitMined, Record, RecordEvent, vars, listener
  <1> QED
    BY <1>1, <1>2, <1>3, <1>4, <1>5

LEMMA StepAllAwaited ==
    ASSUME Knows, Counted, RunsOn, [Next]_vars
    PROVE  \A i \in DOMAIN mempool' : mempool'[i].awaited
  <1>1. CASE UNCHANGED mempool
    BY <1>1 DEF Counted
  <1>2. CASE Mine
    BY <1>2, MineMempool DEF Knows, Counted
  <1>3. CASE Send
    BY <1>3, SubmitMempool DEF OneMore, Counted
  <1>4. ~Crash /\ ~Exit /\ ~WaitCancelled /\ ~SendAnswerLost
    BY StepRunning DEF Knows, Counted
  <1> QED
    BY <1>1, <1>2, <1>3, <1>4
    DEF Next, Start, RejectExpired, Approve, Tick, Boot, Interrupt, Disconnect, OtherLog,
        Return, Listen, ReadHeader, Subscribe, OfferHistorical, OfferLive, ListenerStep,
        Work, Receive, CheckGlobalLimits, CheckUserLimits, SendFails, Fails, WaitMined,
        Record, RecordEvent, vars

LEMMA StepCounted ==
    ASSUME Knows, LastAwaited, Counted, RunsOn, [Next]_vars
    PROVE  Counted'
  <1> DEFINE HasRow(r) == \E w \in withdrawals : w.id = r
             AllCounted == \A r \in Requests : grantedAt[r] # -1 => InFlight(r) \/ HasRow(r)
  <1>1. /\ ~stopping' /\ ~returned'
        /\ ~Crash /\ ~Exit /\ ~WaitCancelled /\ ~SendAnswerLost
    BY StepRunning DEF Knows, Counted
  <1>2. \A i \in DOMAIN mempool' : mempool'[i].awaited
    BY StepAllAwaited
  <1>3. IsFiniteSet(Granted')
    <2>1. CASE MineFinalize
      BY <2>1, GrantAdds, FS_AddElement DEF Counted
    <2>2. CASE ~MineFinalize
      BY <2>2, StepGranted DEF Counted, Knows
    <2> QED
      BY <2>1, <2>2
  <1>4. \A w \in withdrawals : w \in withdrawals'
    <2>1. CASE Record
      BY <2>1 DEF Record, Save
    <2> QED
      BY <2>1, StepClock DEF Knows
  <1>5. ASSUME ~MineFinalize,
               \A r \in Requests : InFlight(r) => InFlight(r)' \/ HasRow(r)'
        PROVE  AllCounted'
    <2>1. grantedAt' = grantedAt
      BY <1>5, StepGranted DEF Knows
    <2> HIDE DEF InFlight
    <2> QED
      BY <1>4, <1>5, <2>1 DEF Counted
  <1>6. ev # 0 => request \in Requests /\ ev \in DOMAIN log
    BY RequestIn DEF Knows
  <1>7. AllCounted'
    <2>1. CASE MineFinalize
      <3>1. /\ request' = request /\ pc' = "wait" /\ verdict' = "finalize" /\ receipt' = "ok"
            /\ grantedAt' = [grantedAt EXCEPT ![request] = clock]
            /\ receipt = "none" /\ pc = "wait" /\ withdrawals' = withdrawals
        BY <2>1, GrantIsAwaited DEF request
      <3>2. grantedAt \in [Requests -> -1 .. MaxTime]
        BY DEF Knows, TypeOK
      <3>3. \A r \in Requests : grantedAt[r] # -1 => HasRow(r)
        BY <3>1 DEF InFlight, Counted
      <3>4. \A r \in Requests : r # request => grantedAt'[r] = grantedAt[r]
        BY <3>1, <3>2
      <3>5. \A r \in Requests : r = request => InFlight(r)'
        BY <3>1 DEF InFlight
      <3> HIDE DEF InFlight
      <3> QED
        BY <3>1, <3>3, <3>4, <3>5
    <2>2. CASE ~MineFinalize /\ Mine
      <3>1. pc # "record" /\ ~(pc = "wait" /\ receipt # "none")
        BY <2>2, MineMempool DEF Mined, LastAwaited, Knows
      <3> QED
        BY <1>5, <2>2, <3>1 DEF InFlight
    <2>3. CASE ~MineFinalize /\ pc \notin {"wait", "record"}
      BY <1>5, <2>3 DEF InFlight
    <2>4. CASE ~MineFinalize /\ UNCHANGED worker
      <3>1. pc \in Busy => request' = request
        BY <1>6, <2>4, StepLog DEF Knows, Working, worker, request
      <3>2. \A r \in Requests : InFlight(r) => InFlight(r)'
        BY <2>4, <3>1 DEF InFlight, worker, Busy
      <3> QED
        BY <1>5, <2>4, <3>2
    <2>5. CASE ~MineFinalize /\ WaitMined
      <3>1. /\ UNCHANGED <<log, ev, verdict>> /\ pc = "wait"
            /\ Finalized => pc' = "record"
        BY <2>5 DEF WaitMined, chain
      <3>2. request' = request
        BY <3>1 DEF request
      <3>3. \A r \in Requests : InFlight(r) => InFlight(r)'
        BY <3>1, <3>2 DEF InFlight, Finalized
      <3> QED
        BY <1>5, <2>5, <3>3
    <2>6. CASE ~MineFinalize /\ Record
      <3>1. Save(request) /\ pc = "record" /\ "dbwrite" \notin Faults
        BY <2>6 DEF Record, RunsOn
      <3>2. [id |-> request, at |-> clock].id = request
        OBVIOUS
      <3>3. \E w \in withdrawals' : w.id = request
        BY <3>1, <3>2 DEF Save, Fault
      <3>4. \A r \in Requests : InFlight(r) => HasRow(r)'
        BY <3>3 DEF InFlight
      <3> QED
        BY <1>5, <2>6, <3>4
    <2> QED
      BY <1>1, <2>1, <2>2, <2>3, <2>4, <2>5, <2>6
      DEF Next, Start, RejectExpired, Approve, Tick, Boot, Interrupt, Disconnect, OtherLog,
          Return, Listen, ReadHeader, Subscribe, OfferHistorical, OfferLive, ListenerStep,
          Work, Receive, CheckGlobalLimits, CheckUserLimits, Send, SendFails, RecordEvent,
          vars
  <1> QED
    BY <1>1, <1>2, <1>3, <1>7 DEF Counted

\* What the daemon has the contract pay in one hour or day, or approves there, stays
\* within the limits although its rows carry a later time than the payments they stand
\* for, and of the withdrawal in flight there is no row yet.  A process that ends between
\* the payment and its row, a lost answer or a lost row leave a payment uncounted for
\* good, so this needs that there are none.
THEOREM PaymentsKeepThePolicy == RunsOn => (Spec => []PaidWithinLimits)
  <1> SUFFICES ASSUME RunsOn PROVE Spec => []PaidWithinLimits
    OBVIOUS
  <1>1. Init => Inv /\ LimitInv /\ Counted /\ PaidWithinLimits
    <2> SUFFICES ASSUME Init PROVE Counted /\ PaidWithinLimits
      BY InitInv, InitLimitInv
    <2>1. Granted = {}
      BY DEF Init, Granted
    <2>2. Counted
      BY <2>1, FS_EmptySet DEF Init, Counted
    <2>3. PaidWithinLimits
      BY <2>1 DEF PaidWithinLimits, WithinPolicy, PeriodsWithin
    <2> QED
      BY <2>2, <2>3
  <1>2. Inv /\ LimitInv /\ Counted /\ PaidWithinLimits /\ [Next]_vars
            => Inv' /\ LimitInv' /\ Counted' /\ PaidWithinLimits'
    <2> SUFFICES ASSUME Inv, LimitInv, Counted, PaidWithinLimits, [Next]_vars
                 PROVE  Inv' /\ LimitInv' /\ Counted' /\ PaidWithinLimits'
      OBVIOUS
    <2>1. Inv' /\ LimitInv' /\ Counted'
      BY StepInv, StepLimitInv, StepCounted DEF Inv, Knows, LimitInv
    <2>2. CASE MineFinalize
      BY <2>1, <2>2, GrantWithinLimits
    <2>3. CASE ~MineFinalize
      BY <2>1, <2>3, StepGranted DEF Inv, PaidWithinLimits
    <2> QED
      BY <2>1, <2>2, <2>3
  <1> QED
    BY <1>1, <1>2, PTL DEF Spec
============================================================================
