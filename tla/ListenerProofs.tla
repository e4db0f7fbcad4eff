--------------------------- MODULE ListenerProofs ---------------------------
(***************************************************************************)
(* The safety properties of Listener, for any chain, block ranges, limits  *)
(* of the node and faults, and that a Watch method takes the steps of      *)
(* EventListener.                                                          *)
(*                                                                         *)
(* Inv adds to TypeOK what each of the two sources of events may hold.     *)
(* Ascending is about the subscription and holds whatever happens to the   *)
(* chain: only blocks that were replaced come after later ones.            *)
(* Reconciled is about both sources and holds until a block is replaced:   *)
(* the header separates the blocks of the one from those of the other, and *)
(* apart from where it is cut, what a connection has received and has      *)
(* queued is a list of logs in the order of the chain.                     *)
(***************************************************************************)
EXTENDS Listener, DataTheorems

\* The reconciler's channel and what it has still to send.
Queue == historicalCh \o rec.logs

Old == {l \in Log : l.block <= header}
New == {l \in Log : l.block > header}

\* The members of s that are in K follow the order of the chain.
SortedIn(s, K) ==
    \A i, j \in DOMAIN s : i < j /\ s[i] \in K /\ s[j] \in K => <<s[i], s[j]>> \in Before

\* Block c may follow block b.
Follows(b, c) == b <= c \/ c \in replaced

\* The subscription carries blocks in order, from lastBlock to the head, and then again
\* those that were replaced.
Ascending ==
    /\ lastBlock <= Latest
    /\ \A i \in DOMAIN currentCh :
          currentCh[i].block <= Latest /\ Follows(lastBlock, currentCh[i].block)
    /\ \A i, j \in DOMAIN currentCh : i < j => Follows(currentCh[i].block, currentCh[j].block)

\* The range a reconciler has still to fetch lies between the cursor and the head.
Ranges ==
    /\ header <= Latest
    /\ header = 0 => ~rec.on /\ rec.logs = <<>> /\ historicalCh = <<>>
    /\ header # 0 =>
          /\ rec.current = header
          /\ 1 <= rec.last /\ rec.last <= rec.start /\ rec.start <= header + 1
    /\ rec.on => rec.start <= rec.end

\* What came of each of the two sources is in the order of the chain, and the logs up to
\* the header are those of the blocks that have been fetched.
Reconciled ==
    /\ \A l \in ToSet(handled) : l.block <= Latest
    /\ \A l \in ToSet(Queue) : l \in Old
    /\ \A l \in ToSet(currentCh) : l \in New
    /\ SortedIn(handled \o Queue, Old)
    /\ SortedIn(handled \o currentCh, New)
    /\ header # 0 =>
          {l \in ToSet(handled \o Queue) : l \in Old} = {l \in Wanted : l.block < rec.start}
    /\ header # 0 /\ ~rec.on /\ ~cancelled => header <= rec.start

\* Past its start a Watch method has a contract to watch.
Bound == pc \notin {"watch", "returned"} => Filterer \in watch.bound

Inv ==
    /\ TypeOK
    /\ Ascending
    /\ Ranges
    /\ reorgs = 0 => Reconciled
    /\ Bound

-----------------------------------------------------------------------------
(***************************************************************************)
(* The logs of a range of blocks.                                          *)
(***************************************************************************)
LEMMA LogType == \A l \in Log : l.block \in Nat /\ l.index \in Nat
BY DEF Log

\* What LogsOf and LogsIn are of any chain, for the chain before and after a step.
BlockLogs(topics, b) ==
    [i \in DOMAIN topics |->
        [block |-> b, index |-> i - 1, topic |-> topics[i], removed |-> FALSE]]

RangeLogs(chain, first, end) == UNION {ToSet(BlockLogs(chain[b], b)) : b \in first .. end}

LEMMA BlockLogsType ==
    ASSUME NEW topics \in Seq(Events), NEW b \in Nat
    PROVE  /\ BlockLogs(topics, b) \in Seq(Log)
           /\ \A i \in DOMAIN BlockLogs(topics, b) :
                 /\ BlockLogs(topics, b)[i].block = b
                 /\ BlockLogs(topics, b)[i].index = i - 1
<1>1. DOMAIN topics = 1 .. Len(topics) /\ Len(topics) \in Nat
  OBVIOUS
<1>2. \A i \in 1 .. Len(topics) :
         [block |-> b, index |-> i - 1, topic |-> topics[i], removed |-> FALSE] \in Log
  BY DEF Log
<1> QED
  BY <1>1, <1>2 DEF BlockLogs

LEMMA ImageIsFinite ==
    ASSUME NEW f, IsFiniteSet(DOMAIN f)
    PROVE  IsFiniteSet({f[x] : x \in DOMAIN f})
<1> DEFINE g == [x \in DOMAIN f |-> f[x]]
<1>1. g \in Surjection(DOMAIN f, {f[x] : x \in DOMAIN f})
  BY DEF Surjection
<1> QED
  BY <1>1, FS_Surjection

\* They are finite, and a log is known by its block and its index.
LEMMA RangeLogsType ==
    ASSUME NEW chain \in Seq(Contents), NEW first \in Nat \ {0}, NEW end \in Nat, end <= Len(chain)
    PROVE  /\ RangeLogs(chain, first, end) \in SUBSET Log
           /\ \A l \in RangeLogs(chain, first, end) : l.block \in first .. end
           /\ \A l, k \in RangeLogs(chain, first, end) :
                 l.block = k.block /\ l.index = k.index => l = k
           /\ IsFiniteSet(RangeLogs(chain, first, end))
<1> DEFINE at(b) == BlockLogs(chain[b], b)
           f == [b \in first .. end |-> ToSet(at(b))]
           sets == {f[b] : b \in DOMAIN f}
<1>1. ASSUME NEW b \in first .. end
      PROVE  /\ at(b) \in Seq(Log)
             /\ DOMAIN at(b) = 1 .. Len(at(b)) /\ Len(at(b)) \in Nat
             /\ \A i \in DOMAIN at(b) : at(b)[i].block = b /\ at(b)[i].index = i - 1
  <2>1. b \in 1 .. Len(chain) /\ b \in Nat
    OBVIOUS
  <2>2. chain[b] \in Seq(Events)
    BY <2>1, ListenerAssumption
  <2>3. /\ at(b) \in Seq(Log)
        /\ \A i \in DOMAIN at(b) : at(b)[i].block = b /\ at(b)[i].index = i - 1
    BY <2>1, <2>2, BlockLogsType
  <2> HIDE DEF at
  <2>4. DOMAIN at(b) = 1 .. Len(at(b)) /\ Len(at(b)) \in Nat
    BY <2>3
  <2> QED
    BY <2>3, <2>4
<1>2. RangeLogs(chain, first, end) = UNION {ToSet(at(b)) : b \in first .. end}
  BY DEF RangeLogs
<1> HIDE DEF at
<1>3. RangeLogs(chain, first, end) = UNION sets
  BY <1>2
<1>4. \A s \in sets : IsFiniteSet(s)
  <2>1. ASSUME NEW b \in first .. end PROVE IsFiniteSet(f[b])
    <3>1. IsFiniteSet(DOMAIN at(b))
      BY <1>1, FS_Interval
    <3> QED
      BY <3>1, ImageIsFinite DEF ToSet
  <2> QED
    BY <2>1
<1>5. IsFiniteSet(sets)
  <2>1. IsFiniteSet(DOMAIN f)
    BY FS_Interval
  <2> QED
    BY <2>1, ImageIsFinite
<1> HIDE DEF sets, f
<1>6. IsFiniteSet(RangeLogs(chain, first, end))
  BY <1>3, <1>4, <1>5, FS_UNION
<1>7. ASSUME NEW l \in RangeLogs(chain, first, end)
      PROVE  \E b \in first .. end :
                l \in Log /\ l.block = b /\ l.index + 1 \in DOMAIN at(b) /\ l = at(b)[l.index + 1]
  <2>1. PICK b \in first .. end : l \in ToSet(at(b))
    BY <1>2, <1>7
  <2>2. PICK i \in DOMAIN at(b) : l = at(b)[i]
    BY <2>1 DEF ToSet
  <2>3. i \in Nat /\ i = (i - 1) + 1 /\ at(b)[i] \in Log
    BY <1>1
  <2> QED
    BY <1>1, <2>2, <2>3
<1>8. ASSUME NEW l \in RangeLogs(chain, first, end), NEW k \in RangeLogs(chain, first, end),
             l.block = k.block, l.index = k.index
      PROVE  l = k
  BY <1>7, <1>8
<1> QED
  BY <1>6, <1>7, <1>8

LEMMA LogsOfBlock ==
    ASSUME TypeOK, NEW b \in 1 .. Latest
    PROVE  /\ LogsOf(b) \in Seq(Log)
           /\ \A i \in DOMAIN LogsOf(b) : LogsOf(b)[i].block = b /\ LogsOf(b)[i].index = i - 1
<1>1. blocks[b] \in Seq(Events) /\ b \in Nat
  BY ListenerAssumption DEF TypeOK, Latest
<1>2. LogsOf(b) = BlockLogs(blocks[b], b)
  BY DEF LogsOf, BlockLogs
<1> QED
  BY <1>1, <1>2, BlockLogsType

LEMMA FilteredLogs ==
    ASSUME TypeOK, NEW first \in Nat \ {0}, NEW end \in Nat, end <= Latest
    PROVE  /\ FilterLogs(first, end) \in SUBSET Log
           /\ \A l \in FilterLogs(first, end) : l.block \in first .. end
           /\ \A l, k \in FilterLogs(first, end) :
                 l.block = k.block /\ l.index = k.index => l = k
           /\ IsFiniteSet(FilterLogs(first, end))
<1>1. FilterLogs(first, end) \in SUBSET RangeLogs(blocks, first, end)
  BY DEF FilterLogs, LogsIn, LogsOf, RangeLogs, BlockLogs
<1>2. blocks \in Seq(Contents) /\ end <= Len(blocks)
  BY DEF TypeOK, Latest
<1>3. /\ RangeLogs(blocks, first, end) \in SUBSET Log
      /\ \A l \in RangeLogs(blocks, first, end) : l.block \in first .. end
      /\ \A l, k \in RangeLogs(blocks, first, end) :
            l.block = k.block /\ l.index = k.index => l = k
      /\ IsFiniteSet(RangeLogs(blocks, first, end))
  BY <1>2, RangeLogsType
<1>4. IsFiniteSet(FilterLogs(first, end))
  BY <1>1, <1>3, FS_Subset
<1> QED
  BY <1>1, <1>3, <1>4

\* InChainOrder lists logs that are known by their block and their index.
LEMMA LogsInOrder ==
    ASSUME NEW logs \in SUBSET Log, IsFiniteSet(logs),
           \A l, k \in logs : l.block = k.block /\ l.index = k.index => l = k
    PROVE  /\ InChainOrder(logs) \in Seq(Log)
           /\ ToSet(InChainOrder(logs)) = logs
           /\ \A i, j \in DOMAIN InChainOrder(logs) :
                 i < j => <<InChainOrder(logs)[i], InChainOrder(logs)[j]>> \in Before
<1>1. IsStrictOrder(Before, logs)
  <2>1. \A l \in logs : l \in Log /\ l.block \in Nat /\ l.index \in Nat
    BY DEF Log
  <2>2. \A l, k \in logs :
           <<l, k>> \in Before <=> l.block < k.block \/ (l.block = k.block /\ l.index < k.index)
    BY <2>1 DEF Before
  <2> QED
    BY <2>1, <2>2 DEF IsStrictOrder
<1>2. /\ InChainOrder(logs) \in Seq(logs)
      /\ \A l \in logs : \E i \in DOMAIN InChainOrder(logs) : InChainOrder(logs)[i] = l
      /\ \A i, j \in DOMAIN InChainOrder(logs) :
            i < j => <<InChainOrder(logs)[i], InChainOrder(logs)[j]>> \in Before
  BY <1>1, OrderedIs DEF InChainOrder
<1> DEFINE s == InChainOrder(logs)
<1>3. s \in Seq(logs) /\ \A l \in logs : \E i \in DOMAIN s : s[i] = l
  BY <1>2
<1> HIDE DEF s
<1>4. DOMAIN s = 1 .. Len(s) /\ \A i \in DOMAIN s : s[i] \in logs
  BY <1>3
<1>5. ToSet(s) = logs
  BY <1>3, <1>4 DEF ToSet
<1>6. s \in Seq(Log)
  BY <1>3
<1> QED
  BY <1>2, <1>5, <1>6 DEF s

LEMMA ConcatElements ==
    ASSUME NEW s \in Seq(Log), NEW t \in Seq(Log)
    PROVE  /\ s \o t \in Seq(Log)
           /\ DOMAIN s = 1 .. Len(s) /\ DOMAIN t = 1 .. Len(t)
           /\ Len(s) \in Nat /\ Len(t) \in Nat
           /\ DOMAIN (s \o t) = 1 .. Len(s) + Len(t)
           /\ \A i \in DOMAIN s : (s \o t)[i] = s[i]
           /\ \A i \in DOMAIN (s \o t) :
                 i \notin DOMAIN s => i - Len(s) \in DOMAIN t /\ (s \o t)[i] = t[i - Len(s)]
           /\ \A i \in DOMAIN t : i + Len(s) \in DOMAIN (s \o t) /\ (s \o t)[i + Len(s)] = t[i]
  OBVIOUS

LEMMA ConcatLogs ==
    ASSUME NEW s \in Seq(Log), NEW t \in Seq(Log), NEW u \in Seq(Log)
    PROVE  (s \o t) \o u = s \o (t \o u)
<1> DEFINE T == Log
<1>1. s \in Seq(T) /\ t \in Seq(T) /\ u \in Seq(T)
  OBVIOUS
<1> HIDE DEF T
<1> QED
  BY <1>1, ConcatAssociative

LEMMA ConcatSet ==
    ASSUME NEW s \in Seq(Log), NEW t \in Seq(Log)
    PROVE  ToSet(s \o t) = ToSet(s) \union ToSet(t)
<1>1. /\ \A i \in DOMAIN s : i \in DOMAIN (s \o t) /\ (s \o t)[i] = s[i]
      /\ \A i \in DOMAIN (s \o t) :
            i \notin DOMAIN s => i - Len(s) \in DOMAIN t /\ (s \o t)[i] = t[i - Len(s)]
      /\ \A i \in DOMAIN t : i + Len(s) \in DOMAIN (s \o t) /\ (s \o t)[i + Len(s)] = t[i]
  BY ConcatElements
<1>2. ASSUME NEW l \in ToSet(s \o t) PROVE l \in ToSet(s) \union ToSet(t)
  <2>1. PICK i \in DOMAIN (s \o t) : l = (s \o t)[i]
    BY DEF ToSet
  <2>2. i \in DOMAIN s \/ (i - Len(s) \in DOMAIN t /\ l = t[i - Len(s)])
    BY <1>1, <2>1
  <2> QED
    BY <1>1, <2>1, <2>2 DEF ToSet
<1>3. ASSUME NEW l \in ToSet(s) PROVE l \in ToSet(s \o t)
  BY <1>1 DEF ToSet
<1>4. ASSUME NEW l \in ToSet(t) PROVE l \in ToSet(s \o t)
  BY <1>1 DEF ToSet
<1> QED
  BY <1>2, <1>3, <1>4

-----------------------------------------------------------------------------
(***************************************************************************)
(* The subscription.                                                       *)
(***************************************************************************)
\* The logs of the head block after a step.
LEMMA LogsOfHead ==
    ASSUME blocks' \in Seq(Contents), Latest' # 0
    PROVE  /\ (LogsOf(Latest))' \in Seq(Log)
           /\ \A i \in DOMAIN (LogsOf(Latest))' :
                 /\ (LogsOf(Latest))'[i].block = Latest'
                 /\ (LogsOf(Latest))'[i].index = i - 1
<1> DEFINE b == Latest'
<1>1. b \in Nat /\ blocks'[b] \in Seq(Events)
  BY ListenerAssumption DEF Latest
<1>2. (LogsOf(Latest))' = BlockLogs(blocks'[b], b)
  BY DEF LogsOf, BlockLogs
<1> HIDE DEF b
<1>3. /\ BlockLogs(blocks'[b], b) \in Seq(Log)
      /\ \A i \in DOMAIN BlockLogs(blocks'[b], b) :
            /\ BlockLogs(blocks'[b], b)[i].block = b
            /\ BlockLogs(blocks'[b], b)[i].index = i - 1
  BY <1>1, BlockLogsType
<1> QED
  BY <1>2, <1>3 DEF b

\* A notification is about the new head block, or about blocks that were replaced.
LEMMA Notified ==
    ASSUME TypeOK, Ascending, NEW logs \in Seq(Log), Notify(logs), UNCHANGED lastBlock,
           Latest' \in Nat, Latest <= Latest', replaced \subseteq replaced',
           \A i \in DOMAIN logs :
              logs[i].block <= Latest' /\ (logs[i].block = Latest' \/ logs[i].block \in replaced')
    PROVE  currentCh' \in Seq(Log) /\ Ascending'
<1>1. currentCh' = currentCh \/ currentCh' = currentCh \o logs
  BY DEF Notify
<1>2. currentCh \in Seq(Log) /\ lastBlock \in Nat /\ Latest \in Nat /\ lastBlock <= Latest
  BY DEF TypeOK, Ascending, Latest
<1> DEFINE s == currentCh
           Fits(b, c) == b <= c \/ c \in replaced'
<1>3. /\ \A i \in DOMAIN s : s[i].block <= Latest /\ s[i].block \in Nat /\ Fits(lastBlock, s[i].block)
      /\ \A i, j \in DOMAIN s : i < j => Fits(s[i].block, s[j].block)
  <2>1. \A i \in DOMAIN s : s[i] \in Log
    BY <1>2
  <2> QED
    BY <2>1, LogType DEF Ascending, Follows
<1>4. ASSUME NEW t \in Seq(Log), currentCh' = t,
             \A i \in DOMAIN t : t[i].block <= Latest' /\ Fits(lastBlock, t[i].block),
             \A i, j \in DOMAIN t : i < j => Fits(t[i].block, t[j].block)
      PROVE  currentCh' \in Seq(Log) /\ Ascending'
  BY <1>2, <1>4 DEF Ascending, Follows
<1>5. CASE currentCh' = s
  BY <1>2, <1>3, <1>4, <1>5
<1>6. CASE currentCh' = s \o logs
  <2> DEFINE t == s \o logs
  <2>1. t \in Seq(Log)
    BY <1>2
  <2>2. /\ DOMAIN s = 1 .. Len(s) /\ Len(s) \in Nat /\ Len(logs) \in Nat
        /\ DOMAIN t = 1 .. Len(s) + Len(logs)
        /\ \A i \in DOMAIN t : \/ i \in DOMAIN s /\ t[i] = s[i]
                               \/ i \notin DOMAIN s /\ i - Len(s) \in DOMAIN logs /\ t[i] = logs[i - Len(s)]
    BY <1>2
  <2>3. \A i \in DOMAIN t : t[i] \in Log /\ t[i].block \in Nat
    BY <2>1, LogType
  <2> HIDE DEF s, t
  <2>4. \A i \in DOMAIN t : t[i].block <= Latest'
    BY <1>2, <1>3, <2>2
  <2>5. \A i \in DOMAIN t : i \notin DOMAIN s => \A b \in Nat : b <= Latest' => Fits(b, t[i].block)
    BY <2>2
  <2>6. \A i \in DOMAIN t : Fits(lastBlock, t[i].block)
    <3>1. lastBlock <= Latest'
      BY <1>2
    <3> QED
      BY <1>2, <1>3, <2>2, <2>5, <3>1
  <2>7. ASSUME NEW i \in DOMAIN t, NEW j \in DOMAIN t, i < j
        PROVE  Fits(t[i].block, t[j].block)
    <3>1. CASE j \in DOMAIN s
      <4>1. i \in DOMAIN s
        BY <2>2, <2>7, <3>1
      <4> QED
        BY <1>3, <2>2, <2>7, <3>1, <4>1
    <3>2. CASE j \notin DOMAIN s
      BY <2>3, <2>4, <2>5, <3>2
    <3> QED
      BY <3>1, <3>2
  <2>8. currentCh' = t
    BY <1>6 DEF t
  <2> QED
    BY <1>4, <2>1, <2>4, <2>6, <2>7, <2>8
<1> QED
  BY <1>1, <1>5, <1>6

LEMMA NewBlockNotifies ==
    ASSUME Inv, NEW topics \in Contents, NewBlock(topics)
    PROVE  blocks' \in Seq(Contents) /\ Latest' = Latest + 1 /\ currentCh' \in Seq(Log) /\ Ascending'
<1>1. blocks' \in Seq(Contents) /\ Latest \in Nat /\ Latest' = Latest + 1
  BY DEF Inv, TypeOK, NewBlock, Latest
<1>2. Notify((LogsOf(Latest))')
  BY DEF NewBlock
<1>3. /\ (LogsOf(Latest))' \in Seq(Log)
      /\ \A i \in DOMAIN (LogsOf(Latest))' : (LogsOf(Latest))'[i].block = Latest'
  BY <1>1, LogsOfHead
<1>4. TypeOK /\ Ascending /\ UNCHANGED <<lastBlock, replaced>>
  BY DEF Inv, NewBlock
<1> DEFINE logs == (LogsOf(Latest))'
<1>5. /\ logs \in Seq(Log) /\ Notify(logs)
      /\ \A i \in DOMAIN logs : logs[i].block <= Latest' /\ logs[i].block = Latest'
  BY <1>1, <1>2, <1>3
<1> HIDE DEF logs
<1>6. currentCh' \in Seq(Log) /\ Ascending'
  BY <1>1, <1>4, <1>5, Notified
<1> QED
  BY <1>1, <1>6

\* Branches: what may replace blocks at the end of the chain.
Branches == UNION {[1 .. depth -> Contents] : depth \in 1 .. Latest - 1}

\* The logs of the replaced blocks, marked as removed.
LEMMA RemovedLogs ==
    ASSUME NEW logs \in SUBSET Log, IsFiniteSet(logs),
           \A l, k \in logs : l.block = k.block /\ l.index = k.index => l = k
    PROVE  LET removed == {[l EXCEPT !.removed = TRUE] : l \in logs}
           IN  /\ InChainOrder(removed) \in Seq(Log)
               /\ \A x \in ToSet(InChainOrder(removed)) : \E l \in logs : x.block = l.block
<1> DEFINE f == [l \in logs |-> [l EXCEPT !.removed = TRUE]]
           removed == {[l EXCEPT !.removed = TRUE] : l \in logs}
<1>1. ASSUME NEW l \in logs
      PROVE  /\ [l EXCEPT !.removed = TRUE] \in Log
             /\ [l EXCEPT !.removed = TRUE].block = l.block
             /\ [l EXCEPT !.removed = TRUE].index = l.index
  BY DEF Log
<1>2. removed \in SUBSET Log /\ \A x \in removed : \E l \in logs : x.block = l.block
  BY <1>1
<1>3. ASSUME NEW x \in removed, NEW y \in removed, x.block = y.block, x.index = y.index
      PROVE  x = y
  <2>1. PICK l \in logs : x = [l EXCEPT !.removed = TRUE]
    OBVIOUS
  <2>2. PICK k \in logs : y = [k EXCEPT !.removed = TRUE]
    OBVIOUS
  <2>3. l.block = k.block /\ l.index = k.index
    BY <1>1, <1>3, <2>1, <2>2
  <2>4. l = k
    BY <2>3
  <2> QED
    BY <2>1, <2>2, <2>4
<1>4. IsFiniteSet(removed)
  <2>1. removed = {f[l] : l \in DOMAIN f} /\ DOMAIN f = logs
    OBVIOUS
  <2> HIDE DEF f, removed
  <2> QED
    BY <2>1, ImageIsFinite
<1> HIDE DEF removed
<1>5. InChainOrder(removed) \in Seq(Log) /\ ToSet(InChainOrder(removed)) = removed
  BY <1>2, <1>3, <1>4, LogsInOrder
<1>6. \A x \in ToSet(InChainOrder(removed)) : \E l \in logs : x.block = l.block
  BY <1>2, <1>5
<1> QED
  BY <1>5, <1>6 DEF removed

LEMMA ReorgNotifies ==
    ASSUME Inv, NEW branch \in Branches, Reorg(branch)
    PROVE  /\ blocks' \in Seq(Contents) /\ Latest' = Latest /\ currentCh' \in Seq(Log) /\ Ascending'
           /\ replaced' \in SUBSET Nat
<1> DEFINE first == Latest - Len(branch) + 1
           logs == RangeLogs(blocks, first, Latest)
           new == RangeLogs(blocks', first, Latest)
           dropped == InChainOrder({[l EXCEPT !.removed = TRUE] : l \in logs})
           added == InChainOrder(new)
<1>1. /\ blocks \in Seq(Contents) /\ Latest \in Nat /\ Latest = Len(blocks)
      /\ branch \in Seq(Contents) /\ Len(branch) \in 1 .. Latest - 1
  <2>1. blocks \in Seq(Contents) /\ Latest \in Nat /\ Latest = Len(blocks)
    BY DEF Inv, TypeOK, Latest
  <2>2. PICK depth \in 1 .. Latest - 1 : branch \in [1 .. depth -> Contents]
    BY DEF Branches
  <2>3. depth \in Nat
    BY <2>1
  <2>4. branch \in Seq(Contents) /\ Len(branch) = depth
    BY <2>2, <2>3
  <2> QED
    BY <2>1, <2>2, <2>4
<1>2. first \in Nat \ {0} /\ first <= Latest
  BY <1>1
<1>3. blocks' = SubSeq(blocks, 1, first - 1) \o branch /\ replaced' = replaced \union (first .. Latest)
  BY DEF Reorg
<1>4. blocks' \in Seq(Contents) /\ Len(blocks') = Latest /\ Latest' = Latest
  <2>1. SubSeq(blocks, 1, first - 1) \in Seq(Contents) /\ Len(SubSeq(blocks, 1, first - 1)) = first - 1
    BY <1>1, <1>2
  <2>2. Len(SubSeq(blocks, 1, first - 1) \o branch) = (first - 1) + Len(branch)
    BY <1>1, <2>1
  <2> QED
    BY <1>1, <1>3, <2>1, <2>2 DEF Latest
<1>5. LogsIn(first, Latest) = logs /\ LogsIn(first, Latest)' = new
  <2>1. LogsIn(first, Latest) = logs
    BY DEF LogsIn, LogsOf, RangeLogs, BlockLogs
  <2>2. LogsIn(first, Latest)' = new
    BY <1>4 DEF LogsIn, LogsOf, RangeLogs, BlockLogs
  <2> QED
    BY <2>1, <2>2
<1>6. Notify(dropped \o added)
  BY <1>5 DEF Reorg
<1> HIDE DEF first
<1>7. /\ logs \in SUBSET Log /\ IsFiniteSet(logs)
      /\ \A l \in logs : l.block \in first .. Latest
      /\ \A l, k \in logs : l.block = k.block /\ l.index = k.index => l = k
  BY <1>1, <1>2, RangeLogsType
<1>8. /\ new \in SUBSET Log /\ IsFiniteSet(new)
      /\ \A l \in new : l.block \in first .. Latest
      /\ \A l, k \in new : l.block = k.block /\ l.index = k.index => l = k
  BY <1>1, <1>2, <1>4, RangeLogsType
<1> HIDE DEF logs, new
<1>9. dropped \in Seq(Log) /\ \A l \in ToSet(dropped) : l.block \in first .. Latest
  BY <1>7, RemovedLogs
<1>10. added \in Seq(Log) /\ \A l \in ToSet(added) : l.block \in first .. Latest
  BY <1>8, LogsInOrder
<1> DEFINE all == dropped \o added
<1> HIDE DEF dropped, added
<1>11. all \in Seq(Log) /\ ToSet(all) = ToSet(dropped) \union ToSet(added)
  BY <1>9, <1>10, ConcatSet
<1>12. \A i \in DOMAIN all : all[i].block \in first .. Latest
  <2>1. \A i \in DOMAIN all : all[i] \in ToSet(all)
    BY DEF ToSet
  <2> QED
    BY <1>9, <1>10, <1>11, <2>1
<1>13. \A i \in DOMAIN all : all[i].block <= Latest' /\ all[i].block \in replaced'
  BY <1>2, <1>3, <1>4, <1>12
<1>14. Notify(all) /\ TypeOK /\ Ascending /\ UNCHANGED lastBlock /\ replaced \subseteq replaced'
  BY <1>3, <1>6 DEF Inv, Reorg
<1>15. replaced' \in SUBSET Nat
  <2>1. \A n \in first .. Latest : n \in Nat
    BY <1>1, <1>2
  <2>2. \A n \in replaced : n \in Nat
    BY DEF Inv, TypeOK
  <2> QED
    BY <1>3, <2>1, <2>2
<1> HIDE DEF all
<1>16. currentCh' \in Seq(Log) /\ Ascending'
  BY <1>1, <1>4, <1>11, <1>13, <1>14, Notified
<1> QED
  BY <1>4, <1>15, <1>16

-----------------------------------------------------------------------------
(***************************************************************************)
(* The reconciler.                                                         *)
(***************************************************************************)
\* A turn of its loop asks for a range that is not empty and ends at the header.
LEMMA FetchRange ==
    ASSUME Inv, Fetching
    PROVE  /\ header \in Nat /\ header # 0 /\ Latest \in Nat /\ header <= Latest
           /\ rec.start \in Nat \ {0} /\ rec.last \in Nat \ {0} /\ rec.last <= rec.start
           /\ ClampedEnd \in Nat /\ rec.start <= ClampedEnd /\ ClampedEnd <= header
<1>1. /\ header \in Nat /\ Latest \in Nat /\ header <= Latest
      /\ rec.start \in Nat /\ rec.last \in Nat /\ rec.end \in Nat /\ rec.current \in Nat
  BY DEF Inv, TypeOK, Reconciler, Ranges, Latest
<1>2. rec.on /\ rec.current > rec.start
  BY DEF Fetching
<1>3. /\ header # 0 /\ rec.current = header /\ 1 <= rec.last /\ rec.last <= rec.start
      /\ rec.start <= rec.end
  BY <1>2 DEF Inv, Ranges
<1> QED
  BY <1>1, <1>2, <1>3 DEF ClampedEnd

\* What it gets is in the order of the chain.
LEMMA FetchedLogs ==
    ASSUME Inv, Fetching
    PROVE  LET logs == InChainOrder(Unknown(FilterLogs(rec.start, ClampedEnd), rec.last))
           IN  /\ logs \in Seq(Log)
               /\ ToSet(logs) = Unknown(FilterLogs(rec.start, ClampedEnd), rec.last)
               /\ \A i, j \in DOMAIN logs : i < j => <<logs[i], logs[j]>> \in Before
<1>1. /\ rec.start \in Nat \ {0} /\ ClampedEnd \in Nat /\ ClampedEnd <= Latest
  BY FetchRange
<1> DEFINE range == FilterLogs(rec.start, ClampedEnd)
           logs == Unknown(range, rec.last)
<1>2. /\ range \in SUBSET Log /\ IsFiniteSet(range)
      /\ \A l, k \in range : l.block = k.block /\ l.index = k.index => l = k
  BY <1>1, FilteredLogs DEF Inv
<1> HIDE DEF range
<1>3. logs \in SUBSET range
  BY DEF Unknown
<1> HIDE DEF logs
<1>4. IsFiniteSet(logs)
  BY <1>2, <1>3, FS_Subset
<1>5. /\ InChainOrder(logs) \in Seq(Log) /\ ToSet(InChainOrder(logs)) = logs
      /\ \A i, j \in DOMAIN InChainOrder(logs) :
            i < j => <<InChainOrder(logs)[i], InChainOrder(logs)[j]>> \in Before
  BY <1>2, <1>3, <1>4, LogsInOrder
<1> QED
  BY <1>5 DEF logs, range

\* The ranges it asks for next are not empty either.
LEMMA NextRange ==
    ASSUME Inv, Fetching
    PROVE  /\ NextStart \in Nat /\ rec.start < NextStart /\ NextStart <= header + 1
           /\ ClampedEnd + BlockStep \in Nat /\ NextStart <= ClampedEnd + BlockStep
           /\ HalvedEnd \in Nat /\ rec.start <= HalvedEnd
<1>1. /\ header \in Nat /\ rec.start \in Nat /\ ClampedEnd \in Nat /\ rec.start <= ClampedEnd
      /\ ClampedEnd <= header /\ BlockStep \in Nat \ {0}
  BY FetchRange, ListenerAssumption
<1>2. ASSUME NEW start \in Nat, NEW end \in Nat, start <= end
      PROVE  end - (end - start) \div 2 \in Nat /\ start <= end - (end - start) \div 2
  BY <1>2
<1>3. HalvedEnd \in Nat /\ rec.start <= HalvedEnd
  BY <1>1, <1>2 DEF HalvedEnd
<1> QED
  BY <1>1, <1>3 DEF NextStart

\* The range the node advises begins where the one it was asked for does.
LEMMA AdvisedIsPrefix ==
    ASSUME rec \in Reconciler, rec.start \in Nat, ClampedEnd \in Nat, FetchAdvised
    PROVE  \E end \in Nat : rec.start <= end /\ rec' = [rec EXCEPT !.end = end]
<1>1. PICK range \in AdvisedRanges : rec' = [rec EXCEPT !.start = range[1], !.end = range[2]]
  BY DEF FetchAdvised
<1>2. range[1] = rec.start /\ range[2] \in Nat /\ rec.start <= range[2]
  BY DEF AdvisedRanges
<1>3. [rec EXCEPT !.start = range[1], !.end = range[2]] = [rec EXCEPT !.end = range[2]]
  BY <1>2 DEF Reconciler
<1> QED
  BY <1>1, <1>2, <1>3

LEMMA ReconcileType ==
    ASSUME Inv, Reconcile
    PROVE  TypeOK'
<1>1. rec \in Reconciler /\ historicalCh \in Seq(Log) /\ Len(historicalCh) <= 1
  BY DEF Inv, TypeOK
<1>2. rec' \in Reconciler /\ historicalCh' \in Seq(Log) /\ Len(historicalCh') <= 1
  <2>1. CASE FetchSucceeds
    <3> DEFINE logs == InChainOrder(Unknown(FilterLogs(rec.start, ClampedEnd), rec.last))
    <3>1. Fetching /\ historicalCh' = historicalCh
      BY <2>1 DEF FetchSucceeds
    <3>2. logs \in Seq(Log) /\ NextStart \in Nat /\ ClampedEnd + BlockStep \in Nat
      BY <3>1, FetchedLogs, NextRange
    <3>3. rec' = [rec EXCEPT !.logs = logs, !.start = NextStart, !.end = ClampedEnd + BlockStep]
      BY <2>1 DEF FetchSucceeds
    <3> HIDE DEF logs
    <3> QED
      BY <1>1, <3>1, <3>2, <3>3 DEF Reconciler
  <2>2. CASE FetchTooWide \/ FetchAdvised \/ FetchFails
    <3>1. Fetching /\ historicalCh' = historicalCh
      BY <2>2 DEF FetchTooWide, FetchAdvised, FetchFails
    <3>2. HalvedEnd \in Nat /\ rec.start \in Nat /\ ClampedEnd \in Nat
      BY <3>1, FetchRange, NextRange
    <3>3. \E end \in Nat : rec' = [rec EXCEPT !.end = end]
      <4>1. CASE FetchAdvised
        BY <1>1, <3>2, <4>1, AdvisedIsPrefix
      <4> QED
        BY <2>2, <3>2, <4>1 DEF FetchTooWide, FetchFails
    <3> QED
      BY <1>1, <3>1, <3>3 DEF Reconciler
  <2>3. CASE SendHistorical
    <3>1. rec.logs \in Seq(Log) /\ rec.logs # <<>> /\ historicalCh = <<>>
      BY <1>1, <2>3 DEF SendHistorical, Room, Reconciler
    <3>2. Head(rec.logs) \in Log /\ Tail(rec.logs) \in Seq(Log)
      BY <3>1, HeadTailProperties
    <3>3. rec' = [rec EXCEPT !.logs = Tail(rec.logs)] /\ historicalCh' = <<Head(rec.logs)>>
      BY <2>3, <3>1 DEF SendHistorical
    <3>4. rec' \in Reconciler
      BY <1>1, <3>2, <3>3 DEF Reconciler
    <3> QED
      BY <3>2, <3>3, <3>4
  <2>4. CASE ReconcilerEnds
    BY <1>1, <2>4 DEF ReconcilerEnds, Reconciler
  <2> QED
    BY <2>1, <2>2, <2>3, <2>4 DEF Reconcile, Progress
<1>3. RecStep
  BY DEF Reconcile, Progress, FetchSucceeds, FetchTooWide, FetchAdvised, FetchFails,
         SendHistorical, ReconcilerEnds
<1> QED
  BY <1>2, <1>3 DEF RecStep, arguments, Inv, TypeOK

LEMMA ReconcileRanges ==
    ASSUME Inv, Reconcile
    PROVE  Ranges'
<1>1. RecStep
  BY DEF Reconcile, Progress, FetchSucceeds, FetchTooWide, FetchAdvised, FetchFails,
         SendHistorical, ReconcilerEnds
<1>2. header' = header /\ Latest' = Latest /\ header <= Latest
  BY <1>1 DEF RecStep, Latest, Inv, Ranges
<1>3. rec \in Reconciler /\ rec.on /\ header # 0
  BY DEF Inv, TypeOK, Ranges, Reconcile, Progress, FetchSucceeds, FetchTooWide, FetchAdvised,
         FetchFails, SendHistorical, ReconcilerEnds, Fetching
<1>4. rec.current = header /\ 1 <= rec.last /\ rec.last <= rec.start /\ rec.start <= header + 1
  BY <1>3 DEF Inv, Ranges
<1>5. rec.start \in Nat /\ rec.last \in Nat /\ header \in Nat
  BY <1>3 DEF Reconciler, Inv, TypeOK
<1>6. CASE FetchSucceeds
  <2>1. Fetching
    BY <1>6 DEF FetchSucceeds
  <2>2. rec'.on = rec.on /\ rec'.current = rec.current /\ rec'.last = rec.last
    BY <1>3, <1>6 DEF FetchSucceeds, Reconciler
  <2>3. rec'.start = NextStart /\ rec'.end = ClampedEnd + BlockStep
    BY <1>3, <1>6 DEF FetchSucceeds, Reconciler
  <2>4. /\ NextStart \in Nat /\ rec.start < NextStart /\ NextStart <= header + 1
        /\ NextStart <= ClampedEnd + BlockStep
    BY <2>1, NextRange
  <2> QED
    BY <1>2, <1>3, <1>4, <1>5, <2>2, <2>3, <2>4 DEF Ranges
<1>7. CASE FetchTooWide \/ FetchAdvised \/ FetchFails
  <2>1. Fetching
    BY <1>7 DEF FetchTooWide, FetchAdvised, FetchFails
  <2>2. /\ HalvedEnd \in Nat /\ rec.start <= HalvedEnd
        /\ ClampedEnd \in Nat /\ rec.start <= ClampedEnd
    BY <2>1, FetchRange, NextRange
  <2>3. \E end \in Nat : rec.start <= end /\ rec' = [rec EXCEPT !.end = end]
    <3>1. CASE FetchAdvised
      BY <1>3, <1>5, <2>2, <3>1, AdvisedIsPrefix
    <3> QED
      BY <1>7, <2>2, <3>1 DEF FetchTooWide, FetchFails
  <2> QED
    BY <1>2, <1>3, <1>4, <2>3 DEF Ranges, Reconciler
<1>8. CASE SendHistorical \/ ReconcilerEnds
  <2>1. /\ rec'.current = rec.current /\ rec'.last = rec.last /\ rec'.start = rec.start
        /\ rec'.end = rec.end
    BY <1>3, <1>8 DEF SendHistorical, ReconcilerEnds, Reconciler
  <2>2. rec.start <= rec.end
    BY <1>3 DEF Inv, Ranges
  <2> QED
    BY <1>2, <1>3, <1>4, <2>1, <2>2 DEF Ranges
<1> QED
  BY <1>6, <1>7, <1>8 DEF Reconcile, Progress

-----------------------------------------------------------------------------
(***************************************************************************)
(* The other steps.                                                        *)
(***************************************************************************)
\* They leave the events alone.
Quietly == Cancel \/ WatchEvent \/ Return \/ ConnectFails \/ Subscribe \/ SelectError \/ Sent
              \/ UNCHANGED vars

Begin == SkipHistory \/ StartReconciler

Select == SelectHistorical \/ SelectCurrent

LEMMA QuietlyLeaves ==
    ASSUME Quietly
    PROVE  /\ UNCHANGED <<watch, fromBlock, lastIndex, blocks, lastBlock, header, rec,
                          historicalCh, currentCh, handled, reorgs, replaced>>
           /\ cancelled' = cancelled \/ cancelled' = TRUE
BY DEF Quietly, Cancel, WatchEvent, Return, ConnectFails, Subscribe, SelectError, Sent, vars,
       arguments, channels

LEMMA QuietlyType ==
    ASSUME Inv, Quietly
    PROVE  TypeOK'
<1>1. UNCHANGED <<watch, fromBlock, lastIndex, blocks, lastBlock, header, rec, historicalCh,
                  currentCh, handled, reorgs, replaced>>
  BY QuietlyLeaves
<1>2. /\ cancelled' = cancelled \/ cancelled' = TRUE
      /\ pc' \in {pc, "connect", "select", "returned"}
      /\ backOffCount' = backOffCount \/ backOffCount' = backOffCount + 1 \/ backOffCount' = 0
      /\ drops' = drops \/ drops' = drops + 1
  <2>1. CASE Cancel \/ WatchEvent \/ Return \/ Sent
    BY <2>1 DEF Cancel, WatchEvent, Return, Sent, Loop
  <2>2. CASE ConnectFails \/ Subscribe
    BY <2>2 DEF ConnectFails, Subscribe, Loop
  <2>3. CASE SelectError \/ UNCHANGED vars
    BY <2>3 DEF SelectError, Loop, vars
  <2> QED
    BY <2>1, <2>2, <2>3 DEF Quietly
<1>3. backOffCount' \in Nat /\ drops' \in Nat
  <2>1. backOffCount \in Nat /\ drops \in Nat
    BY DEF Inv, TypeOK
  <2> QED
    BY <1>2, <2>1
<1>4. cancelled' \in BOOLEAN
  BY <1>2 DEF Inv, TypeOK
<1>5. pc' \in {"watch", "connect", "subscribe", "select", "sending", "returned"}
  BY <1>2 DEF Inv, TypeOK
<1> QED
  BY <1>1, <1>3, <1>4, <1>5 DEF Inv, TypeOK

LEMMA BeginType ==
    ASSUME Inv, Begin
    PROVE  TypeOK'
<1>1. /\ rec' \in Reconciler /\ header' \in Nat /\ historicalCh' = <<>> /\ currentCh' = <<>>
      /\ handled' = <<>> /\ pc' = "subscribe"
  <2>1. BlockStep \in Nat /\ lastBlock \in Nat /\ Latest \in Nat /\ <<>> \in Seq(Log)
    BY ListenerAssumption DEF Inv, TypeOK, Latest
  <2>2. CASE SkipHistory
    BY <2>1, <2>2 DEF SkipHistory, FreshChannels, NoReconciler, Reconciler
  <2>3. CASE StartReconciler
    BY <2>1, <2>3 DEF StartReconciler, FreshChannels, Reconciler
  <2> QED
    BY <2>2, <2>3 DEF Begin
<1>2. /\ historicalCh' \in Seq(Log) /\ Len(historicalCh') <= 1
      /\ currentCh' \in Seq(Log) /\ handled' \in Seq(Log)
  BY <1>1
<1>3. UNCHANGED <<watch, fromBlock, lastIndex, cancelled, blocks, lastBlock, backOffCount, drops,
               reorgs, replaced>>
  BY DEF Begin, SkipHistory, StartReconciler, arguments
<1> QED
  BY <1>1, <1>2, <1>3 DEF Inv, TypeOK

LEMMA SelectType ==
    ASSUME Inv, Select
    PROVE  TypeOK'
<1>1. handled' \in Seq(Log) /\ pc' \in {"select", "sending", "returned"}
  <2>1. ASSUME NEW s \in Seq(Log), s # <<>>, Handle(Head(s))
        PROVE  handled' \in Seq(Log) /\ pc' \in {"select", "sending", "returned"}
    <3>1. Head(s) \in Log /\ handled \in Seq(Log)
      BY <2>1, HeadTailProperties DEF Inv, TypeOK
    <3> QED
      BY <2>1, <3>1 DEF Handle, Loop
  <2>2. historicalCh \in Seq(Log) /\ currentCh \in Seq(Log)
    BY DEF Inv, TypeOK
  <2> QED
    BY <2>1, <2>2 DEF Select, SelectHistorical, SelectCurrent
<1>2. /\ historicalCh' \in Seq(Log) /\ Len(historicalCh') <= 1
      /\ currentCh' \in Seq(Log)
      /\ lastBlock' \in Nat
  <2>1. historicalCh \in Seq(Log) /\ Len(historicalCh) <= 1 /\ currentCh \in Seq(Log) /\ lastBlock \in Nat
    BY DEF Inv, TypeOK
  <2>2. CASE SelectHistorical
    <3>1. historicalCh' = Tail(historicalCh) /\ UNCHANGED <<currentCh, lastBlock>> /\ historicalCh # <<>>
      BY <2>2 DEF SelectHistorical
    <3> QED
      BY <2>1, <3>1
  <2>3. CASE SelectCurrent
    <3>1. /\ currentCh' = Tail(currentCh) /\ historicalCh' = historicalCh /\ currentCh # <<>>
          /\ lastBlock' = Head(currentCh).block
      BY <2>3 DEF SelectCurrent
    <3>2. Head(currentCh) \in Log /\ Tail(currentCh) \in Seq(Log)
      BY <2>1, <3>1, HeadTailProperties
    <3> QED
      BY <2>1, <3>1, <3>2, LogType
  <2> QED
    BY <2>2, <2>3 DEF Select
<1>3. UNCHANGED <<watch, fromBlock, lastIndex, cancelled, blocks, backOffCount, header, rec, drops,
               reorgs, replaced>>
  BY DEF Select, SelectHistorical, SelectCurrent, arguments
<1> QED
  BY <1>1, <1>2, <1>3 DEF Inv, TypeOK

\* What happens to the chain.
Extend == \E topics \in Contents : NewBlock(topics)
Replace == \E branch \in Branches : Reorg(branch)

LEMMA NextSteps ==
    ASSUME Next
    PROVE  \/ Extend \/ Replace \/ Quietly \/ Begin \/ Select \/ Reconcile
BY DEF Next, Extend, Replace, Branches, Quietly, Begin, Select

LEMMA ChainType ==
    ASSUME Inv, Extend \/ Replace
    PROVE  TypeOK'
<1>1. blocks' \in Seq(Contents) /\ currentCh' \in Seq(Log)
  BY NewBlockNotifies, ReorgNotifies DEF Extend, Replace
<1>2. /\ UNCHANGED <<watch, fromBlock, lastIndex, cancelled, pc, lastBlock, backOffCount, header,
                     rec, historicalCh, drops>>
      /\ reorgs' = reorgs \/ reorgs' = reorgs + 1
      /\ handled' = handled \/ handled' = <<>>
  BY DEF Extend, Replace, NewBlock, Reorg, arguments
<1>3. replaced' \in SUBSET Nat
  <2>1. CASE Extend
    BY <2>1 DEF Extend, NewBlock, Inv, TypeOK
  <2>2. CASE Replace
    BY <2>2, ReorgNotifies DEF Replace
  <2> QED
    BY <2>1, <2>2
<1>4. reorgs' \in Nat /\ handled' \in Seq(Log)
  <2>1. reorgs \in Nat
    BY DEF Inv, TypeOK
  <2>2. reorgs' \in Nat
    BY <1>2, <2>1
  <2>3. handled \in Seq(Log) /\ <<>> \in Seq(Log)
    BY DEF Inv, TypeOK
  <2>4. handled' \in Seq(Log)
    BY <1>2, <2>3
  <2> QED
    BY <2>2, <2>4
<1> QED
  BY <1>1, <1>2, <1>3, <1>4 DEF Inv, TypeOK

LEMMA StepType ==
    ASSUME Inv, [Next]_vars
    PROVE  TypeOK'
BY NextSteps, QuietlyType, BeginType, SelectType, ChainType, ReconcileType DEF Quietly

LEMMA StepAscending ==
    ASSUME Inv, [Next]_vars
    PROVE  Ascending'
<1>1. CASE Quietly \/ Reconcile
  <2>1. UNCHANGED <<blocks, lastBlock, currentCh, replaced>>
    BY <1>1, QuietlyLeaves DEF Reconcile, Progress, FetchSucceeds, FetchTooWide, FetchAdvised,
         FetchFails, SendHistorical, ReconcilerEnds, RecStep
  <2> QED
    BY <2>1 DEF Inv, Ascending, Follows, Latest
<1>2. CASE Begin
  <2>1. UNCHANGED <<blocks, lastBlock>> /\ currentCh' = <<>>
    BY <1>2 DEF Begin, SkipHistory, StartReconciler, FreshChannels
  <2> QED
    BY <2>1 DEF Inv, Ascending, Latest
<1>3. CASE SelectHistorical
  BY <1>3 DEF SelectHistorical, Inv, Ascending, Follows, Latest
<1>4. CASE SelectCurrent
  <2> DEFINE s == currentCh
  <2>1. s \in Seq(Log) /\ s # <<>> /\ Latest' = Latest
    BY <1>4 DEF SelectCurrent, Inv, TypeOK, Latest
  <2>2. /\ \A i \in DOMAIN s : s[i].block <= Latest
        /\ \A i, j \in DOMAIN s : i < j => Follows(s[i].block, s[j].block)
    BY DEF Inv, Ascending
  <2>3. lastBlock' = Head(s).block /\ currentCh' = Tail(s) /\ replaced' = replaced
    BY <1>4 DEF SelectCurrent
  <2> HIDE DEF s
  <2>4. /\ Head(s) = s[1] /\ 1 \in DOMAIN s
        /\ \A i \in DOMAIN Tail(s) : i + 1 \in DOMAIN s /\ 1 < i + 1 /\ Tail(s)[i] = s[i + 1]
        /\ \A i, j \in DOMAIN Tail(s) : i < j => i + 1 < j + 1
    BY <2>1
  <2> QED
    BY <2>1, <2>2, <2>3, <2>4 DEF Ascending, Follows
<1>5. CASE Extend \/ Replace
  BY <1>5, NewBlockNotifies, ReorgNotifies DEF Extend, Replace
<1> QED
  BY <1>1, <1>2, <1>3, <1>4, <1>5, NextSteps DEF Quietly, Select

LEMMA StepRanges ==
    ASSUME Inv, [Next]_vars
    PROVE  Ranges'
<1>1. CASE Quietly \/ Select
  <2>1. UNCHANGED <<blocks, header, rec>> /\ (header = 0 => UNCHANGED historicalCh)
    BY <1>1, QuietlyLeaves DEF Select, SelectHistorical, SelectCurrent, Inv, Ranges
  <2> QED
    BY <2>1 DEF Inv, Ranges, Latest
<1>2. CASE SkipHistory
  BY <1>2 DEF SkipHistory, FreshChannels, NoReconciler, Ranges, Latest, Inv, TypeOK
<1>3. CASE StartReconciler
  <2>1. /\ lastBlock \in Nat /\ lastBlock # 0 /\ Latest \in Nat /\ lastBlock <= Latest
        /\ BlockStep \in Nat \ {0}
    BY <1>3, ListenerAssumption DEF StartReconciler, Inv, TypeOK, Ascending, Latest
  <2>2. /\ header' = Latest /\ Latest' = Latest
        /\ rec'.current = Latest /\ rec'.last = lastBlock /\ rec'.start = lastBlock
        /\ rec'.end = lastBlock + BlockStep
    BY <1>3 DEF StartReconciler, Latest
  <2> QED
    BY <2>1, <2>2 DEF Ranges
<1>4. CASE Extend \/ Replace
  <2>1. Latest' = Latest \/ Latest' = Latest + 1
    BY <1>4, NewBlockNotifies, ReorgNotifies DEF Extend, Replace
  <2>2. UNCHANGED <<header, rec, historicalCh>>
    BY <1>4 DEF Extend, Replace, NewBlock, Reorg
  <2>3. header \in Nat /\ Latest \in Nat /\ header <= Latest
    BY DEF Inv, TypeOK, Ranges, Latest
  <2> QED
    BY <2>1, <2>2, <2>3 DEF Inv, Ranges
<1>5. CASE Reconcile
  BY <1>5, ReconcileRanges
<1> QED
  BY <1>1, <1>2, <1>3, <1>4, <1>5, NextSteps DEF Quietly, Begin

LEMMA StepBound ==
    ASSUME Inv, [Next]_vars
    PROVE  Bound'
<1>1. watch' = watch
  BY DEF Next, vars, Reconcile, Progress, FetchSucceeds, FetchTooWide, FetchAdvised, FetchFails,
         SendHistorical, ReconcilerEnds, RecStep, NewBlock, Reorg, Cancel, WatchEvent, Return,
         SkipHistory, StartReconciler, ConnectFails, Subscribe, SelectHistorical, SelectCurrent,
         SelectError, Sent, arguments
<1>2. \/ pc' = pc \/ pc' = "returned" \/ pc \notin {"watch", "returned"}
      \/ pc = "watch" /\ Filterer \in watch.bound
  BY DEF Next, vars, Reconcile, Progress, FetchSucceeds, FetchTooWide, FetchAdvised, FetchFails,
         SendHistorical, ReconcilerEnds, RecStep, NewBlock, Reorg, Cancel, WatchEvent, Return,
         SkipHistory, StartReconciler, ConnectFails, Subscribe, SelectHistorical, SelectCurrent,
         SelectError, Sent
<1> QED
  BY <1>1, <1>2 DEF Inv, Bound, Filterer

-----------------------------------------------------------------------------
(***************************************************************************)
(* Sequences of logs.                                                      *)
(***************************************************************************)
LEMMA AppendSet ==
    ASSUME NEW s \in Seq(Log), NEW x \in Log
    PROVE  ToSet(Append(s, x)) = ToSet(s) \union {x}
<1>1. <<x>> \in Seq(Log) /\ ToSet(<<x>>) = {x} /\ Append(s, x) = s \o <<x>>
  BY AppendIsConcat DEF ToSet
<1> QED
  BY <1>1, ConcatSet

LEMMA HeadTailSet ==
    ASSUME NEW s \in Seq(Log), s # <<>>
    PROVE  ToSet(s) = {Head(s)} \union ToSet(Tail(s))
<1>1. Head(s) \in Log /\ Tail(s) \in Seq(Log) /\ <<Head(s)>> \in Seq(Log)
  BY HeadTailProperties
<1>2. s = <<Head(s)>> \o Tail(s) /\ ToSet(<<Head(s)>>) = {Head(s)}
  BY DEF ToSet
<1> QED
  BY <1>1, <1>2, ConcatSet

\* A log that is in the place of the first of a queue may as well be received.
LEMMA Receive ==
    ASSUME NEW s \in Seq(Log), NEW t \in Seq(Log), t # <<>>
    PROVE  Append(s, Head(t)) \o Tail(t) = s \o t
<1>1. Head(t) \in Log /\ Tail(t) \in Seq(Log) /\ t = <<Head(t)>> \o Tail(t)
  BY HeadTailProperties
<1> QED
  BY <1>1, MoveFirst

\* A log that is not in K does not disturb the order of those that are.
LEMMA InsertOther ==
    ASSUME NEW s \in Seq(Log), NEW t \in Seq(Log), NEW x \in Log, NEW K, x \notin K,
           SortedIn(s \o t, K)
    PROVE  SortedIn(Append(s, x) \o t, K)
<1> DEFINE n == Len(s)
           old == s \o t
           new == Append(s, x) \o t
<1>1. /\ n \in Nat /\ Len(t) \in Nat /\ DOMAIN old = 1 .. n + Len(t)
      /\ DOMAIN new = 1 .. n + 1 + Len(t)
  OBVIOUS
<1>2. \A i \in 1 .. n : new[i] = old[i]
  OBVIOUS
<1>3. new[n + 1] = x
  OBVIOUS
<1>4. \A i \in n + 2 .. n + 1 + Len(t) : new[i] = old[i - 1]
  OBVIOUS
<1> HIDE DEF n, old, new
<1>5. \A i \in DOMAIN new : new[i] \in K =>
         \/ i \in 1 .. n /\ i \in DOMAIN old /\ new[i] = old[i]
         \/ i \in n + 2 .. n + 1 + Len(t) /\ i - 1 \in DOMAIN old /\ new[i] = old[i - 1]
  BY <1>1, <1>2, <1>3, <1>4
<1>6. \A i, j \in DOMAIN old : i < j /\ old[i] \in K /\ old[j] \in K => <<old[i], old[j]>> \in Before
  BY DEF SortedIn, old
<1>7. ASSUME NEW i \in DOMAIN new, NEW j \in DOMAIN new, i < j, new[i] \in K, new[j] \in K
      PROVE  <<new[i], new[j]>> \in Before
  <2>1. PICK a \in {i, i - 1} : a \in DOMAIN old /\ new[i] = old[a] /\ (a = i => i <= n) /\ (a = i - 1 => i > n + 1)
    BY <1>1, <1>5, <1>7
  <2>2. PICK b \in {j, j - 1} : b \in DOMAIN old /\ new[j] = old[b] /\ (b = j => j <= n) /\ (b = j - 1 => j > n + 1)
    BY <1>1, <1>5, <1>7
  <2>3. a < b
    BY <1>1, <1>7, <2>1, <2>2
  <2> QED
    BY <1>6, <1>7, <2>1, <2>2, <2>3
<1> QED
  BY <1>7 DEF SortedIn, new

\* A list in order may follow what comes before it.
LEMMA SortedExtend ==
    ASSUME NEW s \in Seq(Log), NEW t \in Seq(Log), NEW K, SortedIn(s, K),
           \A i, j \in DOMAIN t : i < j => <<t[i], t[j]>> \in Before,
           \A i \in DOMAIN s : \A j \in DOMAIN t : s[i] \in K => <<s[i], t[j]>> \in Before
    PROVE  SortedIn(s \o t, K)
<1> DEFINE new == s \o t
<1>1. /\ DOMAIN s = 1 .. Len(s) /\ Len(s) \in Nat /\ Len(t) \in Nat
      /\ DOMAIN new = 1 .. Len(s) + Len(t)
      /\ \A i \in DOMAIN s : new[i] = s[i]
      /\ \A i \in DOMAIN new :
            i \notin DOMAIN s => i - Len(s) \in DOMAIN t /\ new[i] = t[i - Len(s)]
  BY ConcatElements
<1> HIDE DEF new
<1>2. ASSUME NEW i \in DOMAIN new, NEW j \in DOMAIN new, i < j, new[i] \in K, new[j] \in K
      PROVE  <<new[i], new[j]>> \in Before
  <2>1. CASE j \in DOMAIN s
    <3>1. i \in DOMAIN s
      BY <1>1, <1>2, <2>1
    <3> QED
      BY <1>1, <1>2, <2>1, <3>1 DEF SortedIn
  <2>2. CASE i \in DOMAIN s /\ j \notin DOMAIN s
    BY <1>1, <1>2, <2>2
  <2>3. CASE i \notin DOMAIN s
    <3>1. j \notin DOMAIN s
      BY <1>1, <1>2, <2>3
    <3>2. i - Len(s) < j - Len(s)
      BY <1>1, <1>2
    <3> QED
      BY <1>1, <2>3, <3>1, <3>2
  <2> QED
    BY <2>1, <2>2, <2>3
<1> QED
  BY <1>2 DEF SortedIn, new

-----------------------------------------------------------------------------
(***************************************************************************)
(* What the reconciler wants.                                              *)
(***************************************************************************)
\* A part of a range has the logs of its blocks.
LEMMA PartOfRange ==
    ASSUME TypeOK, NEW first \in Nat \ {0}, NEW end \in Nat, end <= Latest,
           NEW a \in Nat, NEW b \in Nat, first <= a, b <= end
    PROVE  FilterLogs(a, b) = {l \in FilterLogs(first, end) : a <= l.block /\ l.block <= b}
<1>1. \A c \in first .. end : c \in 1 .. Latest /\ c \in Nat
  BY DEF TypeOK, Latest
<1>2. \A c \in a .. b : c \in first .. end
  OBVIOUS
<1>3. ASSUME NEW c \in first .. end, NEW l \in ToSet(LogsOf(c))
      PROVE  l.block = c
  <2>1. c \in 1 .. Latest
    BY <1>1
  <2>2. \A i \in DOMAIN LogsOf(c) : LogsOf(c)[i].block = c
    BY <2>1, LogsOfBlock
  <2> QED
    BY <2>2 DEF ToSet
<1>4. ASSUME NEW l \in FilterLogs(a, b)
      PROVE  l \in FilterLogs(first, end) /\ a <= l.block /\ l.block <= b
  <2>1. PICK c \in a .. b : l \in ToSet(LogsOf(c)) /\ l.topic = watch.event
    BY DEF FilterLogs, LogsIn
  <2> QED
    BY <1>2, <1>3, <2>1 DEF FilterLogs, LogsIn
<1>5. ASSUME NEW l \in FilterLogs(first, end), a <= l.block, l.block <= b
      PROVE  l \in FilterLogs(a, b)
  <2>1. PICK c \in first .. end : l \in ToSet(LogsOf(c)) /\ l.topic = watch.event
    BY DEF FilterLogs, LogsIn
  <2>2. c \in a .. b
    BY <1>1, <1>3, <1>5, <2>1
  <2> QED
    BY <2>1, <2>2 DEF FilterLogs, LogsIn
<1> QED
  BY <1>4, <1>5

LEMMA HeaderRange ==
    ASSUME Inv, header # 0
    PROVE  /\ header \in Nat /\ Latest \in Nat /\ header <= Latest
           /\ rec.last \in Nat \ {0} /\ rec.start \in Nat /\ rec.last <= rec.start
           /\ lastIndex \in Nat
BY DEF Inv, TypeOK, Ranges, Reconciler, Latest

LEMMA WantedLogs ==
    ASSUME Inv, header # 0
    PROVE  /\ Wanted \in SUBSET FilterLogs(rec.last, header) /\ Wanted \in SUBSET Log
           /\ \A l \in Wanted : rec.last <= l.block /\ l.block <= header
           /\ \A l, k \in Wanted : l.block = k.block /\ l.index = k.index => l = k
<1>1. /\ header \in Nat /\ header <= Latest /\ rec.last \in Nat \ {0} /\ TypeOK
  BY HeaderRange DEF Inv
<1>2. Wanted \in SUBSET FilterLogs(rec.last, header)
  BY DEF Wanted
<1>3. /\ FilterLogs(rec.last, header) \in SUBSET Log
      /\ \A l \in FilterLogs(rec.last, header) : l.block \in rec.last .. header
      /\ \A l, k \in FilterLogs(rec.last, header) : l.block = k.block /\ l.index = k.index => l = k
  BY <1>1, FilteredLogs
<1> QED
  BY <1>2, <1>3

\* What a fetch keeps of its range is what is wanted of it.
LEMMA FetchedAreWanted ==
    ASSUME Inv, header # 0, NEW end \in Nat, end <= header
    PROVE  Unknown(FilterLogs(rec.start, end), rec.last)
              = {l \in Wanted : rec.start <= l.block /\ l.block <= end}
<1>1. /\ header \in Nat /\ header <= Latest /\ rec.last \in Nat \ {0} /\ TypeOK
      /\ rec.start \in Nat /\ rec.last <= rec.start /\ lastIndex \in Nat
  BY HeaderRange DEF Inv
<1>2. FilterLogs(rec.start, end)
         = {l \in FilterLogs(rec.last, header) : rec.start <= l.block /\ l.block <= end}
  BY <1>1, PartOfRange
<1>3. \A l \in FilterLogs(rec.last, header) : l \in Log /\ l.block \in rec.last .. header
  BY <1>1, FilteredLogs
<1>4. \A l \in FilterLogs(rec.last, header) : l.block \in Nat /\ l.index \in Nat /\ rec.last <= l.block
  BY <1>1, <1>3, LogType
<1>5. \A l \in FilterLogs(rec.last, header) : After(l) <=> ~Known(l, rec.last)
  BY <1>1, <1>4 DEF After, Known
<1> QED
  BY <1>2, <1>5 DEF Wanted, Unknown

LEMMA SameWanted ==
    ASSUME UNCHANGED <<watch, lastIndex, blocks, header>>, rec'.last = rec.last
    PROVE  Wanted' = Wanted
BY DEF Wanted, After, FilterLogs, LogsIn, LogsOf

\* A new block adds nothing to it.
LEMMA WantedOfOldBlocks ==
    ASSUME Inv, header # 0, NEW topics \in Contents, NewBlock(topics)
    PROVE  Wanted' = Wanted
<1>1. header \in Nat /\ Latest \in Nat /\ header <= Latest /\ rec.last \in Nat \ {0}
  BY HeaderRange
<1>2. UNCHANGED <<watch, lastIndex, header, rec>> /\ blocks' = Append(blocks, topics)
  BY DEF NewBlock, arguments
<1>3. \A b \in rec.last .. header : b \in 1 .. Latest /\ blocks'[b] = blocks[b]
  <2>1. \A b \in rec.last .. header : b \in 1 .. Latest
    BY <1>1
  <2>2. blocks \in Seq(Contents) /\ Latest = Len(blocks)
    BY DEF Inv, TypeOK, Latest
  <2>3. \A b \in 1 .. Latest : Append(blocks, topics)[b] = blocks[b]
    BY <2>2
  <2> QED
    BY <1>2, <2>1, <2>3
<1>4. \A b \in rec.last .. header : LogsOf(b)' = LogsOf(b)
  BY <1>3 DEF LogsOf
<1>5. {ToSet(LogsOf(b)') : b \in rec.last .. header} = {ToSet(LogsOf(b)) : b \in rec.last .. header}
  BY <1>4
<1>6. FilterLogs(rec.last, header)' = FilterLogs(rec.last, header)
  BY <1>2, <1>5 DEF FilterLogs, LogsIn
<1> QED
  BY <1>2, <1>6 DEF Wanted, After

-----------------------------------------------------------------------------
(***************************************************************************)
(* Reconciled.                                                             *)
(***************************************************************************)
LEMMA OldAndNew ==
    ASSUME TypeOK
    PROVE  \A l \in Log : /\ l \in Old <=> l.block <= header
                          /\ l \in New <=> l.block > header
                          /\ l \in New <=> l \notin Old
<1>1. header \in Nat /\ \A l \in Log : l.block \in Nat
  BY LogType DEF TypeOK
<1> QED
  BY <1>1 DEF Old, New

LEMMA QueueType ==
    ASSUME TypeOK
    PROVE  /\ historicalCh \in Seq(Log) /\ rec.logs \in Seq(Log) /\ Queue \in Seq(Log)
           /\ currentCh \in Seq(Log) /\ handled \in Seq(Log)
           /\ ToSet(Queue) = ToSet(historicalCh) \union ToSet(rec.logs)
<1>1. historicalCh \in Seq(Log) /\ rec.logs \in Seq(Log) /\ currentCh \in Seq(Log) /\ handled \in Seq(Log)
  BY DEF TypeOK, Reconciler
<1> QED
  BY <1>1, ConcatElements, ConcatSet DEF Queue

\* The members of a sequence of logs are logs.
LEMMA SetOfLogs ==
    ASSUME NEW s \in Seq(Log)
    PROVE  ToSet(s) \in SUBSET Log
BY DEF ToSet

LEMMA QuietlyReconciled ==
    ASSUME Inv, Quietly, Reconciled
    PROVE  Reconciled'
<1>1. /\ UNCHANGED <<watch, lastIndex, blocks, header, rec, historicalCh, currentCh, handled>>
      /\ cancelled' = cancelled \/ cancelled' = TRUE
  BY QuietlyLeaves
<1>2. Wanted' = Wanted
  BY <1>1, SameWanted
<1>3. Queue' = Queue /\ Old' = Old /\ New' = New /\ Latest' = Latest
  BY <1>1 DEF Queue, Old, New, Latest
<1> QED
  BY <1>1, <1>2, <1>3 DEF Reconciled, SortedIn

\* A connection begins with empty channels, and a reconciler has fetched no block.
LEMMA BeginReconciled ==
    ASSUME Inv, Begin
    PROVE  Reconciled'
<1>1. handled' = <<>> /\ historicalCh' = <<>> /\ currentCh' = <<>> /\ rec'.logs = <<>>
  BY DEF Begin, SkipHistory, StartReconciler, FreshChannels, NoReconciler
<1>2. Queue' = <<>> /\ (handled \o Queue)' = <<>> /\ (handled \o currentCh)' = <<>>
  BY <1>1 DEF Queue
<1>3. ToSet(<<>>) = {}
  BY DEF ToSet
<1>4. \A K : SortedIn(<<>>, K)
  BY DEF SortedIn
<1>5. header' # 0 => rec'.on /\ rec'.start = lastBlock /\ rec'.last = lastBlock
  BY DEF Begin, SkipHistory, StartReconciler
<1>6. header' # 0 => {l \in Wanted' : l.block < rec'.start} = {}
  <2>1. CASE SkipHistory
    BY <2>1 DEF SkipHistory
  <2>2. CASE StartReconciler
    <3>1. /\ UNCHANGED <<watch, lastIndex, blocks, lastBlock>> /\ header' = Latest /\ lastBlock \in Nat \ {0}
          /\ rec'.last = lastBlock /\ rec'.start = lastBlock /\ Latest \in Nat
      BY <2>2 DEF StartReconciler, arguments, Inv, TypeOK, Latest
    <3>2. FilterLogs(rec.last, header)' = FilterLogs(lastBlock, Latest)
      BY <3>1 DEF FilterLogs, LogsIn, LogsOf
    <3>3. \A l \in FilterLogs(lastBlock, Latest) : l.block \in lastBlock .. Latest
      BY <3>1, FilteredLogs DEF Inv
    <3>4. \A l \in Wanted' : l.block \in lastBlock .. Latest
      BY <3>2, <3>3 DEF Wanted
    <3> QED
      BY <3>1, <3>4
  <2> QED
    BY <2>1, <2>2 DEF Begin
<1>7. SortedIn(handled \o Queue, Old)' /\ SortedIn(handled \o currentCh, New)'
  BY <1>2 DEF SortedIn
<1> QED
  BY <1>1, <1>2, <1>3, <1>5, <1>6, <1>7 DEF Reconciled

\* A log that is selected moves from its queue to those received.
LEMMA SelectHistoricalReconciled ==
    ASSUME Inv, reorgs = 0, SelectHistorical, Reconciled
    PROVE  Reconciled'
<1> DEFINE h == Head(historicalCh)
<1>1. /\ historicalCh # <<>> /\ handled' = Append(handled, h) /\ historicalCh' = Tail(historicalCh)
      /\ UNCHANGED <<watch, lastIndex, cancelled, blocks, header, rec, currentCh>>
  BY DEF SelectHistorical, Handle, arguments
<1>2. /\ historicalCh \in Seq(Log) /\ rec.logs \in Seq(Log) /\ handled \in Seq(Log)
      /\ currentCh \in Seq(Log) /\ Queue \in Seq(Log)
  BY QueueType DEF Inv
<1>3. h \in Log /\ Tail(historicalCh) \in Seq(Log)
  BY <1>1, <1>2, HeadTailProperties
<1>4. Wanted' = Wanted /\ Old' = Old /\ New' = New /\ Latest' = Latest
  BY <1>1, SameWanted DEF Old, New, Latest
<1>5. Queue # <<>> /\ Queue' = Tail(Queue) /\ h = Head(Queue)
  <2>1. Queue = <<h>> \o (Tail(historicalCh) \o rec.logs)
    BY <1>1, <1>2, HeadFirst DEF Queue
  <2>2. Queue' = Tail(historicalCh) \o rec.logs
    BY <1>1 DEF Queue
  <2>3. Tail(historicalCh) \o rec.logs \in Seq(Log)
    BY <1>2, <1>3
  <2> HIDE DEF h
  <2> QED
    BY <1>3, <2>1, <2>2, <2>3
<1> HIDE DEF h
<1>6. (handled \o Queue)' = handled \o Queue
  <2>1. handled' \o Queue' = Append(handled, Head(Queue)) \o Tail(Queue)
    BY <1>1, <1>5
  <2> QED
    BY <1>2, <1>5, <2>1, Receive
<1>7. ToSet(Queue) = {h} \union ToSet(Queue') /\ ToSet(handled') = ToSet(handled) \union {h}
  BY <1>1, <1>2, <1>3, <1>5, HeadTailSet, AppendSet
<1>8. h \in Old /\ h \notin New /\ h.block <= Latest
  <2>1. h \in Old
    BY <1>7 DEF Reconciled
  <2>2. h \notin New /\ h.block <= header
    BY <1>3, <2>1, OldAndNew DEF Inv
  <2>3. h.block \in Nat /\ header \in Nat /\ header <= Latest /\ Latest \in Nat
    BY <1>3, LogType DEF Inv, TypeOK, Ranges, Latest
  <2> QED
    BY <2>1, <2>2, <2>3
<1>9. SortedIn(Append(handled, h) \o currentCh, New)
  BY <1>2, <1>3, <1>8, InsertOther DEF Reconciled
<1>10. SortedIn(handled \o Queue, Old)' /\ SortedIn(handled \o currentCh, New)'
  BY <1>1, <1>4, <1>6, <1>9 DEF SortedIn, Reconciled
<1> QED
  BY <1>1, <1>4, <1>6, <1>7, <1>8, <1>10 DEF Reconciled

LEMMA SelectCurrentReconciled ==
    ASSUME Inv, reorgs = 0, SelectCurrent, Reconciled
    PROVE  Reconciled'
<1> DEFINE h == Head(currentCh)
<1>1. /\ currentCh # <<>> /\ handled' = Append(handled, h) /\ currentCh' = Tail(currentCh)
      /\ UNCHANGED <<watch, lastIndex, cancelled, blocks, header, rec, historicalCh>>
  BY DEF SelectCurrent, Handle, arguments
<1>2. handled \in Seq(Log) /\ currentCh \in Seq(Log) /\ Queue \in Seq(Log)
  BY QueueType DEF Inv
<1>3. h \in Log /\ Tail(currentCh) \in Seq(Log) /\ 1 \in DOMAIN currentCh /\ h = currentCh[1]
  BY <1>1, <1>2, HeadTailProperties
<1>4. Wanted' = Wanted /\ Old' = Old /\ New' = New /\ Latest' = Latest /\ Queue' = Queue
  BY <1>1, SameWanted DEF Old, New, Latest, Queue
<1>5. (handled \o currentCh)' = handled \o currentCh
  BY <1>1, <1>2, Receive
<1>6. ToSet(currentCh) = {h} \union ToSet(currentCh') /\ ToSet(handled') = ToSet(handled) \union {h}
  BY <1>1, <1>2, <1>3, HeadTailSet, AppendSet
<1>7. h \notin Old /\ h.block <= Latest
  <2>1. h \in New
    BY <1>6 DEF Reconciled
  <2> QED
    BY <1>3, <2>1, OldAndNew DEF Inv, Ascending
<1> HIDE DEF h
<1>8. SortedIn(Append(handled, h) \o Queue, Old)
  BY <1>2, <1>3, <1>7, InsertOther DEF Reconciled
<1>9. SortedIn(handled \o Queue, Old)' /\ SortedIn(handled \o currentCh, New)'
  BY <1>1, <1>4, <1>5, <1>8 DEF SortedIn, Reconciled
<1>10. {l \in ToSet((handled \o Queue)') : l \in Old'} = {l \in ToSet(handled \o Queue) : l \in Old}
  <2>1. ToSet((handled \o Queue)') = ToSet(handled') \union ToSet(Queue)
    <3>1. handled' \in Seq(Log)
      BY <1>1, <1>2, <1>3
    <3> QED
      BY <1>2, <1>4, <3>1, ConcatSet
  <2>2. ToSet(handled \o Queue) = ToSet(handled) \union ToSet(Queue)
    BY <1>2, ConcatSet
  <2> QED
    BY <1>4, <1>6, <1>7, <2>1, <2>2
<1> QED
  BY <1>1, <1>4, <1>6, <1>7, <1>9, <1>10 DEF Reconciled

\* A fetch adds the logs of the blocks that follow those fetched before.
LEMMA FetchReconciled ==
    ASSUME Inv, FetchSucceeds, Reconciled
    PROVE  Reconciled'
<1> DEFINE more == InChainOrder(Unknown(FilterLogs(rec.start, ClampedEnd), rec.last))
           old == handled \o Queue
<1>1. /\ Fetching /\ rec.on /\ rec.logs = <<>> /\ header # 0
      /\ UNCHANGED <<watch, lastIndex, cancelled, blocks, header, currentCh, handled, historicalCh>>
  BY DEF FetchSucceeds, Fetching, RecStep, arguments, Inv, Ranges
<1>2. /\ rec'.logs = more /\ rec'.start = NextStart /\ rec'.last = rec.last /\ rec'.on
  BY <1>1 DEF FetchSucceeds, Inv, TypeOK, Reconciler
<1>3. /\ header \in Nat /\ Latest \in Nat /\ header <= Latest /\ rec.start \in Nat
      /\ ClampedEnd \in Nat /\ ClampedEnd <= header /\ rec.start <= ClampedEnd
  BY <1>1, HeaderRange, FetchRange
<1>4. /\ more \in Seq(Log)
      /\ ToSet(more) = {l \in Wanted : rec.start <= l.block /\ l.block <= ClampedEnd}
      /\ \A i, j \in DOMAIN more : i < j => <<more[i], more[j]>> \in Before
  BY <1>1, <1>3, FetchedLogs, FetchedAreWanted
<1>5. /\ historicalCh \in Seq(Log) /\ rec.logs \in Seq(Log) /\ handled \in Seq(Log)
      /\ currentCh \in Seq(Log) /\ Queue \in Seq(Log)
  BY QueueType DEF Inv
<1>6. Wanted' = Wanted /\ Old' = Old /\ New' = New /\ Latest' = Latest
  BY <1>1, <1>2, SameWanted DEF Old, New, Latest
<1> HIDE DEF more
<1>7. Queue = historicalCh /\ Queue' = Queue \o more
  BY <1>1, <1>2, <1>5 DEF Queue
<1>8. old \in Seq(Log) /\ handled \o Queue' = old \o more
  <2>1. handled \o (Queue \o more) = (handled \o Queue) \o more
    BY <1>4, <1>5, ConcatLogs
  <2> QED
    BY <1>5, <1>7, <2>1
<1> HIDE DEF old
<1>9. ToSet(Queue') = ToSet(Queue) \union ToSet(more) /\ ToSet(old \o more) = ToSet(old) \union ToSet(more)
  BY <1>4, <1>5, <1>7, <1>8, ConcatSet
<1>10. \A l \in ToSet(more) : l \in Log /\ l.block \in Nat /\ l.block <= header /\ rec.start <= l.block
  <2>1. \A l \in Wanted : l \in Log /\ l.block \in Nat
    BY <1>1, WantedLogs, LogType
  <2> QED
    BY <1>3, <1>4, <2>1
<1>11. \A l \in ToSet(more) : l \in Old
  BY <1>10, OldAndNew DEF Inv
<1>12. {l \in ToSet(old) : l \in Old} = {l \in Wanted : l.block < rec.start}
  BY <1>1 DEF Reconciled, old
<1>13. SortedIn(old \o more, Old)
  <2>1. ASSUME NEW i \in DOMAIN old, NEW j \in DOMAIN more, old[i] \in Old
        PROVE  <<old[i], more[j]>> \in Before
    <3>1. old[i] \in Log /\ more[j] \in Log /\ old[i] \in ToSet(old) /\ more[j] \in ToSet(more)
      BY <1>4, <1>8 DEF ToSet
    <3>2. old[i].block < rec.start /\ rec.start <= more[j].block
      BY <1>10, <1>12, <2>1, <3>1
    <3>3. old[i].block \in Nat /\ more[j].block \in Nat
      BY <3>1, LogType
    <3>4. old[i].block < more[j].block
      BY <1>3, <3>2, <3>3
    <3> QED
      BY <3>1, <3>4 DEF Before
  <2>2. SortedIn(old, Old)
    BY DEF Reconciled, old
  <2> QED
    BY <1>4, <1>8, <2>1, <2>2, SortedExtend
<1>14. {l \in ToSet(old \o more) : l \in Old} = {l \in Wanted : l.block < NextStart}
  <2>1. \A l \in Wanted : l.block < NextStart <=> l.block < rec.start \/ (rec.start <= l.block /\ l.block <= ClampedEnd)
    <3>1. \A l \in Wanted : l.block \in Nat
      BY <1>1, WantedLogs, LogType
    <3> QED
      BY <1>3, <3>1 DEF NextStart
  <2> QED
    BY <1>4, <1>9, <1>11, <1>12, <2>1
<1>15. SortedIn(handled \o Queue, Old)' /\ SortedIn(handled \o currentCh, New)'
  BY <1>1, <1>6, <1>8, <1>13 DEF SortedIn, Reconciled
<1>16. {l \in ToSet((handled \o Queue)') : l \in Old'} = {l \in Wanted' : l.block < rec'.start}
  BY <1>1, <1>2, <1>6, <1>8, <1>14
<1> QED
  BY <1>1, <1>2, <1>6, <1>9, <1>11, <1>15, <1>16 DEF Reconciled

LEMMA ReconcileReconciled ==
    ASSUME Inv, Reconcile, Reconciled
    PROVE  Reconciled'
<1>1. CASE FetchTooWide \/ FetchAdvised \/ FetchFails \/ ReconcilerEnds
  <2>1. /\ UNCHANGED <<watch, lastIndex, cancelled, blocks, header, currentCh, handled, historicalCh>>
        /\ rec'.logs = rec.logs /\ rec'.start = rec.start /\ rec'.last = rec.last
    <3>1. rec \in Reconciler
      BY DEF Inv, TypeOK
    <3>2. CASE FetchAdvised
      <4>1. Fetching /\ UNCHANGED historicalCh /\ RecStep
        BY <3>2 DEF FetchAdvised
      <4>2. \E end \in Nat : rec' = [rec EXCEPT !.end = end]
        BY <3>1, <3>2, <4>1, FetchRange, AdvisedIsPrefix
      <4> QED
        BY <3>1, <4>1, <4>2 DEF RecStep, arguments, Reconciler
    <3> QED
      BY <1>1, <3>1, <3>2 DEF FetchTooWide, FetchFails, ReconcilerEnds, RecStep, arguments, Reconciler
  <2>2. /\ Wanted' = Wanted /\ Old' = Old /\ New' = New /\ Queue' = Queue /\ Latest' = Latest
    BY <2>1, SameWanted DEF Old, New, Queue, Latest
  <2>3. header # 0 /\ ~rec'.on /\ ~cancelled => header <= rec'.start
    <3>1. CASE ReconcilerEnds
      BY <2>1, <3>1 DEF ReconcilerEnds, Inv, Ranges
    <3>2. CASE FetchTooWide \/ FetchAdvised \/ FetchFails
      BY <3>2 DEF FetchTooWide, FetchAdvised, FetchFails, Fetching, Inv, TypeOK, Reconciler
    <3> QED
      BY <1>1, <3>1, <3>2
  <2>4. SortedIn(handled \o Queue, Old)' /\ SortedIn(handled \o currentCh, New)'
    BY <2>1, <2>2 DEF SortedIn, Reconciled
  <2> QED
    BY <2>1, <2>2, <2>3, <2>4 DEF Reconciled
<1>2. CASE SendHistorical
  <2>1. /\ UNCHANGED <<watch, lastIndex, cancelled, blocks, header, currentCh, handled>>
        /\ rec'.logs = Tail(rec.logs) /\ rec'.start = rec.start /\ rec'.last = rec.last /\ rec'.on = rec.on
        /\ historicalCh' = Append(historicalCh, Head(rec.logs)) /\ rec.logs # <<>>
    BY <1>2 DEF SendHistorical, RecStep, arguments, Inv, TypeOK, Reconciler
  <2>2. Queue' = Queue
    BY <2>1, QueueType, Receive DEF Queue, Inv
  <2>3. /\ Wanted' = Wanted /\ Old' = Old /\ New' = New /\ Latest' = Latest
    BY <2>1, SameWanted DEF Old, New, Latest
  <2>4. SortedIn(handled \o Queue, Old)' /\ SortedIn(handled \o currentCh, New)'
    BY <2>1, <2>2, <2>3 DEF SortedIn, Reconciled
  <2> QED
    BY <2>1, <2>2, <2>3, <2>4 DEF Reconciled
<1> QED
  BY <1>1, <1>2, FetchReconciled DEF Reconcile, Progress

\* The logs of a new block follow all others.
LEMMA NewBlockReconciled ==
    ASSUME Inv, NEW topics \in Contents, NewBlock(topics), Reconciled
    PROVE  Reconciled'
<1> DEFINE more == (LogsOf(Latest))'
           old == handled \o currentCh
<1>1. /\ UNCHANGED <<watch, lastIndex, cancelled, header, rec, historicalCh, handled>>
      /\ currentCh' = currentCh \/ currentCh' = currentCh \o more
  BY DEF NewBlock, arguments, Notify
<1>2. /\ Latest' = Latest + 1 /\ Latest \in Nat /\ header \in Nat /\ header <= Latest
      /\ blocks' \in Seq(Contents)
  BY NewBlockNotifies DEF Inv, TypeOK, Ranges, Latest
<1>3. more \in Seq(Log) /\ \A i \in DOMAIN more : more[i].block = Latest + 1 /\ more[i].index = i - 1
  BY <1>2, LogsOfHead
<1>4. Queue' = Queue /\ Old' = Old /\ New' = New /\ (header # 0 => Wanted' = Wanted)
  BY <1>1, WantedOfOldBlocks DEF Queue, Old, New
<1>5. handled \in Seq(Log) /\ currentCh \in Seq(Log) /\ old \in Seq(Log)
  BY QueueType, ConcatElements DEF Inv
<1>6. \A i, j \in DOMAIN more : i < j => <<more[i], more[j]>> \in Before
  <2>1. \A i \in DOMAIN more : more[i] \in Log
    BY <1>3
  <2>2. \A i, j \in DOMAIN more : i < j => more[i].block = more[j].block /\ more[i].index < more[j].index
    <3>1. DOMAIN more \in SUBSET Nat
      BY <1>3
    <3> HIDE DEF more
    <3> QED
      BY <1>3, <3>1
  <2> HIDE DEF more
  <2> QED
    BY <2>1, <2>2 DEF Before
<1>7. ToSet(old) = ToSet(handled) \union ToSet(currentCh)
  BY <1>5, ConcatSet
<1> HIDE DEF more
<1>8. \A l \in ToSet(old) : l \in Log /\ l.block \in Nat /\ l.block <= Latest
  <2>1. \A l \in ToSet(currentCh) : l.block <= Latest
    BY DEF Inv, Ascending, ToSet
  <2> QED
    BY <1>5, <1>7, <2>1, SetOfLogs, LogType DEF Reconciled
<1>9. \A l \in ToSet(more) : l \in Log /\ l.block = Latest + 1
  BY <1>3 DEF ToSet
<1>10. \A l \in ToSet(more) : l \in New
  BY <1>2, <1>9, OldAndNew DEF Inv
<1>11. ASSUME currentCh' = currentCh \o more
       PROVE  SortedIn(handled \o currentCh', New) /\ ToSet(currentCh') = ToSet(currentCh) \union ToSet(more)
  <2>1. handled \o currentCh' = old \o more
    BY <1>3, <1>5, <1>11, ConcatLogs
  <2>2. SortedIn(old, New)
    BY DEF Reconciled
  <2> HIDE DEF old
  <2>3. ASSUME NEW i \in DOMAIN old, NEW j \in DOMAIN more
        PROVE  <<old[i], more[j]>> \in Before
    <3>1. old[i] \in ToSet(old) /\ more[j] \in ToSet(more)
      BY DEF ToSet
    <3>2. old[i] \in Log /\ more[j] \in Log /\ old[i].block < more[j].block
      BY <1>2, <1>8, <1>9, <3>1
    <3> QED
      BY <3>2 DEF Before
  <2>4. SortedIn(old \o more, New)
    BY <1>3, <1>5, <1>6, <2>2, <2>3, SortedExtend
  <2>5. ToSet(currentCh \o more) = ToSet(currentCh) \union ToSet(more)
    BY <1>3, <1>5, ConcatSet
  <2> QED
    BY <1>11, <2>1, <2>4, <2>5
<1>12. \A l \in ToSet(currentCh') : l \in New
  BY <1>1, <1>10, <1>11 DEF Reconciled
<1>13. SortedIn(handled \o currentCh', New)
  BY <1>1, <1>11 DEF Reconciled
<1>14. SortedIn(handled \o Queue, Old)' /\ SortedIn(handled \o currentCh, New)'
  BY <1>1, <1>4, <1>13 DEF SortedIn, Reconciled
<1>15. \A l \in ToSet(handled) : l.block <= Latest'
  <2>1. \A l \in ToSet(handled) : l \in Log /\ l.block \in Nat /\ l.block <= Latest
    BY <1>7, <1>8
  <2> QED
    BY <1>2, <2>1
<1> QED
  BY <1>1, <1>4, <1>12, <1>14, <1>15 DEF Reconciled

LEMMA StepReconciled ==
    ASSUME Inv, [Next]_vars, reorgs' = 0
    PROVE  Reconciled'
<1>1. CASE Replace
  BY <1>1 DEF Replace, Reorg, Inv, TypeOK
<1>2. reorgs = 0 \/ Replace
  <2>1. CASE Extend
    BY <2>1 DEF Extend, NewBlock
  <2>2. CASE Quietly
    BY <2>2, QuietlyLeaves
  <2>3. CASE Begin \/ Select
    BY <2>3 DEF Begin, SkipHistory, StartReconciler, Select, SelectHistorical, SelectCurrent
  <2>4. CASE Reconcile
    BY <2>4 DEF Reconcile, Progress, FetchSucceeds, FetchTooWide, FetchAdvised, FetchFails,
                SendHistorical, ReconcilerEnds, RecStep
  <2> QED
    BY <2>1, <2>2, <2>3, <2>4, NextSteps DEF Quietly
<1>3. CASE reorgs = 0
  <2>1. Reconciled
    BY <1>3 DEF Inv
  <2> QED
    BY <1>1, <1>3, <2>1, NextSteps, QuietlyReconciled, BeginReconciled, SelectHistoricalReconciled,
       SelectCurrentReconciled, ReconcileReconciled, NewBlockReconciled DEF Quietly, Select, Extend
<1> QED
  BY <1>1, <1>2, <1>3

-----------------------------------------------------------------------------
(***************************************************************************)
(* The invariant, and what follows from it.                                *)
(***************************************************************************)
LEMMA InitInv == ASSUME Init PROVE Inv
<1>1. blocks \in Seq(Contents) /\ Latest = FirstBlocks /\ FirstBlocks \in Nat
  BY ListenerAssumption DEF Init, Latest
<1>2. <<>> \in Seq(Log) /\ Len(<<>>) = 0 /\ NoReconciler \in Reconciler
  BY DEF NoReconciler, Reconciler
<1>3. watch \in Watch
  BY ListenerAssumption DEF Init
<1>4. fromBlock \in Nat /\ lastIndex \in Nat /\ fromBlock <= Latest
  <2>1. CASE fromBlock = 0 /\ lastIndex = 0
    BY <1>1, <2>1
  <2>2. ASSUME NEW l \in FilterLogs(1, FirstBlocks), fromBlock = l.block, lastIndex = l.index
        PROVE  fromBlock \in Nat /\ lastIndex \in Nat /\ fromBlock <= Latest
    <3>1. PICK b \in 1 .. FirstBlocks : l \in ToSet(LogsOf(b))
      BY DEF FilterLogs, LogsIn
    <3>2. PICK i \in DOMAIN blocks[b] : l = LogsOf(b)[i]
      BY <3>1 DEF ToSet, LogsOf
    <3>3. blocks[b] \in Seq(Events) /\ b \in Nat /\ b <= FirstBlocks
      BY <1>1, ListenerAssumption DEF Init
    <3>4. i \in Nat \ {0} /\ l.block = b /\ l.index = i - 1
      BY <3>2, <3>3 DEF LogsOf
    <3> QED
      BY <1>1, <2>2, <3>3, <3>4
  <2> QED
    BY <2>1, <2>2 DEF Init
<1>5. TypeOK
  <2>1. cancelled \in BOOLEAN /\ pc = "watch" /\ rec \in Reconciler
    BY <1>2 DEF Init
  <2>3. historicalCh \in Seq(Log) /\ Len(historicalCh) <= 1 /\ currentCh \in Seq(Log) /\ handled \in Seq(Log)
    BY <1>2 DEF Init
  <2>2. /\ {fromBlock, lastIndex, lastBlock, backOffCount, header, drops, reorgs} \subseteq Nat
        /\ replaced \subseteq Nat
    BY <1>4 DEF Init
  <2> QED
    BY <1>1, <1>3, <2>1, <2>2, <2>3 DEF TypeOK
<1>6. Ascending /\ Ranges /\ Bound
  BY <1>1, <1>4 DEF Init, Ascending, Ranges, Bound, NoReconciler
<1>7. Reconciled
  <2>1. /\ historicalCh = <<>> /\ currentCh = <<>> /\ handled = <<>> /\ rec.logs = <<>>
        /\ header = 0
    BY DEF Init, NoReconciler
  <2>2. Queue = <<>> /\ handled \o Queue = <<>> /\ handled \o currentCh = <<>>
    BY <2>1 DEF Queue
  <2> QED
    BY <2>1, <2>2 DEF Reconciled, SortedIn, ToSet
<1> QED
  BY <1>5, <1>6, <1>7 DEF Inv

LEMMA StepInv == ASSUME Inv, [Next]_vars PROVE Inv'
BY StepType, StepAscending, StepRanges, StepBound, StepReconciled DEF Inv

\* What a listener does keeps the invariant, whatever the chain and the node do.
THEOREM Invariance == Spec => []Inv
BY InitInv, StepInv, PTL DEF Spec

\* TypeOK.
THEOREM TypeCorrect == Spec => []TypeOK
<1>1. Inv => TypeOK
  BY DEF Inv
<1> QED
  BY <1>1, Invariance, PTL

\* HandledOnce: as long as no block is replaced, a connection hands no log twice to the
\* handler.  A log is of one of the two sources, and each is in order.
THEOREM NoLogIsHandledTwice == Spec => []HandledOnce
<1>1. ASSUME Inv PROVE HandledOnce
  <2> SUFFICES ASSUME reorgs = 0, NEW i \in DOMAIN handled, NEW j \in DOMAIN handled, i < j,
                      handled[i] = handled[j]
               PROVE  FALSE
    <3>1. DOMAIN handled \in SUBSET Nat
      BY <1>1, QueueType DEF Inv
    <3> QED
      BY <3>1 DEF HandledOnce
  <2>1. Reconciled /\ handled \in Seq(Log) /\ Queue \in Seq(Log) /\ currentCh \in Seq(Log)
    BY <1>1, QueueType DEF Inv
  <2> DEFINE l == handled[i]
  <2>2. l \in Log
    BY <2>1
  <2>3. <<l, l>> \notin Before
    BY <2>2, LogType DEF Before
  <2>4. ASSUME NEW t \in Seq(Log), NEW K, SortedIn(handled \o t, K), l \in K
        PROVE  FALSE
    <3>1. /\ i \in DOMAIN (handled \o t) /\ j \in DOMAIN (handled \o t)
          /\ (handled \o t)[i] = l /\ (handled \o t)[j] = l
      BY <2>1
    <3> QED
      BY <2>3, <2>4, <3>1 DEF SortedIn
  <2>5. l \in Old \/ l \in New
    BY <1>1, <2>2, OldAndNew DEF Inv
  <2> HIDE DEF l
  <2> QED
    BY <2>1, <2>4, <2>5 DEF Reconciled
<1> QED
  BY <1>1, Invariance, PTL

\* ReconcileExact: as long as no block is replaced, reconciliation yields the logs after the
\* cursor, in the order of the chain, each once and without a gap, and when it ends at most
\* logs of the head block are missing.
THEOREM ReconciliationIsExact == Spec => []ReconcileExact
<1>1. ASSUME Inv PROVE ReconcileExact
  <2> SUFFICES ASSUME header # 0, reorgs = 0
               PROVE  /\ \A i, j \in Historical : i < j => <<Received[i], Received[j]>> \in Before
                      /\ \A i \in Historical :
                            /\ Received[i] \in Wanted
                            /\ \A l \in Wanted : <<l, Received[i]>> \in Before => l \in ToSet(Received)
                      /\ ~rec.on /\ ~cancelled =>
                            \A l \in Wanted : l.block < header => l \in ToSet(Received)
    BY DEF ReconcileExact
  <2>1. /\ handled \in Seq(Log) /\ historicalCh \in Seq(Log) /\ rec.logs \in Seq(Log)
        /\ Queue \in Seq(Log) /\ Reconciled
    BY <1>1, QueueType DEF Inv
  <2>2. Received = handled \o Queue /\ Received \in Seq(Log)
    <3>1. (handled \o historicalCh) \o rec.logs = handled \o (historicalCh \o rec.logs)
      BY <2>1, ConcatLogs
    <3>2. handled \o Queue \in Seq(Log)
      BY <2>1
    <3> QED
      BY <3>1, <3>2 DEF Received, Queue
  <2>3. \A i \in DOMAIN Received : Received[i] \in Log /\ Received[i] \in ToSet(Received)
    BY <2>2 DEF ToSet
  <2>4. \A i \in Historical : i \in DOMAIN Received /\ Received[i] \in Old
    BY <1>1, <2>3, OldAndNew DEF Historical, Inv
  <2>5. SortedIn(Received, Old)
    BY <2>1, <2>2 DEF Reconciled
  <2>6. {l \in ToSet(Received) : l \in Old} = {l \in Wanted : l.block < rec.start}
    BY <2>1, <2>2 DEF Reconciled
  <2>7. \A i, j \in Historical : i < j => <<Received[i], Received[j]>> \in Before
    BY <2>4, <2>5 DEF SortedIn
  <2>8. \A l \in Wanted : l \in Log /\ l.block \in Nat
    BY <1>1, WantedLogs, LogType
  <2>9. header \in Nat /\ rec.start \in Nat
    BY <1>1, HeaderRange
  <2>10. ASSUME NEW i \in Historical
         PROVE  /\ Received[i] \in Wanted
                /\ \A l \in Wanted : <<l, Received[i]>> \in Before => l \in ToSet(Received)
    <3>1. Received[i] \in Wanted /\ Received[i].block < rec.start
      BY <2>3, <2>4, <2>6
    <3>2. ASSUME NEW l \in Wanted, <<l, Received[i]>> \in Before
          PROVE  l.block < rec.start
      <4>1. l.block <= Received[i].block /\ Received[i].block \in Nat
        BY <2>8, <3>1, <3>2 DEF Before
      <4> QED
        BY <2>8, <2>9, <3>1, <4>1
    <3> QED
      BY <2>6, <3>1, <3>2
  <2>11. ~rec.on /\ ~cancelled => \A l \in Wanted : l.block < header => l \in ToSet(Received)
    <3> SUFFICES ASSUME ~rec.on, ~cancelled, NEW l \in Wanted, l.block < header
                 PROVE  l \in ToSet(Received)
      OBVIOUS
    <3>1. header <= rec.start
      BY <2>1 DEF Reconciled
    <3>2. l.block < rec.start
      BY <2>8, <2>9, <3>1
    <3> QED
      BY <2>6, <3>2
  <2> QED
    BY <2>7, <2>10, <2>11
<1> QED
  BY <1>1, Invariance, PTL

\* RetreatsToReplaced: whatever happens, the block a reconnection starts from goes back only
\* to one that was replaced, as it does when a reorganization goes below it.
THEOREM LastBlockRetreatsToReplaced == Spec => RetreatsToReplaced
<1>1. ASSUME Inv, [Next]_vars PROVE [lastBlock' >= lastBlock \/ lastBlock' \in replaced]_vars
  <2>0. lastBlock \in Nat
    BY <1>1 DEF Inv, TypeOK
  <2>1. CASE SelectCurrent
    <3>1. currentCh # <<>> /\ currentCh \in Seq(Log) /\ lastBlock' = Head(currentCh).block
      BY <1>1, <2>1 DEF SelectCurrent, Inv, TypeOK
    <3>2. 1 \in DOMAIN currentCh /\ Head(currentCh) = currentCh[1]
      BY <3>1
    <3>3. Follows(lastBlock, Head(currentCh).block) /\ Head(currentCh).block \in Nat
      BY <1>1, <3>1, <3>2, LogType DEF Inv, Ascending
    <3> QED
      BY <2>0, <3>1, <3>3 DEF Follows
  <2>2. CASE ~SelectCurrent
    <3>1. lastBlock' = lastBlock
      BY <1>1, <2>2 DEF Next, vars, Reconcile, Progress, FetchSucceeds, FetchTooWide, FetchAdvised, FetchFails,
         SendHistorical, ReconcilerEnds, RecStep, NewBlock, Reorg, Cancel, WatchEvent, Return,
         SkipHistory, StartReconciler, ConnectFails, Subscribe, SelectHistorical, SelectError, Sent
    <3> QED
      BY <2>0, <3>1
  <2> QED
    BY <2>1, <2>2
<1> QED
  BY <1>1, Invariance, PTL DEF Spec, RetreatsToReplaced

-----------------------------------------------------------------------------
(***************************************************************************)
(* A Watch method is an EventListener.                                     *)
(***************************************************************************)
Unseen == UNCHANGED <<watch, cancelled, pc>>

LEMMA InnerSteps ==
    ASSUME UNCHANGED vars \/ Reconcile \/ Extend \/ Replace
    PROVE  Unseen
BY DEF Unseen, vars, Extend, Replace, Reconcile, Progress, FetchSucceeds, FetchTooWide, FetchAdvised, FetchFails,
       SendHistorical, ReconcilerEnds, RecStep, NewBlock, Reorg, arguments

LEMMA ContractStep ==
    ASSUME Inv, [Next]_vars
    PROVE  [Contract!Watch \/ Contract!Cancel]_(Contract!vars)
<1> USE DEF Contract!vars
<1>1. CASE UNCHANGED vars \/ Reconcile \/ Extend \/ Replace
  BY <1>1, InnerSteps DEF Unseen, Filterer
<1>2. CASE Cancel
  <2>1. pc' = pc /\ watch' = watch /\ cancelled' = TRUE /\ cancelled = FALSE
    BY <1>2 DEF Cancel, arguments, Inv, TypeOK
  <2> QED
    BY <2>1 DEF Contract!Cancel, Filterer
<1>3. CASE WatchEvent
  <2>1. /\ watch' = watch /\ cancelled' = cancelled /\ pc = "watch"
        /\ pc' = IF Filterer \in watch.bound THEN "connect" ELSE "returned"
    BY <1>3 DEF WatchEvent, arguments
  <2> QED
    BY <2>1 DEF Contract!Watch, Contract!Return, Filterer
<1>4. CASE SkipHistory \/ StartReconciler
  <2>1. watch' = watch /\ cancelled' = cancelled /\ pc = "connect" /\ pc' = "subscribe"
    BY <1>4 DEF SkipHistory, StartReconciler, arguments
  <2> QED
    BY <2>1 DEF Filterer
<1>5. ASSUME pc \notin {"watch", "returned"}, watch' = watch, cancelled' = cancelled,
             \/ Return \/ ConnectFails \/ Subscribe \/ SelectHistorical \/ SelectCurrent
             \/ SelectError \/ Sent
      PROVE  [Contract!Watch]_(Contract!vars)
  <2>1. Filterer \in watch.bound /\ Filterer' = Filterer /\ cancelled \in BOOLEAN
    BY <1>5 DEF Inv, Bound, Filterer, TypeOK
  <2>2. CASE Return
    <3>1. cancelled /\ pc' = "returned" /\ pc \in {"connect", "subscribe", "select"}
      BY <2>2 DEF Return, Interruptible, WaitForBackOffTimeout
    <3> QED
      BY <1>5, <2>1, <3>1 DEF Contract!Watch, Contract!Return
  <2>3. CASE ConnectFails
    <3>1. pc \in {"subscribe", "connect"} /\ pc' = IF cancelled THEN "returned" ELSE "connect"
      BY <2>3 DEF ConnectFails, Loop
    <3> QED
      BY <1>5, <2>1, <3>1 DEF Contract!Watch, Contract!Return
  <2>4. CASE Subscribe
    BY <1>5, <2>1, <2>4 DEF Subscribe, Contract!Watch, Contract!Connect
  <2>5. CASE SelectHistorical \/ SelectCurrent
    <3>1. pc = "select" /\ (pc' = "sending" \/ pc' = IF cancelled THEN "returned" ELSE "select")
      BY <2>5 DEF SelectHistorical, SelectCurrent, Handle, Loop
    <3> QED
      BY <1>5, <2>1, <3>1 DEF Contract!Watch, Contract!Return, Contract!Offer
  <2>6. CASE SelectError
    <3>1. pc = "select" /\ pc' = IF cancelled THEN "returned" ELSE "connect"
      BY <2>6 DEF SelectError, Loop
    <3> QED
      BY <1>5, <2>1, <3>1 DEF Contract!Watch, Contract!Disconnect, Contract!Loop
  <2>7. CASE Sent
    <3>1. pc = "sending" /\ pc' = IF cancelled THEN "returned" ELSE "select"
      BY <2>7 DEF Sent, Loop
    <3> QED
      BY <1>5, <2>1, <3>1 DEF Contract!Watch, Contract!Sent, Contract!Loop
  <2> QED
    BY <1>5, <2>2, <2>3, <2>4, <2>5, <2>6, <2>7
<1>6. Return \/ ConnectFails \/ Subscribe \/ SelectHistorical \/ SelectCurrent \/ SelectError \/ Sent =>
         pc \notin {"watch", "returned"} /\ watch' = watch /\ cancelled' = cancelled
  BY DEF Return, Interruptible, ConnectFails, Subscribe, SelectHistorical, SelectCurrent, SelectError,
         Sent, arguments
<1> QED
  BY <1>1, <1>2, <1>3, <1>4, <1>5, <1>6, NextSteps DEF Quietly, Begin, Select

\* The steps of ImplementsEventListener: a Watch method returns only when ctx is cancelled or
\* it has no contract to watch, never over its reader's head, and not for any number of
\* failures.  That a cancelled one does return is checked on the runs.
THEOREM WatchesAsPromised == Spec => Contract!Spec
<1>1. Init => Contract!Init
  BY DEF Init, Contract!Init
<1>2. Inv /\ [Next]_vars => [Contract!Watch \/ Contract!Cancel]_(Contract!vars)
  BY ContractStep
<1> QED
  BY <1>1, <1>2, Invariance, PTL DEF Spec, Contract!Spec
=============================================================================
