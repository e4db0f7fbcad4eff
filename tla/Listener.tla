------------------------------ MODULE Listener ------------------------------
(***************************************************************************)
(* listener.go: listenEvents keeps a subscription to the contract's logs,  *)
(* and each time it connects it starts a goroutine, reconcileBlockRange,   *)
(* that fetches the logs since lastBlock.  Both feed one select loop.  The *)
(* three Watch methods run it for one event each, whose handler sends to   *)
(* an unbuffered sink.                                                     *)
(*                                                                         *)
(* A reconciler of an earlier connection writes to a channel nobody reads  *)
(* any more, so only the one of the current connection is kept.            *)
(***************************************************************************)
EXTENDS Integers, Sequences, SequencesExt, Ordering

CONSTANTS
    BlockStep,      \* const blockStep
    ProviderRange,  \* how many blocks the node accepts in one eth_getLogs
    maxBackOffCount,
    Watches,        \* which Watch method runs, and what NewListener was given
    Contents,       \* the log topics a block may hold, in order
    FirstBlocks,    \* how many blocks there are when the listener starts
    Faults,         \* which faults may happen, of the set below
    MaxBlocks, MaxFailures, MaxDisturbances, MaxDepth   \* bounds; of a reorganization

FaultKinds == {"fail", "advise", "drop", "cancel", "reorg"}

Events == {"WithdrawStarted", "WithdrawFinalized", "Deposited"}

\* A Watch method of a listener; the service gives it no IDeposit.
Watch == [event : Events, bound : {{"IWithdraw"}, {"IWithdraw", "IDeposit"}}]

ASSUME ListenerAssumption ==
    /\ maxBackOffCount \in Nat
    /\ Watches \subseteq Watch
    /\ BlockStep \in Nat \ {0}
    /\ ProviderRange \in Nat \ {0}
    /\ \A c \in Contents : c \in Seq(Events)
    /\ Faults \subseteq FaultKinds
    /\ {FirstBlocks, MaxBlocks, MaxFailures, MaxDisturbances, MaxDepth} \subseteq Nat

VARIABLES
    watch,
    cancelled,      \* ctx
    blocks,         \* blocks[b]: the topics of the contract's logs in block b
    pc,             \* "watch", and of listenEvents the others
    fromBlock, lastIndex,   \* arguments that never change
    lastBlock,
    backOffCount,
    header,         \* history: the head block of the last reconciliation
    rec,            \* the reconciler of this connection
    historicalCh, currentCh,
    handled,        \* history: what this connection gave to the handler, until a reorganization
    drops, reorgs,  \* history: connections lost, reorganizations
    replaced        \* history: the numbers of the blocks they replaced

arguments == <<watch, fromBlock, lastIndex>>
channels == <<historicalCh, currentCh>>
vars == <<arguments, cancelled, blocks, pc, lastBlock, backOffCount, header, rec,
          channels, handled, drops, reorgs, replaced>>

Log == [block : Nat, index : Nat, topic : Events, removed : BOOLEAN]

Reconciler ==
    [on : BOOLEAN, current : Nat, last : Nat, start : Nat, end : Nat, logs : Seq(Log)]

NoReconciler ==
    [on |-> FALSE, current |-> 0, last |-> 0, start |-> 0, end |-> 0, logs |-> <<>>]

Latest == Len(blocks)

LogsOf(b) ==
    [i \in DOMAIN blocks[b] |->
        [block |-> b, index |-> i - 1, topic |-> blocks[b][i], removed |-> FALSE]]

LogsIn(first, end) == UNION {ToSet(LogsOf(b)) : b \in first .. end}

\* FilterLogs with the topic of the watched event.
FilterLogs(first, end) == {l \in LogsIn(first, end) : l.topic = watch.event}

Before ==
    {p \in Log \X Log : \/ p[1].block < p[2].block
                        \/ p[1].block = p[2].block /\ p[1].index < p[2].index}

\* The order in which the node returns them.
InChainOrder(logs) == Ordered(logs, Before)

TypeOK ==
    /\ watch \in Watch
    /\ cancelled \in BOOLEAN
    /\ blocks \in Seq(Contents)
    /\ pc \in {"watch", "connect", "subscribe", "select", "sending", "returned"}
    /\ {fromBlock, lastIndex, lastBlock, backOffCount, header, drops, reorgs} \subseteq Nat
    /\ replaced \subseteq Nat
    /\ rec \in Reconciler
    /\ historicalCh \in Seq(Log) /\ Len(historicalCh) <= 1
    /\ currentCh \in Seq(Log)
    /\ handled \in Seq(Log)

\* The cursor is a log of the watched event, or there is none.
Init ==
    /\ watch \in Watches
    /\ cancelled = FALSE
    /\ blocks \in [1 .. FirstBlocks -> Contents]
    /\ pc = "watch"
    /\ \/ fromBlock = 0 /\ lastIndex = 0
       \/ \E l \in FilterLogs(1, FirstBlocks) :
             fromBlock = l.block /\ lastIndex = l.index
    /\ lastBlock = fromBlock
    /\ backOffCount = 0 /\ header = 0
    /\ rec = NoReconciler
    /\ historicalCh = <<>> /\ currentCh = <<>>
    /\ handled = <<>>
    /\ drops = 0 /\ reorgs = 0 /\ replaced = {}

-----------------------------------------------------------------------------
(***************************************************************************)
(* The chain.  A subscription has no topics, so it carries every log.      *)
(***************************************************************************)
Subscribed == pc \in {"select", "sending"}

Notify(logs) == currentCh' = IF Subscribed THEN currentCh \o logs ELSE currentCh

NewBlock(topics) ==
    /\ Latest < MaxBlocks
    /\ blocks' = Append(blocks, topics)
    /\ Notify(LogsOf(Latest)')
    /\ UNCHANGED <<arguments, cancelled, pc, lastBlock, backOffCount, header, rec,
                   historicalCh, handled, drops, reorgs, replaced>>

\* The blocks of a branch replace as many at the end of the chain.  The logs of those
\* come again, marked as removed, a mark the handler does not look at, and then the
\* logs of the branch.
Reorg(branch) ==
    LET first == Latest - Len(branch) + 1
        dropped == {[l EXCEPT !.removed = TRUE] : l \in LogsIn(first, Latest)}
    IN  /\ "reorg" \in Faults /\ drops + reorgs < MaxDisturbances
        /\ Len(branch) <= MaxDepth
        /\ blocks' = SubSeq(blocks, 1, first - 1) \o branch
        /\ Notify(InChainOrder(dropped) \o InChainOrder(LogsIn(first, Latest)'))
        /\ reorgs' = reorgs + 1
        /\ replaced' = replaced \union first .. Latest
        /\ handled' = <<>>
        /\ UNCHANGED <<arguments, cancelled, pc, lastBlock, backOffCount, header, rec,
                       historicalCh, drops>>

Cancel ==
    /\ "cancel" \in Faults
    /\ ~cancelled
    /\ cancelled' = TRUE
    /\ UNCHANGED <<arguments, blocks, pc, lastBlock, backOffCount, header, rec, channels,
                   handled, drops, reorgs, replaced>>

-----------------------------------------------------------------------------
(***************************************************************************)
(* Starting, connecting and returning.                                     *)
(***************************************************************************)
Filterer == IF watch.event = "Deposited" THEN "IDeposit" ELSE "IWithdraw"

\* Without a filterer for its event the method returns at once.
WatchEvent ==
    /\ pc = "watch"
    /\ pc' = IF Filterer \in watch.bound THEN "connect" ELSE "returned"
    /\ UNCHANGED <<arguments, cancelled, blocks, lastBlock, backOffCount, header, rec,
                   channels, handled, drops, reorgs, replaced>>

ExitsOverLimit(count) == count <= maxBackOffCount   \* mutant

\* Only a cancelled ctx ends the wait.  Over the limit there is none: the code
\* logs that it exits, and returns true.
WaitForBackOffTimeout(count) == count \in 1 .. maxBackOffCount => ~cancelled

OnlyWhenConnecting == {"connect", "subscribe"}   \* mutant

Interruptible == {"connect", "subscribe", "select"}

\* At the head of its loop, while it waits or calls the node, and in its select,
\* listenEvents returns when ctx is cancelled.
Return ==
    /\ \/ pc \in Interruptible /\ cancelled
       \/ pc = "connect" /\ ~WaitForBackOffTimeout(backOffCount)
    /\ pc' = "returned"
    /\ UNCHANGED <<arguments, cancelled, blocks, lastBlock, backOffCount, header, rec,
                   channels, handled, drops, reorgs, replaced>>

IgnoresCtx(next) == pc' = next      \* mutant

\* Back at the head of the loop.
Loop(next) == pc' = IF cancelled THEN "returned" ELSE next

FreshChannels == historicalCh' = <<>> /\ currentCh' = <<>> /\ handled' = <<>>

SkipHistory ==
    /\ pc = "connect" /\ lastBlock = 0
    /\ pc' = "subscribe"
    /\ rec' = NoReconciler /\ header' = 0
    /\ FreshChannels
    /\ UNCHANGED <<arguments, cancelled, blocks, lastBlock, backOffCount, drops, reorgs,
                   replaced>>

\* HeaderByNumber, and go reconcileBlockRange.
StartReconciler ==
    /\ pc = "connect" /\ lastBlock # 0
    /\ pc' = "subscribe"
    /\ header' = Latest
    /\ rec' = [on |-> TRUE, current |-> Latest, last |-> lastBlock, start |-> lastBlock,
               end |-> lastBlock + BlockStep, logs |-> <<>>]
    /\ FreshChannels
    /\ UNCHANGED <<arguments, cancelled, blocks, lastBlock, backOffCount, drops, reorgs,
                   replaced>>

ConnectFails ==
    /\ "fail" \in Faults /\ backOffCount < MaxFailures
    /\ pc = "subscribe" \/ (pc = "connect" /\ lastBlock # 0)
    /\ Loop("connect")
    /\ backOffCount' = backOffCount + 1
    /\ UNCHANGED <<arguments, cancelled, blocks, lastBlock, header, rec, channels, handled,
                   drops, reorgs, replaced>>

\* SubscribeFilterLogs; backOffCount starts over.
Subscribe ==
    /\ pc = "subscribe"
    /\ pc' = "select"
    /\ backOffCount' = 0
    /\ UNCHANGED <<arguments, cancelled, blocks, lastBlock, header, rec, channels, handled,
                   drops, reorgs, replaced>>

-----------------------------------------------------------------------------
(***************************************************************************)
(* The select loop.                                                        *)
(***************************************************************************)
\* The handler drops a log that does not parse as the watched event.
Handle(log) ==
    /\ handled' = IF reorgs = 0 THEN Append(handled, log) ELSE <<>>
    /\ IF log.topic = watch.event THEN pc' = "sending" ELSE Loop("select")

\* The reader of the sink takes the event.
Sent ==
    /\ pc = "sending"
    /\ Loop("select")
    /\ UNCHANGED <<arguments, cancelled, blocks, lastBlock, backOffCount, header, rec,
                   channels, handled, drops, reorgs, replaced>>

SelectHistoricalMovesLast ==  \* mutant
    /\ pc = "select" /\ historicalCh # <<>>
    /\ Handle(Head(historicalCh))
    /\ lastBlock' = Head(historicalCh).block
    /\ historicalCh' = Tail(historicalCh)
    /\ UNCHANGED <<arguments, cancelled, blocks, backOffCount, header, rec, currentCh,
                   drops, reorgs, replaced>>

SelectHistorical ==
    /\ pc = "select" /\ historicalCh # <<>>
    /\ Handle(Head(historicalCh))
    /\ historicalCh' = Tail(historicalCh)
    /\ UNCHANGED <<arguments, cancelled, blocks, lastBlock, backOffCount, header, rec,
                   currentCh, drops, reorgs, replaced>>

SelectCurrent ==
    /\ pc = "select" /\ currentCh # <<>>
    /\ Handle(Head(currentCh))
    /\ lastBlock' = Head(currentCh).block
    /\ currentCh' = Tail(currentCh)
    /\ UNCHANGED <<arguments, cancelled, blocks, backOffCount, header, rec, historicalCh,
                   drops, reorgs, replaced>>

SelectError ==
    /\ "drop" \in Faults /\ drops + reorgs < MaxDisturbances
    /\ pc = "select"
    /\ Loop("connect")
    /\ drops' = drops + 1
    /\ UNCHANGED <<arguments, cancelled, blocks, lastBlock, backOffCount, header, rec,
                   channels, handled, reorgs, replaced>>

-----------------------------------------------------------------------------
(***************************************************************************)
(* reconcileBlockRange: one fetch per turn of its loop, then a blocking    *)
(* send of each log.  historicalCh has room for one.                       *)
(***************************************************************************)
RecStep ==
    UNCHANGED <<arguments, cancelled, blocks, pc, lastBlock, backOffCount, header,
                currentCh, handled, drops, reorgs, replaced>>

Fetching == rec.on /\ rec.logs = <<>> /\ rec.current > rec.start
ClampedEnd == IF rec.end > rec.current THEN rec.current ELSE rec.end

KnownBefore(log, last) == log.block = last /\ log.index < lastIndex  \* mutant

Known(log, last) == log.block = last /\ log.index <= lastIndex
Unknown(logs, last) == {l \in logs : ~Known(l, last)}

LastFetched == ClampedEnd   \* mutant
StartAgain == rec.start     \* mutant

NextStart == ClampedEnd + 1

FetchSucceeds ==
    /\ Fetching
    /\ ClampedEnd - rec.start < ProviderRange
    /\ rec' = [rec EXCEPT
          !.logs = InChainOrder(Unknown(FilterLogs(rec.start, ClampedEnd), rec.last)),
          !.start = NextStart,
          !.end = ClampedEnd + BlockStep]
    /\ RecStep /\ UNCHANGED historicalCh

NotHalved == ClampedEnd     \* mutant

\* "Exceeded max range limit": the range is halved, rounding up.
HalvedEnd == ClampedEnd - (ClampedEnd - rec.start) \div 2

FetchTooWide ==
    /\ Fetching
    /\ ClampedEnd - rec.start >= ProviderRange
    /\ rec' = [rec EXCEPT !.end = HalvedEnd]
    /\ RecStep /\ UNCHANGED historicalCh

\* The node advises a shorter range, with the start of the one it was asked for.
AdvisedRanges == {rec.start} \X (rec.start .. ClampedEnd - 1)

\* "query returned more than 10000 results": the range the message names is next.
FetchAdvised ==
    /\ "advise" \in Faults
    /\ Fetching
    /\ \E range \in AdvisedRanges :
          rec' = [rec EXCEPT !.start = range[1], !.end = range[2]]
    /\ RecStep /\ UNCHANGED historicalCh

\* Any other error is retried with the range it failed for.
FetchFails ==
    /\ "fail" \in Faults
    /\ Fetching
    /\ rec' = [rec EXCEPT !.end = ClampedEnd]
    /\ RecStep /\ UNCHANGED historicalCh

Unbounded == TRUE   \* mutant

Room == historicalCh = <<>>

SendHistorical ==
    /\ rec.on /\ rec.logs # <<>>
    /\ Room
    /\ historicalCh' = Append(historicalCh, Head(rec.logs))
    /\ rec' = [rec EXCEPT !.logs = Tail(@)]
    /\ RecStep

\* It sees a cancelled ctx only between two sends.
ReconcilerEnds ==
    /\ rec.on /\ rec.logs = <<>>
    /\ rec.current <= rec.start \/ cancelled
    /\ rec' = [rec EXCEPT !.on = FALSE]
    /\ RecStep /\ UNCHANGED historicalCh

Progress == FetchSucceeds \/ FetchTooWide \/ SendHistorical \/ ReconcilerEnds
Reconcile == Progress \/ FetchAdvised \/ FetchFails

Next ==
    \/ \E topics \in Contents : NewBlock(topics)
    \/ \E depth \in 1 .. Latest - 1 : \E branch \in [1 .. depth -> Contents] : Reorg(branch)
    \/ Cancel \/ WatchEvent \/ Return
    \/ SkipHistory \/ StartReconciler \/ ConnectFails \/ Subscribe
    \/ SelectHistorical \/ SelectCurrent \/ SelectError \/ Sent
    \/ Reconcile

Spec == Init /\ [][Next]_vars

\* Both goroutines run, a ready channel is selected in the end, the sink is read, and a
\* node that is asked again and again answers.  Nothing makes a fault happen or a block
\* appear.
Fairness ==
    /\ WF_vars(WatchEvent) /\ WF_vars(Return)
    /\ WF_vars(SkipHistory \/ StartReconciler) /\ WF_vars(Subscribe)
    /\ SF_vars(SelectHistorical) /\ SF_vars(SelectCurrent) /\ WF_vars(Sent)
    /\ WF_vars(Progress)

FairSpec == Spec /\ Fairness

-----------------------------------------------------------------------------
Connected == pc = "subscribe" \/ Subscribed

\* What reconciliation is for, and what a connection has received.
After(log) == log.block > rec.last \/ (log.block = rec.last /\ log.index > lastIndex)
Wanted == {l \in FilterLogs(rec.last, header) : After(l)}
Received == handled \o historicalCh \o rec.logs
Historical == {i \in DOMAIN Received : Received[i].block <= header}

\* The reconciler yields the logs after the cursor in chain order, each once and
\* without a gap, however the node limits its ranges; when it ends, at most logs
\* of the head block it was started with are missing.
ReconcileExact ==
    Connected /\ header # 0 /\ reorgs = 0 =>
        /\ \A i, j \in Historical : i < j => <<Received[i], Received[j]>> \in Before
        /\ \A i \in Historical :
              /\ Received[i] \in Wanted
              /\ \A l \in Wanted : <<l, Received[i]>> \in Before => l \in ToSet(Received)
        /\ ~rec.on /\ ~cancelled => \A l \in Wanted : l.block < header => l \in ToSet(Received)

\* Within one connection history and subscription do not overlap, and the
\* handler sees no log twice.
HandledOnce ==
    reorgs = 0 => \A i, j \in DOMAIN handled : handled[i] = handled[j] => i = j

Quiet == pc = "select" /\ ~rec.on /\ historicalCh = <<>> /\ currentCh = <<>>

\* The subscription begins where reconciliation ends: no log between is lost.
SubscriptionMeetsHistory ==
    Quiet /\ header # 0 =>
        \A l \in FilterLogs(header + 1, Latest) : l \in ToSet(handled)

\* lastBlock goes back only to a block that was replaced, when its logs come again after
\* those of a later one.  So a reconnection fetches again what is in one block, or in
\* blocks that were replaced and those after them.
RetreatsToReplaced == [][lastBlock' >= lastBlock \/ lastBlock' \in replaced]_vars

\* Reconciliation ends, unless its connection does: halving a range in the end
\* satisfies the node.
ReconcileEnds == rec.on ~> (~rec.on \/ pc = "returned")

\* What a connection that lasts has received or fetched reaches the handler.
CatchesUp == <>[]Subscribed => <>[]Quiet

\* A Watch method blocks until ctx is cancelled, also after more failures than the
\* back off allows, and returns when it is.  One that has no contract to watch
\* returns at once, as if it had been cancelled before.
Contract == INSTANCE EventListener WITH
    cancelled <- cancelled \/ Filterer \notin watch.bound,
    state <- IF pc \in {"select", "sending", "returned"} THEN pc ELSE "connecting"

ImplementsEventListener == Contract!FairSpec

-----------------------------------------------------------------------------
(***************************************************************************)
(* Positions: the events of the chain in order.                            *)
(***************************************************************************)
Chain == InChainOrder(FilterLogs(1, Latest))

Position(block, index) ==
    Cardinality({l \in FilterLogs(1, Latest) :
                    l.block < block \/ (l.block = block /\ l.index <= index)})

\* The next log that the reconciler has fetched, or else will fetch.
NextHistorical ==
    LET fetched == historicalCh \o rec.logs
    IN  IF fetched # <<>> THEN Position(Head(fetched).block, Head(fetched).index)
        ELSE Cardinality({l \in FilterLogs(1, Latest) :
                             l.block < rec.start \/ Known(l, rec.last)}) + 1

Unread == {i \in DOMAIN currentCh : currentCh[i].topic = watch.event}

Feed == INSTANCE EventFeed WITH
    log <- Chain,
    stopping <- cancelled \/ Filterer \notin watch.bound,
    fromBlock <- Position(fromBlock, lastIndex),
    lastBlock <- IF lastBlock = 0 THEN "none" ELSE IF lastBlock = fromBlock THEN "cursor"
                 ELSE "live",
    history <- IF Connected /\ header # 0 THEN NextHistorical ELSE 0,
    head <- IF Connected /\ header # 0 THEN Cardinality(FilterLogs(1, header)) ELSE 0,
    live <- IF Subscribed THEN Len(Chain) + 1 - Cardinality(Unread) ELSE 0,
    slot <- IF pc = "sending" THEN Position(Last(handled).block, Last(handled).index) ELSE 0,
    returned <- pc = "returned"

\* As long as no block is replaced, the reader of the sink sees what Nitewatch assumes:
\* history and subscription each in order, whatever the ranges and failures; events twice
\* or not at all only where a connection begins; and at most one after an interrupt.
ImplementsFeed == Feed!Init /\ [][reorgs' > 0 \/ Feed!Next]_(Feed!vars)
=============================================================================
