# A TLA+ development of Nitewatch

Nitewatch pays withdrawals out of an on-chain custody contract. NeoDAX calls
`startWithdraw`, the contract emits `WithdrawStarted`, and the Nitewatch daemon
checks the withdrawal against hourly and daily limits and calls
`finalizeWithdraw` or `rejectWithdraw`. This directory models the contract and
the two with several signers that may take its place, and of the daemon the
process, its configuration, the worker, the event listener and the generated
bindings. TLC checks every property on small instances; TLAPS proves every
safety property for all values of the constants.

## Inventory

| Component | State | Operations | Hard behaviour | What makes it correct |
|---|---|---|---|---|
| `contracts/evm/src/SimpleCustody.sol` | `withdrawals`, roles, balances | `deposit`, `startWithdraw`, `finalizeWithdraw`, `rejectWithdraw`, role management | callees that call back, tokens that move less than asked, transfers that fail after storage was changed | one start, then one full payment or one rejection per id; deposits announced are covered |
| `service/service.go` | worker position, `workerReady`, cancelled context | `RunWorkerWithContext`, `processWithdrawal`, `recordEvent` | blocks, time, crashes, interrupts and errors between any two steps | limits hold on the chain; records are true; each withdrawal is decided and settled |
| `internal/checker` | configured limits | `Check`, `Record` | an hour or day ends between check and record; failing store | no period exceeds a limit |
| `internal/store` | `WithdrawalModel`, `WithdrawEventModel`, `BlockCursorModel` | `Save`, totals, `HasWithdrawEvent`, `RecordWithdrawEvent`, `GetCursor` | failing statements, redelivered events, a cursor moved by events out of order | decisions and cursor agree; nothing before the cursor is undecided |
| `custody/listener.go` | `lastBlock`, `lastIndex`, subscription, two channels, a reconciler goroutine | `listenEvents`, `reconcileBlockRange`, `extractAdvisedBlockRange`, `waitForBackOffTimeout` | history and live logs interleave; disconnections; nodes that limit ranges; reorganizations | each log once, in order, none lost |
| `contracts/evm/src/QuorumCustody.sol` | signers, quorum, approvals, requests with expiry | signer changes by signature, approvals, execution, rejection after expiry | signer set changes between start and execution, or inside a payment; signatures that outlive their use | signers, mapping and quorum agree; a signature works once; a quorum of present signers behind each payment |
| `contracts/evm/src/ThresholdCustody.sol` | as above, signers in OpenZeppelin's `MultiSignerERC7913` | as above | as above; the threshold may be lowered | as above |
| `cmd/nitewatch/main.go`, the rest of `service/service.go` | the client, `workerReady`, an errgroup of four goroutines and its context | `New`, `RunWorkerWithContext`, the health server, shutdown | each goroutine waits for another or for a call; the listener is unknown to the group | an interrupt ends the process at any moment; nothing half processed stays; no daemon without a worker |
| `config/config.go`, limit parsing in `service.go` | - | `Load`, `Validate`, `parseLimitsConfig`, `parseUserOverrides` | `Validate` is called by tests only; addresses that differ in case are one map key after parsing; a missing limit is unlimited; variables are expanded in the text of the file, keys included, and a limit that is an unset one is a missing limit | what validates parses; what is written is enforced; the database is a file |
| `custody/iwithdraw.go` and the other bindings | an iterator, a forwarding goroutine | `Filter...`, `Next`, `Close`, `Watch...`, `Unsubscribe` | the source ends with logs in its channel; the user stops reading | every log once, in order; `Close` and `Unsubscribe` return |
| `custody/types.go` | - | the interfaces | each method blocks until its context is cancelled | the Watch methods implement it |

The deployment scripts have no state of their own.

How they interact: the contract's events reach the listener through the node
(a subscription and `eth_getLogs`); the listener hands them to the worker over
an unbuffered channel; the worker calls the checker, which reads the store;
it sends a transaction, polls for its receipt, and writes to the store. The
store's cursor is what the listener starts from after a restart.

## Modules

    WithdrawLifecycle                         what a custody contract promises
      ^ refined by                            ^ instantiated by
    SimpleCustody          QuorumCustody      Nitewatch
      MCSimpleCustody        MCQuorumCustody    MCNitewatch
      SimpleCustodyProofs    QuorumCustodyProofs  NitewatchProofs
                                                  NitewatchLimits

    EventFeed                                 what the worker sees of a listener
      ^ refined by                            ^ instantiated by
    Listener                                  Nitewatch
      MCListener
      ListenerProofs

    EventListener                             what a Watch method promises
      ^ refined by                            ^ instantiated by
    Listener                                  Service, which extends Configuration
                                                MCService
                                                ServiceProofs

    Bindings, BindingsProofs

    Ordering        finite sets in order, for Listener and Bindings
    DataTheorems    facts about sums, orders and sequences, for the proofs

**WithdrawLifecycle** is the abstract specification of `IWithdraw` and
`IDeposit`. An id is the record of the
parameters that are hashed into it. `stage` goes from none to pending and then
to paid or rejected, each in one step; funds shrink by payments only; a
`Deposited` event announces at most what arrived.

**SimpleCustody** is the contract. A call to foreign code is two steps, the
call and its return, with a stack of unfinished calls between: `DepositERC20`
and `DepositReturns`, `FinalizeWithdraw` and `FinalizeReturns`, and
`CallReverts` which restores the saved state. Every other function is one
action with the modifiers and `revert`s as guards; a transaction that reverts
on its own leaves no trace and is no step. Between call and return, anything
that `nonReentrant` does not forbid may happen: role changes, incoming tokens,
and nothing else, which is what the guard is for. `balance` counts tokens and
ether alike, `credited` sums the `Deposited` events, `paid` the transfers;
events are kept only as these sums.

**QuorumCustody** is the two contracts with signers, and calls to foreign code
as in SimpleCustody; `contract` says which of the two was deployed.
`finalizeWithdraw` is two actions, `Approve` below the quorum and
`FinalizeWithdraw` with the approval that reaches it. `signers` is the array
with its order, because `removeSigners` moves the last element into each gap
(`SwapAndPop`), `isSigner` the mapping beside it. `Sign` is what happens
off-line: an account signs a change with the nonce of the moment; a signature
stays in `signatures` whether or not it is used, and any signer may hand in any
set of them. That the contract wants signatures sorted makes their signers
distinct, which a set of signatures for one change and one nonce is. `uses`
keeps which signatures each change used and is history only. `AddSigners` and
`RemoveSigners` do not look at `calls`, as they are not `nonReentrant`. Time
stands still during a transaction, and `MaxTime` stands for all later times.
`ThresholdCustody` takes its signers from OpenZeppelin's `MultiSignerERC7913`,
which is not in the repository and is modelled from the calls and the tests:
signatures of distinct signers, as many as the threshold, authorize a change,
the caller counting only if it signed; a removal must leave as many signers as
the threshold of before it; the threshold may be lowered, and `address(0)` may
become a signer. The rest of the two contracts differs in names. Deposits are
announced as requested, so with a fee-on-transfer token (`Fees = {0, 1}`)
`ImplementsLifecycle` would not hold; the code does not say that it supports
such tokens.

**Nitewatch** is the worker over the abstract contract. `Start`, `MineFinalize`
and `MineReject` are steps of `WithdrawLifecycle` (through `Contract`); the
daemon's transactions wait in `mempool` and are mined in nonce order; they
revert where the contract's guards do not hold at that time. `quorum` is 0 over
a SimpleCustody. Otherwise the daemon is one signer of a QuorumCustody among
`Signers`, which approve and reject on their own: `finalizeWithdraw` of the
daemon is an approval, which pays if it completes the quorum (`CountApproval`),
and both calls revert on the wrong side of the expiry after an hour
(`Callable`). `grantedAt` keeps when the daemon's call succeeded. The worker's
`pc` follows `processWithdrawal`:

| `pc` | code | actions |
|---|---|---|
| down | the process is not running | `Boot` |
| idle | `for event := range withdrawals` | `Receive`, `Exit` |
| global, user | `checkGlobalLimits`, `checkUserLimits` | `CheckGlobalLimits`, `CheckUserLimits` |
| send | `FinalizeWithdraw`, `RejectWithdraw` of the binding | `Send`, `SendFails`, `SendAnswerLost` |
| wait | `bind.WaitMined` | `WaitMined`, `WaitCancelled` |
| record | `checker.Record` | `Record` |
| store | `recordEvent` | `RecordEvent` |

The database is `withdrawals` (rows with the hour they were saved at), `events`
(the decision per id) and `cursor`. A crash or an exit clears the worker and
the listener and keeps the database and the mempool. Its listener is
**EventFeed**, with one position per event: `history .. head` are the events
still to be fetched, `live` the next one of the subscription, `slot` the event
blocked in `sink <- event`. After a log of the subscription, of whatever event,
a reconnection may begin anywhere after the cursor (`Historical`), because the
position then compares a new block with the old `lastIndex`. An interrupt lets
at most one more event through (`Loop`), and then the sink is closed, which is
what the worker ends on. The constant `Faults` says which faults a run admits,
so that each run shows which of them a property survives:

| fault | what happens |
|---|---|
| crash, stop | the process dies; it is interrupted and takes what the listener still offers |
| send, answer | the send fails; the node took the transaction and the client saw an error |
| transfer | the payment itself reverts although the contract's guards hold |
| dbread, dbwrite | a query or a write fails |
| disconnect | the subscription breaks or cannot be made |

**Listener** is `listener.go` at the level of blocks: a chain of blocks with
the contract's logs, `listenEvents` as a loop over connect, subscribe and
select, and the reconciler of the current connection with its range (`start`,
`end`), the logs it still has to send, and `historicalCh` with room for one.
`watch` is which of the three Watch methods runs: the subscription of each
carries every log of the contract, the fetches only those of its topic, and its
handler drops what does not parse; a method without a contract to filter with
returns at once. A log of the watched event is sent to the unbuffered sink
(`Sent`), any other is dropped. The node refuses ranges longer than
`ProviderRange`, may advise any prefix of the range it was asked for ("advise"),
may fail ("fail"), the connection may drop ("drop"), the context be cancelled
("cancel"), and blocks at the end of the chain be replaced by a branch of the
same length, up to `MaxDepth` of them at a time ("reorg"). The subscription
then carries the logs of all replaced blocks, marked as removed, and after them
those of the branch. A branch that is longer than what it replaces is one that
new blocks follow. `replaced` remembers the numbers of those blocks, and
`handled` what a connection gave to its handler until then. The goroutine of an
earlier connection is left out: it can only write to a channel that nobody
reads any more.

**EventListener** is the abstract specification of the interface in `types.go`:
a method connects, offers one event at a time, may lose its connection, blocks
until its context is cancelled and then returns. Once it offers an event on
the unbuffered sink it waits for the receiver alone, as the code has no
`select` there. `Listener` implements it (`ImplementsEventListener`, fairness
included: a cancelled method returns). `Service` uses it for the listener it
starts, so what holds there holds for any listener that keeps this contract.

`Listener` implements `EventFeed` too (`ImplementsFeed`), so what holds of
`Nitewatch` holds over the listener with blocks, ranges and failures. `Position`
maps a log to its place among the watched logs of the chain, `NextHistorical`
what the reconciler has fetched and still has to ask for to the next position.
Replaced blocks would change positions that were handed out, so the
property is about behaviours up to the first reorganization, and the database of
`Nitewatch` is not checked against one.

**Ordering** says in which order the node returns a set of logs, and what is left
of a sequence when some of its members are filtered out. `SelectSeq` and the
other recursive operators on sequences would say the second, but no prover can
expand them.

**Configuration** has the pure part: `Load`, `Valid` (`Validate`) and the two
parsers, over strings with what the code asks of them (`AddressOf`, `SchemeOf`,
`AmountOf`, `Keys`). `Load` expands variables in every string of the file, the
keys and values of limits and overrides included, an unset one to the empty
string; two keys that become equal are a file that YAML refuses (`Decodes`); and
then come the two defaults. A variable stands for one whole string of the file.
A parser returns a set of results, empty for an error, and with more than one
member where Go's map order decides. **Service** is the process, started with
any `file` and `environment`: `main` and each fallible call of `New` in order
(`Dial`, `OpenDatabase`, `ParseLimits`, `ParseOverrides`, `ChainID`,
`PrivateKey`), and then `RunWorkerWithContext` with its goroutines:

| variable | goroutine | actions |
|---|---|---|
| web | `ListenAndServe` | `Serve`, `WebReturns` |
| worker | `for event := range withdrawals` | `Receive`, `Process`, `Mined`, `WaitMinedCancelled`, `WorkerReturns` |
| watcher | `WatchWithdrawStarted` | `Watch`, through `EventListener` |
| shutdown | `web.Shutdown` after cancellation | `Shutdown`, `Drained` |
| closer | `client.Close` after cancellation | `CloseClient` |

**Bindings** is one event of `iwithdraw.go`: an iterator from `Filter...`, whose
`Next` reads a buffered channel and the end of its source, and the goroutine of
`Watch...`, which sends to the sink of its user and may be told to stop or lose
its source at either of two selects. The source itself is a goroutine of
go-ethereum.

## Runs

Each run takes about a minute or less. `Hour` is one tick and `Day` two, so two
ticks already cross an hour and a third crosses a day; for the signers a tick
is longer than the hour in which a withdrawal must be approved.

| Run | Bounds | What it shows |
|---|---|---|
| custody | two accounts, one of them user and approver, an ERC20 and ether, one request each, supply 2, call depth 2, role changes of the approver | `TypeOK`, `PendingIntact`, `CreditsBacked`, and `ImplementsLifecycle`: every committed transaction is a step of the abstract contract |
| quorum | both contracts, three signers with quorum two, one of them the payee, one withdrawal, supply 1, four changes of signers, up to three of which take effect, two signatures, one tick | `SignersConsistent`, `SignaturesUsedOnce`, `PaidByQuorum`, `ImplementsLifecycle`, `TypeOK` |
| policy | three withdrawals, three hours, two days, one boot; faults send, transfer, disconnect | `PaidWithinLimits`: the limits hold for what the chain paid |
| restarts | two withdrawals that exceed the hourly limit together, two hours, two boots; faults crash, stop, disconnect, dbwrite, transfer, answer, send | `RecordedWithinLimits`, `RecordsArePaid`, `CursorDecided`, `RejectedIsRejected`, `NoSendAfterDecision`, `TypeOK` |
| decides | a SimpleCustody, or a QuorumCustody with a second signer and quorum two; two withdrawals, one of a token without limits; three ticks; faults send, transfer, dbread, answer; fairness | `UpcomingDecided`: what starts under a subscription gets a decision; `RecordsArePaid`, `RejectedIsRejected`, and `PaidIsGranted`: a quorum that the others cannot reach pays nothing the daemon did not approve |
| listener | `WatchWithdrawStarted`, and `WatchDeposited` without an `IDeposit`; up to four blocks with no log or two, of which one is of the watched event; a node that accepts two blocks and advises any prefix of what it is asked for, two failures, one drop or one reorganization of one or two blocks, cancellation; fairness | `HandledOnce`, `ReconcileExact`, `RetreatsToReplaced`, `ReconcileEnds`, `CatchesUp`, `ImplementsEventListener`, `ImplementsFeed`, `TypeOK` |
| service | files with good, negative, doubled, missing and malformed limits and overrides, RPC URLs with a scheme that dials, another and none, variables in each of these and in paths, addresses and keys, set, unset, malformed or equal to another entry; every failure of a call; fairness | `ValidatedParses`, `DatabasePersists`, `EnforcedAsConfigured`, `WorkerServes`, `ExitLeavesNothing`, `CancelledExits`, `TypeOK` |
| bindings | up to three logs of two ids, of which any may fail to unpack, any rule, a channel with room for one; fairness | `InOrder`, `IteratorComplete`, `CloseReturns`, `IteratorEnds`, `TypeOK` |

Three withdrawals are the fewest that can exceed a user's, the hourly and the
daily limit each on its own; two boots are the fewest after which something
redelivered meets something recorded, and three are needed for the cursor to
matter twice (`cursor_skips`). Two changes of signers bring an account back
that had approved before it left, and two signatures let one survive the change
it was made for; an approval of the removed signer is then there to be counted
or not. A third change is what a signature used twice would allow. A call depth
of two lets a callee inside a callee act. Four blocks in ranges of two give the
reconciler more than one range, and a block that arrives while it runs. A
reorganization of two blocks is the shortest that sends logs below those it has
sent, so that `lastBlock` goes back. What is said of drops holds for each. A
block of the run has one watched log at most, so a log after the cursor's in
the cursor's own block, like blocks with more, is covered by the theorem about
`ReconcileExact` alone. A
channel with room for one is full, and empty with its source gone, like a
longer one. Deadlock is not checked for the daemon, the listener, the service
and the bindings, which rightly stop when the process has ended, the context is
cancelled or the bounds are used up. The contracts can always receive, revert
or see time pass, and are checked.

`PaidWithinLimits` is the policy as a user would state it, and needs that the
process does not die between a payment and its row. `RecordedWithinLimits` is
what the code keeps under every fault: the check and the row read the clock at
different times, but one worker handles one withdrawal at a time, so a row that
slips into a new period is the first one in it. `RejectedIsRejected` holds
although the receipt of a rejection is not looked at: a competing payment has
the lower nonce and is mined first, so the rejection is refused when gas is
estimated and is recorded as an error. This needs reads that work (below).

### Disagreements between code and documents

Four runs show a property that the repository's documents, comments or tests
state, and a behaviour of the code that breaks it. Each checks one property.

| Run | Property | Shortest story |
|---|---|---|
| uncounted_payout | `PaidWithinLimits` | pay, crash before `Record`; the next withdrawal of the hour is checked against a total without the first |
| cursor_skips | `CursorCovers` | a live event is decided while an older one is still historical; crash; the cursor is past the older one |
| ready_too_early | `ReadySettled` | `IsWorkerReady` is true, a withdrawal starts, and then the listener subscribes, with no cursor and hence no history |
| header_gap | `SubscriptionMeetsHistory` | a block arrives after `HeaderByNumber` and before `SubscribeFilterLogs` |

Others were seen while modelling and have no run of their own.

* The worker. A send that fails once, also for a reason that passes, or whose
  event is received after an interrupt, is recorded as the decision "error",
  and `HasWithdrawEvent` then skips the withdrawal for good: it stays pending
  on the chain, decided but neither paid nor rejected. With a failing
  `HasWithdrawEvent` or limit query after a crash, a rejection can be sent
  while the payment of the same withdrawal is in the mempool; its reverted
  receipt is recorded as "rejected".
* With several signers. A row counts an approval: the payment may follow in a
  later hour or day than its row, or never if the request expires, and another
  signer that completes the quorum decides when. The daemon's `rejectWithdraw`
  reverts within the hour, so a withdrawal that the policy refuses becomes
  "error" and stays payable by the others, if they are enough.
* `ThresholdCustody` accepts the zero address as a signer and a lower
  threshold, which `QuorumCustody` does not.
* The listener. `for currentBlock > startBlock` leaves out a last range of one
  block: with the cursor or the end of the last range just before the head
  block, the head block is never asked for (`ReconcileExact` bounds the loss to
  it). A live log sets `lastBlock` while the reconciler still has older logs,
  so a disconnection loses them as a crash does in `cursor_skips`; `lastIndex`
  still belongs to the cursor, so a reconnection may skip logs of another block
  that nobody saw. A reorganization below `lastBlock` moves it back while the
  connection lasts (`RetreatsToReplaced`), and a reconnection may deliver later
  blocks again; one that happens while the connection is down does not move it,
  and the new logs of the blocks before it are never asked for. The reconciler
  of an earlier connection may stay blocked on its channel for good. Logs of removed blocks are delivered like any other,
  although `types.go` speaks of confirmed events. `waitForBackOffTimeout` logs
  "exiting" over its limit, goes on, and no longer waits; its delay
  `2^backOffCount-1` is an exclusive or in Go, for five failures 2, -1, 0, 5, 6
  seconds. A node that accepts one block at a time is asked for two forever,
  because halving rounds up (`ReconcileEnds` holds for `ProviderRange` of two
  and more). `WatchDeposited` of a listener without an `IDeposit` returns at
  once, although the interface says that it blocks.
* The service. Nothing calls `Validate`: with an HTTP URL the daemon starts and
  never gets a subscription, and with a contract address that is none it
  watches another one. An interrupt ends with "Worker failed" and exit code 1,
  because `ListenAndServe` returns `ErrServerClosed`, and that is the first
  error of the group. Only `os.Interrupt` is handled; a SIGTERM is a crash.
* The configuration. A limit written as a variable that is unset expands to the
  empty string (`config.go:98`), which `service.go:317` and `:325` leave nil:
  no such limit is enforced, without an error or a warning
  (`EnforcedAsConfigured` says so of the enforced limits). Of two spellings of one token address Go's map order
  decides which limit stays, and two spellings of one user lose a whole map of
  overrides (`EnforcedAsConfigured` is about files with one spelling for an
  address).

## Fairness

The worker: `WF(Mine)`, the chain mines what it accepted, which liveness of a
daemon that waits for receipts without a timeout cannot do without;
`WF(Work)`, the worker goroutine runs; `WF` of reading the header and of
subscribing, calls that return when no fault is admitted; `SF` of the two
offers, because both compete for one unbuffered channel and Go's `select`
chooses at random among ready cases. Starting a withdrawal, approvals of other
signers, booting, time and every fault are not fair.

The listener: `WF` for its goroutines, its return included, `SF` for the two
cases of the select loop, and `WF` for the progress of the reconciler, failed
and advised fetches not counted: a node that is asked again and again answers
in the end; and `WF` for the reader of the sink, which the worker is whenever
its own steps end. Failures, drops, reorganizations and cancellation are not fair.

The service: `WF` for every goroutine that can run, for `Shutdown`, which has
five seconds, and for the return of a cancelled listener; database calls return,
and so do calls of the node under a cancelled context. Connecting, events,
mined transactions and the interrupt are not fair: `CancelledExits` needs none
of them. The bindings: `WF` for the goroutines and for a source that was told
to quit or has nothing more, `SF` for the quit case of a select that is asked
between sends to a user who reads. The user is not fair.

## Proofs

Every invariant and action property of the passing runs is a theorem, for all
values of the constants that satisfy the assumptions of the module, and so are
the two refinements of `WithdrawLifecycle` and the steps of the one of
`EventListener`. A theorem that needs a further hypothesis says so.

| Module | Theorems | Properties |
|---|---|---|
| `SimpleCustodyProofs` | `TypeCorrect`, `PendingIsIntact`, `CreditsAreBacked`, `Refinement` | `TypeOK`, `PendingIntact`, `CreditsBacked`, `ImplementsLifecycle` |
| `QuorumCustodyProofs` | `TypeCorrect`, `SignersStayConsistent`, `SignaturesServeOnce`, `PaymentsHaveApprovals`, `Refinement` | `TypeOK`, `SignersConsistent`, `SignaturesUsedOnce`, `PaidByQuorum`, `ImplementsLifecycle` if tokens take no fee |
| `NitewatchProofs` | `TypeCorrect`, `RecordsStandForPayments`, `CursorIsDecided`, `NothingPaidWithoutTheDaemon`, `NothingSentAfterDecision` | `TypeOK`, `RecordsArePaid`, `CursorDecided`, `PaidIsGranted`, `NoSendAfterDecision` if reads work |
| `NitewatchLimits` | `RecordsKeepThePolicy`, `ReportedRejectionsHold`, `PaymentsKeepThePolicy` | `RecordedWithinLimits`, `RejectedIsRejected` if reads work, `PaidWithinLimits` if the process runs on |
| `ServiceProofs` | `TypeCorrect`, `WorkerServesUntilCancelled`, `NothingIsLeft`, `DatabaseIsAFile`, `ValidConfigurationsParse`, `LimitsAreEnforced` | `TypeOK`, `WorkerServes`, `ExitLeavesNothing`, `DatabasePersists`, `ValidatedParses`, `EnforcedAsConfigured` |
| `BindingsProofs` | `TypeCorrect`, `EventsComeInOrder`, `IteratorsAreComplete` | `TypeOK`, `InOrder`, `IteratorComplete` |
| `ListenerProofs` | `TypeCorrect`, `NoLogIsHandledTwice`, `ReconciliationIsExact`, `LastBlockRetreatsToReplaced`, `WatchesAsPromised` | `TypeOK`, `HandledOnce`, `ReconcileExact`, `RetreatsToReplaced`, the safety part of `ImplementsEventListener` |

What is assumed of the constants is what the code guarantees: a constructor
reverts unless `initialSigners` are distinct and the quorum is among them;
addresses are finitely many, which sums over accounts and counts of approvals
need; a period is at least one tick; the empty string is no address, URL,
number or key, nor the default name of the database; what a decimal number
means is an integer, and a nil limit none.

**The contracts.** The inductive invariant of SimpleCustody joins its type and
`PendingIntact` with what has to be known of unfinished calls: at most one
runs, because all functions that call out are `nonReentrant`; the snapshot it
would restore is itself well typed and intact; and, relative to that snapshot,
the state between call and return has gained tokens or, for a payment, lost
exactly the amount of the request that it cleared. Without this the return of a
call could not be mapped to a step of the abstract contract, since the
refinement mapping looks at the outermost snapshot (`Committed`) while a call
runs. `StepInv` has a lemma per action; `Refinement` maps the return of a
deposit to `Deposit`, the return of a payment to `Pay`, and everything inside a
call to a stutter. `CreditsBacked` has to hold of the saved state too: what a
deposit credits is the difference to a balance read before the call. The sum
over accounts changes in one place at a time.

For QuorumCustody the invariant says of the present and of the saved state that
signers, mapping and quorum agree, and that each change of signers used
signatures of its own nonce, since signers may change inside a call; and that
an open request is the one that was hashed into its id. `RemoveSigners` is a fold over a list: that
swapping and popping leaves an array without duplicates, for any list and any
positions, is proved by taking the shortest list for which it failed.

**The daemon.** `Working` says what the worker knows at each point of
`processWithdrawal`, `Awaiting` that it awaits at most one transaction, the one
it sent last, and `Grants` that what the daemon was granted is, over a
SimpleCustody, paid. With these `RecordsArePaid` and `CursorDecided` are
inductive under every fault, crash and interrupt included. For `PaidIsGranted`
the approvals of the others are counted: they are fewer than the quorum.

The policy needs more. `LimitInv` says that a withdrawal on its way to a
payment still fits the rows there are, globally and for its user, and that a row
is added only when nothing the daemon sent is left in the mempool. Time may
pass between the check and the row; `TruncatePeriod` shows that it only takes
rows out of the current hour and day, so what fitted before fits then, and
`PolicyAdd` that one row that fits keeps the policy. `PaidWithinLimits` speaks
of the chain: each grant but the one in flight has its row, no younger than the
grant. This needs what `RunsOn` says, as `uncounted_payout` shows for a crash.
`NoSendAfterDecision` and `RejectedIsRejected` need that no read fails, because
a `HasWithdrawEvent` that fails reads as "not processed".

**The listener.** `Ascending` says that the subscription carries blocks in
order, from `lastBlock` to the head, but for blocks that were replaced: only
those come after later ones. It holds across reorganizations of any depth, and
`RetreatsToReplaced` follows. `Ranges` says that the range a reconciler has
still to fetch is not empty and lies between the cursor and the header.
`Reconciled` holds until a block is replaced: the header divides what comes of
history from what comes of the subscription; each is sorted; and the logs up to
the header, received or queued, are exactly the wanted ones of the blocks
fetched so far. A fetch extends this by the blocks it asked for, whatever their
number, and a log that is selected only moves from a queue to those handled.
`HandledOnce` and `ReconcileExact` are consequences. `WatchesAsPromised` maps
each step to one of `EventListener` or a stutter.

**The process.** `Lifetimes` orders the ends of the goroutines (the listener
after `ctx`, the worker after the listener, `main` after all), `Configured`
says that what New parsed comes from the file that was loaded, with the
environment it was loaded in; the three properties of configurations are then
facts about `Load`, `Valid` and the parsers.

**The bindings.** `Conserved` says that what was taken, the event being sent,
the channel and what the source has left are, put together, the logs asked for;
`Phases` in which states of the source an iterator may report its end.

**What the proofs rest on.** The provers cannot use the induction theorems of
the library, whose parameter is an operator. Induction is therefore done by
minimal elements: `DataTheorems` builds the function by which `MapThenSumSet`
is defined from a minimal set for which there is none, and then proves what
sums do when an element is added, changed or left out; `LeastNatural` does the
same for lengths. `OrderedIs` shows that a finite set with a strict order is
listed once and in order, by counting predecessors.

Only model-checked:

* liveness, which TLAPS 1.4.5 cannot prove under fairness: `UpcomingDecided`,
  `ReconcileEnds`, `CatchesUp`, `CancelledExits`, `CloseReturns`,
  `IteratorEnds`, and that a cancelled Watch method returns
  (`ImplementsEventListener`);
* `ImplementsFeed`, the refinement of `EventFeed`, whose positions count the
  logs of the chain below a given one.

## Not modelled

Wording of errors and logs, the answers of the HTTP health endpoint, key
handling, gas. Amounts are small numbers: `uint256` cannot overflow where
Solidity checks, and Go uses `big.Int`. The length of delays. Clocks that step
back. A branch that is shorter than the blocks it replaces. A node that advises
a range it was not asked for, which `listener.go:326` would take: logs it leaves
out of the answer before that range would be lost. A variable of the
configuration that is a part of a string, or holds YAML structure. ERC20 tokens whose balances shrink on their own are outside
`SimpleCustody`, as is a database that loses committed rows. The other
generated bindings (`simple_custody.go`, `ideposit.go`) repeat the template of
`iwithdraw.go` for other events, and their callers and transactors forward to
go-ethereum. Signer changes are in QuorumCustody and not combined with the
daemon, whose set of signers is fixed. The deployment scripts call constructors
and signer changes once each.

## Plan

1. The refinement of `EventFeed` by `Listener`, step by step: `Position` as a
   rank in the chain, from `Ranks` of `DataTheorems`; what a fetch, a selected
   log and a new block do to it, from `Reconciled`; one lemma per action.
2. `RejectedIsRejected` with reads that fail, for a process that runs on, as
   the decides run checks it.
3. Signer changes while the daemon runs, so that it may lose its right to
   approve between two calls.

The project keeps to twelve runs, so new runs replace the weaker ones of the
table of disagreements.
