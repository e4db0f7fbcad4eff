----------------------------- MODULE Nitewatch -----------------------------
(***************************************************************************)
(* The Nitewatch daemon (service, checker and store) over a custody        *)
(* contract that implements WithdrawLifecycle.  One worker takes started   *)
(* withdrawals from the listener, checks them against the limits, sends    *)
(* finalizeWithdraw or rejectWithdraw, waits for the receipt and records   *)
(* the outcome.  Between any two of those steps blocks are mined, time     *)
(* passes, the process dies or is asked to stop, and the connection drops. *)
(*                                                                         *)
(* The listener is an EventFeed: an event's position (block number and log *)
(* index) is its index in log.                                             *)
(*                                                                         *)
(* The daemon holds the NITEWATCH_ROLE of a SimpleCustody alone, or is one *)
(* of the signers of a QuorumCustody.  There its finalizeWithdraw is one   *)
(* approval, and its rejectWithdraw reverts within the hour.               *)
(***************************************************************************)
EXTENDS Integers, Sequences, FiniteSetsExt

CONSTANTS
    Accounts, Tokens, Requests,     \* as in WithdrawLifecycle
    Zero,           \* address(0)
    Quorums,        \* the quorums there may be, 0 for a SimpleCustody
    Signers,        \* the other signers of a QuorumCustody
    Funds,          \* Funds[t]: what the contract holds of t at first
    GlobalLimits,   \* function from the tokens with limits to [hourly, daily]
    UserOverrides,  \* function from <<user, token>> pairs to [hourly, daily]
    NoLimit,        \* a limit that is not configured (nil)
    Hour, Day,      \* lengths in clock ticks
    Faults,         \* which faults may happen, of the set below
    MaxTime, MaxBoots, MaxPending   \* bounds: clock, process starts, mempool

FaultKinds ==
    {"crash", "stop",       \* the process dies; it is interrupted
     "send", "answer",      \* sending fails; is accepted but the answer is lost
     "transfer",            \* the payment itself reverts
     "dbread", "dbwrite",   \* a database statement fails
     "disconnect"}          \* the subscription breaks

Limit == [hourly : Int \union {NoLimit}, daily : Int \union {NoLimit}]

ASSUME NitewatchAssumption ==
    /\ Requests \subseteq [user : Accounts, token : Tokens, amount : Nat, nonce : Nat]
    /\ Quorums \subseteq Nat
    /\ IsFiniteSet(Signers)
    /\ Funds \in [Tokens -> Nat]
    /\ NoLimit \notin Int
    /\ DOMAIN GlobalLimits \subseteq Tokens
    /\ GlobalLimits \in [DOMAIN GlobalLimits -> Limit]
    /\ DOMAIN UserOverrides \subseteq Accounts \X Tokens
    /\ UserOverrides \in [DOMAIN UserOverrides -> Limit]
    /\ Hour \in Nat \ {0} /\ Day \in Nat \ {0}
    /\ Faults \subseteq FaultKinds
    /\ {MaxTime, MaxBoots, MaxPending} \subseteq Nat

VARIABLES
    \* the chain
    stage, held, paid,  \* the contract, as in WithdrawLifecycle
    quorum,
    createdAt, approvals,   \* of a QuorumCustody: approvals of the other signers
    log,            \* the WithdrawStarted events, in chain order
    mempool,        \* the daemon's transactions not yet mined, in nonce order
    grantedAt,      \* when finalizeWithdraw of the daemon succeeded, -1 if it did not
    clock,
    \* the database
    withdrawals,    \* WithdrawalModel rows: [id, at]
    events,         \* WithdrawEventModel: the decision on each id
    cursor,         \* BlockCursorModel of stream withdraw_started, 0 if none
    \* the worker
    pc, ev,         \* where it is, and the log index of its event
    verdict,        \* what Check decided: "finalize" or "reject"
    receipt,        \* the receipt of the transaction it waits for
    decision,       \* baseModel.Decision
    workerReady, stopping,  \* IsWorkerReady, and ctx cancelled
    boots,
    fromBlock, lastBlock, history, head, live, slot, returned   \* the listener, as in EventFeed

contract == <<stage, held, paid, quorum, createdAt, approvals, grantedAt>>
chain == <<contract, log>>
store == <<withdrawals, events, cursor>>
worker == <<pc, ev, verdict, receipt, decision>>
process == <<workerReady, stopping, boots>>
listener == <<fromBlock, lastBlock, history, head, live, slot, returned>>
vars == <<chain, mempool, clock, store, worker, process, listener>>

Contract == INSTANCE WithdrawLifecycle WITH credited <- [t \in Tokens |-> 0]
Feed == INSTANCE EventFeed

Decisions == {"approved", "rejected", "error"}
Indexes == 0 .. Len(log)

TypeOK ==
    /\ stage \in [Requests -> Contract!Stages]
    /\ held \in [Tokens -> Nat]
    /\ paid \in [Accounts -> [Tokens -> Nat]]
    /\ log \in Seq(Requests)
    /\ mempool \in Seq([op : {"finalize", "reject"}, id : Requests, awaited : BOOLEAN])
    /\ quorum \in Quorums
    /\ createdAt \in [Requests -> 0 .. MaxTime]
    /\ approvals \in [Requests -> SUBSET Signers]
    /\ grantedAt \in [Requests -> -1 .. MaxTime]
    /\ clock \in 0 .. MaxTime
    /\ withdrawals \subseteq [id : Requests, at : 0 .. MaxTime]
    /\ events \in [Requests -> Decisions \union {"none"}]
    /\ cursor \in Indexes
    /\ pc \in {"down", "idle", "global", "user", "send", "wait", "record", "store"}
    /\ ev \in Indexes
    /\ verdict \in {"none", "finalize", "reject"}
    /\ receipt \in {"none", "ok", "reverted"}
    /\ decision \in Decisions \union {"none"}
    /\ workerReady \in BOOLEAN /\ stopping \in BOOLEAN
    /\ boots \in 0 .. MaxBoots
    /\ Feed!TypeOK

Init ==
    /\ stage = [r \in Requests |-> "none"]
    /\ held = Funds
    /\ paid = [u \in Accounts |-> [t \in Tokens |-> 0]]
    /\ log = <<>> /\ mempool = <<>>
    /\ quorum \in Quorums
    /\ createdAt = [r \in Requests |-> 0]
    /\ approvals = [r \in Requests |-> {}]
    /\ grantedAt = [r \in Requests |-> -1]
    /\ clock = 0
    /\ withdrawals = {} /\ events = [r \in Requests |-> "none"] /\ cursor = 0
    /\ pc = "down" /\ ev = 0
    /\ verdict = "none" /\ receipt = "none" /\ decision = "none"
    /\ workerReady = FALSE /\ stopping = FALSE /\ boots = 0
    /\ fromBlock = 0 /\ lastBlock = "none"
    /\ history = 0 /\ head = 0 /\ live = 0 /\ slot = 0 /\ returned = FALSE

Fault(kind) == kind \in Faults

-----------------------------------------------------------------------------
(***************************************************************************)
(* The environment: NeoDAX, the chain and the clock.                       *)
(***************************************************************************)
SimpleCustody == quorum = 0

Start(r) ==
    /\ held' = held
    /\ Contract!Start(r)
    /\ createdAt' = IF SimpleCustody THEN createdAt ELSE [createdAt EXCEPT ![r] = clock]
    /\ log' = Append(log, r)
    /\ UNCHANGED <<paid, quorum, approvals, grantedAt, mempool, clock, store, worker,
                   process, listener>>

\* OPERATION_EXPIRY is an hour.
Expired(r) == clock > createdAt[r] + Hour

Approvals(r) == Cardinality(approvals[r]) + (IF grantedAt[r] = -1 THEN 0 ELSE 1)

OneShort(r) == Approvals(r) + 2 >= quorum   \* mutant

\* One approval more pays the withdrawal.
Completes(r) == Approvals(r) + 1 >= quorum

\* finalizeWithdraw and rejectWithdraw revert unless these hold.
Callable(op, r) ==
    /\ stage[r] = "pending"
    /\ op = "finalize" /\ Completes(r) => held[r.token] >= r.amount
    /\ SimpleCustody \/ (Expired(r) <=> op = "reject")

\* The daemon approves once.
Mineable(op, r) ==
    /\ Callable(op, r)
    /\ op = "finalize" => grantedAt[r] = -1

Execute(r) ==
    /\ held' = [held EXCEPT ![r.token] = @ - r.amount]
    /\ Contract!Pay(r)

CountApproval(r) ==
    \/ Completes(r) /\ Execute(r)
    \/ ~Completes(r) /\ UNCHANGED <<stage, held, paid>>

\* finalizeWithdraw and rejectWithdraw of another signer.
Approve(s, r) ==
    /\ ~SimpleCustody
    /\ s \notin approvals[r]
    /\ Callable("finalize", r)
    /\ CountApproval(r)
    /\ approvals' = [approvals EXCEPT ![r] = @ \union {s}]
    /\ UNCHANGED <<quorum, createdAt, grantedAt, log, mempool, clock, store, worker, process,
                   listener>>

RejectExpired(r) ==
    /\ ~SimpleCustody /\ Signers # {}
    /\ Callable("reject", r)
    /\ held' = held
    /\ Contract!Reject(r)
    /\ UNCHANGED <<quorum, createdAt, approvals, grantedAt, log, mempool, clock, store, worker,
                   process, listener>>

\* The daemon's transactions are mined in the order of their nonces.
MineNext(status) ==
    /\ mempool # <<>>
    /\ mempool' = Tail(mempool)
    /\ receipt' = IF Head(mempool).awaited THEN status ELSE receipt
    /\ UNCHANGED <<quorum, createdAt, approvals, log, clock, store, pc, ev, verdict, decision,
                   process, listener>>

MineFinalize ==
    /\ MineNext("ok")
    /\ LET r == Head(mempool).id
       IN  /\ Head(mempool).op = "finalize"
           /\ Mineable("finalize", r)
           /\ CountApproval(r)
           /\ grantedAt' = [grantedAt EXCEPT ![r] = clock]

MineReject ==
    /\ MineNext("ok")
    /\ held' = held
    /\ Head(mempool).op = "reject"
    /\ Mineable("reject", Head(mempool).id)
    /\ Contract!Reject(Head(mempool).id)
    /\ UNCHANGED grantedAt

MineRevert ==
    /\ MineNext("reverted")
    /\ LET tx == Head(mempool)
       IN  \/ ~Mineable(tx.op, tx.id)
           \/ tx.op = "finalize" /\ Completes(tx.id) /\ Fault("transfer")
    /\ UNCHANGED <<stage, held, paid, grantedAt>>

Tick ==
    /\ clock < MaxTime
    /\ clock' = clock + 1
    /\ UNCHANGED <<chain, mempool, store, worker, process, listener>>

-----------------------------------------------------------------------------
(***************************************************************************)
(* The process: RunWorkerWithContext.                                      *)
(***************************************************************************)
\* The cursor, or none where it cannot be read.
GetCursor == {cursor} \union (IF Fault("dbread") THEN {0} ELSE {})

\* workerReady is set here, and the
\* listener subscribes later.
Boot ==
    /\ pc = "down"
    /\ boots < MaxBoots
    /\ boots' = boots + 1
    /\ pc' = "idle"
    /\ workerReady' = TRUE
    /\ fromBlock' \in GetCursor /\ lastBlock' = Feed!FirstBlock(fromBlock')
    /\ UNCHANGED <<chain, mempool, clock, store, ev, verdict, receipt, decision,
                   stopping, history, head, live, slot, returned>>

\* Everything in memory is gone; sent transactions and the database stay.
Ends ==
    /\ pc' = "down" /\ ev' = 0
    /\ verdict' = "none" /\ receipt' = "none" /\ decision' = "none"
    /\ workerReady' = FALSE /\ stopping' = FALSE
    /\ fromBlock' = 0 /\ lastBlock' = "none"
    /\ history' = 0 /\ head' = 0 /\ live' = 0 /\ slot' = 0 /\ returned' = FALSE
    /\ mempool' = [i \in DOMAIN mempool |-> [mempool[i] EXCEPT !.awaited = FALSE]]
    /\ UNCHANGED <<chain, clock, store, boots>>

Crash ==
    /\ Fault("crash")
    /\ pc # "down"
    /\ Ends

\* An interrupt cancels ctx; the worker then takes what the listener still offers.
Interrupt ==
    /\ Fault("stop")
    /\ pc # "down" /\ ~stopping
    /\ stopping' = TRUE
    /\ UNCHANGED <<chain, mempool, clock, store, worker, workerReady, boots, listener>>

Exit ==
    /\ pc = "idle" /\ returned
    /\ Ends

-----------------------------------------------------------------------------
(***************************************************************************)
(* The listener.                                                           *)
(***************************************************************************)
ListenerStep ==
    /\ pc # "down"
    /\ UNCHANGED <<chain, mempool, clock, store, worker, process>>

ReadHeader == ListenerStep /\ Feed!ReadHeader

Subscribe == ListenerStep /\ Feed!Subscribe

Disconnect ==
    /\ Fault("disconnect")
    /\ ListenerStep
    /\ Feed!Disconnect

OfferHistorical == ListenerStep /\ Feed!OfferHistorical

OfferLive == ListenerStep /\ Feed!OfferLive

OtherLog == ListenerStep /\ Feed!OtherLog

Return == ListenerStep /\ Feed!Return

-----------------------------------------------------------------------------
(***************************************************************************)
(* The worker: processWithdrawal.                                          *)
(***************************************************************************)
request == log[ev]

NeverProcessed(r) == FALSE  \* mutant

HasWithdrawEvent(r) == events[r] # "none"

\* A failing HasWithdrawEvent reads as "not processed".
Receive ==
    /\ pc = "idle"
    /\ Feed!Sent
    /\ \/ /\ HasWithdrawEvent(log[slot])
          /\ UNCHANGED <<pc, ev>>
       \/ /\ ~HasWithdrawEvent(log[slot]) \/ Fault("dbread")
          /\ pc' = "global" /\ ev' = slot
    /\ UNCHANGED <<chain, mempool, clock, store, verdict, receipt, decision, process>>

Truncate(time, length) == time - (time % length)

Total(rows, since) == MapThenSumSet(LAMBDA w : w.id.amount, {w \in rows : w.at >= since})

OfToken(t) == {w \in withdrawals : w.id.token = t}
OfUser(u, t) == {w \in OfToken(t) : w.id.user = u}

WithinLimitBefore(limit, rows, amount) ==  \* mutant
    /\ limit.hourly # NoLimit => Total(rows, Truncate(clock, Hour)) < limit.hourly
    /\ limit.daily # NoLimit => Total(rows, Truncate(clock, Day)) < limit.daily

WithinLimit(limit, rows, amount) ==
    /\ limit.hourly # NoLimit => Total(rows, Truncate(clock, Hour)) + amount <= limit.hourly
    /\ limit.daily # NoLimit => Total(rows, Truncate(clock, Day)) + amount <= limit.daily

GlobalAllows(r) ==
    /\ r.amount > 0
    /\ r.user # Zero
    /\ r.token \in DOMAIN GlobalLimits
    /\ WithinLimit(GlobalLimits[r.token], OfToken(r.token), r.amount)

UserAllows(r) ==
    <<r.user, r.token>> \in DOMAIN UserOverrides =>
        WithinLimit(UserOverrides[<<r.user, r.token>>], OfUser(r.user, r.token), r.amount)

Verdict(v) ==
    /\ pc' = "send"
    /\ verdict' = v
    /\ UNCHANGED <<ev, receipt, decision>>

\* The global and the per-user check read the clock each on its own, and a store
\* error blocks the withdrawal like an exceeded limit.
CheckGlobalLimits ==
    /\ pc = "global"
    /\ \/ /\ GlobalAllows(request)
          /\ pc' = "user"
          /\ UNCHANGED <<ev, verdict, receipt, decision>>
       \/ /\ ~GlobalAllows(request) \/ Fault("dbread")
          /\ Verdict("reject")
    /\ UNCHANGED <<chain, mempool, clock, store, process, listener>>

CheckUserLimits ==
    /\ pc = "user"
    /\ \/ UserAllows(request) /\ Verdict("finalize")
       \/ /\ \/ ~UserAllows(request)
             \/ Fault("dbread") /\ <<request.user, request.token>> \in DOMAIN UserOverrides
          /\ Verdict("reject")
    /\ UNCHANGED <<chain, mempool, clock, store, process, listener>>

Submit(awaited) ==
    mempool' = Append(mempool, [op |-> verdict, id |-> request, awaited |-> awaited])

\* The binding estimates gas first, on the latest block or on the pending one,
\* so a call that would revert is an error of the send.
Send ==
    /\ pc = "send"
    /\ ~stopping
    /\ Mineable(verdict, request)
    /\ Len(mempool) < MaxPending
    /\ Submit(TRUE)
    /\ receipt' = "none"
    /\ pc' = "wait"
    /\ UNCHANGED <<chain, clock, store, ev, verdict, decision, process, listener>>

FailsUnrecorded ==  \* mutant
    /\ pc' = "idle"
    /\ UNCHANGED <<chain, clock, store, ev, verdict, receipt, decision, process, listener>>

Fails ==
    /\ decision' = "error"
    /\ pc' = "store"
    /\ UNCHANGED <<chain, clock, store, ev, verdict, receipt, process, listener>>

PendingFor(r) == \E i \in DOMAIN mempool : mempool[i].id = r

SendFails ==
    /\ pc = "send"
    /\ \/ stopping
       \/ Fault("send")
       \/ ~Mineable(verdict, request)
       \/ PendingFor(request)
    /\ UNCHANGED mempool
    /\ Fails

\* The node took the transaction, and the client saw an error.
SendAnswerLost ==
    /\ Fault("answer")
    /\ pc = "send"
    /\ Mineable(verdict, request)
    /\ Len(mempool) < MaxPending
    /\ Submit(FALSE)
    /\ Fails

AnyReceiptPays == verdict = "finalize"  \* mutant

Finalized == verdict = "finalize" /\ receipt = "ok"

AllRejected == "rejected"  \* mutant

\* A rejection does not look at the status of its receipt.
NotFinalized == IF verdict = "reject" THEN "rejected" ELSE "error"

WaitMined ==
    /\ pc = "wait"
    /\ receipt # "none"
    /\ receipt' = "none"
    /\ \/ Finalized /\ pc' = "record" /\ UNCHANGED decision
       \/ ~Finalized /\ pc' = "store" /\ decision' = NotFinalized
    /\ UNCHANGED <<chain, mempool, clock, store, ev, verdict, process, listener>>

WaitCancelled ==
    /\ pc = "wait"
    /\ stopping
    /\ mempool' = [i \in DOMAIN mempool |-> [mempool[i] EXCEPT !.awaited = FALSE]]
    /\ Fails

\* withdrawal_id is unique: a second row for one id fails.
Save(r) ==
    \/ /\ \A w \in withdrawals : w.id # r
       /\ withdrawals' = withdrawals \union {[id |-> r, at |-> clock]}
    \/ /\ (\E w \in withdrawals : w.id = r) \/ Fault("dbwrite")
       /\ UNCHANGED withdrawals

\* An error of Save is logged and no more.
Record ==
    /\ pc = "record"
    /\ Save(request)
    /\ decision' = "approved"
    /\ pc' = "store"
    /\ UNCHANGED <<chain, mempool, clock, events, cursor, ev, verdict, receipt, process,
                   listener>>

RecordThenMove ==  \* mutant
    /\ events' \in {events, [events EXCEPT ![request] = decision]}
    /\ cursor' = ev

RecordNext ==  \* mutant
    /\ events' = [events EXCEPT ![request] = decision]
    /\ cursor' = ev + 1

\* One transaction: insert unless present, and move the cursor, forward or back.
RecordWithdrawEvent ==
    /\ events' = IF events[request] = "none" THEN [events EXCEPT ![request] = decision]
                 ELSE events
    /\ cursor' = ev

RecordEvent ==
    /\ pc = "store"
    /\ \/ RecordWithdrawEvent
       \/ Fault("dbwrite") /\ UNCHANGED <<events, cursor>>
    /\ pc' = "idle" /\ ev' = 0
    /\ verdict' = "none" /\ decision' = "none"
    /\ UNCHANGED <<chain, mempool, clock, withdrawals, receipt, process, listener>>

-----------------------------------------------------------------------------
Mine == MineFinalize \/ MineReject \/ MineRevert

Listen == ReadHeader \/ Subscribe \/ OfferHistorical \/ OfferLive

Work ==
    \/ Receive \/ CheckGlobalLimits \/ CheckUserLimits
    \/ Send \/ SendFails \/ SendAnswerLost
    \/ WaitMined \/ WaitCancelled \/ Record \/ RecordEvent

Next ==
    \/ \E r \in Requests :
          Start(r) \/ RejectExpired(r) \/ \E s \in Signers : Approve(s, r)
    \/ Mine \/ Tick
    \/ Boot \/ Crash \/ Interrupt \/ Exit
    \/ Disconnect \/ OtherLog \/ Return \/ Listen
    \/ Work

Spec == Init /\ [][Next]_vars

(***************************************************************************)
(* The Go scheduler runs every goroutine that can run, the select loop     *)
(* picks a ready channel in the end, and the chain mines what it accepted. *)
(* Nothing makes a fault happen, a withdrawal start or a process boot.     *)
(***************************************************************************)
Fairness ==
    /\ WF_vars(Mine)
    /\ WF_vars(ReadHeader) /\ WF_vars(Subscribe)
    /\ SF_vars(OfferHistorical) /\ SF_vars(OfferLive)
    /\ WF_vars(Work)

FairSpec == Spec /\ Fairness

-----------------------------------------------------------------------------
(***************************************************************************)
(* Properties.  Rows are [id, at] records; a period without any is within  *)
(* every limit, also a negative one.                                       *)
(***************************************************************************)
PeriodsWithin(limit, length, rows) ==
    limit # NoLimit =>
        \A w \in rows :
            Total({v \in rows : Truncate(v.at, length) = Truncate(w.at, length)}, 0) <= limit

WithinPolicy(rows) ==
    /\ \A w \in rows : w.id.token \in DOMAIN GlobalLimits
    /\ \A t \in DOMAIN GlobalLimits :
          LET ofToken == {w \in rows : w.id.token = t}
          IN  /\ PeriodsWithin(GlobalLimits[t].hourly, Hour, ofToken)
              /\ PeriodsWithin(GlobalLimits[t].daily, Day, ofToken)
    /\ \A p \in DOMAIN UserOverrides :
          LET ofUser == {w \in rows : w.id.user = p[1] /\ w.id.token = p[2]}
          IN  /\ PeriodsWithin(UserOverrides[p].hourly, Hour, ofUser)
              /\ PeriodsWithin(UserOverrides[p].daily, Day, ofUser)

\* What the database has recorded in one hour or day never exceeds a limit, though
\* Check and Record read the clock at different times with a transaction between.
RecordedWithinLimits == WithinPolicy(withdrawals)

Granted == {[id |-> r, at |-> grantedAt[r]] : r \in {q \in Requests : grantedAt[q] # -1}}

\* The policy on the chain: what the daemon had the contract pay in one hour or day,
\* or approved, where other signers have to approve as well.
PaidWithinLimits == WithinPolicy(Granted)

\* A row or an approval stands for a finalizeWithdraw that succeeded, no later, and a
\* SimpleCustody has then paid.
RecordsArePaid ==
    \A r \in Requests :
        (\E w \in withdrawals : w.id = r) \/ events[r] = "approved" =>
            /\ grantedAt[r] # -1
            /\ \A w \in withdrawals : w.id = r => grantedAt[r] <= w.at
            /\ SimpleCustody => stage[r] = "paid"

\* Signers that are too few without the daemon pay nothing that it did not approve.
PaidIsGranted ==
    Cardinality(Signers) < quorum \/ SimpleCustody =>
        \A r \in Requests : stage[r] = "paid" => grantedAt[r] # -1

\* A withdrawal the daemon reports as rejected is rejected on the chain, although
\* the status of the reject receipt is not looked at.
RejectedIsRejected == \A r \in Requests : events[r] = "rejected" => stage[r] = "rejected"

\* RecordWithdrawEvent is one transaction: the cursor names a decided event.
CursorDecided == cursor # 0 => events[log[cursor]] # "none"

\* Once an event is decided, starting after the cursor loses none of the later ones:
\* with the process down, whatever lies between the two is decided.
CursorCovers ==
    pc = "down" =>
        \A j, i \in 1 .. cursor :
            j < i /\ events[log[j]] # "none" => events[log[i]] # "none"

SentFor(r, pool) == Cardinality({i \in DOMAIN pool : pool[i].id = r})

\* No transaction is sent for a withdrawal that was decided, also when its event is
\* delivered again after a restart or a reconnection.
NoSendAfterDecision ==
    [][\A r \in Requests :
          events[r] # "none" => SentFor(r, mempool') <= SentFor(r, mempool)]_vars

Upcoming(r) == live # 0 /\ \E i \in live .. Len(log) : log[i] = r

\* A withdrawal started while the daemon is subscribed is at least decided.
UpcomingDecided == \A r \in Requests : Upcoming(r) ~> events[r] # "none"

Settled(r) == stage[r] \in {"paid", "rejected"}

\* What is started once IsWorkerReady holds is paid or rejected.
ReadySettled ==
    \A r \in Requests :
        [](workerReady /\ stage[r] = "none" => (stage[r] = "pending" ~> Settled(r)))
=============================================================================
