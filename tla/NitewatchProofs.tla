-------------------------- MODULE NitewatchProofs --------------------------
(***************************************************************************)
(* Proofs about the daemon: type correctness, and that its records and the *)
(* chain agree.  They hold for every set of accounts, tokens and requests, *)
(* every quorum and set of signers, and every choice of faults, unless a   *)
(* theorem says which faults it excludes.                                  *)
(***************************************************************************)
EXTENDS Nitewatch, FiniteSetTheorems, SequenceTheorems, TLAPS

Transaction == [op : {"finalize", "reject"}, id : Requests, awaited : BOOLEAN]

Busy == {"global", "user", "send", "wait", "record", "store"}

(***************************************************************************)
(* What the worker knows at each point of processWithdrawal: its event,    *)
(* what it was told to do, and what a receipt or its own position implies. *)
(***************************************************************************)
Working ==
    /\ pc \in Busy => ev # 0
    /\ pc \in {"send", "wait"} => verdict \in {"finalize", "reject"}
    /\ pc = "wait" /\ receipt = "ok" /\ verdict = "finalize" => grantedAt[request] # -1
    /\ pc = "record" => grantedAt[request] # -1
    /\ pc = "store" => decision # "none"
    /\ pc = "store" /\ decision = "approved" => grantedAt[request] # -1

\* It awaits at most one transaction, the one it sent last.
Awaiting ==
    \A i \in DOMAIN mempool : mempool[i].awaited =>
        /\ pc = "wait" /\ receipt = "none"
        /\ mempool[i].id = request /\ mempool[i].op = verdict
        /\ \A j \in DOMAIN mempool : mempool[j].awaited => i = j

Grants ==
    \A r \in Requests :
        /\ grantedAt[r] <= clock
        /\ SimpleCustody /\ grantedAt[r] # -1 => stage[r] = "paid"

Inv ==
    /\ TypeOK
    /\ Working
    /\ Awaiting
    /\ Grants
    /\ RecordsArePaid
    /\ CursorDecided

-----------------------------------------------------------------------------
(***************************************************************************)
(* Type correctness, by groups of actions that change the same variables.  *)
(***************************************************************************)
LEMMA RequestTypes ==
    ASSUME NEW r \in Requests
    PROVE  /\ r.user \in Accounts
           /\ r.token \in Tokens
           /\ r.amount \in Nat
  BY NitewatchAssumption

LEMMA StageType == Contract!Stages = {"none", "pending", "paid", "rejected"}
  BY DEF Contract!Stages

\* The contract's own part of the state.
ContractType ==
    /\ stage \in [Requests -> Contract!Stages]
    /\ held \in [Tokens -> Nat]
    /\ paid \in [Accounts -> [Tokens -> Nat]]

LEMMA InitType == Init => TypeOK
  <1> SUFFICES ASSUME Init PROVE TypeOK
    OBVIOUS
  <1>1. Len(log) = 0
    BY DEF Init
  <1>2. /\ fromBlock = 0 /\ head = 0 /\ slot = 0 /\ history = 0 /\ live = 0
        /\ lastBlock = "none" /\ returned = FALSE
    BY DEF Init
  <1>3. Feed!TypeOK
    <2>1. 0 \in 0 .. Len(log) /\ 0 \in 0 .. Len(log) + 1
      BY <1>1
    <2> QED
      BY <1>2, <2>1 DEF Feed!TypeOK
  <1>4. 0 \in 0 .. MaxTime /\ 0 \in 0 .. MaxBoots /\ -1 \in -1 .. MaxTime /\ 0 \in Indexes
    BY <1>1, NitewatchAssumption DEF Indexes
  <1>5. ContractType
    BY NitewatchAssumption, StageType DEF Init, ContractType
  <1>6. /\ log \in Seq(Requests)
        /\ mempool \in Seq([op : {"finalize", "reject"}, id : Requests, awaited : BOOLEAN])
    BY DEF Init
  <1> QED
    BY <1>3, <1>4, <1>5, <1>6 DEF Init, TypeOK, ContractType, Decisions

LEMMA ExecuteType ==
    ASSUME TypeOK, NEW r \in Requests, Callable("finalize", r), CountApproval(r)
    PROVE  ContractType'
  <1> USE StageType, RequestTypes
  <1>1. CASE ~Completes(r)
    BY <1>1 DEF CountApproval, ContractType, TypeOK
  <1>2. CASE Completes(r)
    <2>1. Execute(r) /\ held[r.token] >= r.amount
      BY <1>2 DEF CountApproval, Callable
    <2>2. held[r.token] - r.amount \in Nat
      BY <2>1 DEF TypeOK
    <2>3. held' \in [Tokens -> Nat]
      BY <2>1, <2>2 DEF Execute, TypeOK
    <2>4. stage' \in [Requests -> Contract!Stages]
      BY <2>1 DEF Execute, Contract!Pay, TypeOK
    <2>5. paid' \in [Accounts -> [Tokens -> Nat]]
      BY <2>1 DEF Execute, Contract!Pay, TypeOK
    <2> QED
      BY <2>3, <2>4, <2>5 DEF ContractType
  <1> QED
    BY <1>1, <1>2

LEMMA StartType ==
    ASSUME TypeOK, NEW r \in Requests, Start(r)
    PROVE  TypeOK'
  <1>1. stage' \in [Requests -> Contract!Stages]
    BY StageType DEF Start, Contract!Start, TypeOK
  <1>2. createdAt' \in [Requests -> 0 .. MaxTime]
    BY DEF Start, TypeOK
  <1>3. log' \in Seq(Requests) /\ Len(log') = Len(log) + 1 /\ Len(log) \in Nat
    BY DEF Start, TypeOK
  <1>4. Indexes \subseteq Indexes'
    BY <1>3 DEF Indexes
  <1>5. Feed!TypeOK'
    BY <1>3 DEF Start, listener, TypeOK, Feed!TypeOK
  <1> QED
    BY <1>1, <1>2, <1>3, <1>4, <1>5
    DEF Start, TypeOK, store, worker, process

LEMMA ApproveType ==
    ASSUME TypeOK, NEW s \in Signers, NEW r \in Requests, Approve(s, r)
    PROVE  TypeOK'
  <1>1. ContractType'
    BY ExecuteType DEF Approve
  <1>2. approvals' \in [Requests -> SUBSET Signers]
    BY DEF Approve, TypeOK
  <1>3. Feed!TypeOK'
    BY DEF Approve, listener, TypeOK, Feed!TypeOK
  <1> QED
    BY <1>1, <1>2, <1>3
    DEF Approve, TypeOK, ContractType, store, worker, process, Indexes

LEMMA RejectExpiredType ==
    ASSUME TypeOK, NEW r \in Requests, RejectExpired(r)
    PROVE  TypeOK'
  <1>1. stage' \in [Requests -> Contract!Stages]
    BY StageType DEF RejectExpired, Contract!Reject, TypeOK
  <1>2. Feed!TypeOK'
    BY DEF RejectExpired, listener, TypeOK, Feed!TypeOK
  <1> QED
    BY <1>1, <1>2
    DEF RejectExpired, Contract!Reject, TypeOK, store, worker, process, Indexes

\* The transaction that is mined next, and the ones after it.
LEMMA HeadType ==
    ASSUME TypeOK, mempool # <<>>
    PROVE  /\ Head(mempool) \in Transaction
           /\ Head(mempool) = mempool[1]
           /\ Head(mempool).id \in Requests
           /\ Tail(mempool) \in Seq(Transaction)
           /\ Len(mempool) \in Nat \ {0} /\ DOMAIN mempool = 1 .. Len(mempool)
           /\ Len(Tail(mempool)) = Len(mempool) - 1
           /\ DOMAIN Tail(mempool) = 1 .. Len(mempool) - 1
           /\ \A i \in DOMAIN Tail(mempool) : Tail(mempool)[i] = mempool[i + 1]
  <1>1. mempool \in Seq(Transaction)
    BY DEF TypeOK, Transaction
  <1>2. Head(mempool) \in Transaction
    BY <1>1, HeadTailProperties
  <1>3. Head(mempool).id \in Requests
    BY <1>2 DEF Transaction
  <1> QED
    BY <1>1, <1>2, <1>3, HeadTailProperties, LenProperties

LEMMA MineType ==
    ASSUME TypeOK, Mine
    PROVE  TypeOK'
  <1> DEFINE tx == Head(mempool)
  <1>1. PICK status \in {"ok", "reverted"} : MineNext(status)
    BY DEF Mine, MineFinalize, MineReject, MineRevert
  <1>2. tx \in Transaction /\ mempool' \in Seq(Transaction)
    BY <1>1, HeadType DEF MineNext
  <1>3. receipt' \in {"none", "ok", "reverted"}
    BY <1>1 DEF MineNext, TypeOK
  <1>4. Feed!TypeOK'
    BY <1>1 DEF MineNext, listener, TypeOK, Feed!TypeOK
  <1>5. ContractType' /\ grantedAt' \in [Requests -> -1 .. MaxTime]
    <2>1. CASE MineFinalize
      <3>1. ContractType'
        BY <1>2, <2>1, ExecuteType DEF MineFinalize, Mineable, Transaction
      <3>2. clock \in -1 .. MaxTime
        BY NitewatchAssumption DEF TypeOK
      <3> QED
        BY <2>1, <3>1, <3>2 DEF MineFinalize, TypeOK
    <2>2. CASE MineReject
      BY <2>2, StageType DEF MineReject, Contract!Reject, ContractType, TypeOK
    <2>3. CASE MineRevert
      BY <2>3 DEF MineRevert, ContractType, TypeOK
    <2> QED
      BY <2>1, <2>2, <2>3 DEF Mine
  <1> QED
    BY <1>1, <1>2, <1>3, <1>4, <1>5
    DEF MineNext, TypeOK, ContractType, Transaction, store, process, Indexes

LEMMA TickType ==
    ASSUME TypeOK, Tick
    PROVE  TypeOK'
  <1>1. Feed!TypeOK'
    BY DEF Tick, chain, listener, TypeOK, Feed!TypeOK
  <1>2. clock' \in 0 .. MaxTime
    BY NitewatchAssumption DEF Tick, TypeOK
  <1> QED
    BY <1>1, <1>2
    DEF Tick, TypeOK, chain, contract, store, worker, process, Indexes

LEMMA BootType ==
    ASSUME TypeOK, Boot
    PROVE  TypeOK'
  <1>1. fromBlock' \in Indexes
    BY DEF Boot, GetCursor, TypeOK, Indexes
  <1>2. Feed!TypeOK'
    BY <1>1 DEF Boot, chain, TypeOK, Feed!TypeOK, Feed!FirstBlock, Indexes
  <1>3. boots' \in 0 .. MaxBoots
    BY NitewatchAssumption DEF Boot, TypeOK
  <1> QED
    BY <1>2, <1>3 DEF Boot, TypeOK, chain, contract, store, Indexes

LEMMA ForgetType ==
    ASSUME mempool \in Seq(Transaction)
    PROVE  LET forgotten == [i \in DOMAIN mempool |-> [mempool[i] EXCEPT !.awaited = FALSE]]
           IN  /\ forgotten \in Seq(Transaction)
               /\ Len(forgotten) = Len(mempool)
               /\ \A i \in DOMAIN mempool :
                     /\ forgotten[i].id = mempool[i].id
                     /\ forgotten[i].op = mempool[i].op
                     /\ forgotten[i].awaited = FALSE
  <1>1. \A i \in 1 .. Len(mempool) : mempool[i] \in Transaction
    BY ElementOfSeq
  <1>2. DOMAIN mempool = 1 .. Len(mempool) /\ Len(mempool) \in Nat
    BY LenProperties
  <1>3. \A i \in 1 .. Len(mempool) :
            /\ [mempool[i] EXCEPT !.awaited = FALSE] \in Transaction
            /\ [mempool[i] EXCEPT !.awaited = FALSE].id = mempool[i].id
            /\ [mempool[i] EXCEPT !.awaited = FALSE].op = mempool[i].op
            /\ [mempool[i] EXCEPT !.awaited = FALSE].awaited = FALSE
    BY <1>1 DEF Transaction
  <1> DEFINE forgotten == [i \in DOMAIN mempool |-> [mempool[i] EXCEPT !.awaited = FALSE]]
  <1>4. forgotten \in [1 .. Len(mempool) -> Transaction]
    BY <1>2, <1>3
  <1>5. forgotten \in Seq(Transaction)
    BY <1>2, <1>4, SeqDef
  <1>6. Len(forgotten) = Len(mempool)
    BY <1>2, <1>4, <1>5, LenProperties
  <1>7. \A i \in DOMAIN mempool : forgotten[i] = [mempool[i] EXCEPT !.awaited = FALSE]
    OBVIOUS
  <1> HIDE DEF forgotten
  <1>8. \A i \in DOMAIN mempool :
            /\ forgotten[i].id = mempool[i].id
            /\ forgotten[i].op = mempool[i].op
            /\ forgotten[i].awaited = FALSE
    BY <1>2, <1>3, <1>7
  <1> QED
    BY <1>5, <1>6, <1>8 DEF forgotten

LEMMA EndsType ==
    ASSUME TypeOK, Ends
    PROVE  TypeOK'
  <1>1. mempool' \in Seq(Transaction)
    BY ForgetType DEF Ends, TypeOK, Transaction
  <1>2. Len(log') \in Nat /\ log' = log
    BY DEF TypeOK, Ends, chain
  <1>3. Feed!TypeOK'
    <2>1. 0 \in 0 .. Len(log') /\ 0 \in 0 .. Len(log') + 1
      BY <1>2
    <2>2. /\ fromBlock' = 0 /\ head' = 0 /\ slot' = 0 /\ history' = 0 /\ live' = 0
          /\ lastBlock' = "none" /\ returned' = FALSE
      BY DEF Ends
    <2> QED
      BY <2>1, <2>2 DEF Feed!TypeOK
  <1>4. Indexes' = Indexes /\ ev' \in Indexes'
    BY <1>2 DEF Ends, Indexes
  <1>5. /\ pc' = "down" /\ verdict' = "none" /\ receipt' = "none" /\ decision' = "none"
        /\ workerReady' = FALSE /\ stopping' = FALSE
    BY DEF Ends
  <1>6. UNCHANGED <<stage, held, paid, quorum, createdAt, approvals, grantedAt, log, clock,
                    withdrawals, events, cursor, boots>>
    BY DEF Ends, chain, contract, store
  <1> QED
    BY <1>1, <1>3, <1>4, <1>5, <1>6 DEF TypeOK, Transaction

LEMMA InterruptType ==
    ASSUME TypeOK, Interrupt
    PROVE  TypeOK'
  <1>1. Feed!TypeOK'
    BY DEF Interrupt, chain, listener, TypeOK, Feed!TypeOK
  <1> QED
    BY <1>1
    DEF Interrupt, TypeOK, chain, contract, store, worker, Indexes

\* What the listener does to its own state.
FeedStep ==
    \/ Feed!ReadHeader \/ Feed!Subscribe \/ Feed!Disconnect
    \/ Feed!OfferHistorical \/ Feed!OfferLive \/ Feed!OtherLog \/ Feed!Return

LEMMA ListenerStepType ==
    ASSUME TypeOK, ListenerStep, FeedStep
    PROVE  TypeOK'
  <1>1. Len(log) \in Nat /\ log' = log
    BY DEF TypeOK, ListenerStep, chain
  <1>2. /\ fromBlock \in 0 .. Len(log) /\ head \in 0 .. Len(log) /\ slot \in 0 .. Len(log)
        /\ history \in 0 .. Len(log) + 1 /\ live \in 0 .. Len(log) + 1
        /\ lastBlock \in {"none", "cursor", "live"}
        /\ returned \in BOOLEAN /\ stopping \in BOOLEAN
    BY DEF TypeOK, Feed!TypeOK
  <1>3. /\ fromBlock' \in 0 .. Len(log) /\ head' \in 0 .. Len(log) /\ slot' \in 0 .. Len(log)
        /\ history' \in 0 .. Len(log) + 1 /\ live' \in 0 .. Len(log) + 1
        /\ lastBlock' \in {"none", "cursor", "live"}
        /\ returned' \in BOOLEAN
    <2>1. CASE Feed!ReadHeader
      BY <1>1, <1>2, <2>1
      DEF Feed!ReadHeader, Feed!Historical, Feed!arguments
    <2>2. CASE Feed!Subscribe
      BY <1>1, <1>2, <2>2 DEF Feed!Subscribe, Feed!arguments
    <2>3. CASE Feed!Disconnect
      BY <1>1, <1>2, <2>3 DEF Feed!Disconnect, Feed!NoConnection, Feed!arguments
    <2>4. CASE Feed!OfferHistorical
      BY <1>1, <1>2, <2>4 DEF Feed!OfferHistorical, Feed!arguments
    <2>5. CASE Feed!OfferLive
      BY <1>1, <1>2, <2>5 DEF Feed!OfferLive, Feed!arguments
    <2>6. CASE Feed!OtherLog
      BY <1>1, <1>2, <2>6
      DEF Feed!OtherLog, Feed!Loop, Feed!NoConnection, Feed!arguments, Feed!connection
    <2>7. CASE Feed!Return
      BY <1>1, <1>2, <2>7 DEF Feed!Return, Feed!NoConnection, Feed!arguments
    <2> QED
      BY <2>1, <2>2, <2>3, <2>4, <2>5, <2>6, <2>7 DEF FeedStep
  <1>4. Feed!TypeOK'
    BY <1>1, <1>3 DEF Feed!TypeOK
  <1> QED
    BY <1>1, <1>4
    DEF ListenerStep, TypeOK, chain, contract, store, worker, process, Indexes

-----------------------------------------------------------------------------
(***************************************************************************)
(* The worker's steps, which leave the chain and the clock alone.          *)
(***************************************************************************)
WorkerLeaves ==
    UNCHANGED <<stage, held, paid, quorum, createdAt, approvals, grantedAt, log, clock,
                workerReady, stopping, boots>>

\* The types of what a step of the worker may change.
WorkerType ==
    /\ mempool \in Seq(Transaction)
    /\ withdrawals \subseteq [id : Requests, at : 0 .. MaxTime]
    /\ events \in [Requests -> Decisions \union {"none"}]
    /\ cursor \in Indexes
    /\ pc \in {"down", "idle", "global", "user", "send", "wait", "record", "store"}
    /\ ev \in Indexes
    /\ verdict \in {"none", "finalize", "reject"}
    /\ receipt \in {"none", "ok", "reverted"}
    /\ decision \in Decisions \union {"none"}

LEMMA WorkerStepType ==
    ASSUME TypeOK, WorkerLeaves, Feed!TypeOK', WorkerType'
    PROVE  TypeOK'
  BY DEF TypeOK, WorkerLeaves, WorkerType, Transaction

LEMMA WorkerTypeNow == TypeOK => WorkerType
  BY DEF TypeOK, WorkerType, Transaction

LEMMA FeedUnchanged ==
    ASSUME TypeOK, UNCHANGED listener, UNCHANGED log
    PROVE  Feed!TypeOK'
  BY DEF TypeOK, listener, Feed!TypeOK

LEMMA RequestIn == TypeOK /\ ev # 0 => request \in Requests /\ ev \in DOMAIN log
  <1> SUFFICES ASSUME TypeOK, ev # 0 PROVE request \in Requests /\ ev \in DOMAIN log
    OBVIOUS
  <1>1. Len(log) \in Nat /\ ev \in 1 .. Len(log)
    BY DEF TypeOK, Indexes
  <1> QED
    BY <1>1 DEF TypeOK, request

LEMMA ReceiveType ==
    ASSUME TypeOK, Receive
    PROVE  TypeOK'
  <1>1. WorkerLeaves
    BY DEF Receive, WorkerLeaves, chain, contract, process
  <1>2. log' = log /\ slot \in Indexes
    BY DEF Receive, chain, TypeOK, Feed!TypeOK, Indexes
  <1>3. Feed!TypeOK'
    <2>1. Len(log) \in Nat
      BY DEF TypeOK
    <2> QED
      BY <1>2, <2>1
      DEF Receive, Feed!Sent, Feed!Loop, Feed!NoConnection, Feed!arguments,
          Feed!connection, TypeOK, Feed!TypeOK
  <1>4. WorkerType'
    BY <1>2, WorkerTypeNow DEF Receive, WorkerType, store, Indexes
  <1> QED
    BY <1>1, <1>3, <1>4, WorkerStepType

LEMMA CheckType ==
    ASSUME TypeOK, CheckGlobalLimits \/ CheckUserLimits
    PROVE  TypeOK'
  <1>1. WorkerLeaves /\ UNCHANGED <<listener, log>>
    BY DEF CheckGlobalLimits, CheckUserLimits, WorkerLeaves, chain, contract, process
  <1>2. WorkerType'
    BY <1>1, WorkerTypeNow
    DEF CheckGlobalLimits, CheckUserLimits, Verdict, WorkerType, store, Indexes
  <1> QED
    BY <1>1, <1>2, FeedUnchanged, WorkerStepType

LEMMA SubmitType ==
    ASSUME TypeOK, Working, pc = "send", NEW awaited \in BOOLEAN, Submit(awaited)
    PROVE  LET tx == [op |-> verdict, id |-> request, awaited |-> awaited]
           IN  /\ tx \in Transaction
               /\ mempool' = Append(mempool, tx)
               /\ mempool' \in Seq(Transaction)
  <1>1. request \in Requests /\ verdict \in {"finalize", "reject"}
    BY RequestIn DEF Working, Busy
  <1>2. [op |-> verdict, id |-> request, awaited |-> awaited] \in Transaction
    BY <1>1 DEF Transaction
  <1>3. mempool \in Seq(Transaction)
    BY WorkerTypeNow DEF WorkerType
  <1> QED
    BY <1>2, <1>3, AppendProperties DEF Submit

LEMMA SendType ==
    ASSUME TypeOK, Working, Send \/ SendFails \/ SendAnswerLost
    PROVE  TypeOK'
  <1>1. WorkerLeaves /\ UNCHANGED <<listener, log>>
    BY DEF Send, SendFails, SendAnswerLost, Fails, WorkerLeaves, chain, contract, process
  <1>2. mempool' \in Seq(Transaction)
    BY SubmitType, WorkerTypeNow DEF Send, SendFails, SendAnswerLost, Fails, WorkerType
  <1>3. WorkerType'
    BY <1>1, <1>2, WorkerTypeNow
    DEF Send, SendFails, SendAnswerLost, Fails, WorkerType, store, Indexes, Decisions
  <1> QED
    BY <1>1, <1>3, FeedUnchanged, WorkerStepType

LEMMA WaitType ==
    ASSUME TypeOK, WaitMined \/ WaitCancelled
    PROVE  TypeOK'
  <1>1. WorkerLeaves /\ UNCHANGED <<listener, log>>
    BY DEF WaitMined, WaitCancelled, Fails, WorkerLeaves, chain, contract, process
  <1>2. mempool' \in Seq(Transaction)
    BY ForgetType, WorkerTypeNow DEF WaitMined, WaitCancelled, WorkerType
  <1>3. WorkerType'
    BY <1>1, <1>2, WorkerTypeNow
    DEF WaitMined, WaitCancelled, Fails, NotFinalized, WorkerType, store, Indexes, Decisions
  <1> QED
    BY <1>1, <1>3, FeedUnchanged, WorkerStepType

LEMMA RecordType ==
    ASSUME TypeOK, Working, Record \/ RecordEvent
    PROVE  TypeOK'
  <1>1. WorkerLeaves /\ UNCHANGED <<listener, log>>
    BY DEF Record, RecordEvent, WorkerLeaves, chain, contract, process
  <1>2. request \in Requests
    BY RequestIn DEF Record, RecordEvent, Working, Busy
  <1>3. withdrawals' \subseteq [id : Requests, at : 0 .. MaxTime]
    BY <1>2 DEF Record, RecordEvent, Save, TypeOK
  <1>4. events' \in [Requests -> Decisions \union {"none"}]
    BY <1>2 DEF Record, RecordEvent, RecordWithdrawEvent, TypeOK
  <1>5. cursor' \in Indexes /\ ev' \in Indexes
    BY DEF Record, RecordEvent, RecordWithdrawEvent, TypeOK, Indexes
  <1>6. WorkerType'
    BY <1>1, <1>3, <1>4, <1>5, WorkerTypeNow
    DEF Record, RecordEvent, WorkerType, Indexes, Decisions
  <1> QED
    BY <1>1, <1>6, FeedUnchanged, WorkerStepType

LEMMA StutterType ==
    ASSUME TypeOK, UNCHANGED vars
    PROVE  TypeOK'
  <1>1. UNCHANGED <<listener, log>> /\ WorkerLeaves
    BY DEF vars, chain, contract, listener, process, WorkerLeaves
  <1>2. WorkerType'
    BY WorkerTypeNow DEF WorkerType, vars, chain, store, worker, Indexes
  <1> QED
    BY <1>1, <1>2, FeedUnchanged, WorkerStepType

LEMMA StepType ==
    ASSUME TypeOK, Working, [Next]_vars
    PROVE  TypeOK'
  <1>1. ASSUME NEW r \in Requests, Start(r) PROVE TypeOK'
    BY <1>1, StartType
  <1>2. ASSUME NEW r \in Requests, RejectExpired(r) PROVE TypeOK'
    BY <1>2, RejectExpiredType
  <1>3. ASSUME NEW r \in Requests, NEW s \in Signers, Approve(s, r) PROVE TypeOK'
    BY <1>3, ApproveType
  <1>4. CASE Mine
    BY <1>4, MineType
  <1>5. CASE Tick
    BY <1>5, TickType
  <1>6. CASE Boot
    BY <1>6, BootType
  <1>7. CASE Crash \/ Exit
    BY <1>7, EndsType DEF Crash, Exit
  <1>8. CASE Interrupt
    BY <1>8, InterruptType
  <1>9. CASE Disconnect \/ OtherLog \/ Return \/ Listen
    BY <1>9, ListenerStepType
    DEF Disconnect, OtherLog, Return, Listen, ReadHeader, Subscribe, OfferHistorical,
        OfferLive, FeedStep
  <1>10. CASE Work
    BY <1>10, ReceiveType, CheckType, SendType, WaitType, RecordType DEF Work
  <1>11. CASE UNCHANGED vars
    BY <1>11, StutterType
  <1> QED
    BY <1>1, <1>2, <1>3, <1>4, <1>5, <1>6, <1>7, <1>8, <1>9, <1>10, <1>11 DEF Next

-----------------------------------------------------------------------------
(***************************************************************************)
(* The contract: what is granted stays granted, and a SimpleCustody pays   *)
(* with the grant.                                                         *)
(***************************************************************************)
LEMMA ApprovalsFinite ==
    ASSUME TypeOK, NEW r \in Requests
    PROVE  /\ IsFiniteSet(Signers) /\ Cardinality(Signers) \in Nat
           /\ approvals[r] \in SUBSET Signers
           /\ IsFiniteSet(approvals[r])
           /\ Cardinality(approvals[r]) \in Nat
           /\ Cardinality(approvals[r]) <= Cardinality(Signers)
  <1>1. approvals[r] \in SUBSET Signers
    BY DEF TypeOK
  <1>2. IsFiniteSet(Signers)
    BY NitewatchAssumption
  <1> QED
    BY <1>1, <1>2, FS_Subset, FS_CardinalityType

StayGranted ==
    \A r \in Requests : grantedAt[r] # -1 => grantedAt'[r] = grantedAt[r]

LEMMA MineFinalizeGrants ==
    ASSUME TypeOK, Grants, MineFinalize
    PROVE  /\ Head(mempool).id \in Requests
           /\ grantedAt' = [grantedAt EXCEPT ![Head(mempool).id] = clock]
           /\ StayGranted
           /\ Grants'
  <1> DEFINE r == Head(mempool).id
  <1>1. r \in Requests
    BY HeadType DEF MineFinalize, MineNext
  <1> HIDE DEF r
  <1>2. /\ Mineable("finalize", r) /\ CountApproval(r)
        /\ grantedAt' = [grantedAt EXCEPT ![r] = clock]
        /\ UNCHANGED <<quorum, clock>>
    BY DEF MineFinalize, MineNext, r
  <1>3. grantedAt \in [Requests -> -1 .. MaxTime] /\ clock \in Nat
    BY NitewatchAssumption DEF TypeOK
  <1>4. StayGranted
    BY <1>1, <1>2, <1>3 DEF StayGranted, Mineable
  <1>5. ASSUME SimpleCustody
        PROVE  stage' = [stage EXCEPT ![r] = "paid"]
    <2>1. Cardinality(approvals[r]) \in Nat
      BY <1>1, ApprovalsFinite
    <2>2. Completes(r)
      BY <1>5, <2>1 DEF Completes, Approvals, SimpleCustody
    <2> QED
      BY <1>2, <2>2 DEF CountApproval, Execute, Contract!Pay
  <1>6. stage \in [Requests -> Contract!Stages]
    BY DEF TypeOK
  <1>7. ASSUME NEW q \in Requests
        PROVE  /\ grantedAt'[q] <= clock'
               /\ SimpleCustody' /\ grantedAt'[q] # -1 => stage'[q] = "paid"
    <2>1. CASE q = r
      BY <1>1, <1>2, <1>3, <1>5, <1>6, <2>1 DEF SimpleCustody
    <2>2. CASE q # r
      <3>1. grantedAt'[q] = grantedAt[q]
        BY <1>2, <1>3, <2>2
      <3>2. SimpleCustody => stage'[q] = stage[q]
        BY <1>5, <1>6, <2>2
      <3> QED
        BY <1>2, <3>1, <3>2 DEF Grants, SimpleCustody
    <2> QED
      BY <2>1, <2>2
  <1>8. Grants'
    BY <1>7 DEF Grants
  <1> QED
    BY <1>1, <1>2, <1>4, <1>8 DEF r

\* The other changes of a stage start from "none" or "pending", and grant nothing.
LEMMA NotGranting ==
    ASSUME TypeOK, Grants, UNCHANGED <<grantedAt, quorum, clock>>,
           \/ UNCHANGED stage
           \/ ~SimpleCustody
           \/ \E r \in Requests, to \in {"pending", "rejected"} :
                 stage[r] # "paid" /\ stage' = [stage EXCEPT ![r] = to]
    PROVE  StayGranted /\ Grants'
  BY DEF StayGranted, Grants, SimpleCustody, TypeOK

LEMMA StepGrants ==
    ASSUME TypeOK, Grants, [Next]_vars
    PROVE  StayGranted /\ Grants'
  <1>1. ASSUME NEW r \in Requests, Start(r) PROVE StayGranted /\ Grants'
    BY <1>1, NotGranting DEF Start, Contract!Start
  <1>2. ASSUME NEW r \in Requests, RejectExpired(r) PROVE StayGranted /\ Grants'
    BY <1>2, NotGranting DEF RejectExpired
  <1>3. ASSUME NEW r \in Requests, NEW s \in Signers, Approve(s, r)
        PROVE  StayGranted /\ Grants'
    BY <1>3, NotGranting DEF Approve
  <1>4. CASE MineFinalize
    BY <1>4, MineFinalizeGrants
  <1>5. CASE MineReject
    <2>1. Head(mempool).id \in Requests
      BY <1>5, HeadType DEF MineReject, MineNext
    <2> QED
      BY <1>5, <2>1, NotGranting DEF MineReject, MineNext, Contract!Reject
  <1>6. CASE MineRevert
    BY <1>6, NotGranting DEF MineRevert, MineNext
  <1>7. CASE Tick
    <2>1. clock \in Nat /\ grantedAt \in [Requests -> -1 .. MaxTime] /\ MaxTime \in Nat
      BY NitewatchAssumption DEF TypeOK
    <2> QED
      BY <1>7, <2>1 DEF Tick, chain, contract, StayGranted, Grants, SimpleCustody
  <1>8. CASE UNCHANGED <<contract, clock>>
    BY <1>8, NotGranting DEF contract
  <1>9. CASE Boot \/ Crash \/ Exit \/ Interrupt
    BY <1>8, <1>9 DEF Boot, Crash, Exit, Ends, Interrupt, chain
  <1>10. CASE Disconnect \/ OtherLog \/ Return \/ Listen
    BY <1>8, <1>10
    DEF Disconnect, OtherLog, Return, Listen, ReadHeader, Subscribe, OfferHistorical,
        OfferLive, ListenerStep, chain
  <1>11. CASE Work
    BY <1>8, <1>11
    DEF Work, Receive, CheckGlobalLimits, CheckUserLimits, Send, SendFails, SendAnswerLost,
        Fails, WaitMined, WaitCancelled, Record, RecordEvent, chain
  <1>12. CASE UNCHANGED vars
    BY <1>8, <1>12 DEF vars, chain
  <1> QED
    BY <1>1, <1>2, <1>3, <1>4, <1>5, <1>6, <1>7, <1>9, <1>10, <1>11, <1>12 DEF Next, Mine

-----------------------------------------------------------------------------
(***************************************************************************)
(* The worker and its transactions.                                        *)
(***************************************************************************)
\* The log only grows, so that an event stays the request it was.
LEMMA StepLog ==
    ASSUME TypeOK, [Next]_vars
    PROVE  \A i \in DOMAIN log : i \in DOMAIN log' /\ log'[i] = log[i]
  <1>1. CASE \E r \in Requests : log' = Append(log, r)
    BY <1>1, AppendProperties, LenProperties DEF TypeOK
  <1>2. CASE UNCHANGED log
    BY <1>2
  <1> QED
    BY <1>1, <1>2
    DEF Next, Start, RejectExpired, Approve, Mine, MineFinalize, MineReject, MineRevert,
        MineNext, Tick, Boot, Crash, Exit, Ends, Interrupt, Disconnect, OtherLog, Return,
        Listen, ReadHeader, Subscribe, OfferHistorical, OfferLive, ListenerStep, Work,
        Receive, CheckGlobalLimits, CheckUserLimits, Send, SendFails, SendAnswerLost, Fails,
        WaitMined, WaitCancelled, Record, RecordEvent, vars, chain

Knows == TypeOK /\ Working /\ Awaiting /\ Grants

\* A step that is not the worker's, and mines nothing.
LEMMA OthersKeepWorking ==
    ASSUME Knows, TypeOK', StayGranted, [Next]_vars, UNCHANGED <<mempool, worker>>
    PROVE  Working' /\ Awaiting'
  <1>1. ev # 0 => request \in Requests /\ request' = request
    BY RequestIn, StepLog DEF Knows, request, worker
  <1>2. Working'
    BY <1>1 DEF Knows, Working, worker, StayGranted, Busy
  <1>3. pc = "wait" => ev # 0
    BY DEF Knows, Working, Busy
  <1>4. Awaiting'
    BY <1>1, <1>3 DEF Knows, Awaiting, worker
  <1> QED
    BY <1>2, <1>4

LEMMA MineKeepsWorking ==
    ASSUME Knows, TypeOK', StayGranted, [Next]_vars, Mine
    PROVE  Working' /\ Awaiting'
  <1>1. PICK status \in {"ok", "reverted"} : MineNext(status)
    BY DEF Mine, MineFinalize, MineReject, MineRevert
  <1> DEFINE tx == Head(mempool)
  <1>2. /\ tx = mempool[1] /\ 1 \in DOMAIN mempool
        /\ \A i \in DOMAIN mempool' : /\ mempool'[i] = mempool[i + 1]
                                      /\ i + 1 \in DOMAIN mempool /\ i + 1 # 1
                                      /\ i \in Nat
    BY <1>1, HeadType DEF Knows, MineNext
  <1>3. /\ UNCHANGED <<pc, ev, verdict, decision, log>>
        /\ receipt' = IF tx.awaited THEN status ELSE receipt
    BY <1>1 DEF MineNext
  <1>4. request' = request /\ (ev # 0 => request \in Requests)
    BY <1>3, RequestIn DEF request, Knows
  <1>5. ASSUME tx.awaited
        PROVE  pc = "wait" /\ tx.id = request /\ tx.op = verdict
    BY <1>2, <1>5 DEF Knows, Awaiting
  <1>6. ASSUME tx.awaited, status = "ok", verdict = "finalize"
        PROVE  grantedAt'[request] # -1
    <2>1. MineFinalize
      BY <1>1, <1>3, <1>5, <1>6 DEF Mine, MineReject, MineRevert, MineNext
    <2>2. /\ tx.id \in Requests
          /\ grantedAt' = [grantedAt EXCEPT ![tx.id] = clock]
      BY <2>1, MineFinalizeGrants DEF Knows
    <2>3. grantedAt \in [Requests -> -1 .. MaxTime] /\ clock \in Nat
      BY NitewatchAssumption DEF Knows, TypeOK
    <2> QED
      BY <1>5, <1>6, <2>2, <2>3
  <1>7. Working'
    BY <1>3, <1>4, <1>5, <1>6 DEF Knows, Working, StayGranted, Busy
  <1>8. ASSUME NEW i \in DOMAIN mempool', mempool'[i].awaited
        PROVE  /\ pc' = "wait" /\ receipt' = "none"
               /\ mempool'[i].id = request' /\ mempool'[i].op = verdict'
               /\ \A j \in DOMAIN mempool' : mempool'[j].awaited => i = j
    <2>1. mempool[i + 1].awaited /\ i + 1 \in DOMAIN mempool
      BY <1>2, <1>8
    <2>2. ~tx.awaited
      BY <1>2, <2>1 DEF Knows, Awaiting
    <2>3. /\ pc = "wait" /\ receipt = "none"
          /\ mempool[i + 1].id = request /\ mempool[i + 1].op = verdict
          /\ \A j \in DOMAIN mempool : mempool[j].awaited => i + 1 = j
      BY <2>1 DEF Knows, Awaiting
    <2> QED
      BY <1>2, <1>3, <1>4, <2>2, <2>3
  <1>9. Awaiting'
    BY <1>8 DEF Awaiting
  <1> QED
    BY <1>7, <1>9

LEMMA NoneAwaited ==
    ASSUME Knows, pc # "wait" \/ receipt # "none"
    PROVE  \A i \in DOMAIN mempool : ~mempool[i].awaited
  BY DEF Knows, Awaiting

\* When it gives up waiting, or the process ends, nothing is awaited any more.
LEMMA Forgotten ==
    ASSUME TypeOK,
           mempool' = [i \in DOMAIN mempool |-> [mempool[i] EXCEPT !.awaited = FALSE]]
    PROVE  Awaiting'
  <1>1. mempool \in Seq(Transaction)
    BY WorkerTypeNow DEF WorkerType
  <1>2. DOMAIN mempool' = DOMAIN mempool
    OBVIOUS
  <1>3. \A i \in DOMAIN mempool' : mempool'[i].awaited = FALSE
    BY <1>1, <1>2, ForgetType
  <1> QED
    BY <1>3 DEF Awaiting

LEMMA WorkKeepsWorking ==
    ASSUME Knows, TypeOK', Work
    PROVE  Working' /\ Awaiting'
  <1>1. UNCHANGED <<log, grantedAt>>
    BY DEF Work, Receive, CheckGlobalLimits, CheckUserLimits, Send, SendFails,
           SendAnswerLost, Fails, WaitMined, WaitCancelled, Record, RecordEvent, chain,
           contract
  <1>2. CASE Receive \/ CheckGlobalLimits \/ CheckUserLimits
    <2>1. pc # "wait" /\ UNCHANGED mempool
      BY <1>2 DEF Receive, CheckGlobalLimits, CheckUserLimits
    <2>2. Awaiting'
      BY <2>1, NoneAwaited DEF Awaiting
    <2>3. Working'
      BY <1>2
      DEF Receive, CheckGlobalLimits, CheckUserLimits, Verdict, Knows, Working, Busy,
          Feed!Sent
    <2> QED
      BY <2>2, <2>3
  <1>3. CASE Send
    <2>1. /\ pc = "send" /\ pc' = "wait" /\ receipt' = "none" /\ Submit(TRUE)
          /\ UNCHANGED <<ev, verdict, decision>>
      BY <1>3 DEF Send
    <2>2. request' = request
      BY <1>1, <2>1 DEF request
    <2>3. Working'
      BY <2>1 DEF Knows, Working, Busy
    <2>4. \A i \in DOMAIN mempool : ~mempool[i].awaited
      BY <2>1, NoneAwaited
    <2>5. PICK tx \in Transaction : /\ tx.id = request /\ tx.op = verdict
                                    /\ mempool' = Append(mempool, tx)
      BY <2>1, SubmitType DEF Knows
    <2>6. mempool \in Seq(Transaction)
      BY WorkerTypeNow DEF Knows, WorkerType
    <2>7. /\ DOMAIN mempool = 1 .. Len(mempool) /\ Len(mempool) \in Nat
          /\ DOMAIN mempool' = 1 .. Len(mempool) + 1
          /\ \A i \in 1 .. Len(mempool) : mempool'[i] = mempool[i]
          /\ mempool'[Len(mempool) + 1] = tx
      BY <2>5, <2>6, AppendProperties, LenProperties
    <2>8. \A i \in DOMAIN mempool' : mempool'[i].awaited => i = Len(mempool) + 1
      BY <2>4, <2>7
    <2>9. Awaiting'
      BY <2>1, <2>2, <2>5, <2>7, <2>8 DEF Awaiting
    <2> QED
      BY <2>3, <2>9
  <1>4. CASE SendFails
    <2>1. pc = "send" /\ UNCHANGED mempool
      BY <1>4 DEF SendFails
    <2>2. Awaiting'
      BY <2>1, NoneAwaited DEF Awaiting
    <2> QED
      BY <1>4, <2>2 DEF SendFails, Fails, Knows, Working, Busy
  <1>5. CASE SendAnswerLost
    <2>1. pc = "send" /\ Submit(FALSE)
      BY <1>5 DEF SendAnswerLost
    <2>2. \A i \in DOMAIN mempool : ~mempool[i].awaited
      BY <2>1, NoneAwaited
    <2>3. PICK tx \in Transaction : /\ tx.awaited = FALSE
                                    /\ mempool' = Append(mempool, tx)
      BY <2>1, SubmitType DEF Knows
    <2>4. mempool \in Seq(Transaction)
      BY WorkerTypeNow DEF Knows, WorkerType
    <2>5. \A i \in DOMAIN mempool' : ~mempool'[i].awaited
      BY <2>2, <2>3, <2>4, AppendProperties, LenProperties
    <2>6. Awaiting'
      BY <2>5 DEF Awaiting
    <2> QED
      BY <1>5, <2>6 DEF SendAnswerLost, Fails, Knows, Working, Busy
  <1>6. CASE WaitMined
    <2>1. pc = "wait" /\ receipt # "none" /\ UNCHANGED <<mempool, ev, verdict>>
      BY <1>6 DEF WaitMined
    <2>2. Awaiting'
      BY <2>1, NoneAwaited DEF Awaiting
    <2>3. request' = request
      BY <1>1, <2>1 DEF request
    <2>4. pc' \in {"record", "store"}
      BY <1>6 DEF WaitMined
    <2>5. pc' = "record" => grantedAt[request] # -1
      BY <1>6, <2>1 DEF WaitMined, Finalized, Knows, Working
    <2>6. pc' = "store" => decision' \in {"rejected", "error"}
      BY <1>6 DEF WaitMined, NotFinalized
    <2>7. Working'
      BY <1>1, <2>1, <2>3, <2>4, <2>5, <2>6 DEF Knows, Working, Busy
    <2> QED
      BY <2>2, <2>7
  <1>7. CASE WaitCancelled
    <2>1. Awaiting'
      BY <1>7, Forgotten DEF WaitCancelled, Knows
    <2> QED
      BY <1>7, <2>1 DEF WaitCancelled, Fails, Knows, Working, Busy
  <1>8. CASE Record
    <2>1. pc = "record" /\ UNCHANGED <<mempool, ev>>
      BY <1>8 DEF Record
    <2>2. Awaiting'
      BY <2>1, NoneAwaited DEF Awaiting
    <2>3. request' = request
      BY <1>1, <2>1 DEF request
    <2> QED
      BY <1>1, <1>8, <2>2, <2>3 DEF Record, Knows, Working, Busy
  <1>9. CASE RecordEvent
    <2>1. pc = "store" /\ UNCHANGED mempool
      BY <1>9 DEF RecordEvent
    <2>2. Awaiting'
      BY <2>1, NoneAwaited DEF Awaiting
    <2> QED
      BY <1>9, <2>2 DEF RecordEvent, Knows, Working, Busy
  <1> QED
    BY <1>2, <1>3, <1>4, <1>5, <1>6, <1>7, <1>8, <1>9 DEF Work

LEMMA StepWorking ==
    ASSUME Knows, [Next]_vars
    PROVE  Knows' /\ StayGranted
  <1>1. TypeOK' /\ StayGranted /\ Grants'
    BY StepType, StepGrants DEF Knows
  <1>2. CASE Mine
    BY <1>1, <1>2, MineKeepsWorking DEF Knows
  <1>3. CASE Work
    BY <1>1, <1>3, WorkKeepsWorking DEF Knows
  <1>4. CASE UNCHANGED <<mempool, worker>>
    BY <1>1, <1>4, OthersKeepWorking DEF Knows
  <1>5. CASE Boot
    <2>1. pc = "down" /\ pc' = "idle" /\ UNCHANGED mempool
      BY <1>5 DEF Boot
    <2>2. Awaiting'
      BY <2>1, NoneAwaited DEF Awaiting
    <2> QED
      BY <1>1, <2>1, <2>2 DEF Knows, Working, Busy
  <1>6. CASE Crash \/ Exit
    <2>1. Awaiting'
      BY <1>6, Forgotten DEF Crash, Exit, Ends, Knows
    <2> QED
      BY <1>1, <1>6, <2>1 DEF Crash, Exit, Ends, Knows, Working, Busy
  <1> QED
    BY <1>2, <1>3, <1>4, <1>5, <1>6
    DEF Next, Start, RejectExpired, Approve, Tick, Interrupt, Disconnect, OtherLog, Return,
        Listen, ReadHeader, Subscribe, OfferHistorical, OfferLive, ListenerStep, vars

-----------------------------------------------------------------------------
(***************************************************************************)
(* The database.                                                           *)
(***************************************************************************)
\* Rows and approvals stand for grants; that a SimpleCustody has then paid is in Grants.
Recorded ==
    \A r \in Requests :
        (\E w \in withdrawals : w.id = r) \/ events[r] = "approved" =>
            /\ grantedAt[r] # -1
            /\ \A w \in withdrawals : w.id = r => grantedAt[r] <= w.at

LEMMA RecordedPaid ==
    ASSUME TypeOK, Grants
    PROVE  Recorded <=> RecordsArePaid
  BY DEF Recorded, RecordsArePaid, Grants

\* A step that does not touch the database.
LEMMA StoreUnchanged ==
    ASSUME TypeOK, TypeOK', Recorded, CursorDecided, StayGranted, [Next]_vars, UNCHANGED store
    PROVE  Recorded' /\ CursorDecided'
  <1>1. Recorded'
    BY DEF Recorded, StayGranted, store
  <1>2. cursor # 0 => cursor \in DOMAIN log
    BY DEF TypeOK, Indexes
  <1>3. CursorDecided'
    BY <1>2, StepLog DEF CursorDecided, store
  <1> QED
    BY <1>1, <1>3

LEMMA RecordKeeps ==
    ASSUME Knows, Recorded, CursorDecided, StayGranted, Record
    PROVE  Recorded' /\ CursorDecided'
  <1>1. /\ pc = "record" /\ Save(request)
        /\ UNCHANGED <<log, clock, grantedAt, events, cursor>>
    BY DEF Record, chain, contract
  <1>2. request \in Requests /\ grantedAt[request] # -1 /\ grantedAt[request] <= clock
    BY <1>1, RequestIn DEF Knows, Working, Busy, Grants
  <1>3. \/ UNCHANGED withdrawals
        \/ withdrawals' = withdrawals \union {[id |-> request, at |-> clock]}
    BY <1>1 DEF Save
  <1>4. Recorded'
    BY <1>1, <1>2, <1>3 DEF Recorded
  <1>5. CursorDecided'
    BY <1>1 DEF CursorDecided
  <1> QED
    BY <1>4, <1>5

LEMMA RecordEventKeeps ==
    ASSUME Knows, Recorded, CursorDecided, StayGranted, RecordEvent
    PROVE  Recorded' /\ CursorDecided'
  <1>1. CASE UNCHANGED <<events, cursor>>
    BY <1>1 DEF RecordEvent, chain, contract, Recorded, CursorDecided
  <1>2. CASE RecordWithdrawEvent
    <2>1. pc = "store" /\ UNCHANGED <<log, grantedAt, withdrawals>>
      BY DEF RecordEvent, chain, contract
    <2>2. /\ request \in Requests /\ ev # 0 /\ decision # "none"
          /\ decision = "approved" => grantedAt[request] # -1
      BY <2>1, RequestIn DEF Knows, Working, Busy
    <2>3. events \in [Requests -> Decisions \union {"none"}]
      BY DEF Knows, TypeOK
    <2>4. \A r \in Requests : events'[r] = events[r] \/ (r = request /\ events'[r] = decision)
      BY <1>2, <2>2, <2>3 DEF RecordWithdrawEvent
    <2>5. Recorded'
      <3> SUFFICES ASSUME NEW r \in Requests,
                          (\E w \in withdrawals : w.id = r) \/ events'[r] = "approved"
                   PROVE  /\ grantedAt[r] # -1
                          /\ \A w \in withdrawals : w.id = r => grantedAt[r] <= w.at
        BY <2>1 DEF Recorded
      <3> QED
        BY <2>2, <2>4 DEF Recorded
    <2>6. events'[request] # "none"
      BY <1>2, <2>2, <2>3 DEF RecordWithdrawEvent
    <2>7. CursorDecided'
      BY <1>2, <2>1, <2>6 DEF RecordWithdrawEvent, CursorDecided, request
    <2> QED
      BY <2>5, <2>7
  <1> QED
    BY <1>1, <1>2 DEF RecordEvent

LEMMA InitInv == Init => Inv
  <1> SUFFICES ASSUME Init PROVE Inv
    OBVIOUS
  <1>1. TypeOK
    BY InitType
  <1>2. Working /\ Awaiting
    BY DEF Init, Working, Awaiting, Busy
  <1>3. Grants /\ RecordsArePaid /\ CursorDecided
    BY DEF Init, Grants, RecordsArePaid, CursorDecided
  <1> QED
    BY <1>1, <1>2, <1>3 DEF Inv

LEMMA StepInv == Inv /\ [Next]_vars => Inv'
  <1> SUFFICES ASSUME Inv, [Next]_vars PROVE Inv'
    OBVIOUS
  <1>1. Knows /\ Recorded /\ CursorDecided
    BY RecordedPaid DEF Inv, Knows
  <1>2. Knows' /\ StayGranted
    BY <1>1, StepWorking
  <1>3. ASSUME UNCHANGED store PROVE Recorded' /\ CursorDecided'
    BY <1>1, <1>2, <1>3, StoreUnchanged DEF Knows
  <1>4. ASSUME Record PROVE Recorded' /\ CursorDecided'
    BY <1>1, <1>2, <1>4, RecordKeeps
  <1>5. ASSUME RecordEvent PROVE Recorded' /\ CursorDecided'
    BY <1>1, <1>2, <1>5, RecordEventKeeps
  <1>6. Recorded' /\ CursorDecided'
    BY <1>3, <1>4, <1>5
    DEF Next, Start, RejectExpired, Approve, Mine, MineFinalize, MineReject, MineRevert,
        MineNext, Tick, Boot, Crash, Exit, Ends, Interrupt, Disconnect, OtherLog, Return,
        Listen, ReadHeader, Subscribe, OfferHistorical, OfferLive, ListenerStep, Work,
        Receive, CheckGlobalLimits, CheckUserLimits, Send, SendFails, SendAnswerLost, Fails,
        WaitMined, WaitCancelled, vars
  <1>7. RecordsArePaid'
    BY <1>2, <1>6, RecordedPaid DEF Knows, Recorded, RecordsArePaid, Grants
  <1> QED
    BY <1>2, <1>6, <1>7 DEF Inv, Knows

THEOREM Invariance == Spec => []Inv
  BY InitInv, StepInv, PTL DEF Spec

\* The daemon's variables keep their types, under every fault.
THEOREM TypeCorrect == Spec => []TypeOK
  <1>1. Inv => TypeOK
    BY DEF Inv
  <1> QED
    BY <1>1, Invariance, PTL

\* A row or an approval in the database stands for a payment or an approval on the
\* chain that is no younger, whatever faults, restarts and redeliveries there were.
THEOREM RecordsStandForPayments == Spec => []RecordsArePaid
  <1>1. Inv => RecordsArePaid
    BY DEF Inv
  <1> QED
    BY <1>1, Invariance, PTL

\* The cursor in the database always names an event that has a decision, since both are
\* written in one transaction.
THEOREM CursorIsDecided == Spec => []CursorDecided
  <1>1. Inv => CursorDecided
    BY DEF Inv
  <1> QED
    BY <1>1, Invariance, PTL

-----------------------------------------------------------------------------
(***************************************************************************)
(* The other signers.                                                      *)
(***************************************************************************)
\* An approval of another signer completes no quorum that the daemon is needed for.
LEMMA ApproveNeedsDaemon ==
    ASSUME TypeOK, PaidIsGranted, NEW r \in Requests, NEW s \in Signers, Approve(s, r)
    PROVE  PaidIsGranted'
  <1>1. UNCHANGED <<quorum, grantedAt>> /\ ~SimpleCustody
    BY DEF Approve
  <1>2. ASSUME Cardinality(Signers) < quorum, Completes(r)
        PROVE  grantedAt[r] # -1
    <2>1. /\ IsFiniteSet(approvals[r]) /\ Cardinality(approvals[r]) \in Nat
          /\ approvals[r] \union {s} \in SUBSET Signers
          /\ IsFiniteSet(Signers) /\ Cardinality(Signers) \in Nat
      BY ApprovalsFinite
    <2>2. Cardinality(approvals[r] \union {s}) <= Cardinality(Signers)
      BY <2>1, FS_Subset
    <2>3. Cardinality(approvals[r] \union {s}) = Cardinality(approvals[r]) + 1
      BY <2>1, FS_AddElement DEF Approve
    <2>4. quorum \in Nat
      BY NitewatchAssumption DEF TypeOK
    <2>5. Approvals(r) + 1 >= quorum
      BY <1>2 DEF Completes
    <2> QED
      BY <1>2, <2>1, <2>2, <2>3, <2>4, <2>5 DEF Approvals
  <1>3. \A q \in Requests : stage'[q] = "paid" =>
            stage[q] = "paid" \/ (q = r /\ Completes(r))
    BY DEF Approve, CountApproval, Execute, Contract!Pay, TypeOK
  <1> QED
    BY <1>1, <1>2, <1>3 DEF PaidIsGranted, SimpleCustody

LEMMA StepPaidIsGranted ==
    ASSUME Knows, PaidIsGranted, [Next]_vars
    PROVE  PaidIsGranted'
  <1>1. StayGranted /\ TypeOK
    BY StepGrants DEF Knows
  <1>2. ASSUME NEW r \in Requests, NEW s \in Signers, Approve(s, r)
        PROVE  PaidIsGranted'
    BY <1>1, <1>2, ApproveNeedsDaemon
  <1>3. ASSUME MineFinalize
        PROVE  PaidIsGranted'
    <2> DEFINE r == Head(mempool).id
    <2>1. r \in Requests /\ grantedAt' = [grantedAt EXCEPT ![r] = clock]
      BY <1>3, MineFinalizeGrants DEF Knows
    <2>2. grantedAt \in [Requests -> -1 .. MaxTime] /\ clock \in Nat
      BY <1>1, NitewatchAssumption DEF TypeOK
    <2>3. /\ CountApproval(r)
          /\ UNCHANGED quorum
      BY <1>3 DEF MineFinalize, MineNext
    <2> HIDE DEF r
    <2>4. \A q \in Requests : stage'[q] = "paid" => stage[q] = "paid" \/ q = r
      BY <1>1, <2>1, <2>3 DEF CountApproval, Execute, Contract!Pay, TypeOK
    <2>5. \A q \in Requests : grantedAt'[q] = IF q = r THEN clock ELSE grantedAt[q]
      BY <2>1, <2>2
    <2> QED
      BY <2>2, <2>3, <2>4, <2>5 DEF PaidIsGranted, SimpleCustody
  <1>4. ASSUME UNCHANGED quorum, StayGranted,
               \/ UNCHANGED stage
               \/ \E r \in Requests, to \in {"pending", "rejected"} :
                     stage' = [stage EXCEPT ![r] = to]
        PROVE  PaidIsGranted'
    <2>1. \A q \in Requests : stage'[q] = "paid" => stage[q] = "paid"
      BY <1>1, <1>4 DEF TypeOK
    <2> QED
      BY <1>4, <2>1 DEF PaidIsGranted, StayGranted, SimpleCustody
  <1>5. ASSUME NEW r \in Requests, Start(r) \/ RejectExpired(r)
        PROVE  PaidIsGranted'
    BY <1>1, <1>4, <1>5 DEF Start, RejectExpired, Contract!Start, Contract!Reject
  <1>6. ASSUME MineReject
        PROVE  PaidIsGranted'
    <2>1. Head(mempool).id \in Requests
      BY <1>1, <1>6, HeadType DEF MineReject, MineNext
    <2> QED
      BY <1>1, <1>4, <1>6, <2>1 DEF MineReject, MineNext, Contract!Reject
  <1>7. ASSUME UNCHANGED <<stage, quorum>>
        PROVE  PaidIsGranted'
    BY <1>1, <1>4, <1>7
  <1> QED
    BY <1>2, <1>3, <1>5, <1>6, <1>7
    DEF Next, Mine, MineRevert, MineNext, Tick, Boot, Crash, Exit, Ends, Interrupt,
        Disconnect, OtherLog, Return, Listen, ReadHeader, Subscribe, OfferHistorical,
        OfferLive, ListenerStep, Work, Receive, CheckGlobalLimits, CheckUserLimits, Send,
        SendFails, SendAnswerLost, Fails, WaitMined, WaitCancelled, Record, RecordEvent,
        vars, chain, contract

\* Where the other signers are fewer than the quorum, and in a SimpleCustody, whose only
\* NITEWATCH_ROLE the daemon has, no withdrawal is paid that the daemon did not approve.
THEOREM NothingPaidWithoutTheDaemon == Spec => []PaidIsGranted
  <1>1. Init => Inv /\ PaidIsGranted
    BY InitInv DEF Init, PaidIsGranted
  <1>2. Inv /\ PaidIsGranted /\ [Next]_vars => Inv' /\ PaidIsGranted'
    BY StepInv, StepPaidIsGranted DEF Inv, Knows
  <1> QED
    BY <1>1, <1>2, PTL DEF Spec

-----------------------------------------------------------------------------
(***************************************************************************)
(* What is sent.                                                           *)
(***************************************************************************)
\* HasWithdrawEvent is asked once, before the checks, and nobody else decides meanwhile.
Undecided == pc \in {"global", "user", "send"} => events[request] = "none"

LEMMA StepUndecided ==
    ASSUME Knows, Undecided, [Next]_vars, "dbread" \notin Faults
    PROVE  Undecided'
  <1>1. TypeOK /\ (ev # 0 => request \in Requests /\ ev \in DOMAIN log)
    BY RequestIn DEF Knows
  <1>2. CASE Receive
    <2>1. log' = log /\ events' = events
      BY <1>2 DEF Receive, chain, store
    <2> QED
      BY <1>1, <1>2, <2>1 DEF Receive, Undecided, HasWithdrawEvent, Fault, request
  <1>3. CASE CheckGlobalLimits \/ CheckUserLimits
    BY <1>1, <1>3
    DEF CheckGlobalLimits, CheckUserLimits, Verdict, Undecided, chain, store, request
  <1>4. CASE pc' \notin {"global", "user", "send"}
    BY <1>4 DEF Undecided
  <1>5. CASE UNCHANGED <<worker, store>>
    <2>1. CASE pc \in {"global", "user", "send"}
      <3>1. request' = request
        BY <1>1, <1>5, <2>1, StepLog DEF Knows, Working, Busy, worker, request
      <3> QED
        BY <1>5, <3>1 DEF Undecided, worker, store
    <2>2. CASE pc \notin {"global", "user", "send"}
      BY <1>5, <2>2 DEF Undecided, worker
    <2> QED
      BY <2>1, <2>2
  <1>6. CASE Mine
    <2>1. UNCHANGED <<pc, ev, log, events>>
      BY <1>6 DEF Mine, MineFinalize, MineReject, MineRevert, MineNext, store
    <2> QED
      BY <2>1 DEF Undecided, request
  <1> QED
    BY <1>2, <1>3, <1>4, <1>5, <1>6
    DEF Next, Start, RejectExpired, Approve, Tick, Boot, Crash, Exit, Ends, Interrupt,
        Disconnect, OtherLog, Return, Listen, ReadHeader, Subscribe, OfferHistorical,
        OfferLive, ListenerStep, Work, Send, SendFails, SendAnswerLost, Fails,
        WaitMined, WaitCancelled, Record, RecordEvent, vars

LEMMA SentForType ==
    ASSUME TypeOK, NEW r \in Requests
    PROVE  /\ mempool \in Seq(Transaction) /\ Len(mempool) \in Nat
           /\ DOMAIN mempool = 1 .. Len(mempool)
           /\ IsFiniteSet({i \in DOMAIN mempool : mempool[i].id = r})
           /\ SentFor(r, mempool) \in Nat
  <1>1. /\ mempool \in Seq(Transaction) /\ Len(mempool) \in Nat
        /\ DOMAIN mempool = 1 .. Len(mempool)
    BY LenProperties DEF TypeOK, Transaction
  <1> DEFINE of == {i \in DOMAIN mempool : mempool[i].id = r}
  <1>2. IsFiniteSet(1 .. Len(mempool)) /\ of \in SUBSET (1 .. Len(mempool))
    BY <1>1, FS_Interval
  <1> HIDE DEF of
  <1>3. IsFiniteSet(of) /\ Cardinality(of) \in Nat
    BY <1>2, FS_Subset, FS_CardinalityType
  <1> QED
    BY <1>1, <1>3 DEF SentFor, of

LEMMA MinedSentFor ==
    ASSUME TypeOK, NEW r \in Requests, mempool # <<>>, mempool' = Tail(mempool)
    PROVE  SentFor(r, mempool') <= SentFor(r, mempool)
  <1> DEFINE now == {i \in DOMAIN mempool : mempool[i].id = r}
             then == {i \in DOMAIN mempool' : mempool'[i].id = r}
  <1>1. IsFiniteSet(now)
    BY SentForType
  <1>2. \A i \in DOMAIN mempool' :
            i \in Nat /\ i + 1 \in DOMAIN mempool /\ mempool'[i] = mempool[i + 1]
    BY HeadType
  <1>3. \A i \in then : i \in Nat /\ i + 1 \in now
    BY <1>2
  <1> HIDE DEF now, then
  <1> DEFINE before == [i \in then |-> i + 1]
  <1>4. before \in [then -> now] /\ \A i, j \in then : before[i] = before[j] => i = j
    BY <1>3
  <1>5. before \in Injection(then, now)
    BY <1>4 DEF Injection, IsInjective
  <1>6. Cardinality(then) <= Cardinality(now)
    BY <1>1, <1>5, FS_Injection
  <1> QED
    BY <1>6 DEF SentFor, now, then

LEMMA ForgottenSentFor ==
    ASSUME TypeOK, NEW r \in Requests,
           mempool' = [i \in DOMAIN mempool |-> [mempool[i] EXCEPT !.awaited = FALSE]]
    PROVE  SentFor(r, mempool') = SentFor(r, mempool)
  <1>1. DOMAIN mempool' = DOMAIN mempool
    OBVIOUS
  <1>2. \A i \in DOMAIN mempool : mempool'[i].id = mempool[i].id
    BY SentForType, ForgetType
  <1> QED
    BY <1>1, <1>2 DEF SentFor

LEMMA OtherSentFor ==
    ASSUME TypeOK, NEW r \in Requests, NEW tx \in Transaction, tx.id # r,
           mempool' = Append(mempool, tx)
    PROVE  SentFor(r, mempool') = SentFor(r, mempool)
  <1>1. /\ mempool \in Seq(Transaction) /\ Len(mempool) \in Nat
        /\ DOMAIN mempool = 1 .. Len(mempool)
    BY SentForType
  <1>2. /\ DOMAIN mempool' = 1 .. Len(mempool) + 1
        /\ \A i \in 1 .. Len(mempool) : mempool'[i] = mempool[i]
        /\ mempool'[Len(mempool) + 1] = tx
    BY <1>1, AppendProperties, LenProperties
  <1>3. 1 .. Len(mempool) + 1 = 1 .. Len(mempool) \union {Len(mempool) + 1}
    BY <1>1
  <1>4. {i \in DOMAIN mempool' : mempool'[i].id = r} = {i \in DOMAIN mempool : mempool[i].id = r}
    BY <1>1, <1>2, <1>3
  <1> QED
    BY <1>4 DEF SentFor

\* No transaction is sent for a withdrawal that has a decision, also when its event is
\* delivered again after a restart or a reconnection.  A HasWithdrawEvent that fails
\* reads as "not processed", so this needs that no database read fails.
THEOREM NothingSentAfterDecision ==
    "dbread" \notin Faults => (Spec => NoSendAfterDecision)
  <1> SUFFICES ASSUME "dbread" \notin Faults PROVE Spec => NoSendAfterDecision
    OBVIOUS
  <1>1. Init => Inv /\ Undecided
    BY InitInv DEF Init, Undecided
  <1>2. Inv /\ Undecided /\ [Next]_vars => Inv' /\ Undecided'
    BY StepInv, StepUndecided DEF Inv, Knows
  <1>3. Inv /\ Undecided /\ [Next]_vars =>
            [\A r \in Requests :
                events[r] # "none" => SentFor(r, mempool') <= SentFor(r, mempool)]_vars
    <2> SUFFICES ASSUME Inv, Undecided, [Next]_vars, NEW r \in Requests, events[r] # "none"
                 PROVE  SentFor(r, mempool') <= SentFor(r, mempool)
      OBVIOUS
    <2>1. TypeOK /\ Knows
      BY DEF Inv, Knows
    <2>2. SentFor(r, mempool) \in Nat
      BY <2>1, SentForType
    <2>3. CASE Send \/ SendAnswerLost
      <3>1. PICK awaited \in BOOLEAN : pc = "send" /\ Submit(awaited)
        BY <2>3 DEF Send, SendAnswerLost
      <3>2. request # r
        BY <3>1 DEF Undecided
      <3>3. PICK tx \in Transaction : tx.id # r /\ mempool' = Append(mempool, tx)
        BY <2>1, <3>1, <3>2, SubmitType DEF Knows
      <3> QED
        BY <2>1, <2>2, <3>3, OtherSentFor
    <2>4. CASE Mine
      BY <2>1, <2>4, MinedSentFor DEF Mine, MineFinalize, MineReject, MineRevert, MineNext
    <2>5. CASE Crash \/ Exit \/ WaitCancelled
      BY <2>1, <2>2, <2>5, ForgottenSentFor DEF Crash, Exit, Ends, WaitCancelled
    <2>6. CASE UNCHANGED mempool
      BY <2>2, <2>6
    <2> QED
      BY <2>3, <2>4, <2>5, <2>6
      DEF Next, Start, RejectExpired, Approve, Tick, Boot, Interrupt, Disconnect, OtherLog,
          Return, Listen, ReadHeader, Subscribe, OfferHistorical, OfferLive, ListenerStep,
          Work, Receive, CheckGlobalLimits, CheckUserLimits, SendFails, Fails, WaitMined,
          Record, RecordEvent, vars
  <1> QED
    BY <1>1, <1>2, <1>3, PTL DEF Spec, NoSendAfterDecision
============================================================================
