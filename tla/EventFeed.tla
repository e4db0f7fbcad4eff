----------------------------- MODULE EventFeed -----------------------------
(***************************************************************************)
(* What the worker sees of listenEvents, one position per event: the       *)
(* events of the log that a listener delivers, in which order, and which   *)
(* of them come again or never when it loses its connection or is          *)
(* interrupted.  Listener, which has blocks, implements it; Nitewatch      *)
(* takes its events from it.                                               *)
(***************************************************************************)
EXTENDS Integers, Sequences

VARIABLES
    log,            \* the events, in chain order
    stopping,       \* ctx is cancelled
    fromBlock,      \* the cursor it was started with, 0 if none
    lastBlock,      \* of no log, of the cursor, or of a log of the subscription
    history, head,  \* next historical event, and the last one to fetch
    live,           \* next event of the subscription, 0 when there is none
    slot,           \* the event blocked in sink <- event, 0 if none
    returned        \* which closes the sink

arguments == <<log, stopping, fromBlock>>
connection == <<history, head, live>>
vars == <<arguments, lastBlock, connection, slot, returned>>

\* Where a listener called with this cursor begins.
FirstBlock(cursor) == IF cursor = 0 THEN "none" ELSE "cursor"

TypeOK ==
    /\ {fromBlock, head, slot} \subseteq 0 .. Len(log)
    /\ {history, live} \subseteq 0 .. Len(log) + 1
    /\ lastBlock \in {"none", "cursor", "live"}
    /\ returned \in BOOLEAN

Init ==
    /\ fromBlock \in 0 .. Len(log) /\ lastBlock = FirstBlock(fromBlock)
    /\ history = 0 /\ head = 0 /\ live = 0
    /\ slot = 0 /\ returned = FALSE

-----------------------------------------------------------------------------
\* Historical events are those of lastBlock and later blocks, but for the indexes up to
\* the cursor's in lastBlock.  A log of the subscription moves lastBlock only, so that
\* events of its block come again, or are skipped though nobody saw them.
Historical ==
    IF lastBlock = "cursor" THEN {fromBlock + 1} ELSE fromBlock + 1 .. Len(log) + 1

ReadHeader ==
    /\ ~returned /\ live = 0 /\ history = 0
    /\ lastBlock # "none"
    /\ history' \in Historical
    /\ head' = Len(log)
    /\ UNCHANGED <<arguments, lastBlock, live, slot, returned>>

Subscribe ==
    /\ ~returned /\ live = 0
    /\ lastBlock # "none" => history # 0
    /\ live' = Len(log) + 1
    /\ UNCHANGED <<arguments, lastBlock, history, head, slot, returned>>

NoConnection == history' = 0 /\ head' = 0 /\ live' = 0

\* The subscription breaks, or cannot be made.
Disconnect ==
    /\ slot = 0
    /\ live # 0 \/ history # 0
    /\ NoConnection /\ returned' = stopping
    /\ UNCHANGED <<arguments, lastBlock, slot>>

\* The select loop looks at ctx between two events.
Loop ==
    /\ returned' = stopping
    /\ IF stopping THEN NoConnection ELSE UNCHANGED connection

OfferHistorical ==
    /\ slot = 0 /\ live # 0
    /\ history \in 1 .. head
    /\ slot' = history
    /\ history' = history + 1
    /\ UNCHANGED <<arguments, lastBlock, head, live, returned>>

OfferLive ==
    /\ slot = 0 /\ live \in 1 .. Len(log)
    /\ slot' = live
    /\ lastBlock' = "live"
    /\ live' = live + 1
    /\ UNCHANGED <<arguments, history, head, returned>>

\* The subscription carries the other events of the contract too.
OtherLog ==
    /\ slot = 0 /\ live # 0
    /\ lastBlock' = "live"
    /\ Loop
    /\ UNCHANGED <<arguments, slot>>

\* The worker takes the event.
Sent ==
    /\ slot # 0
    /\ slot' = 0
    /\ Loop
    /\ UNCHANGED <<arguments, lastBlock>>

Return ==
    /\ stopping /\ slot = 0
    /\ NoConnection /\ returned' = TRUE
    /\ UNCHANGED <<arguments, lastBlock, slot>>

Listen ==
    \/ ReadHeader \/ Subscribe \/ Disconnect
    \/ OfferHistorical \/ OfferLive \/ OtherLog \/ Return

\* The log grows, and ctx may be cancelled.
Environment ==
    /\ \E n \in 0 .. Len(log') : log = SubSeq(log', 1, n)
    /\ stopping => stopping'
    /\ UNCHANGED <<fromBlock, lastBlock, connection, slot, returned>>

Next == Listen \/ Sent \/ Environment
=============================================================================
