------------------------------ MODULE Bindings ------------------------------
(***************************************************************************)
(* iwithdraw.go: the two ways in which the generated binding of a contract *)
(* gives out its events.  Filter asks for past logs and returns an         *)
(* iterator; Watch subscribes and starts a goroutine that forwards to the  *)
(* sink of its user.  Either has a source, a goroutine of go-ethereum that *)
(* feeds a buffered channel of logs, ends when it is told to quit or has   *)
(* nothing more, and then closes its error channel.                        *)
(***************************************************************************)
EXTENDS Integers, Sequences, SequencesExt, Ordering

CONSTANTS
    Ids,            \* withdrawal ids
    Capacity,       \* of the channel of logs
    MaxLogs         \* bound: logs of the contract

\* Whether the log unpacks as the event of the binding.
Log == [id : Ids, unpacks : BOOLEAN]

ASSUME BindingsAssumption == Capacity \in Nat \ {0} /\ MaxLogs \in Nat

VARIABLES
    call,           \* "filter" or "watch"
    rule,           \* the ids asked for, {} for all
    all,            \* the logs of the contract; a subscription meets them one by one
    \* the source
    remaining,      \* what it has still to send
    logs,           \* chan types.Log
    source,         \* "on" or "ended"
    sourceErr,      \* on its error channel before it is closed: "nil" or "failed"
    quit,           \* it was told to quit
    \* the iterator
    done, fail,
    \* the goroutine of Watch
    pc,             \* "select", "sending", "returned"
    event,          \* the log it is sending, or had when it returned
    err,            \* what it returned: "nil", "failed", "unpack"
    \* the user
    user,           \* "using", "closing" (in Unsubscribe), "closed"
    taken,          \* history: the logs of the events the user got
    ended           \* history: Next returned false

feed == <<call, rule, all>>
sourceVars == <<remaining, logs, source, sourceErr, quit>>
iterator == <<done, fail>>
forwarder == <<pc, event, err>>
vars == <<feed, sourceVars, iterator, forwarder, user, taken, ended>>

NoLog == [id |-> "none", unpacks |-> FALSE]

MatchesListed(log) == log.id \in rule     \* mutant

\* An empty rule is a wildcard.
Matches(log) == rule = {} \/ log.id \in rule

TypeOK ==
    /\ call \in {"filter", "watch"} /\ rule \subseteq Ids /\ all \in Seq(Log)
    /\ remaining \in Seq(Log) /\ logs \in Seq(Log) /\ Len(logs) <= Capacity
    /\ source \in {"on", "ended"} /\ sourceErr \in {"nil", "failed"} /\ quit \in BOOLEAN
    /\ done \in BOOLEAN /\ fail \in {"nil", "failed", "unpack"}
    /\ pc \in {"select", "sending", "returned"} /\ event \in Log \union {NoLog}
    /\ err \in {"nil", "failed", "unpack"}
    /\ user \in {"using", "closing", "closed"}
    /\ taken \in Seq(Log) /\ ended \in BOOLEAN

Init ==
    /\ call \in {"filter", "watch"}
    /\ rule \in SUBSET Ids
    /\ all \in UNION {[1 .. n -> Log] : n \in 0 .. MaxLogs}
    /\ remaining = Among(all, {log \in Log : Matches(log)})
    /\ logs = <<>> /\ source = "on" /\ sourceErr = "nil" /\ quit = FALSE
    /\ done = FALSE /\ fail = "nil"
    /\ pc = "select" /\ event = NoLog /\ err = "nil"
    /\ user = "using" /\ taken = <<>> /\ ended = FALSE

-----------------------------------------------------------------------------
(***************************************************************************)
(* The source.                                                             *)
(***************************************************************************)
SourceStep == UNCHANGED <<feed, quit, iterator, forwarder, user, taken, ended>>

SourceSends ==
    /\ source = "on" /\ remaining # <<>> /\ Len(logs) < Capacity
    /\ logs' = Append(logs, Head(remaining))
    /\ remaining' = Tail(remaining)
    /\ SourceStep /\ UNCHANGED <<source, sourceErr>>

\* A filter ends after its last log, a subscription with its connection.
SourceEnds ==
    /\ source = "on"
    /\ \/ quit /\ UNCHANGED sourceErr
       \/ call = "filter" /\ remaining = <<>> /\ UNCHANGED sourceErr
       \/ call = "watch" /\ sourceErr' \in {"nil", "failed"}
    /\ source' = "ended"
    /\ SourceStep /\ UNCHANGED <<remaining, logs>>

-----------------------------------------------------------------------------
(***************************************************************************)
(* The iterator of Filter.  Next blocks until one of its cases is ready.   *)
(***************************************************************************)
IteratorStep ==
    /\ call = "filter" /\ user # "closing" /\ ~ended
    /\ UNCHANGED <<feed, remaining, source, sourceErr, quit, forwarder, user>>

\* A log is there: Next returns its event, or fails.  The log is ready while the
\* source lives, and when it has ended.
NextLog ==
    /\ IteratorStep
    /\ fail = "nil" /\ logs # <<>>
    /\ logs' = Tail(logs)
    /\ IF Head(logs).unpacks
       THEN taken' = Append(taken, Head(logs)) /\ UNCHANGED <<fail, ended>>
       ELSE fail' = "unpack" /\ ended' = TRUE /\ UNCHANGED taken
    /\ UNCHANGED done

EndsAtOnce ==  \* mutant
    /\ done' = TRUE
    /\ fail' = sourceErr
    /\ ended' = TRUE

ForgetsDone ==  \* mutant
    /\ UNCHANGED done
    /\ fail' = sourceErr
    /\ ended' = (fail' # "nil")

StartsOver ==
    /\ done' = TRUE
    /\ fail' = sourceErr
    /\ ended' = (fail' # "nil")

\* The error channel is ready, as the source has ended.
NextErr ==
    /\ IteratorStep
    /\ ~done /\ source = "ended"
    /\ StartsOver
    /\ UNCHANGED <<logs, taken>>

\* With the source gone and the channel empty Next returns false.
NextFalse ==
    /\ IteratorStep
    /\ done /\ logs = <<>>
    /\ ended' = TRUE
    /\ UNCHANGED <<logs, taken, iterator>>

-----------------------------------------------------------------------------
(***************************************************************************)
(* The goroutine of Watch.                                                 *)
(***************************************************************************)
ForwarderStep ==
    /\ call = "watch"
    /\ UNCHANGED <<feed, remaining, source, sourceErr, iterator, ended>>

\* It returns, and unsubscribes from its source.
Returns(e) ==
    /\ pc' = "returned"
    /\ err' = e
    /\ quit' = TRUE
    /\ UNCHANGED event

EventUnassigned(log) == pc' = "sending" /\ UNCHANGED event  \* mutant

Forwards(log) == pc' = "sending" /\ event' = log

SendMayBeDropped == pc # "returned"     \* mutant

ReadsLogs == pc = "select"

SelectLog ==
    /\ ReadsLogs /\ logs # <<>>
    /\ logs' = Tail(logs)
    /\ \/ /\ Head(logs).unpacks
          /\ Forwards(Head(logs))
          /\ UNCHANGED <<err, quit>>
       \/ /\ ~Head(logs).unpacks
          /\ Returns("unpack")
    /\ ForwarderStep /\ UNCHANGED <<user, taken>>

\* The user reads the sink, also while another goroutine of it unsubscribes.
SinkTaken ==
    /\ pc = "sending"
    /\ pc' = "select"
    /\ taken' = Append(taken, event)
    /\ ForwarderStep /\ UNCHANGED <<logs, quit, event, err, user>>

OnlyBetweenEvents == {"select"}     \* mutant

Interruptible == {"select", "sending"}

SelectErr ==
    /\ pc \in Interruptible /\ source = "ended"
    /\ Returns(sourceErr)
    /\ ForwarderStep /\ UNCHANGED <<logs, user, taken>>

SelectQuit ==
    /\ pc \in Interruptible /\ user = "closing"
    /\ Returns("nil")
    /\ ForwarderStep /\ UNCHANGED <<logs, user, taken>>

-----------------------------------------------------------------------------
(***************************************************************************)
(* Close and Unsubscribe tell the goroutine to quit and wait for its end.  *)
(***************************************************************************)
Unsubscribe ==
    /\ user = "using"
    /\ user' = "closing"
    /\ quit' = (quit \/ call = "filter")
    /\ UNCHANGED <<feed, remaining, logs, source, sourceErr, iterator, forwarder, taken, ended>>

\* The goroutine of Watch ends after its source.
GoroutineEnded == source = "ended" /\ (call = "watch" => pc = "returned")

Unsubscribed ==
    /\ user = "closing"
    /\ GoroutineEnded
    /\ user' = "closed"
    /\ UNCHANGED <<feed, sourceVars, iterator, forwarder, taken, ended>>

-----------------------------------------------------------------------------
Iterate == NextLog \/ NextErr \/ NextFalse
Forward == SelectLog \/ SelectErr \/ SelectQuit

Next ==
    \/ SourceSends \/ SourceEnds
    \/ Iterate
    \/ Forward \/ SinkTaken
    \/ Unsubscribe \/ Unsubscribed

(***************************************************************************)
(* The goroutines run; a filter's source, or one that was told to quit,    *)
(* ends.  Nothing makes the user read the sink or unsubscribe; Next, once  *)
(* called, goes on.  A ready case of the goroutine's select is taken in    *)
(* the end.                                                                *)
(***************************************************************************)
Fairness ==
    /\ WF_vars(SourceSends)
    /\ WF_vars(SourceEnds /\ (quit \/ call = "filter"))
    /\ WF_vars(Iterate) /\ WF_vars(Forward) /\ SF_vars(SelectQuit)
    /\ WF_vars(Unsubscribed)

Spec == Init /\ [][Next]_vars /\ Fairness

-----------------------------------------------------------------------------
Wanted == IF rule = {} THEN all ELSE Among(all, {l \in Log : l.id \in rule})

\* The user gets events of the logs asked for, in chain order and without a gap, by
\* either call and whenever the connection is lost or the call is closed.
InOrder == IsPrefix(taken, Wanted)

\* An iterator that ends without an error, and was not closed, has yielded every log,
\* also those still in the channel when the source ended.
IteratorComplete == ended /\ fail = "nil" /\ user = "using" => taken = Wanted

\* Unsubscribe and Close return although nobody reads the sink or calls Next.
CloseReturns == user = "closing" ~> user = "closed"

\* Next returns false in the end.
IteratorEnds == call = "filter" ~> (ended \/ user = "closing")
=============================================================================
