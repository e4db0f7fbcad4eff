--------------------------- MODULE BindingsProofs ---------------------------
(***************************************************************************)
(* The safety properties of Bindings, for any ids, any capacity of the     *)
(* channel and any number of logs.                                         *)
(*                                                                         *)
(* Inv adds two parts to TypeOK.  Conserved: what the user has taken, the  *)
(* event that is being sent, the channel and what the source has left are, *)
(* put together, the logs that were asked for; once the call has failed or *)
(* returned, what was taken is the beginning of them.  Phases: in which    *)
(* states of the source an iterator may have reported its end.             *)
(***************************************************************************)
EXTENDS Bindings, DataTheorems

Stopped == pc = "returned" \/ fail = "unpack"

Pending == IF pc = "sending" THEN <<event>> \o (logs \o remaining) ELSE logs \o remaining

Conserved ==
    /\ Wanted \in Seq(Log)
    /\ pc = "sending" => event \in Log
    /\ IF Stopped THEN IsPrefix(taken, Wanted) ELSE Wanted = taken \o Pending

Phases ==
    /\ call = "filter" => pc = "select" /\ sourceErr = "nil"
    /\ call = "watch" => fail = "nil" /\ ~ended
    /\ fail = "unpack" => ended
    /\ done => source = "ended"
    /\ call = "filter" /\ source = "ended" => quit \/ remaining = <<>>
    /\ call = "filter" /\ quit => user # "using"
    /\ ended /\ fail = "nil" => done /\ logs = <<>>

Inv == TypeOK /\ Conserved /\ Phases

-----------------------------------------------------------------------------
LEMMA PrefixOfConcat ==
    ASSUME NEW T, NEW s \in Seq(T), NEW t \in Seq(T)
    PROVE  IsPrefix(s, s \o t)
<1>1. Len(s) \in Nat /\ Len(t) \in Nat /\ Len(s \o t) = Len(s) + Len(t)
  OBVIOUS
<1>2. SubSeq(s, 1, Len(s)) = s
  OBVIOUS
<1>3. SubSeq(s \o t, 1, Len(s)) = s
  OBVIOUS
<1> QED
  BY <1>1, <1>2, <1>3 DEF IsPrefix

-----------------------------------------------------------------------------
\* The source starts with the logs that were asked for.
LEMMA InitInv == Init => Inv
<1> SUFFICES ASSUME Init PROVE Inv
  OBVIOUS
<1>1. all \in Seq(Log)
  BY BindingsAssumption DEF Init
<1>2. remaining \in Seq(Log) /\ remaining = Among(all, {log \in Log : Matches(log)})
  BY <1>1, AmongIsSeq DEF Init
<1>3. Wanted = remaining
  <2>1. CASE rule = {}
    <3>1. {log \in Log : Matches(log)} = Log
      BY <2>1 DEF Matches
    <3> QED
      BY <1>1, <1>2, <2>1, <3>1, AmongAll DEF Wanted
  <2>2. CASE rule # {}
    <3>1. {log \in Log : Matches(log)} = {l \in Log : l.id \in rule}
      BY <2>2 DEF Matches
    <3> QED
      BY <1>2, <2>2, <3>1 DEF Wanted
  <2> QED
    BY <2>1, <2>2
<1>4. remaining = <<>> \o (<<>> \o remaining)
  BY <1>2
<1>5. TypeOK
  <2>1. logs \in Seq(Log) /\ Len(logs) <= Capacity /\ taken \in Seq(Log)
    BY BindingsAssumption DEF Init
  <2> QED
    BY <1>1, <1>2, <2>1 DEF Init, TypeOK
<1>6. Conserved
  BY <1>2, <1>3, <1>4 DEF Init, Conserved, Stopped, Pending
<1>7. Phases
  BY DEF Init, Phases
<1> QED
  BY <1>5, <1>6, <1>7 DEF Inv

\* What was asked for does not change.
LEMMA WantedStays ==
    ASSUME UNCHANGED feed
    PROVE  Wanted' = Wanted
BY DEF feed, Wanted

\* As Conserved and the types have it.
LEMMA Facts ==
    ASSUME Inv
    PROVE  /\ Wanted \in Seq(Log) /\ taken \in Seq(Log) /\ logs \in Seq(Log)
           /\ remaining \in Seq(Log) /\ logs \o remaining \in Seq(Log) /\ Pending \in Seq(Log)
           /\ IsPrefix(taken, Wanted)
<1>1. /\ taken \in Seq(Log) /\ logs \in Seq(Log) /\ remaining \in Seq(Log) /\ Wanted \in Seq(Log)
      /\ logs \o remaining \in Seq(Log)
  BY DEF Inv, TypeOK, Conserved
<1>2. Pending \in Seq(Log)
  BY <1>1 DEF Inv, Conserved, Pending
<1>3. IsPrefix(taken, Wanted)
  <2>1. CASE Stopped
    BY <2>1 DEF Inv, Conserved
  <2>2. CASE ~Stopped
    BY <2>2, <1>1, <1>2, PrefixOfConcat DEF Inv, Conserved
  <2> QED
    BY <2>1, <2>2
<1> QED
  BY <1>1, <1>2, <1>3

-----------------------------------------------------------------------------
(***************************************************************************)
(* The steps.                                                              *)
(***************************************************************************)
\* A step that takes nothing from what is pending, or when all is over.
LEMMA Unmoved ==
    ASSUME Inv, UNCHANGED <<feed, taken>>, (pc = "sending")' => event' \in Log,
           Stopped => Stopped', Stopped' \/ Pending' = Pending
    PROVE  Conserved'
<1>1. Wanted' = Wanted
  BY WantedStays
<1>2. IsPrefix(taken', Wanted') /\ Wanted' \in Seq(Log)
  BY <1>1, Facts
<1>3. ~Stopped' => Wanted' = taken' \o Pending'
  BY <1>1 DEF Inv, Conserved
<1> QED
  BY <1>2, <1>3 DEF Conserved

LEMMA SourceSendsConserves ==
    ASSUME Inv, SourceSends
    PROVE  Conserved'
<1>1. remaining # <<>> /\ logs' = Append(logs, Head(remaining)) /\ remaining' = Tail(remaining)
  BY DEF SourceSends
<1>2. Head(remaining) \in Log /\ Tail(remaining) \in Seq(Log)
  BY <1>1, Facts, HeadTailProperties
<1>3. remaining = <<Head(remaining)>> \o Tail(remaining)
  BY <1>1, Facts
<1>4. logs \o remaining = logs' \o remaining'
  BY <1>1, <1>2, <1>3, Facts, MoveFirst
<1>5. Pending' = Pending /\ Stopped' = Stopped
  BY <1>4 DEF SourceSends, SourceStep, forwarder, iterator, Pending, Stopped
<1> QED
  BY <1>5, Unmoved DEF SourceSends, SourceStep, forwarder, Inv, Conserved

LEMMA NextLogConserves ==
    ASSUME Inv, NextLog
    PROVE  Conserved'
<1>1. pc = "select" /\ fail = "nil" /\ logs # <<>> /\ ~Stopped
  BY DEF Inv, Phases, Stopped, NextLog, IteratorStep
<1>2. CASE Head(logs).unpacks
  <2>1. /\ logs \o remaining = <<Head(logs)>> \o (Tail(logs) \o remaining)
        /\ Head(logs) \in Log /\ Tail(logs) \in Seq(Log) /\ Tail(logs) \o remaining \in Seq(Log)
    BY <1>1, Facts, HeadFirst, HeadTailProperties, ConcatProperties
  <2>2. Wanted = taken \o (<<Head(logs)>> \o (Tail(logs) \o remaining))
    BY <1>1, <2>1 DEF Inv, Conserved, Pending
  <2>3. Wanted = Append(taken, Head(logs)) \o (Tail(logs) \o remaining)
    <3>1. taken \in Seq(Log)
      BY Facts
    <3> DEFINE rest == Tail(logs) \o remaining
    <3>2. rest \in Seq(Log) /\ Head(logs) \in Log
      BY <2>1
    <3> HIDE DEF rest
    <3>3. taken \o (<<Head(logs)>> \o rest) = Append(taken, Head(logs)) \o rest
      BY <3>1, <3>2, MoveFirst
    <3> QED
      BY <2>2, <3>3 DEF rest
  <2>4. taken' = Append(taken, Head(logs)) /\ Pending' = Tail(logs) \o remaining /\ ~Stopped'
    BY <1>1, <1>2 DEF Pending, Stopped, NextLog, IteratorStep, forwarder
  <2>5. UNCHANGED feed /\ ~(pc = "sending")'
    BY <1>1 DEF NextLog, IteratorStep, forwarder
  <2> QED
    BY <2>3, <2>4, <2>5, WantedStays, Facts DEF Conserved
<1>3. CASE ~Head(logs).unpacks
  <2>1. Stopped' /\ UNCHANGED <<feed, taken>> /\ ~(pc = "sending")'
    BY <1>1, <1>3 DEF Stopped, NextLog, IteratorStep, forwarder
  <2> QED
    BY <2>1, Unmoved
<1> QED
  BY <1>2, <1>3

LEMMA SelectLogConserves ==
    ASSUME Inv, SelectLog
    PROVE  Conserved'
<1> USE DEF SelectLog, ForwarderStep, ReadsLogs
<1>1. pc = "select" /\ fail = "nil" /\ ~Stopped
  BY DEF Inv, Phases, Stopped
<1>2. CASE Head(logs).unpacks
  <2>1. /\ logs \o remaining = <<Head(logs)>> \o (Tail(logs) \o remaining)
        /\ Head(logs) \in Log
    BY Facts, HeadFirst, HeadTailProperties
  <2>2. Pending' = Pending /\ event' \in Log /\ UNCHANGED <<feed, taken>>
    BY <1>1, <1>2, <2>1 DEF Forwards, Pending
  <2> QED
    BY <1>1, <2>2, Unmoved
<1>3. CASE ~Head(logs).unpacks
  <2>1. Stopped' /\ UNCHANGED <<feed, taken>> /\ ~(pc = "sending")'
    BY <1>1, <1>3 DEF Stopped, Returns
  <2> QED
    BY <2>1, Unmoved
<1> QED
  BY <1>2, <1>3

LEMMA SinkTakenConserves ==
    ASSUME Inv, SinkTaken
    PROVE  Conserved'
<1>1. pc = "sending" /\ event \in Log /\ fail = "nil" /\ ~Stopped
  BY DEF Inv, Phases, Conserved, Stopped, SinkTaken, ForwarderStep
<1>2. Wanted = taken \o (<<event>> \o (logs \o remaining))
  BY <1>1 DEF Inv, Conserved, Pending
<1>3. Wanted = Append(taken, event) \o (logs \o remaining)
  <2>1. taken \in Seq(Log) /\ logs \o remaining \in Seq(Log) /\ event \in Log
    BY <1>1, Facts
  <2> DEFINE type == Log
             rest == logs \o remaining
  <2>2. taken \in Seq(type) /\ rest \in Seq(type) /\ event \in type
    BY <2>1
  <2> HIDE DEF type, rest
  <2>3. taken \o (<<event>> \o rest) = Append(taken, event) \o rest
    BY <2>2, MoveFirst
  <2> QED
    BY <1>2, <2>3 DEF rest
<1>4. taken' = Append(taken, event) /\ Pending' = logs \o remaining /\ ~Stopped' /\ ~(pc = "sending")'
  BY <1>1 DEF Pending, Stopped, SinkTaken, ForwarderStep, iterator
<1> QED
  BY <1>3, <1>4, WantedStays, Facts DEF Conserved, SinkTaken, ForwarderStep

\* The other steps.
LEMMA OthersConserve ==
    ASSUME Inv,
           SourceEnds \/ NextErr \/ NextFalse \/ SelectErr \/ SelectQuit
              \/ Unsubscribe \/ Unsubscribed \/ UNCHANGED vars
    PROVE  Conserved'
<1>1. CASE SourceEnds \/ NextFalse \/ Unsubscribe \/ Unsubscribed \/ UNCHANGED vars
  <2>1. UNCHANGED <<feed, taken, pc, event, fail, logs, remaining>>
    BY <1>1 DEF SourceEnds, NextFalse, Unsubscribe, Unsubscribed, SourceStep, IteratorStep,
                forwarder, iterator, sourceVars, vars
  <2>2. Stopped' = Stopped /\ Pending' = Pending
    BY <2>1 DEF Stopped, Pending
  <2> QED
    BY <2>1, <2>2, Unmoved DEF Inv, Conserved
<1>2. CASE NextErr
  <2>1. UNCHANGED <<feed, taken, pc, event, logs, remaining>> /\ pc = "select" /\ fail # "unpack"
    BY <1>2 DEF NextErr, IteratorStep, forwarder, Inv, Phases
  <2>2. Pending' = Pending /\ ~Stopped
    BY <2>1 DEF Stopped, Pending
  <2> QED
    BY <2>1, <2>2, Unmoved
<1>3. CASE SelectErr \/ SelectQuit
  <2>1. UNCHANGED <<feed, taken>> /\ Stopped' /\ ~(pc = "sending")'
    BY <1>3 DEF SelectErr, SelectQuit, ForwarderStep, Returns, Stopped
  <2> QED
    BY <2>1, Unmoved
<1> QED
  BY <1>1, <1>2, <1>3

LEMMA StepType ==
    ASSUME Inv, [Next]_vars
    PROVE  TypeOK'
<1> USE DEF Inv, TypeOK, feed
<1>1. CASE SourceSends
  <2>1. Head(remaining) \in Log /\ Tail(remaining) \in Seq(Log)
    BY <1>1, HeadTailProperties DEF SourceSends
  <2>2. logs' \in Seq(Log) /\ Len(logs') <= Capacity
    BY <1>1, <2>1, BindingsAssumption DEF SourceSends
  <2> QED
    BY <1>1, <2>1, <2>2 DEF SourceSends, SourceStep, iterator, forwarder
<1>2. CASE SourceEnds
  BY <1>2 DEF SourceEnds, SourceStep, iterator, forwarder
<1>3. CASE NextLog \/ SelectLog
  <2>1. /\ Head(logs) \in Log /\ Tail(logs) \in Seq(Log) /\ Len(Tail(logs)) <= Capacity
    BY <1>3, BindingsAssumption, HeadTailProperties DEF NextLog, SelectLog
  <2>2. Append(taken, Head(logs)) \in Seq(Log)
    BY <2>1
  <2> QED
    BY <1>3, <2>1, <2>2 DEF NextLog, SelectLog, IteratorStep, ForwarderStep, Forwards, Returns,
                            iterator, forwarder
<1>4. CASE NextErr \/ NextFalse
  BY <1>4 DEF NextErr, NextFalse, StartsOver, IteratorStep, iterator, forwarder
<1>5. CASE SinkTaken
  <2>1. Append(taken, event) \in Seq(Log)
    BY <1>5 DEF SinkTaken, Conserved
  <2> QED
    BY <1>5, <2>1 DEF SinkTaken, ForwarderStep, iterator
<1>6. CASE SelectErr \/ SelectQuit
  BY <1>6 DEF SelectErr, SelectQuit, ForwarderStep, Returns, iterator
<1>7. CASE Unsubscribe \/ Unsubscribed \/ UNCHANGED vars
  BY <1>7 DEF Unsubscribe, Unsubscribed, vars, sourceVars, iterator, forwarder
<1> QED
  BY <1>1, <1>2, <1>3, <1>4, <1>5, <1>6, <1>7 DEF Next, Iterate, Forward

LEMMA StepPhases ==
    ASSUME Inv, [Next]_vars
    PROVE  Phases'
<1> USE DEF Inv, TypeOK, Phases, feed
<1>1. CASE SourceSends \/ SourceEnds
  BY <1>1 DEF SourceSends, SourceEnds, SourceStep, iterator, forwarder
<1>2. CASE NextLog \/ NextErr \/ NextFalse
  BY <1>2 DEF NextLog, NextErr, NextFalse, StartsOver, IteratorStep, iterator, forwarder
<1>3. CASE SelectLog \/ SinkTaken \/ SelectErr \/ SelectQuit
  BY <1>3 DEF SelectLog, SinkTaken, SelectErr, SelectQuit, ForwarderStep, Returns, Forwards, iterator
<1>4. CASE Unsubscribe \/ Unsubscribed \/ UNCHANGED vars
  BY <1>4 DEF Unsubscribe, Unsubscribed, vars, sourceVars, iterator, forwarder
<1> QED
  BY <1>1, <1>2, <1>3, <1>4 DEF Next, Iterate, Forward

\* Inv holds of every state of every execution.
THEOREM Invariance == Spec => []Inv
<1>1. Inv /\ [Next]_vars => Inv'
  <2> SUFFICES ASSUME Inv, [Next]_vars PROVE Inv'
    OBVIOUS
  <2>1. Conserved'
    BY SourceSendsConserves, NextLogConserves, SelectLogConserves, SinkTakenConserves,
       OthersConserve DEF Next, Iterate, Forward
  <2> QED
    BY <2>1, StepType, StepPhases DEF Inv
<1> QED
  BY InitInv, <1>1, PTL DEF Spec

-----------------------------------------------------------------------------
(***************************************************************************)
(* The properties.                                                         *)
(***************************************************************************)
\* Every variable keeps its type; the channel never holds more than it can.
THEOREM TypeCorrect == Spec => []TypeOK
BY Invariance, PTL DEF Inv

\* The user of Filter or Watch gets the events it asked for in chain order and without a
\* gap, wherever the source, the forwarding goroutine or the user ends the call.
THEOREM EventsComeInOrder == Spec => []InOrder
<1>1. Inv => InOrder
  BY Facts DEF InOrder
<1> QED
  BY <1>1, Invariance, PTL

\* An iterator that returns false without an error has yielded every log: Next looks
\* into the channel again after the source has ended.
THEOREM IteratorsAreComplete == Spec => []IteratorComplete
<1>1. Inv => IteratorComplete
  <2> SUFFICES ASSUME Inv, ended, fail = "nil", user = "using"
               PROVE  taken = Wanted
    BY DEF IteratorComplete
  <2>1. call = "filter"
    BY DEF Inv, TypeOK, Phases
  <2>2. logs = <<>> /\ remaining = <<>> /\ pc = "select"
    BY <2>1 DEF Inv, Phases
  <2>3. Wanted = taken \o Pending /\ Pending = <<>>
    BY <2>2 DEF Inv, Conserved, Stopped, Pending
  <2> QED
    BY <2>3, Facts
<1> QED
  BY <1>1, Invariance, PTL
=============================================================================
