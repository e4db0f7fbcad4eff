--------------------------- MODULE EventListener ---------------------------
(***************************************************************************)
(* types.go: EventListener.  "Each method blocks until the context is      *)
(* cancelled", and "the sink channel is closed when the method returns".   *)
(* Between two events a method may lose its connection and make a new one. *)
(* While it offers an event on the sink, an unbuffered channel, it waits   *)
(* for the receiver and for nothing else.                                  *)
(***************************************************************************)
VARIABLES cancelled, state

States == {"connecting", "select", "sending", "returned"}

Init == state = "connecting"

Connect == state = "connecting" /\ state' = "select"

Loop(next) == state' = IF cancelled THEN "returned" ELSE next

GivesUp == state = "select" /\ state' = "returned"  \* mutant

Disconnect == state = "select" /\ Loop("connecting")

Offer == state = "select" /\ state' = "sending"

Sent == state = "sending" /\ Loop("select")

Return == cancelled /\ state \in {"connecting", "select"} /\ state' = "returned"

Cancel == ~cancelled /\ cancelled' = TRUE /\ UNCHANGED state

Watch == (Connect \/ Disconnect \/ Offer \/ Sent \/ Return) /\ UNCHANGED cancelled

vars == <<cancelled, state>>

Spec == Init /\ [][Watch \/ Cancel]_vars

\* A cancelled method returns once nothing is left on its sink.
FairSpec == Spec /\ WF_vars(Return /\ UNCHANGED cancelled)

Closed == state = "returned"
=============================================================================
