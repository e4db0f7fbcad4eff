------------------------------ MODULE Ordering ------------------------------
(***************************************************************************)
(* Finite sets as sequences, for what the code receives in an order.       *)
(***************************************************************************)
EXTENDS Integers, FiniteSets, Sequences

\* A set of pairs that orders S.
IsStrictOrder(Before, S) ==
    /\ \A x, y \in S : x # y <=> <<x, y>> \in Before \/ <<y, x>> \in Before
    /\ \A x, y, z \in S : <<x, y>> \in Before /\ <<y, z>> \in Before => <<x, z>> \in Before

Rank(x, S, Before) == Cardinality({y \in S : <<y, x>> \in Before}) + 1

\* The members of S, each once, in that order.
Ordered(S, Before) ==
    [i \in 1 .. Cardinality(S) |-> CHOOSE x \in S : Rank(x, S, Before) = i]

Less == {p \in Nat \X Nat : p[1] < p[2]}

\* The members of a sequence that are in S, in the order of the sequence.
Among(seq, S) ==
    LET at == Ordered({i \in DOMAIN seq : seq[i] \in S}, Less)
    IN  [i \in DOMAIN at |-> seq[at[i]]]
=============================================================================
