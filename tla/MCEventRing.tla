---------------------------- MODULE MCEventRing ----------------------------
(* Instances of EventRing for TLC. *)
EXTENDS EventRing, TLC

CONSTANTS c1, t1, t2

\* The consumer asks for t1: a message on t2 does not pass its filter.
MCFilter == c1 :> {t1}

\* Streams are interchangeable slots.
Sym == Permutations(Streams)

=============================================================================
