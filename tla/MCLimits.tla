------------------------------ MODULE MCLimits ------------------------------
(***************************************************************************)
(* A small instance of Limits for TLC: two chats; an hour is two ticks and *)
(* a day two hours, so that a call falls within an hour, at its end and    *)
(* after midnight.                                                         *)
(***************************************************************************)
EXTENDS Limits, TLC

CONSTANTS c1, c2

TwoChats == {c1, c2}

\* The chats are interchangeable.
ChatSymmetry == Permutations(TwoChats)

=============================================================================
