------------------------------- MODULE MCVerbs -------------------------------
(* Verbs with one ask, for the two things the repository says of a turn that *)
(* its code does not keep.                                                   *)
EXTENDS Verbs

CONSTANTS a1, relay

OneAsk == {a1}

=============================================================================
