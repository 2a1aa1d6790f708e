------------------------------ MODULE MCScheduler ------------------------------
(* Scheduler with two entries, in two chats that may hold one each. *)
EXTENDS Scheduler

CONSTANTS i1, i2, c1, c2

TwoIds == {i1, i2}
TwoChats == {c1, c2}

=============================================================================
