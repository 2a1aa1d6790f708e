--------------------------- MODULE DeliveryContract ---------------------------
(***************************************************************************)
(* What the bridge promises a message it has accepted, whatever happens    *)
(* between accepting it and handing it to the agent (queue.ts, and the     *)
(* comments on Dispatcher.pump):                                           *)
(*                                                                         *)
(*   - a chat's messages are handed over in the order they were accepted,  *)
(*     in batches of at most MaxBatch;                                     *)
(*   - one turn is in flight at a time, over every chat;                   *)
(*   - a restart may reorder or repeat, and loses nothing that waits.      *)
(*                                                                         *)
(* Dispatcher implements this module, under the mapping at its end.        *)
(***************************************************************************)
EXTENDS Integers, Sequences, SequencesExt

CONSTANTS
  Msg,        \* messages
  Chat,       \* chat keys
  ChatOf,     \* ChatOf[m]: the chat m was sent in
  MaxBatch    \* delivery.maxBatch

VARIABLES
  waiting,    \* waiting[c]: accepted in c and not handed over
  busy        \* whether a turn is in flight

contractVars == <<waiting, busy>>

ContractInit ==
  /\ waiting = [c \in Chat |-> <<>>]
  /\ busy = FALSE

Accept(m) ==
  /\ waiting' = [waiting EXCEPT ![ChatOf[m]] = Append(@, m)]
  /\ UNCHANGED busy

HandOver(c) ==
  /\ ~busy
  /\ \E n \in 1..Len(waiting[c]) :
       /\ n <= MaxBatch
       /\ waiting' = [waiting EXCEPT ![c] = SubSeq(@, n + 1, Len(@))]
  /\ busy' = TRUE

EndTurn ==
  /\ busy
  /\ busy' = FALSE
  /\ UNCHANGED waiting

\* A restart keeps every waiting message, in some order, possibly with messages
\* of the turn it interrupted.
Survives(w) == \A c \in Chat : ToSet(waiting[c]) \subseteq ToSet(w[c])

RestartLosesNothing ==
  /\ busy' = FALSE
  /\ waiting' \in [Chat -> Seq(Msg)]
  /\ Survives(waiting')
  /\ \A c \in Chat : IsInjective(waiting'[c]) /\ \A m \in ToSet(waiting'[c]) : ChatOf[m] = c

ContractNext ==
  \/ \E m \in Msg : Accept(m)
  \/ \E c \in Chat : HandOver(c)
  \/ EndTurn
  \/ RestartLosesNothing

ContractSpec == ContractInit /\ [][ContractNext]_contractVars

=============================================================================
