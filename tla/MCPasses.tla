------------------------------ MODULE MCPasses ------------------------------
(*****************************************************************************)
(* A small instance for TLC of the two loops of the bridge that carry a      *)
(* message either way: the passes over the outbox (Outbox), and the          *)
(* dispatcher's pump (Dispatcher, two chats with a message each) for what    *)
(* must happen in the end. A behaviour is one of a single part, which Init   *)
(* chooses.                                                                  *)
(*****************************************************************************)
EXTENDS Outbox

CONSTANTS m1, m3, c1, c2

CONSTANTS
  Msg, Chat, ChatOf, Stamp, MaxBatch, DMaxFailures, MaxRestarts

VARIABLES
  which, seen, parsing, queue, pending, debounces, ready, held, stopped, pump, DTarget,
  batch, opened, inFlight, batches, DCurrent, DFailures, restarts, admitted, handed

D == INSTANCE Dispatcher
  WITH MaxFailures <- DMaxFailures, target <- DTarget, current <- DCurrent,
  failures <- DFailures

DVars == <<seen, parsing, queue, pending, debounces, ready, held, stopped, pump, DTarget, batch,
  opened, inFlight, batches, DCurrent, DFailures, restarts, admitted, handed>>

\* What is assumed of the constants of Dispatcher.
ASSUME PassesAssumption ==
  /\ ChatOf \in [Msg -> Chat] /\ Stamp \in [Msg -> Nat] /\ IsInjective(Stamp)
  /\ IsFiniteSet(Msg) /\ IsFiniteSet(Chat) /\ Chat # {}
  /\ MaxBatch \in Nat \ {0} /\ DMaxFailures \in Nat /\ MaxRestarts \in Nat

MsgChat == [m \in Msg |-> IF m = m3 THEN c2 ELSE c1]
MsgStamp == [m \in Msg |-> IF m = m3 THEN 2 ELSE 1]
TwoMessages == {m1, m3}
TwoChats == {c1, c2}
OneMessage == {8}
TwoNames == 1..2
AllKinds == {"text", "sendTo", "sent", "edit", "unsend", "pluginCall"}

Components == {"outbox", "dispatcher"}
Start ==
  /\ which \in Components
  /\ Init /\ D!Init

Step ==
  \/ which = "outbox" /\ Next /\ UNCHANGED <<which, DVars>>
  \/ which = "dispatcher" /\ D!Next /\ UNCHANGED <<which, vars>>

Sum ==
  /\ Start /\ [][Step]_<<which, vars, DVars>>
  /\ \/ which = "outbox" /\ Fairness
     \/ which = "dispatcher" /\ D!Fairness

----------------------------------------------------------------------------
\* The state of each part has its shape.
Types == CASE which = "outbox" -> TypeOK [] OTHER -> D!TypeOK

\* Outbox and Dispatcher: every action leaves the directory, and every turn ends.
EveryPassEnds == EveryActionLeaves /\ D!EveryTurnEnds

\* Dispatcher: unless delivery is held for ever, every accepted message reaches the
\* agent.
EveryMessageHandedOver == D!EveryMessageHandedOver

=============================================================================
