------------------------------ MODULE MCTimers ------------------------------
(*****************************************************************************)
(* One instance for TLC of each part of the two sides that works from a      *)
(* timer and may meet itself: the reminders (Scheduler) and the operator's   *)
(* keystrokes (Terminal). A behaviour is one of a single part, which Init    *)
(* chooses.                                                                  *)
(*****************************************************************************)
EXTENDS Scheduler

CONSTANTS
  KeyWindow, Polls, MaxKeys, MaxRestarts

VARIABLES
  which, keySeq, pending, aim, request, applied, poll, agentRestarts, bridgeRestarts,
  pressed, typed, gone, overlap, order

T == INSTANCE Terminal

TVars == <<keySeq, pending, aim, request, applied, poll, agentRestarts, bridgeRestarts, pressed,
  typed, gone, overlap, order>>

\* Two entries of one chat, and two calls of serveTerminal, which may overlap.
TwoIds == {"i1", "i2"}
OneChat == {"chat"}
TwoPolls == 1..2

\* What is assumed of the constants.
ASSUME KeysAssumption == T!TerminalAssumption

Components == {"reminders", "terminal"}
Start ==
  /\ which \in Components
  /\ Init /\ T!Init

Step ==
  \/ which = "reminders" /\ Next /\ UNCHANGED <<which, TVars>>
  \/ which = "terminal" /\ T!Next /\ UNCHANGED <<which, vars>>

Sum ==
  /\ Start /\ [][Step]_<<which, vars, TVars>>
  /\ \/ which = "reminders" /\ Fairness
     \/ which = "terminal" /\ T!Fairness

----------------------------------------------------------------------------
\* The state of each part has its shape.
Types == CASE which = "reminders" -> TypeOK [] OTHER -> T!TypeOK

\* Terminal: keys are typed once and in order while the calls do not overlap, and
\* the agent skips only what it typed.
TypedInOrder == T!TypedInOrder /\ T!SkippedMeansTyped

\* What is due is settled and, with a page open, every key is typed in the end.
TimersCatchUp == WhatIsDueIsSettled /\ T!EveryKeyIsTyped

=============================================================================
