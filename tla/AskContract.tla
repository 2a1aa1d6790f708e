----------------------------- MODULE AskContract -----------------------------
(***************************************************************************)
(* What the bridge promises of a question it puts to another process       *)
(* through a directory (a page for the browser, a call for a plugin): it   *)
(* ends once; as answered only if the other side took it; and when the     *)
(* words are that nothing was asked, the other side never takes it.        *)
(***************************************************************************)
CONSTANT Asks

VARIABLES
  outcome,   \* of each question: none, pending, answered, unknown, notAsked, lost
  taken      \* the questions the other side has acted on

contractVars == <<outcome, taken>>

Init == outcome = [a \in Asks |-> "none"] /\ taken = {}

Ask(a) == outcome[a] = "none" /\ outcome' = [outcome EXCEPT ![a] = "pending"] /\ UNCHANGED taken

\* It may be acted on although nobody waits for the answer any more.
Take(a) ==
  /\ outcome[a] \in {"pending", "unknown", "lost"} /\ a \notin taken
  /\ taken' = taken \cup {a} /\ UNCHANGED outcome

Conclude(a, o) ==
  /\ outcome[a] \in {"none", "pending"}
  /\ \/ o = "answered" /\ a \in taken
     \/ o = "notAsked" /\ a \notin taken
     \/ o = "unknown"
  /\ outcome' = [outcome EXCEPT ![a] = o] /\ UNCHANGED taken

Crash ==
  /\ outcome' = [a \in Asks |-> IF outcome[a] = "pending" THEN "lost" ELSE outcome[a]]
  /\ UNCHANGED taken

Next ==
  \/ \E a \in Asks : Ask(a) \/ Take(a) \/ \E o \in {"answered", "notAsked", "unknown"} : Conclude(a, o)
  \/ Crash

Spec == Init /\ [][Next]_contractVars

=============================================================================
