------------------------------- MODULE MCDesk -------------------------------
(*****************************************************************************)
(* One instance for TLC of each part that settles who is heard, who may look *)
(* and what is on record for them: the registry of chats (Chats, with one    *)
(* person of two numbers and a linked id), the requests of the panel         *)
(* (Panel), the pages (Pages) and the switches of each chat (Control).  A    *)
(* behaviour is one of a single part, which Init chooses.                    *)
(*****************************************************************************)
EXTENDS Chats, TLC

CONSTANTS p1, p2, l1, ann

CONSTANTS
  Slots, DPeople, DChats, DNone, MAX_FAILURES, WINDOW, JWKS_TTL, MaxNow, MaxRequests,
  MaxRotations, Slugs, GChats, Words, Open, MAX_IMAGES_PER_PAGE, Entries,
  MaxHands, MaxFaults, Typed, Rooms, Alone, MaxResets, MaxDrops, MaxUnsaved, MaxRestarts

VARIABLES
  which, now, newest, keys, failures, privacy, req, amiss, asked, page, running, GSaved,
  legible, byHand, verb, told, shown, hands, faults, held, stopped, generation, disk,
  unsaved, blocked, command, seen, lifted, drops, KFailures, restarts

D == INSTANCE Panel
  WITH People <- DPeople, Chats <- DChats, None <- DNone
G == INSTANCE Pages
  WITH Chats <- GChats, saved <- GSaved
K == INSTANCE Control
  WITH failures <- KFailures

DVars == <<now, newest, keys, failures, privacy, req, amiss, asked>>
GVars == <<page, running, GSaved, legible, byHand, verb, told, shown, hands, faults>>
KVars == <<held, stopped, generation, disk, unsaved, blocked, command, seen, lifted, drops,
  KFailures, restarts>>

TwoPhones == {p1, p2}
OneLid == {l1}
Ann == {ann}
Hers(i) == ann

\* A linked id comes with either number, or without.
Anyhow == {<<p1, None>>, <<p2, None>>, <<l1, p1>>, <<l1, p2>>, <<l1, None>>}

\* The requests are interchangeable, and so are the messages on their way.
Symmetry == Permutations(Slots) \cup Permutations(Handles)

ASSUME DeskAssumption == D!PanelAssumption /\ G!PagesAssumption /\ K!ControlAssumption

Components == {"chats", "panel", "pages", "control"}
Start ==
  /\ which \in Components
  /\ Init /\ D!Init /\ G!Init /\ K!Init

Step ==
  \/ which = "chats" /\ Next /\ UNCHANGED <<which, DVars, GVars, KVars>>
  \/ which = "panel" /\ D!Next /\ UNCHANGED <<which, vars, GVars, KVars>>
  \/ which = "pages" /\ G!Next /\ UNCHANGED <<which, vars, DVars, KVars>>
  \/ which = "control" /\ K!Next /\ UNCHANGED <<which, vars, DVars, GVars>>

Sum ==
  /\ Start /\ [][Step]_<<which, vars, DVars, GVars, KVars>>

----------------------------------------------------------------------------
\* The state of each part has its shape; no chain of merged records forms.
Types ==
  CASE which = "chats" -> TypeOK /\ NoChain
    [] which = "panel" -> D!TypeOK
    [] which = "pages" -> G!TypeOK
    [] OTHER -> K!TypeOK

\* Panel: a route that is judged shows under a rule in force while it was asked, and
\* somebody genuine is refused only if the keys could not be fetched for it.
PanelIsFair == which = "panel" => D!ServedUnderARuleInForce /\ D!GenuineIsHeard

\* Pages: visitors see a page as it was last taken down, put back or locked, and a
\* restart finds what was running.
PagesAreAsSaid == G!VisitorsSeeWhatWasSaid /\ [](which = "pages" => G!RestartChangesNothing)

\* Control: anybody may silence a chat, and only an operator undoes it.
SilenceIsTheOperatorsToLift == K!SilenceIsTheOperatorsToLift

=============================================================================
