------------------------------- MODULE Rooms -------------------------------
(***************************************************************************)
(* Two things the operator does from the panel on the strength of what the *)
(* bridge has on record: he makes the agent leave a room, and he types a   *)
(* line at the prompt of the conversation the agent is on.  Between the    *)
(* look at the record and the deed there is an await, or a file and the    *)
(* agent's timer, and the room, the connection and the turn go on.         *)
(***************************************************************************)
EXTENDS Integers, Sequences

CONSTANTS MaxDrops, MaxAdded, MaxTurns   \* bounds

RoomsAssumption == {MaxDrops, MaxAdded, MaxTurns} \subseteq Nat

VARIABLES
  member, left,   \* in the room, and what the bridge has on record
  leaving,        \* the panel's request to leave
  up, drops,      \* the connection, and how often it was lost
  added,          \* how often he was let in again
  turn,           \* the newest turn: of this conversation or another, open or ended
  lines,          \* lines written for the prompt, each with its turn's number
  heard           \* lines typed, with the turn they were written in and the one they met

room == <<member, left, leaving, added>>
line == <<up, drops>>
prompt == <<turn, lines, heard>>
vars == <<room, line, prompt>>

TypeOK ==
  /\ {member, left, up} \subseteq BOOLEAN
  /\ leaving \in {"no", "asked", "gone", "refused"}
  /\ drops \in 0..MaxDrops /\ added \in 0..MaxAdded
  /\ turn \in [n : 0..MaxTurns, here : BOOLEAN, open : BOOLEAN]
  /\ \A i \in DOMAIN lines : lines[i] \in 1..MaxTurns
  /\ heard \subseteq (1..MaxTurns) \X (1..MaxTurns)

Init ==
  /\ member = TRUE /\ left = FALSE /\ leaving = "no" /\ added = 0
  /\ up = TRUE /\ drops = 0
  /\ turn = [n |-> 0, here |-> FALSE, open |-> FALSE]
  /\ lines = <<>> /\ heard = {}

----------------------------------------------------------------------------
(* Leaving *)

Leave ==
  /\ leaving = "no" /\ ~left
  /\ leaving' = "asked"
  /\ UNCHANGED <<member, left, added, line, prompt>>

Lands ==
  /\ leaving = "asked" /\ up /\ member
  /\ member' = FALSE /\ leaving' = "gone"
  /\ UNCHANGED <<left, added, line, prompt>>

Acked ==
  /\ leaving = "gone"
  /\ left' = TRUE /\ leaving' = "no"
  /\ UNCHANGED <<member, added, line, prompt>>

\* Refused, for whatever reason, or lost with the connection.
Fails ==
  /\ leaving = "asked" \/ (leaving = "gone" /\ ~up)
  /\ leaving' = "refused"
  /\ UNCHANGED <<member, left, added, line, prompt>>

\* The room is asked for, and any failure to get it is taken for a no.
IsInGroup == up /\ member

Checked ==
  /\ leaving = "refused"
  /\ left' = (left \/ ~IsInGroup) /\ leaving' = "no"
  /\ UNCHANGED <<member, added, line, prompt>>

Added ==
  /\ ~member /\ added < MaxAdded
  /\ member' = TRUE /\ added' = added + 1
  /\ UNCHANGED <<left, leaving, line, prompt>>

\* A message from the room is the proof that he is in it.
RoomSpeaks ==
  /\ member /\ left /\ up
  /\ left' = FALSE
  /\ UNCHANGED <<member, leaving, added, line, prompt>>

Drop == up /\ drops < MaxDrops /\ up' = FALSE /\ drops' = drops + 1
        /\ UNCHANGED <<room, prompt>>
Reconnect == ~up /\ up' = TRUE /\ UNCHANGED <<drops, room, prompt>>

----------------------------------------------------------------------------
(* Typing at the prompt *)

\* Only into the conversation the agent is on, and while its turn is open.
MayType == turn.here /\ turn.open

SendToChat ==
  /\ MayType /\ lines = <<>>
  /\ lines' = <<turn.n>>
  /\ UNCHANGED <<turn, heard, room, line>>

\* The agent's timer finds the line, and types it at the prompt as it is by then.
TypesLine ==
  /\ lines # <<>>
  /\ heard' = heard \cup {<<Head(lines), turn.n>>}
  /\ lines' = Tail(lines)
  /\ UNCHANGED <<turn, room, line>>

TurnBegins(here) ==
  /\ ~turn.open /\ turn.n < MaxTurns
  /\ turn' = [n |-> turn.n + 1, here |-> here, open |-> TRUE]
  /\ UNCHANGED <<lines, heard, room, line>>

TurnEnds ==
  /\ turn.open
  /\ turn' = [turn EXCEPT !.open = FALSE]
  /\ UNCHANGED <<lines, heard, room, line>>

----------------------------------------------------------------------------
Next ==
  \/ Leave \/ Lands \/ Acked \/ Fails \/ Checked \/ Added \/ RoomSpeaks
  \/ Drop \/ Reconnect
  \/ SendToChat \/ TypesLine \/ TurnEnds
  \/ \E here \in BOOLEAN : TurnBegins(here)

Spec == Init /\ [][Next]_vars

----------------------------------------------------------------------------
\* The code says that a dropped connection says nothing about membership, and
\* must not be reported as though it did: a room on record as left is one he is
\* not in, unless he was let in again since.
LeftMeansGone == left => ~member \/ added > 0

\* The same, while the connection holds: what groupLeave makes of a refusal.
LeftWithReason == drops = 0 => LeftMeansGone

\* sendToChat: "you may only type into the conversation the agent is actually on":
\* a line written in one turn is typed in that turn.
TypedIntoItsTurn == \A x \in heard : x[1] = x[2]

=============================================================================
