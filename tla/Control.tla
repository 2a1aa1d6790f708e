------------------------------- MODULE Control -------------------------------
(***************************************************************************)
(* The operator's commands, typed in a chat (control.ts, and its place in  *)
(* dispatcher.ts) or pressed in the panel (panel-api.ts), and the switches *)
(* they leave on disk (state.ts).  A handler runs until it awaits the      *)
(* transport, which it does to acknowledge: what a command does is done    *)
(* before anybody is told.                                                 *)
(***************************************************************************)
EXTENDS Naturals, FiniteSets

CONSTANTS
  Typed,         \* the messages that are commands, each typed once
  Rooms, Alone,  \* groups; conversations with one person
  MaxResets, MaxDrops, MaxUnsaved, MaxRestarts   \* bounds

Chats == Rooms \cup Alone
People == {"operator", "someone"}

\* stop and stopjuan are one command; unknown is any other word after the "!".
Names == {"help", "status", "chats", "hold", "release", "stop", "releasejuan", "block", "unblock",
          "reset", "unknown"}
OpenToEveryone == {"stop"}
OperatorAnywhere == {"releasejuan"}

ControlAssumption ==
  /\ IsFiniteSet(Typed) /\ IsFiniteSet(Chats) /\ Rooms \cap Alone = {} /\ Chats # {}
  /\ {MaxResets, MaxDrops, MaxUnsaved, MaxRestarts} \subseteq Nat

VARIABLES
  held, stopped, generation,  \* the switches of the running bridge
  disk,                       \* state.json
  unsaved,   \* history: whether the last write of it failed
  blocked,                    \* of the registry, flushed at once
  command,   \* each command: who typed it, where, and how far it has come
  seen,      \* history: what each chat was shown by the commands
  lifted,    \* history: who lifted a silence last
  drops, failures, restarts

switches == <<held, stopped, generation, blocked>>
file == <<disk, unsaved, failures>>
bounds == <<drops, restarts>>
controlVars == <<switches, file, command, seen, lifted, bounds>>

(* Where a command is: running is after its first await, of a mark on the message
   or of a line said in the chat. *)
Stages == {"none", "marking", "saying", "over"}
Command == [at : Stages, by : People, in : Chats, name : Names, held : BOOLEAN]
Untyped ==
  [at |-> "none", by |-> "someone", in |-> CHOOSE c \in Chats : TRUE, name |-> "unknown", held |-> FALSE]

Over == [Untyped EXCEPT !.at = "over"]

Init ==
  /\ held = FALSE /\ stopped = {} /\ generation = 0 /\ blocked = {}
  /\ disk = [held |-> FALSE, stopped |-> {}, generation |-> 0] /\ unsaved = FALSE
  /\ command = [m \in Typed |-> Untyped]
  /\ seen = [c \in Chats |-> {}] /\ lifted = "nobody"
  /\ drops = 0 /\ failures = 0 /\ restarts = 0

----------------------------------------------------------------------------
(* Who may say what, where *)

\* controlDisposition.  What is not run and not sent elsewhere goes on to the
\* gate as any message does.
MutantRunsInRooms(who, c, name) == name \in OpenToEveryone \/ who = "operator"
Runs(who, c, name) ==
  \/ name \in OpenToEveryone
  \/ who = "operator" /\ (name \in OperatorAnywhere \/ c \notin Rooms)

WrongRoom(who, c, name) == who = "operator" /\ ~Runs(who, c, name)

\* stop and releasejuan put a mark on the message in a room, if the platform has
\* marks; everything else is said.
FirstStage(c, name) ==
  IF c \in Rooms /\ name \in {"stop", "releasejuan"} THEN {"marking", "saying"} ELSE {"saying"}

Types(m, who, c, name) ==
  \E stage \in FirstStage(c, name) :
    command' = [command EXCEPT ![m] = [at |-> stage, by |-> who, in |-> c, name |-> name, held |-> held]]

\* The operator is told that it is the wrong room, and nothing of what was asked.
Misplaced(m, who, c, name) ==
  /\ command[m].at = "none" /\ WrongRoom(who, c, name)
  /\ command' = [command EXCEPT ![m] = Over]
  /\ seen' = [seen EXCEPT ![c] = @ \cup {"wrongRoom"}]
  /\ UNCHANGED <<switches, file, lifted, bounds>>

----------------------------------------------------------------------------
(* What a command does, before its first await *)

\* flush: all of it at once; a write that fails is logged, and the switch holds.
Flush ==
  \/ /\ disk' = [held |-> held', stopped |-> stopped', generation |-> generation']
     /\ unsaved' = FALSE /\ UNCHANGED failures
  \/ /\ failures < MaxUnsaved /\ failures' = failures + 1
     /\ unsaved' = TRUE /\ UNCHANGED disk

SetHold(b) == held' = b /\ UNCHANGED <<stopped, generation, blocked>> /\ Flush
StopChat(c) == stopped' = stopped \cup {c} /\ UNCHANGED <<held, generation, blocked>> /\ Flush
StartChat(c) ==
  IF c \in stopped
  THEN stopped' = stopped \ {c} /\ UNCHANGED <<held, generation, blocked>> /\ Flush
  ELSE UNCHANGED <<switches, file>>
SetBlocked(c, b) ==
  /\ blocked' = IF b THEN blocked \cup {c} ELSE blocked \ {c}
  /\ UNCHANGED <<held, stopped, generation, file>>
Reset ==
  /\ generation < MaxResets /\ generation' = generation + 1
  /\ UNCHANGED <<held, stopped, blocked>> /\ Flush

\* handleControl: a key that names no chat changes nothing, and neither does what
\* only reports.
Does(c, name) ==
  \/ name \in {"hold", "release"} /\ SetHold(name = "hold")
  \/ name = "stop" /\ StopChat(c)
  \/ name = "releasejuan" /\ StartChat(c)
  \/ name \in {"block", "unblock"} /\ \E d \in Chats : SetBlocked(d, name = "block")
  \/ name = "reset" /\ Reset
  \/ name \in {"help", "status", "chats", "block", "unblock", "reset", "unknown"} /\ UNCHANGED <<switches, file>>

\* Silence is lifted where there was some and is none.
Lifting == (held /\ ~held') \/ ~(stopped \subseteq stopped') \/ ~(blocked \subseteq blocked')
Noted(who) == lifted' = IF Lifting THEN who ELSE lifted

Type(m, who, c, name) ==
  /\ command[m].at = "none" /\ Runs(who, c, name)
  /\ Types(m, who, c, name)
  /\ Does(c, name)
  /\ Noted(who)
  /\ UNCHANGED <<seen, bounds>>

\* runAction: the panel's buttons, for what an operator types.
Press(c, name) ==
  /\ name \in {"hold", "release", "stop", "releasejuan", "block", "unblock"}
  /\ Does(c, name)
  /\ Noted("panel")
  /\ UNCHANGED <<command, seen, bounds>>

----------------------------------------------------------------------------
(* What is shown for it *)

\* What is said in words: a line for stop and releasejuan, which says also that
\* delivery is held, if it was when it was run; a report for everything else.
Shown(m) ==
  LET cmd == command[m] IN
  CASE cmd.name = "releasejuan" -> {"line"} \cup IF cmd.held THEN {"held"} ELSE {}
    [] cmd.name = "stop" -> {"line"}
    [] OTHER -> {"report"}

\* The mark is on the message; after it a chat that is still held is told so.
Marked(m) ==
  /\ command[m].at = "marking"
  /\ seen' = [seen EXCEPT ![command[m].in] = @ \cup {"mark"}]
  /\ command' = [command EXCEPT ![m] =
       IF @.name = "releasejuan" /\ @.held THEN [@ EXCEPT !.at = "saying"] ELSE Over]
  /\ UNCHANGED <<switches, file, lifted, bounds>>

\* The mark did not get there: a line instead, since silence cannot be told from
\* the command having done nothing.
MarkFails(m) ==
  /\ command[m].at = "marking" /\ drops < MaxDrops
  /\ drops' = drops + 1
  /\ command' = [command EXCEPT ![m].at = "saying"]
  /\ UNCHANGED <<switches, file, seen, lifted, restarts>>

Said(m) ==
  /\ command[m].at = "saying"
  /\ seen' = [seen EXCEPT ![command[m].in] = @ \cup Shown(m)]
  /\ command' = [command EXCEPT ![m] = Over]
  /\ UNCHANGED <<switches, file, lifted, bounds>>

\* The process ends: whoever was being told is not, and the switches are read
\* back from the disk, as the last write of them left it.
Kept == stopped' = disk.stopped /\ held' = disk.held /\ generation' = disk.generation
Restart ==
  /\ restarts < MaxRestarts
  /\ restarts' = restarts + 1
  /\ Kept /\ unsaved' = FALSE
  /\ command' = [m \in Typed |-> IF command[m].at = "none" THEN Untyped ELSE Over]
  /\ UNCHANGED <<disk, failures, blocked, seen, lifted, drops>>

Next ==
  \/ \E m \in Typed :
       \/ Marked(m) \/ MarkFails(m) \/ Said(m)
       \/ \E who \in People, c \in Chats, name \in Names : Type(m, who, c, name) \/ Misplaced(m, who, c, name)
  \/ \E c \in Chats, name \in Names : Press(c, name)
  \/ Restart

Spec == Init /\ [][Next]_controlVars

----------------------------------------------------------------------------
(* Properties *)

\* The switches, the commands and the histories have their shapes.
TypeOK ==
  /\ held \in BOOLEAN /\ stopped \subseteq Chats /\ generation \in 0..MaxResets /\ blocked \subseteq Chats
  /\ command \in [Typed -> Command]
  /\ seen \in [Chats -> SUBSET {"mark", "line", "held", "wrongRoom", "report"}]
  /\ lifted \in People \cup {"nobody", "panel"}
  /\ disk \in [held : BOOLEAN, stopped : SUBSET Chats, generation : 0..MaxResets]
  /\ unsaved \in BOOLEAN
  /\ drops \in 0..MaxDrops /\ failures \in 0..MaxUnsaved /\ restarts \in 0..MaxRestarts

\* control.ts: anybody may push toward quiet and only an operator can push back.
\* No one else's command lifts a silence, no one lifts more than one stop at a time
\* or a stop with the hold, and no restart lifts any unless the last write of the
\* switches failed; and a room is shown no report, whoever asks for one.
SilenceIsTheOperatorsToLift ==
  [][/\ lifted' # "someone"
     /\ restarts' = restarts => \E c \in Chats : stopped \ stopped' \subseteq {c}
     /\ restarts' = restarts /\ held /\ ~held' => stopped' = stopped
     /\ restarts' # restarts /\ ~unsaved => stopped' = stopped /\ held' = held
     /\ \A c \in Rooms : "report" \notin seen'[c]]_controlVars

=============================================================================
