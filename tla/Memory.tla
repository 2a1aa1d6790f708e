-------------------------------- MODULE Memory --------------------------------
(***************************************************************************)
(* What is remembered (bridge/src/memory.ts) and how a session comes to    *)
(* know it: from the brief it is started with (agent/src/workspace.ts),    *)
(* and from what the prompt hook adds on each turn (hooks/prompt.ts,       *)
(* memory-delta.ts).  Both go by one marker, the id of the newest note the *)
(* session was given.                                                      *)
(***************************************************************************)
EXTENDS Naturals, Sequences, SequencesExt

CONSTANTS
  Texts,            \* what may be asked to be remembered, letter case aside
  TooLong,          \* those of more than MAX_NOTE_CHARS
  MAX_NOTES, MEMORY_IN_BRIEF, MAX_CATCHUP,
  MaxIds            \* bound on the notes ever kept

\* What is assumed of the constants.
MemoryAssumption ==
  /\ TooLong \subseteq Texts
  /\ MAX_NOTES \in Nat \ {0} /\ MEMORY_IN_BRIEF \in Nat \ {0} /\ MAX_CATCHUP \in Nat \ {0}
  /\ MaxIds \in Nat

VARIABLES
  notes,      \* memory.json, oldest first
  lastId,     \* ids are fresh (UUIDs); a note's is when it was kept
  seen,       \* .markers/memory-seen: an id, 0 when empty or absent
  starting,   \* a session is being started: its marker is moved, its brief is not written
  briefed,    \* whether the workspace has a CLAUDE.md
  brief,      \* the notes it carries
  told,       \* the notes the hook has added to the session's context
  between,    \* history: notes kept since the marker was moved and before the brief was read
  skipped     \* history: notes left out by a ceiling, or by a brief that was kept

memoryVars == <<notes, lastId, seen, starting, briefed, brief, told, between, skipped>>

Init ==
  /\ notes = <<>> /\ lastId = 0 /\ seen = 0 /\ starting = FALSE
  /\ briefed = FALSE /\ brief = {} /\ told = {} /\ between = {} /\ skipped = {}

Ids(s) == {s[i].id : i \in DOMAIN s}
Newest(s, n) == SubSeq(s, IF Len(s) > n THEN Len(s) - n + 1 ELSE 1, Len(s))
Tip == IF notes = <<>> THEN 0 ELSE notes[Len(notes)].id

----------------------------------------------------------------------------
(* The bridge: the agent asks, the bridge writes, whatever a start of a session
   has come to.  An operator whose name begins with Mutant is a plausible wrong
   version of the one after it. *)

\* remember: refused when it is too long, and kept once.
remember(text) ==
  /\ text \notin TooLong
  /\ \A i \in DOMAIN notes : notes[i].text # text
  /\ lastId < MaxIds
  /\ lastId' = lastId + 1
  /\ notes' = Newest(Append(notes, [id |-> lastId', text |-> text]), MAX_NOTES)
  /\ between' = IF starting THEN between \cup {lastId'} ELSE between
  /\ UNCHANGED <<seen, starting, briefed, brief, told, skipped>>

forget(id) ==
  /\ \E i \in DOMAIN notes : notes[i].id = id /\ notes' = RemoveAt(notes, i)
  /\ UNCHANGED <<lastId, seen, starting, briefed, brief, told, between, skipped>>

forgetAll ==
  /\ notes # <<>>
  /\ notes' = <<>>
  /\ UNCHANGED <<lastId, seen, starting, briefed, brief, told, between, skipped>>

----------------------------------------------------------------------------
(* The agent *)

\* notesSince: what is after the marker, or all of it when the marker's note is
\* no longer in the store.
AfterSeen ==
  IF seen \in Ids(notes) THEN {i \in DOMAIN notes : notes[i].id > seen} ELSE DOMAIN notes

Fresh == {notes[i].id : i \in AfterSeen}
Carried == {notes[i].id : i \in {j \in AfterSeen : j > Len(notes) - MAX_CATCHUP}}

\* The prompt hook, on every turn of a session that runs.
MutantMark == seen
Mark == IF notes = <<>> THEN seen ELSE Tip

CatchUp ==
  /\ briefed /\ ~starting
  /\ told' = told \cup Carried
  /\ skipped' = skipped \cup (Fresh \ Carried)
  /\ seen' = Mark
  /\ UNCHANGED <<notes, lastId, starting, briefed, brief, between>>

\* ensureWorkspace, before the session is started: the marker is moved over the
\* notes there are, ...  The supervisor may die here, and the next start begins anew.
markMemorySeen ==
  /\ seen' = Tip /\ starting' = TRUE /\ between' = {}
  /\ UNCHANGED <<notes, lastId, briefed, brief, told, skipped>>

\* ... and the brief written, from the notes there are by then: sharedMemory reads
\* them again.  A brief whose persona cannot be read (kept) stays as it is.  A
\* reset begins a new context, a resumed session keeps what it was told.
writeBrief(kept, reset) ==
  /\ starting /\ (kept => briefed)
  /\ starting' = FALSE /\ briefed' = TRUE
  /\ brief' = IF kept THEN brief ELSE Ids(Newest(notes, MEMORY_IN_BRIEF))
  /\ told' = IF reset THEN {} ELSE told
  /\ skipped' = ({id \in Ids(notes) : id <= seen} \ (brief' \cup told'))
                 \cup (IF reset THEN {} ELSE skipped)
  /\ UNCHANGED <<notes, lastId, seen, between>>

Next ==
  \/ \E text \in Texts : remember(text)
  \/ \E id \in 1..lastId : forget(id)
  \/ forgetAll
  \/ CatchUp
  \/ markMemorySeen
  \/ \E kept, reset \in BOOLEAN : writeBrief(kept, reset)

Spec == Init /\ [][Next]_memoryVars

----------------------------------------------------------------------------
(* Properties *)

\* Notes are distinct, in the order they were kept, and no more than the store holds.
TypeOK ==
  /\ notes \in Seq([id: 1..lastId, text: Texts \ TooLong]) /\ Len(notes) <= MAX_NOTES
  /\ lastId \in 0..MaxIds /\ seen \in 0..lastId /\ starting \in BOOLEAN /\ briefed \in BOOLEAN
  /\ brief \subseteq 1..lastId /\ told \subseteq 1..lastId
  /\ between \subseteq 1..lastId /\ skipped \subseteq 1..lastId

\* The marker divides the memory, for a session that runs: what is not after it,
\* the session knows, or it was left out for a reason that is named; what is after
\* it, the session has not been told yet and will be on its next turn, and it
\* stands in the brief too only if it was kept between the two reads of the notes
\* its start makes.  That holds through notes kept, forgotten and aged out at any
\* moment, the marker's own among them, and through resets and resumed sessions.
MarkerDividesMemory ==
  briefed /\ ~starting =>
    \A i \in DOMAIN notes :
      LET id == notes[i].id
      IN  IF id <= seen THEN id \in brief \cup told \cup skipped
                        ELSE id \notin told /\ id \notin brief \ between

=============================================================================
