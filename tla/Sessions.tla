------------------------------- MODULE Sessions -------------------------------
(***************************************************************************)
(* The session pool of the agent (agent/src/sessions.ts, tmux.ts), the     *)
(* brief a session is started with (workspace.ts) and the persona the      *)
(* operator saves (bridge/src/persona.ts).  Every chat is answered by one  *)
(* session, so the pool has one key.  runTurn acquires the session, the    *)
(* timer reaps it when it is idle, and both wait for tmux between looking  *)
(* at the pool and changing it.                                            *)
(***************************************************************************)
EXTENDS Naturals, FiniteSets

CONSTANTS
  IDLE_REAP,    \* IDLE_REAP_MS, in ticks
  TURN_TIMEOUT, \* how many ticks a turn may take
  MaxTurns, MaxResets, MaxSaves, MaxDeaths, MaxBadWrites   \* bounds of the model

\* What is assumed of the constants.
SessionsAssumption ==
  /\ IDLE_REAP \in Nat /\ TURN_TIMEOUT \in Nat /\ TURN_TIMEOUT < IDLE_REAP
  /\ MaxTurns \in Nat /\ MaxResets \in Nat /\ MaxSaves \in Nat
  /\ MaxDeaths \in Nat /\ MaxBadWrites \in Nat

VARIABLES
  live,         \* the record of the session, or NoSession
  windows,      \* tmux: the windows that bear its name
  next,         \* the next window's identity
  step,         \* where acquire stands; "idle" between turns, "given" during one
  want,         \* the generation acquire was called with
  session,      \* the record it holds: the existing one, then the one it returns
  brief,        \* the persona CLAUDE.md was composed from; 0 is the starter
  published,    \* persona.json: its version, 0 if there is none
  readable,     \* whether it can be read
  generation,   \* what !reset counts up
  age,          \* ticks since lastUsedAt
  turnAge,      \* ticks since the turn began
  reaping,      \* the record reap has decided to close
  landed,       \* whether its kill-window has reached tmux
  during,       \* history: what the persona was while acquire ran
  raced,        \* history: acquire came back while reap was closing what it had decided on,
                \* or with a record that reap had dropped meanwhile
  late,         \* history: reap dropped a record made after it decided
  cut,          \* history: reap closed the window of a turn
  left          \* turns, deaths, unreadable writes still to come

pool == <<live, windows, next>>
acquiring == <<step, want, session, brief, during>>
persona == <<published, readable>>
clock == <<age, turnAge>>
reaper == <<reaping, landed>>
history == <<raced, late, cut>>
sessionsVars == <<pool, acquiring, persona, generation, clock, reaper, history, left>>

NoSession == [win |-> 0, uuid |-> 0, version |-> 0, brief |-> 0]
NoBrief == MaxSaves + 1
Unreadable == MaxSaves + 1
Now == IF readable THEN published ELSE Unreadable

Init ==
  /\ live = NoSession /\ windows = {} /\ next = 1
  /\ step = "idle" /\ want = 0 /\ session = NoSession /\ brief = NoBrief /\ during = {}
  /\ published = 0 /\ readable = TRUE
  /\ generation = 0 /\ age = 0 /\ turnAge = 0
  /\ reaping = NoSession /\ landed = FALSE
  /\ raced = FALSE /\ late = FALSE /\ cut = FALSE
  /\ left = [turns |-> MaxTurns, deaths |-> MaxDeaths, badWrites |-> MaxBadWrites]

----------------------------------------------------------------------------
(* tmux, by the name of the window.  An operator whose name begins with Mutant
   is a plausible wrong version of the one after it. *)

\* killWindow: a name that two windows bear is ambiguous and closes neither.
Killed == IF Cardinality(windows) = 1 THEN {} ELSE windows
windowExists == windows # {}

----------------------------------------------------------------------------
(* acquire *)

To(s) == step' = s

\* runTurn calls acquire: a session of another generation is closed first.
Outdated == live # NoSession /\ live.uuid # generation

Acquire ==
  /\ step = "idle" /\ left.turns > 0
  /\ left' = [left EXCEPT !.turns = @ - 1]
  /\ want' = generation /\ during' = {Now} /\ session' = live
  /\ To(IF live = NoSession THEN "spawning" ELSE IF Outdated THEN "closing" ELSE "asking")
  /\ UNCHANGED <<pool, brief, persona, generation, clock, reaper, history>>

\* existing: handed back if its window is there and the persona did not change.
\* A persona that cannot be read is no reason to start again.
SameBrief == Now \in {Unreadable, session.version}

\* windowExists answers.  reap may have dropped the record while it was awaited.
Ask ==
  /\ step = "asking"
  /\ IF windowExists
       THEN IF SameBrief
              THEN /\ age' = 0 /\ turnAge' = 0
                   /\ raced' = (raced \/ reaping # NoSession \/ live = NoSession)
                   /\ To("given") /\ UNCHANGED live
              ELSE To("closing") /\ UNCHANGED <<live, clock, raced>>
       ELSE To("spawning") /\ live' = NoSession /\ UNCHANGED <<clock, raced>>
  /\ UNCHANGED <<windows, next, want, session, brief, during, persona, generation, reaper, late, cut, left>>

Close ==
  /\ step = "closing"
  /\ windows' = Killed
  /\ live' = NoSession
  /\ To("spawning")
  /\ UNCHANGED <<next, want, session, brief, during, persona, generation, clock, reaper, history, left>>

\* ensureWorkspace: the brief is composed anew, unless the persona cannot be read
\* and there is one already.
Brief == IF readable THEN published ELSE IF brief = NoBrief THEN 0 ELSE brief
Version == IF readable THEN published ELSE 0

\* spawnWindow, under the brief as it is now; or tmux refuses.
Spawn ==
  /\ step = "spawning"
  /\ \/ /\ brief' = Brief
        /\ windows' = windows \cup {next} /\ next' = next + 1
        /\ session' = [win |-> next, uuid |-> want, version |-> Version, brief |-> Brief]
        /\ To("drawing")
     \/ brief' = Brief /\ To("idle") /\ UNCHANGED <<windows, next, session>>
  /\ UNCHANGED <<live, want, during, persona, generation, clock, reaper, history, left>>

\* waitReady found the prompt: only now is there a record.
Ready ==
  /\ step = "drawing" /\ session.win \in windows
  /\ live' = session /\ age' = 0 /\ turnAge' = 0
  /\ raced' = (raced \/ reaping # NoSession)
  /\ To("given")
  /\ UNCHANGED <<windows, next, want, session, brief, during, persona, generation, reaper, late, cut, left>>

\* It did not: what is half drawn is closed again.
ReadyTooLate ==
  /\ step = "drawing"
  /\ windows' = Killed
  /\ To("idle")
  /\ UNCHANGED <<live, next, want, session, brief, during, persona, generation, clock, reaper, history, left>>

\* The rest of runTurn, answered or abandoned.
EndTurn ==
  /\ step = "given"
  /\ To("idle")
  /\ UNCHANGED <<pool, want, session, brief, during, persona, generation, clock, reaper, history, left>>

----------------------------------------------------------------------------
(* reap, from its timer *)

MutantIdle == TRUE
IdleLong == age >= IDLE_REAP

Reap ==
  /\ reaping = NoSession /\ live # NoSession /\ IdleLong
  /\ reaping' = live /\ landed' = FALSE
  /\ UNCHANGED <<pool, acquiring, persona, generation, clock, history, left>>

ReapKill ==
  /\ reaping # NoSession /\ ~landed
  /\ landed' = TRUE
  /\ windows' = Killed
  /\ cut' = (cut \/ (step = "given" /\ session.win \in windows /\ session.win \notin Killed))
  /\ UNCHANGED <<live, next, acquiring, persona, generation, clock, reaping, raced, late, left>>

\* The record is dropped by its key, whichever record that is by now.
ReapDelete ==
  /\ reaping # NoSession /\ landed
  /\ live' = NoSession
  /\ late' = (late \/ live \notin {NoSession, reaping})
  /\ reaping' = NoSession /\ landed' = FALSE
  /\ UNCHANGED <<windows, next, acquiring, persona, generation, clock, raced, cut, left>>

----------------------------------------------------------------------------
(* The operator, the session itself, and time *)

Reset ==
  /\ generation < MaxResets
  /\ generation' = generation + 1
  /\ UNCHANGED <<pool, acquiring, persona, clock, reaper, history, left>>

\* savePersonaPart and revertPersonaPart end in publishPersona.
publishPersona ==
  /\ published < MaxSaves
  /\ published' = published + 1 /\ readable' = TRUE
  /\ during' = during \cup {published'}
  /\ UNCHANGED <<pool, step, want, session, brief, generation, clock, reaper, history, left>>

\* The file is there and cannot be read, until it is published again.
BadWrite ==
  /\ left.badWrites > 0 /\ readable /\ published > 0
  /\ left' = [left EXCEPT !.badWrites = @ - 1]
  /\ readable' = FALSE
  /\ during' = during \cup {Unreadable}
  /\ UNCHANGED <<pool, step, want, session, brief, published, generation, clock, reaper, history>>

\* Claude Code exits, or an operator closes the window.
WindowDies(w) ==
  /\ left.deaths > 0 /\ left' = [left EXCEPT !.deaths = @ - 1]
  /\ w \in windows /\ windows' = windows \ {w}
  /\ UNCHANGED <<live, next, acquiring, persona, generation, clock, reaper, history>>

\* acquire and a kill take less than a tick, a turn at most TURN_TIMEOUT of them.
Tick ==
  /\ step = "idle" \/ (step = "given" /\ turnAge < TURN_TIMEOUT)
  /\ reaping = NoSession /\ age < IDLE_REAP
  /\ age' = age + 1
  /\ turnAge' = IF step = "given" THEN turnAge + 1 ELSE turnAge
  /\ UNCHANGED <<pool, acquiring, persona, generation, reaper, history, left>>

Next ==
  \/ Acquire \/ Ask \/ Close \/ Spawn \/ Ready \/ ReadyTooLate \/ EndTurn
  \/ Reap \/ ReapKill \/ ReapDelete
  \/ Reset \/ publishPersona \/ BadWrite \/ (\E w \in windows : WindowDies(w)) \/ Tick

\* What acquire and reap wait for is a tmux command, which returns, or waitReady,
\* which has a deadline; a turn has its timeout.
Fairness ==
  /\ WF_sessionsVars(Ask) /\ WF_sessionsVars(Close) /\ WF_sessionsVars(Spawn)
  /\ WF_sessionsVars(Ready \/ ReadyTooLate) /\ WF_sessionsVars(EndTurn)
  /\ WF_sessionsVars(ReapKill) /\ WF_sessionsVars(ReapDelete)

Spec == Init /\ [][Next]_sessionsVars

----------------------------------------------------------------------------
(* Properties *)

Session == [win: 0..next, uuid: 0..MaxResets, version: 0..MaxSaves, brief: 0..MaxSaves]

\* The pool, the windows and the two awaiting callers have their shapes.
TypeOK ==
  /\ live \in Session /\ windows \subseteq 1..next /\ next \in Nat
  /\ step \in {"idle", "asking", "closing", "spawning", "drawing", "given"}
  /\ want \in 0..MaxResets /\ session \in Session /\ brief \in 0..NoBrief
  /\ published \in 0..MaxSaves /\ readable \in BOOLEAN /\ during \subseteq 0..Unreadable
  /\ generation \in 0..MaxResets /\ age \in 0..IDLE_REAP /\ turnAge \in 0..TURN_TIMEOUT
  /\ reaping \in Session /\ landed \in BOOLEAN
  /\ raced \in BOOLEAN /\ late \in BOOLEAN /\ cut \in BOOLEAN

\* A turn is answered under what the operator asked for last: in the context of
\* the generation it was published with, by a session whose brief is a persona
\* that stood while it was acquired, or the one it had when none could be read.
AnswersAsAsked ==
  step = "given" =>
    /\ session.uuid = want
    /\ session.brief \in during \/ Unreadable \in during

\* The pool never loses a window that runs, so a name never has two windows, unless
\* reap dropped a record made after it decided; and reap takes no window from under
\* a turn, unless it was still closing what it had decided on when acquire came back.
PoolKeepsTrack ==
  /\ cut => raced
  /\ ~late => /\ Cardinality(windows) <= 1
              /\ step # "drawing" => windows \subseteq {live.win}

\* A turn that waits for a session goes on with one, or without.
AcquireReturns == step \notin {"idle", "given"} ~> step \in {"idle", "given"}

=============================================================================
