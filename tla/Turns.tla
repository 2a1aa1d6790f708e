------------------------------- MODULE Turns -------------------------------
(***************************************************************************)
(* The registry of speaking rights: bridge/src/turns.ts.                   *)
(*                                                                         *)
(* The bridge issues one turn per batch it hands to the agent.  A turn is  *)
(* the agent's only way to reach a chat: an action names a turn, and the   *)
(* registry says which chat that is, whether it may still speak, and how   *)
(* much of its allowance is left.  The registry lives in memory; what      *)
(* survives a restart is current.json, the pointer to the last turn        *)
(* published, from which index.ts adopts one turn again at boot.           *)
(*                                                                         *)
(* The clock is a bounded counter.  Every other number in the code (TTL,   *)
(* grace, budgets, capacity) is a constant of this module.                 *)
(***************************************************************************)
EXTENDS Integers, FiniteSets

CONSTANTS
  Turn,         \* turn ids; open() draws a fresh one (randomUUID)
  Chat,         \* chat keys
  Ttl,          \* ttlMs: how long after opening a turn may speak
  Grace,        \* CLOSED_TURN_GRACE_MS
  MaxSends,     \* limits.outboundPerTurn
  MaxTools,     \* limits.toolsPerTurn
  Capacity,     \* turns retained before the oldest is evicted
  MaxClock,     \* bound on the clock
  MaxRestarts   \* bound on bridge restarts

ASSUME TurnsAssumption ==
  /\ Ttl \in Nat /\ Grace \in Nat
  /\ MaxSends \in Nat \ {0} /\ MaxTools \in Nat
  /\ Capacity \in Nat \ {0}
  /\ MaxClock \in Nat /\ MaxRestarts \in Nat
  /\ Chat # {} /\ IsFiniteSet(Turn)

VARIABLES
  clock,      \* Date.now()
  live,       \* the keys of the Map: turns the registry can still find
  turn,       \* turn[t]: the record the Map holds under t, when t is live
  published,  \* current.json: set of at most one pointer, on disk
  restarts,   \* bridge restarts so far
  history     \* history[t]: what happened to t over every process lifetime

vars == <<clock, live, turn, published, restarts, history>>

NotClosed == -1   \* closedAt: null
Never == -1       \* nothing of the kind has happened yet

TurnRecord ==
  [chat: Chat, openedAt: Nat, inserted: Nat, fromOperator: BOOLEAN,
   sends: 0..MaxSends, tools: 0..MaxTools, closedAt: Nat \cup {NotClosed}]

Pointer == [turn: Turn, chat: Chat, startedAt: Nat]

(***************************************************************************)
(* History variables: nothing in the program reads them.                   *)
(*   issuedAt / boot   when, and in which process lifetime, open() ran     *)
(*   publishedAt       when publishTurn wrote the pointer                  *)
(*   firstClosed       when close() first reached the turn                 *)
(*   spoke             sends performed under the turn, in total            *)
(***************************************************************************)
HistoryRecord ==
  [issuedAt: Nat \cup {Never}, boot: Nat \cup {Never},
   publishedAt: Nat \cup {Never}, firstClosed: Nat \cup {Never},
   spoke: Nat]

NoTurn(c) ==
  [chat |-> c, openedAt |-> 0, inserted |-> 0, fromOperator |-> FALSE,
   sends |-> 0, tools |-> 0, closedAt |-> NotClosed]

NoHistory ==
  [issuedAt |-> Never, boot |-> Never, publishedAt |-> Never,
   firstClosed |-> Never, spoke |-> 0]

Init ==
  /\ clock = 0
  /\ live = {}
  /\ turn = [t \in Turn |-> NoTurn(CHOOSE c \in Chat : TRUE)]
  /\ published = {}
  /\ restarts = 0
  /\ history = [t \in Turn |-> NoHistory]

Issued == {t \in Turn : history[t].issuedAt # Never}

----------------------------------------------------------------------------
(* What the registry decides.  An operator whose name begins with Mutant is a
   plausible wrong version of the one after it; nothing uses it except a run
   that shows a property would notice. *)

\* now - openedAt > ttlMs
Expired(r) == clock - r.openedAt > Ttl

\* closedAt !== null && now - closedAt > CLOSED_TURN_GRACE_MS
MutantNoGraceLimit(r) == FALSE
PastGrace(r) == r.closedAt # NotClosed /\ clock - r.closedAt > Grace

MutantSendLeftOffByOne(r) == r.sends <= MaxSends
SendLeft(r) == r.sends < MaxSends
ToolLeft(r) == r.tools < MaxTools

\* resolve(), short of the budget check: the turn is known and has not gone stale.
Resolves(t) == t \in live /\ ~Expired(turn[t]) /\ ~PastGrace(turn[t])

\* evict(): expired turns go, then the oldest inserted until Capacity remain.
Evict(m, r) ==
  LET fresh == {t \in m : ~Expired(r[t])} IN
  {t \in fresh : Cardinality({u \in fresh : r[u].inserted > r[t].inserted}) < Capacity}

----------------------------------------------------------------------------
(* Operations *)

\* The turn deliver is holding: the last one this process opened.
LastOpened(t) ==
  /\ t \in Issued
  /\ history[t].boot = restarts
  /\ \A u \in Issued : history[u].boot = restarts => turn[u].inserted <= turn[t].inserted

\* dispatcher.inFlight: published by this process and not yet finished.
InFlight(t) ==
  /\ history[t].boot = restarts
  /\ history[t].publishedAt # Never
  /\ history[t].firstClosed = Never

\* open(): called by the dispatcher's deliver, which draws a fresh id and runs
\* only once the turn in flight has been finished.
Open(t, c, op) ==
  /\ t \notin Issued
  /\ \A u \in Issued : ~InFlight(u)
  /\ turn' = [turn EXCEPT ![t] =
       [chat |-> c, openedAt |-> clock, inserted |-> Cardinality(Issued) + 1,
        fromOperator |-> op, sends |-> 0, tools |-> 0, closedAt |-> NotClosed]]
  /\ live' = Evict(live \cup {t}, turn')
  /\ history' = [history EXCEPT ![t].issuedAt = clock, ![t].boot = restarts]
  /\ UNCHANGED <<clock, published, restarts>>

\* publishTurn(): deliver points current.json at the turn it just opened.
\* The pointer carries the time of the write, not the time of the opening.
Publish(t) ==
  /\ LastOpened(t)
  /\ history[t].publishedAt = Never
  /\ published' = {[turn |-> t, chat |-> turn[t].chat, startedAt |-> clock]}
  /\ history' = [history EXCEPT ![t].publishedAt = clock]
  /\ UNCHANGED <<clock, live, turn, restarts>>

\* close(): finishTurn closes the turn in flight, once.  A turn the registry no
\* longer holds is ignored.
Close(t) ==
  /\ InFlight(t)
  /\ turn' = IF t \in live THEN [turn EXCEPT ![t].closedAt = clock] ELSE turn
  /\ history' = [history EXCEPT ![t].firstClosed = clock]
  /\ UNCHANGED <<clock, live, published, restarts>>

\* An action that reaches a person: resolve(.., 'send') and then countSend,
\* with no await between them in the outbox.
Send(t) ==
  /\ Resolves(t)
  /\ SendLeft(turn[t])
  /\ turn' = [turn EXCEPT ![t].sends = @ + 1]
  /\ history' = [history EXCEPT ![t].spoke = @ + 1]
  /\ UNCHANGED <<clock, live, published, restarts>>

\* A tool request: resolve(.., 'tool') and then countTool.
UseTool(t) ==
  /\ Resolves(t)
  /\ ToolLeft(turn[t])
  /\ turn' = [turn EXCEPT ![t].tools = @ + 1]
  /\ UNCHANGED <<clock, live, published, restarts, history>>

\* adopt(): the record a restarted bridge rebuilds from the pointer.
MutantAdoptedAtBoot(p) ==
  [chat |-> p.chat, openedAt |-> clock, inserted |-> 0,
   fromOperator |-> FALSE, sends |-> 0, tools |-> 0, closedAt |-> NotClosed]
Adopted(p) ==
  [chat |-> p.chat, openedAt |-> p.startedAt, inserted |-> 0,
   fromOperator |-> FALSE, sends |-> 0, tools |-> 0, closedAt |-> NotClosed]

\* readCurrentTurn(turnTimeoutMs): null when the pointer is older than the TTL.
Interrupted == {p \in published : clock - p.startedAt <= Ttl}

\* The process stops and starts again: the Map is gone, one turn comes back.
Restart ==
  /\ restarts < MaxRestarts
  /\ restarts' = restarts + 1
  /\ live' = {p.turn : p \in Interrupted}
  /\ turn' = [t \in Turn |->
       IF t \in live' THEN Adopted(CHOOSE p \in Interrupted : TRUE) ELSE turn[t]]
  /\ UNCHANGED <<clock, published, history>>

Tick ==
  /\ clock < MaxClock
  /\ clock' = clock + 1
  /\ UNCHANGED <<live, turn, published, restarts, history>>

Next ==
  \/ \E t \in Turn, c \in Chat, op \in BOOLEAN : Open(t, c, op)
  \/ \E t \in Turn : Publish(t) \/ Close(t) \/ Send(t) \/ UseTool(t)
  \/ Restart
  \/ Tick

Spec == Init /\ [][Next]_vars

----------------------------------------------------------------------------
(* Properties *)

\* Every record, pointer and history entry has the shape the code gives it.
TypeOK ==
  /\ clock \in Nat
  /\ live \in SUBSET Turn
  /\ turn \in [Turn -> TurnRecord]
  /\ published \in SUBSET Pointer
  /\ restarts \in Nat
  /\ history \in [Turn -> HistoryRecord]

\* A turn goes stale on its own: whatever happens to it (closing, eviction, a
\* restart that adopts it again), it never speaks later than its TTL after it
\* was opened, or after current.json was pointed at it if that came later.
SpeaksInTime(t) ==
  \/ clock <= history[t].issuedAt + Ttl
  \/ history[t].publishedAt # Never /\ clock <= history[t].publishedAt + Ttl

Speaks(t) == history'[t].spoke # history[t].spoke

VoiceExpires == [][\A t \in Turn : Speaks(t) => SpeaksInTime(t)]_vars

\* Within one process lifetime, a closed turn speaks only inside the grace
\* window that covers the Stop hook's write racing the agent's idle report.
SpeaksBeforeSilence(t) ==
  history[t].firstClosed # Never => clock <= history[t].firstClosed + Grace

ClosedTurnFallsSilent ==
  [][\A t \in Turn : Speaks(t) /\ history[t].boot = restarts => SpeaksBeforeSilence(t)]_vars

\* The allowance is per turn, not per action, retry or close: as long as the
\* process that issued a turn is the one running, everything ever said under it
\* adds up to at most its allowance.
AllowanceIsPerTurn ==
  \A t \in Turn : history[t].boot = restarts => history[t].spoke <= MaxSends

\* Operator authority is decided from an envelope that a restart loses, so no
\* turn of an earlier lifetime carries it, adopted or not.
AuthorityDiesWithTheProcess ==
  \A t \in live : turn[t].fromOperator => history[t].boot = restarts

\* The turn handed out last is the one in use: making room for others never
\* takes it away while its TTL runs.
NewestTurnIsKept ==
  \A t \in Turn : LastOpened(t) /\ ~Expired(turn[t]) => t \in live

----------------------------------------------------------------------------
(***************************************************************************)
(* The strengthening that makes the properties inductive: what a held      *)
(* record has to do with the turn's history, and that current.json names   *)
(* one turn, as it was published.                                          *)
(***************************************************************************)
BootsInOrder ==
  \A t \in Turn :
    /\ history[t].boot # Never => history[t].boot <= restarts
    /\ history[t].boot = Never <=> history[t].issuedAt = Never
    /\ history[t].publishedAt # Never => t \in Issued

PointerIsHonest ==
  /\ \A p, q \in published : p = q
  /\ \A p \in published :
       /\ history[p.turn].publishedAt # Never
       /\ p.startedAt = history[p.turn].publishedAt

RecordsMatchHistory ==
  \A t \in live :
    /\ t \in Issued
    /\ history[t].boot = restarts =>
         /\ turn[t].openedAt = history[t].issuedAt
         /\ turn[t].sends = history[t].spoke
         /\ turn[t].closedAt = history[t].firstClosed
    /\ history[t].boot # restarts =>
         /\ history[t].publishedAt # Never
         /\ turn[t].openedAt = history[t].publishedAt
         /\ ~turn[t].fromOperator

RegistryInv ==
  /\ TypeOK
  /\ BootsInOrder
  /\ PointerIsHonest
  /\ RecordsMatchHistory
  /\ AllowanceIsPerTurn

=============================================================================
