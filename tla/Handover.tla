------------------------------- MODULE Handover -------------------------------
(***************************************************************************)
(* One turn on both sides of the shared volume.  The bridge publishes a    *)
(* turn and decides when it is over (dispatcher.ts); the supervisor picks  *)
(* it up, brings a session up, types a prompt and watches it (agent/       *)
(* supervisor.ts, sessions.ts); the session answers through tulip-wa and   *)
(* the two hooks (wa-cli.ts, hooks/*.ts), which know the turn only from    *)
(* files in the shared workspace (workspace.ts).                           *)
(*                                                                         *)
(* The two sides have clocks of their own and no message but the files.    *)
(* Time is counted in the bridge's thirty-second noAck wait; Tick happens  *)
(* only when nothing that takes less than that is left to do.              *)
(***************************************************************************)
EXTENDS Integers, FiniteSets

CONSTANTS
  Turns,          \* number of turns published; a turn is its number
  Direct,         \* the turns of direct messages; the others are of groups
  NoAck,          \* TURN_START_TIMEOUT_MS
  BridgeTimeout,  \* limits.turnTimeoutMs
  AgentTimeout,   \* TURN_TIMEOUT_MS
  ReadyTimeout,   \* readyTimeoutMs: how long acquire() may take
  MaxStops,       \* bound on operator stops
  MaxRestarts,    \* bound on restarts of the agent's container
  Stragglers      \* whether a tool process may outlive the turn that started it

ASSUME HandoverAssumption ==
  /\ Turns \in Nat /\ Direct \subseteq 1..Turns
  /\ NoAck \in Nat \ {0} /\ BridgeTimeout \in Nat /\ AgentTimeout \in Nat /\ ReadyTimeout \in Nat
  /\ MaxStops \in Nat /\ MaxRestarts \in Nat
  /\ Stragglers \in BOOLEAN

VARIABLES
  slot,       \* the bridge: free, starting, stopped (while starting), running
  current,    \* current.json; turns are published in order
  files,      \* inbound/batches
  bridgeAge,  \* since the turn was published
  stops,      \* operator stops so far
  escape,     \* an Escape the terminal request carries and the agent has not typed
  sup,        \* the supervisor: polling, acquiring, confirming, watching, escaping, clearing
  mine,       \* the turn runTurn is running
  last,       \* lastTurnId
  busy,       \* status.json: busyTurn
  supAge,     \* since runTurn last changed what it waits for
  restarts,   \* restarts of the agent's container
  box,        \* the prompts typed and not accepted, one line
  phase,      \* the session: idle, working, stopping (its Stop hook runs)
  work,       \* the turns whose prompts the session is answering
  dotTurn,    \* .turn
  marks,      \* .markers: answering, busy, fallback, spoke
  strays,     \* turns of which a tool process is still running
  received,   \* history: turns the supervisor found with their batch
  over,       \* history: turns the bridge ended by itself
  held,       \* history: turns that waited out noAck behind an earlier one
  said        \* history: actions written, with the turn that wrote and the stamp

bridge == <<slot, current, files, bridgeAge, stops>>
supervisor == <<sup, mine, last, busy, supAge, restarts>>
session == <<box, phase, work>>
workspace == <<dotTurn, marks>>
vars == <<bridge, escape, supervisor, session, workspace, strays, received, over, held, said>>

None == 0
Turn == 1..Turns
MaxAge == 1 + (CHOOSE n \in {NoAck, BridgeTimeout, AgentTimeout, ReadyTimeout} :
                 \A k \in {NoAck, BridgeTimeout, AgentTimeout, ReadyTimeout} : k <= n)

NoMarks == [answering |-> None, busy |-> None, fallback |-> None, spoke |-> FALSE]

Init ==
  /\ slot = "free" /\ current = None /\ files = {} /\ bridgeAge = 0 /\ stops = 0
  /\ escape = FALSE
  /\ sup = "polling" /\ mine = None /\ last = None /\ busy = None /\ supAge = 0 /\ restarts = 0
  /\ box = {} /\ phase = "idle" /\ work = {}
  /\ dotTurn = None /\ marks = NoMarks
  /\ strays = {} /\ received = {} /\ over = {} /\ held = {} /\ said = {}

----------------------------------------------------------------------------
(* The bridge.  An operator whose name begins with Mutant is a plausible wrong
   version of the one after it; only a run that shows a property would notice
   uses it. *)

\* publishTurn, for the next batch there is.
Publish ==
  /\ slot = "free"
  /\ current < Turns
  /\ current' = current + 1
  /\ files' = files \cup {current'}
  /\ slot' = "starting"
  /\ bridgeAge' = 0
  /\ UNCHANGED <<stops, escape, supervisor, session, workspace, strays, received, over, held, said>>

\* awaitTurnStart: acknowledged, or noAck.
Acknowledged == slot \in {"starting", "stopped"} /\ (busy = current \/ bridgeAge >= NoAck)

StartEnds ==
  /\ Acknowledged
  /\ slot' = IF slot = "stopped" THEN "free" ELSE "running"
  /\ UNCHANGED <<current, files, bridgeAge, stops, escape, supervisor, session, workspace, strays,
                 received, over, held, said>>

\* retireBatch
MutantKeepBatch == files
Retired == files \ {current}

\* awaitTurnEnd: "agent reported idle", or "timed out".
TurnOver == slot = "running" /\ (busy # current \/ bridgeAge > BridgeTimeout)

FinishTurn ==
  /\ TurnOver
  /\ slot' = "free"
  /\ files' = Retired
  /\ over' = over \cup {current}
  /\ UNCHANGED <<current, bridgeAge, stops, escape, supervisor, session, workspace, strays,
                 received, held, said>>

\* stopNow and stopChat: an Escape for the busy window, and the turn abandoned.
\* The release that follows is Publish.
Stop ==
  /\ slot \in {"starting", "running"}
  /\ stops < MaxStops
  /\ stops' = stops + 1
  /\ escape' = TRUE
  /\ slot' = IF slot = "starting" THEN "stopped" ELSE "free"
  /\ files' = Retired
  /\ UNCHANGED <<current, bridgeAge, supervisor, session, workspace, strays, received, over, held, said>>

----------------------------------------------------------------------------
(* The supervisor *)

\* main loop and the head of runTurn: a turn not seen before, and its batch.
Receive ==
  /\ sup = "polling"
  /\ current # last
  /\ last' = current
  /\ mine' = current
  /\ supAge' = 0
  /\ IF current \in files
       THEN sup' = "acquiring" /\ received' = received \cup {current}
       ELSE UNCHANGED <<sup, received>>      \* turn.batchMissing
  /\ UNCHANGED <<bridge, escape, busy, restarts, session, workspace, strays, over, held, said>>

\* acquire() came back with a session: setTurn, and the prompt is typed.
Fallback(t) == IF t \in Direct THEN t ELSE None

Prompt ==
  /\ sup = "acquiring"
  /\ dotTurn' = mine
  /\ marks' = [marks EXCEPT !.fallback = Fallback(mine)]
  /\ box' = box \cup {mine}
  /\ sup' = "confirming"
  /\ UNCHANGED <<bridge, escape, mine, last, busy, supAge, restarts, phase, work, strays,
                 received, over, held, said>>

\* acquire() came back without one: the spawn failed, or nothing was drawn in time.
NoSession ==
  /\ sup = "acquiring"
  /\ sup' = "polling"
  /\ UNCHANGED <<bridge, escape, mine, last, busy, supAge, restarts, session, workspace, strays,
                 received, over, held, said>>

\* sendPrompt: the prompt hook's marker, or a pane at work.
Confirmed == marks.answering = mine \/ phase = "working"

Started ==
  /\ sup = "confirming"
  /\ Confirmed
  /\ busy' = mine
  /\ supAge' = 0
  /\ sup' = "watching"
  /\ UNCHANGED <<bridge, escape, mine, last, restarts, session, workspace, strays, received, over, held, said>>

\* sendPrompt: three Enters, and no turn began.
Unconfirmed ==
  /\ sup = "confirming"
  /\ ~Confirmed
  /\ sup' = "escaping"
  /\ UNCHANGED <<bridge, escape, mine, last, busy, supAge, restarts, session, workspace, strays,
                 received, over, held, said>>

\* waitForTurnEnd: neither the busy marker nor the pane says it is at work.
Quiet == marks.busy # mine /\ phase # "working"

Done ==
  /\ sup = "watching"
  /\ Quiet
  /\ busy' = None
  /\ sup' = "polling"
  /\ UNCHANGED <<bridge, escape, mine, last, supAge, restarts, session, workspace, strays,
                 received, over, held, said>>

MutantNoTimeout == FALSE
RunsTooLong == sup = "watching" /\ ~Quiet /\ supAge >= AgentTimeout

TimeOut ==
  /\ RunsTooLong
  /\ sup' = "escaping"
  /\ UNCHANGED <<bridge, escape, mine, last, busy, supAge, restarts, session, workspace, strays,
                 received, over, held, said>>

\* What Escape does to a session: the turn stops where it is, its Stop hook does
\* not run, and a prompt not accepted is gone.
Interrupted ==
  /\ box' = {}
  /\ phase' = IF phase = "working" THEN "idle" ELSE phase
  /\ work' = IF phase = "working" THEN {} ELSE work
  /\ \/ strays' = strays
     \/ Stragglers /\ phase = "working" /\ strays' = strays \cup work

\* abandonTurn: Escape, and a second later the turn is unbound.
PressEscape ==
  /\ sup = "escaping"
  /\ Interrupted
  /\ sup' = "clearing"
  /\ UNCHANGED <<bridge, escape, mine, last, busy, supAge, restarts, workspace, received, over, held, said>>

Unbound == marks' = [marks EXCEPT !.fallback = None] /\ dotTurn' = None

ClearTurn ==
  /\ sup = "clearing"
  /\ Unbound
  /\ busy' = None
  /\ sup' = "polling"
  /\ UNCHANGED <<bridge, escape, mine, last, supAge, restarts, session, strays, received, over, held, said>>

\* serveTerminal: the Escape of a stop reaches the pane.
TypeEscape ==
  /\ escape
  /\ escape' = FALSE
  /\ Interrupted
  /\ UNCHANGED <<bridge, supervisor, workspace, received, over, held, said>>

\* The container stops and starts: the files stay, nothing that ran does.
AgentRestart ==
  /\ restarts < MaxRestarts
  /\ restarts' = restarts + 1
  /\ sup' = "polling" /\ mine' = None /\ last' = None /\ busy' = None /\ supAge' = 0
  /\ box' = {} /\ phase' = "idle" /\ work' = {}
  /\ strays' = {}
  /\ UNCHANGED <<bridge, escape, workspace, received, over, held, said>>

----------------------------------------------------------------------------
(* The session *)

\* hooks/prompt.ts: a prompt is accepted; the turn is what .turn says now.
Bound == [marks EXCEPT !.answering = dotTurn, !.busy = dotTurn, !.spoke = FALSE]

AcceptPrompt ==
  /\ phase = "idle"
  /\ box # {}
  /\ work' = box
  /\ box' = {}
  /\ phase' = "working"
  /\ marks' = Bound
  /\ UNCHANGED <<bridge, escape, supervisor, dotTurn, strays, received, over, held, said>>

Action(from, stamp, via) == [from |-> from, stamp |-> stamp, via |-> via]

\* tulip-wa send: stamped with .turn, refused when there is none.
Say ==
  /\ phase = "working"
  /\ dotTurn # None
  /\ said' = said \cup {Action(t, dotTurn, "send") : t \in work}
  /\ marks' = [marks EXCEPT !.spoke = TRUE]
  /\ UNCHANGED <<bridge, escape, supervisor, session, dotTurn, strays, received, over, held>>

\* The same command from a process that outlived its turn.
StraySay(t) ==
  /\ t \in strays
  /\ strays' = strays \ {t}
  /\ dotTurn # None
  /\ said' = said \cup {Action(t, dotTurn, "stray")}
  /\ marks' = [marks EXCEPT !.spoke = TRUE]
  /\ UNCHANGED <<bridge, escape, supervisor, session, dotTurn, received, over, held>>

FinishWork ==
  /\ phase = "working"
  /\ phase' = "stopping"
  /\ UNCHANGED <<bridge, escape, supervisor, box, work, workspace, strays, received, over, held, said>>

\* hooks/stop.ts, fallback.ts: what the session did not say is said for it, in a
\* direct message whose turn is still the one bound; then busy is removed.
MutantRelayCurrent == dotTurn
AutomaticFallbackTurn == IF marks.fallback = marks.answering THEN marks.answering ELSE None

StopHook ==
  /\ phase = "stopping"
  /\ said' = IF ~marks.spoke /\ AutomaticFallbackTurn # None
               THEN said \cup {Action(t, AutomaticFallbackTurn, "relay") : t \in work} ELSE said
  /\ marks' = [marks EXCEPT !.busy = None]
  /\ phase' = "idle"
  /\ work' = {}
  /\ UNCHANGED <<bridge, escape, supervisor, box, dotTurn, strays, received, over, held>>

----------------------------------------------------------------------------
(* Time *)

\* Something is left to do that takes less than one tick.
Urgent ==
  \/ Acknowledged \/ TurnOver \/ escape
  \/ sup = "polling" /\ current # last
  \/ sup = "acquiring" /\ supAge >= ReadyTimeout
  \/ sup \in {"confirming", "escaping", "clearing"}
  \/ sup = "watching" /\ Quiet
  \/ RunsTooLong
  \/ phase = "stopping"

Older(age) == IF age < MaxAge THEN age + 1 ELSE age

\* The supervisor has yet to come back to its loop from an earlier turn.
HeldByAnother == slot = "starting" /\ sup # "polling" /\ mine # current

Tick ==
  /\ ~Urgent
  /\ bridgeAge' = Older(bridgeAge)
  /\ supAge' = Older(supAge)
  /\ held' = IF HeldByAnother /\ bridgeAge' >= NoAck THEN held \cup {current} ELSE held
  /\ UNCHANGED <<slot, current, files, stops, escape, sup, mine, last, busy, restarts, session,
                 workspace, strays, received, over, said>>

Next ==
  \/ Publish \/ StartEnds \/ FinishTurn \/ Stop
  \/ Receive \/ Prompt \/ NoSession \/ Started \/ Unconfirmed \/ Done \/ TimeOut
  \/ PressEscape \/ ClearTurn \/ TypeEscape \/ AgentRestart
  \/ AcceptPrompt \/ Say \/ FinishWork \/ StopHook
  \/ \E t \in Turn : StraySay(t)
  \/ Tick

Spec == Init /\ [][Next]_vars

\* The loops on both sides run and time passes.  Nothing is assumed of the
\* session: it may never accept a prompt and never finish one.
Fairness ==
  /\ WF_vars(StartEnds) /\ WF_vars(FinishTurn)
  /\ WF_vars(Receive) /\ WF_vars(Prompt \/ NoSession) /\ WF_vars(Started \/ Unconfirmed)
  /\ WF_vars(Done) /\ WF_vars(TimeOut) /\ WF_vars(PressEscape) /\ WF_vars(ClearTurn)
  /\ WF_vars(TypeEscape) /\ WF_vars(StopHook) /\ WF_vars(Tick)

FairSpec == Spec /\ Fairness

----------------------------------------------------------------------------
(* Properties *)

\* Every flag, marker, age and action has the shape the code gives it, and the
\* bridge keeps no batch but that of the turn in its slot.
TypeOK ==
  /\ slot \in {"free", "starting", "stopped", "running"}
  /\ current \in 0..Turns /\ files \subseteq (IF slot \in {"starting", "running"} THEN {current} ELSE {})
  /\ bridgeAge \in 0..MaxAge /\ stops \in 0..MaxStops /\ escape \in BOOLEAN
  /\ sup \in {"polling", "acquiring", "confirming", "watching", "escaping", "clearing"}
  /\ mine \in 0..Turns /\ last \in 0..Turns /\ busy \in 0..Turns
  /\ supAge \in 0..MaxAge /\ restarts \in 0..MaxRestarts
  /\ box \subseteq Turn /\ phase \in {"idle", "working", "stopping"} /\ work \subseteq Turn
  /\ dotTurn \in 0..Turns
  /\ marks \in [answering: 0..Turns, busy: 0..Turns, fallback: 0..Turns, spoke: BOOLEAN]
  /\ strays \subseteq Turn /\ received \subseteq Turn /\ over \subseteq Turn /\ held \subseteq Turn
  /\ said \subseteq [from: Turn, stamp: Turn, via: {"send", "relay", "stray"}]

\* The one session never answers one chat under another's turn: whether a turn
\* is cut short, times out or finds its session late, what the session writes is
\* stamped with the turn it is answering.  The exceptions are the ones named: a
\* process that outlived its turn, and a container that restarted, whose markers
\* still speak of the turn it runs again.
RepliesAreStampedWithTheirTurn ==
  restarts = 0 => \A a \in said : a.via # "stray" => a.from = a.stamp

\* Terminal prose is relayed only into a direct message, and until a restart only
\* for the turn that produced it, whichever turn the supervisor has moved on to
\* and whatever a process left behind has sent meanwhile.
RelayIsSafe ==
  \A a \in said : a.via = "relay" => a.stamp \in Direct /\ (restarts = 0 => a.from = a.stamp)

\* A turn the bridge ended by itself was picked up by the agent first, so that
\* its messages, gone from the queue, are not gone unread; unless the supervisor
\* was held by an earlier turn for the whole wait: bringing its session up, or
\* watching a session that an Escape left marked busy.
GivenUpOnlyBehindAnother == over \subseteq received \cup held

\* A reply bears its own turn, relayed prose goes where it belongs, and no turn is
\* given up unread but behind another.
HandoverIsSafe ==
  RepliesAreStampedWithTheirTurn /\ RelayIsSafe /\ GivenUpOnlyBehindAnother

\* Whatever a session does, the supervisor comes back for the next turn.
SupervisorComesBack == []<>(sup = "polling")

=============================================================================
