------------------------------ MODULE Connection ------------------------------
(***************************************************************************)
(* The WhatsApp connection (bridge/src/whatsapp.ts): the lock a bridge     *)
(* takes when it starts, the socket it opens, closes and opens again, and  *)
(* the messages it hands on once.  Each container numbers its processes    *)
(* afresh, and a kill leaves the lock behind.                              *)
(***************************************************************************)
EXTENDS Naturals, FiniteSets

CONSTANTS
  Pids,          \* process ids the bridge may get in its container
  Messages,      \* ids of messages, and
  Stale,         \* those older than the replay window
  SEEN,          \* how many ids are remembered
  Deliveries,    \* how often WhatsApp delivers one message, at most
  MaxSockets, MaxTroubles, MaxRestarts   \* bounds of the model

\* What is assumed of the constants.
ConnectionAssumption == Deliveries \in Nat /\ MaxSockets \in Nat \ {0}

VARIABLES
  proc,         \* down, up or refused
  pid,
  lock,         \* what bridge.lock says: a process id, or NoLock
  predecessor,  \* the process id of a bridge still running in another container
  socket, generation,
  connecting, reconnectTimer, connected,
  alive,        \* the generations of sockets that are up, as WhatsApp sees them
  seen,
  handed,       \* history: of each message, how often it was handed on
  emptied,      \* history: the set was emptied since the message was handed on
  troubles, restarts

lockVars == <<proc, pid, lock, predecessor>>
socketVars == <<socket, generation, connecting, reconnectTimer, connected, alive>>
messageVars == <<seen, handed, emptied>>
connectionVars == <<lockVars, socketVars, messageVars, troubles, restarts>>

NoLock == 0
NoSocket == 0

Init ==
  /\ predecessor \in Pids \cup {NoLock} /\ lock = predecessor
  /\ proc = "down" /\ pid = NoLock
  /\ socket = NoSocket /\ generation = 0 /\ connecting = FALSE
  /\ reconnectTimer = FALSE /\ connected = FALSE /\ alive = {}
  /\ seen = {} /\ handed = [m \in Messages |-> 0] /\ emptied = [m \in Messages |-> FALSE]
  /\ troubles = 0 /\ restarts = 0

----------------------------------------------------------------------------
(* The process.  An operator whose name begins with Mutant is a plausible wrong
   version of the one after it. *)

\* acquireLock: whose process id is in the file, by kill(pid, 0) in this
\* container; of the processes of this program it has only the one that asks.
Alive(p, own) == p = own

\* start: the lock, then connect().
Launch(p) ==
  /\ proc # "up" /\ pid' = p
  /\ IF lock # NoLock /\ Alive(lock, p)
       THEN proc' = "refused" /\ UNCHANGED <<lock, generation, connecting>>
       ELSE /\ proc' = "up" /\ lock' = p
            /\ connecting' = TRUE /\ generation' = generation + 1
  /\ UNCHANGED <<predecessor, socket, reconnectTimer, connected, alive, messageVars, troubles, restarts>>

\* The process ends: its memory and its socket go, and by an exit, though not
\* by a kill, the lock it holds.
Ends(released) ==
  /\ proc' = "down" /\ lock' = IF released /\ lock = pid THEN NoLock ELSE lock
  /\ socket' = NoSocket /\ connecting' = FALSE /\ reconnectTimer' = FALSE /\ connected' = FALSE
  /\ alive' = {} /\ seen' = {} /\ emptied' = [m \in Messages |-> TRUE]
  /\ generation' = 0
  /\ UNCHANGED <<pid, predecessor, handed>>

Stop(released) ==
  /\ proc = "up" /\ restarts < MaxRestarts /\ restarts' = restarts + 1
  /\ Ends(released) /\ UNCHANGED troubles

PredecessorEnds ==
  /\ predecessor # NoLock /\ predecessor' = NoLock
  /\ lock' = IF lock = predecessor THEN NoLock ELSE lock
  /\ UNCHANGED <<proc, pid, socketVars, messageVars, troubles, restarts>>

----------------------------------------------------------------------------
(* The socket *)

\* The timer fires: the old socket is torn down before another is opened.
Reconnect ==
  /\ reconnectTimer /\ reconnectTimer' = FALSE
  /\ generation < MaxSockets
  /\ IF connecting THEN UNCHANGED <<socket, alive, generation, connecting>>
     ELSE /\ connecting' = TRUE /\ generation' = generation + 1
          /\ alive' = alive \ {socket} /\ socket' = NoSocket
  /\ UNCHANGED <<lockVars, connected, messageVars, troubles, restarts>>

\* open() has what it awaits.
Opened ==
  /\ connecting
  /\ connecting' = FALSE /\ socket' = generation /\ alive' = alive \cup {generation}
  /\ UNCHANGED <<lockVars, generation, reconnectTimer, connected, messageVars, troubles, restarts>>

\* It throws: the first time main() ends the process, later another try is set.
Retry == [connecting |-> FALSE, timer |-> TRUE]

OpenFails ==
  /\ connecting /\ troubles < MaxTroubles /\ troubles' = troubles + 1
  /\ IF generation = 1
       THEN Ends(TRUE)
       ELSE /\ connecting' = Retry.connecting /\ reconnectTimer' = Retry.timer
            /\ UNCHANGED <<lockVars, socket, generation, connected, alive, messageVars>>
  /\ UNCHANGED restarts

\* connection.update of the current socket: open, or closed; a device that was
\* logged out cannot recover, and the process ends.
Up(g) ==
  /\ g \in alive /\ g = generation /\ ~connected
  /\ connected' = TRUE
  /\ UNCHANGED <<lockVars, socket, generation, connecting, reconnectTimer, alive, messageVars, troubles, restarts>>

Close(g) ==
  /\ g \in alive /\ g = generation /\ troubles < MaxTroubles /\ troubles' = troubles + 1
  /\ alive' = alive \ {g} /\ connected' = FALSE /\ reconnectTimer' = TRUE
  /\ UNCHANGED <<lockVars, socket, generation, connecting, messageVars, restarts>>

LoggedOut(g) ==
  /\ g \in alive /\ g = generation /\ troubles < MaxTroubles /\ troubles' = troubles + 1
  /\ Ends(TRUE) /\ UNCHANGED restarts

\* messages.upsert, of a message that is new or delivered again.  The set of
\* those seen is emptied when it is full, the one just added with it.
MutantUnseen(m) == TRUE
Unseen(m) == m \notin seen
Full(s) == Cardinality(s) > SEEN

Upsert(g, m) ==
  /\ g \in alive /\ g = generation /\ m \notin Stale /\ Unseen(m)
  /\ handed[m] < Deliveries /\ handed' = [handed EXCEPT ![m] = @ + 1]
  /\ LET now == seen \cup {m} IN
       /\ seen' = IF Full(now) THEN {} ELSE now
       /\ emptied' = [x \in Messages |-> IF x = m THEN Full(now) ELSE emptied[x] \/ Full(now)]
  /\ UNCHANGED <<lockVars, socketVars, troubles, restarts>>

Next ==
  \/ \E p \in Pids : Launch(p)
  \/ \E released \in BOOLEAN : Stop(released)
  \/ PredecessorEnds \/ Reconnect \/ Opened \/ OpenFails
  \/ \E g \in 1..MaxSockets :
       Up(g) \/ Close(g) \/ LoggedOut(g) \/ \E m \in Messages : Upsert(g, m)

\* Timers fire, what open() awaits comes, and the predecessor comes to its end;
\* Docker starts a bridge that is down again.
Progress ==
  \/ \E p \in Pids : Launch(p)
  \/ PredecessorEnds \/ Reconnect \/ Opened \/ \E g \in 1..MaxSockets : Up(g)
Fairness == WF_connectionVars(Progress)

Spec == Init /\ [][Next]_connectionVars

----------------------------------------------------------------------------
(* Properties *)

\* The lock, the socket and the messages have their shapes; one socket is up at
\* most, and what require() gives to those who send is that one.
TypeOK ==
  /\ proc \in {"down", "up", "refused"} /\ {pid, lock, predecessor} \subseteq Pids \cup {NoLock}
  /\ generation \in 0..MaxSockets /\ socket \in 0..generation /\ alive \subseteq 1..generation
  /\ {connecting, reconnectTimer, connected} \subseteq BOOLEAN
  /\ seen \subseteq Messages /\ handed \in [Messages -> 0..Deliveries]
  /\ Cardinality(alive) <= 1 /\ alive \subseteq {socket} /\ ~(connecting /\ alive # {})
  /\ connected => socket \in alive /\ socket = generation

\* A message is handed on a second time only if the set of those seen was
\* emptied, or the bridge restarted, since the first.
HandedOnAgainOnlyWhenForgotten ==
  [][\A m \in Messages : handed'[m] > handed[m] /\ handed[m] > 0 => emptied[m]]_connectionVars

\* Whatever is closed and fails, the bridge is in the end connected again, or
\* the process has ended.
Settled == connected \/ proc # "up" \/ generation = MaxSockets
ConnectsAgain == []<>Settled

\* A bridge refuses to start only if another one holds the session.
RefusedMeansAnother == proc = "refused" => predecessor # NoLock

=============================================================================
