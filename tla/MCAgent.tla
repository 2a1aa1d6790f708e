------------------------------- MODULE MCAgent -------------------------------
(*****************************************************************************)
(* One instance for TLC of each part that outlives a turn of the agent: the  *)
(* handover of turns to the session (Handover), the pool it is kept in       *)
(* (Sessions), what it is told of the memory (Memory), and what is on record *)
(* of the boxes that serve its apps (Apps), of what it said (Operator) and   *)
(* of the rooms it is in (Rooms). A behaviour is one of a single part, which *)
(* Init chooses.                                                             *)
(*****************************************************************************)
EXTENDS Handover

CONSTANTS
  IDLE_REAP, TURN_TIMEOUT, MaxTurns, MaxResets, MaxSaves, MaxDeaths, MaxBadWrites,
  Texts, TooLong, MAX_NOTES, MEMORY_IN_BRIEF, MAX_CATCHUP, MaxIds, Labels, TTL, MaxNow,
  MaxFlights, MaxLabelled, MaxBoxes, Hands, KEEP_PER_CHAT, OMaxIds, MaxDrops, RMaxDrops,
  MaxAdded, RMaxTurns

VARIABLES
  which, live, windows, next, step, want, PSession, brief, published, readable,
  generation, age, turnAge, reaping, landed, during, raced, late, cut, left, notes,
  lastId, seen, starting, briefed, MBrief, told, between, skipped, now, label, ABox, cached, inflight,
  flights, labelled, sent, wire, request, crossed, stored, up, drops, member, RLeft,
  leaving, RUp, RDrops, added, turn, lines, heard

P == INSTANCE Sessions
  WITH session <- PSession
M == INSTANCE Memory
  WITH brief <- MBrief
A == INSTANCE Apps
  WITH box <- ABox
O == INSTANCE Operator
  WITH MaxIds <- OMaxIds
R == INSTANCE Rooms
  WITH MaxDrops <- RMaxDrops, MaxTurns <- RMaxTurns, left <- RLeft, up <- RUp,
  drops <- RDrops

PVars == <<live, windows, next, step, want, PSession, brief, published, readable, generation,
  age, turnAge, reaping, landed, during, raced, late, cut, left>>
MVars == <<notes, lastId, seen, starting, briefed, MBrief, told, between, skipped>>
AVars == <<now, label, ABox, cached, inflight, flights, labelled>>
OVars == <<sent, wire, request, crossed, stored, up, drops>>
RVars == <<member, RLeft, leaving, RUp, RDrops, added, turn, lines, heard>>

\* The second turn is of a direct message.
DirectTurns == {2}

ASSUME AgentAssumption ==
  /\ P!SessionsAssumption /\ M!MemoryAssumption
  /\ A!AppsAssumption /\ O!OperatorAssumption /\ R!RoomsAssumption

Components == {"handover", "pool", "memory", "apps", "operator", "rooms"}
Start ==
  /\ which \in Components
  /\ Init /\ P!Init /\ M!Init /\ A!Init /\ O!Init /\ R!Init
  /\ which # "apps" => label = "a"

Step ==
  \/ which = "handover" /\ Next /\ UNCHANGED <<which, PVars, MVars, AVars, OVars, RVars>>
  \/ which = "pool" /\ P!Next /\ UNCHANGED <<which, vars, MVars, AVars, OVars, RVars>>
  \/ which = "memory" /\ M!Next /\ UNCHANGED <<which, vars, PVars, AVars, OVars, RVars>>
  \/ which = "apps" /\ A!Next /\ UNCHANGED <<which, vars, PVars, MVars, OVars, RVars>>
  \/ which = "operator" /\ O!Next /\ UNCHANGED <<which, vars, PVars, MVars, AVars, RVars>>
  \/ which = "rooms" /\ R!Next /\ UNCHANGED <<which, vars, PVars, MVars, AVars, OVars>>

Sum ==
  /\ Start /\ [][Step]_<<which, vars, PVars, MVars, AVars, OVars, RVars>>
  /\ \/ which = "handover" /\ Fairness
     \/ which = "pool" /\ P!Fairness
     \/ which \in {"memory", "apps", "operator", "rooms"}

----------------------------------------------------------------------------
\* The state of each part has its shape.
Types ==
  CASE which = "handover" -> TypeOK
    [] which = "pool" -> P!TypeOK
    [] which = "memory" -> M!TypeOK
    [] which = "apps" -> A!TypeOK
    [] which = "operator" -> O!TypeOK
    [] OTHER -> R!TypeOK

\* Sessions: the pool loses no window, reap takes none from under a turn, and a turn
\* is answered in the context and under the persona asked for.
PoolKeepsTrack == P!PoolKeepsTrack /\ P!AnswersAsAsked

\* Memory: the marker divides what the session knows from what it has yet to be told.
MarkerDividesMemory == M!MarkerDividesMemory

\* Apps, Operator and Rooms: what is kept of the boxes bears the labels as they are,
\* and one call to a box serves everybody who asks meanwhile; the record of a message
\* agrees with the phones that have it once no request about it is under way; and a
\* room marked as left is one the agent is out of, while the connection holds.
RecordsAreTrue ==
  /\ which = "apps" => A!LabelsAreCurrent /\ A!CallsAreShared
  /\ which = "operator" => O!RecordAgreesWithPhones
  /\ which = "rooms" => R!LeftWithReason

\* Handover and Sessions: the supervisor comes back to its loop, and acquire returns.
AgentComesBack == SupervisorComesBack /\ P!AcquireReturns

=============================================================================
