------------------------------- MODULE MCTurn -------------------------------
(*****************************************************************************)
(* One instance for TLC of each part that settles what a turn may say and    *)
(* what comes of it: the registry of turns (Turns), the verbs of one turn,   *)
(* from the command line to the bridge and back (Verbs), and the posts and   *)
(* sends of Teams (Teams). A behaviour is one of a single part, which Init   *)
(* chooses.                                                                  *)
(*****************************************************************************)
EXTENDS Turns, TLC

CONSTANTS
  Asks, Relay, Tried, MAX_ATTEMPTS, MaxOff, MaxFlips, MaxMishaps, Posts, Activities,
  Services, SEEN, JWKS_TTL, TOKEN_MARGIN, TokenLife, MaxNow, MaxRotations, MaxTroubles

VARIABLES
  which, off, can, direct, fromOperator, closed, verb, action, answered, report, effects,
  attempts, spoke, ended, heard, dropped, hushed, flips, mishaps, now, newest, rotatedAt, keys,
  lastForcedAt, post, seen, emitted, reference, bearer, minting, vouched, sentTo,
  expired, forgotten, failedAt, overwritten, troubles

V == INSTANCE Verbs
M == INSTANCE Teams

VVars == <<off, can, direct, fromOperator, closed, verb, action, answered, report, effects, attempts,
  spoke, ended, heard, dropped, hushed, flips, mishaps>>
MVars == <<now, newest, rotatedAt, keys, lastForcedAt, post, seen, emitted, reference, bearer,
  minting, vouched, sentTo, expired, forgotten, failedAt, overwritten, troubles>>

TwoPosts == {"p1", "p2"}

ASSUME PartsAssumption == V!VerbsAssumption /\ M!TeamsAssumption

\* The turns are interchangeable.
TurnSymmetry == Permutations(Turn)

Components == {"turns", "verbs", "teams"}
Start ==
  /\ which \in Components
  /\ Init /\ V!Init /\ M!Init
  /\ which # "verbs" => off = {} /\ direct /\ fromOperator /\ ~closed

Step ==
  \/ which = "turns" /\ Next /\ UNCHANGED <<which, VVars, MVars>>
  \/ which = "verbs" /\ V!Next /\ UNCHANGED <<which, vars, MVars>>
  \/ which = "teams" /\ M!Next /\ UNCHANGED <<which, vars, VVars>>

Sum ==
  /\ Start /\ [][Step]_<<which, vars, VVars, MVars>>

----------------------------------------------------------------------------
\* The registry is well formed and keeps the newest turn, and the state of each
\* other part has its shape.
Types ==
  CASE which = "turns" -> RegistryInv /\ NewestTurnIsKept
    [] which = "verbs" -> V!TypeOK
    [] OTHER -> M!TypeOK

\* Verbs: no direct message that ends in prose is left in silence without a reason.
SilenceHasAReason == which = "verbs" => V!SilenceHasAReason

\* Verbs: what the agent is told of a verb is true for good.
ToldTheTruth ==
  /\ which = "verbs" => V!Contract!Init
  /\ [][which = "verbs" => V!Contract!Next \/ UNCHANGED V!Contract!contractVars]_VVars

\* Teams: a send goes where a signed token vouched for, with a token that lives; a
\* genuine post is refused in the shadow of a key change only, and handed on once.
TeamsIsSound ==
  /\ [](which = "teams" => M!GoesWhereVouched /\ M!TokenIsLive)
  /\ M!GenuineIsRefusedOnlyBriefly /\ M!HandedOnOnce

=============================================================================
