---------------------------- MODULE AgentProofs -----------------------------
(*****************************************************************************)
(* Theorems about what outlives a turn of the agent, for any values of the   *)
(* constants: the handover of turns to the session (Handover), the pool it   *)
(* is kept in (Sessions, as P), what it is told of the memory (Memory, as M), *)
(* what is kept of the boxes of its apps (Apps, as A), of what it said       *)
(* (Operator, as O) and of the rooms it is in (Rooms, as R), and about       *)
(* MCAgent, whose behaviours are theirs.                                     *)
(*****************************************************************************)
EXTENDS MCAgent, Sequences, SequenceTheorems, FiniteSetTheorems, TLAPS

(* The handover *)

\* Turns are received in the order they were published, and the one being run is
\* the last received.
InOrder ==
  /\ last <= current /\ mine = last
  /\ slot # "free" => current # None
  /\ marks.fallback \in Direct \cup {None}

\* What the bridge goes by has its grounds: the turn that keeps the agent busy was
\* received, and one that waited out noAck was received or held by another.
Grounds ==
  /\ busy # None => busy \in received
  /\ sup # "polling" => mine \in received
  /\ slot = "starting" => current \in files
  /\ slot = "starting" /\ last = current => current \in received
  /\ slot = "starting" /\ bridgeAge >= NoAck => current \in received \cup held
  /\ slot = "running" => current \in received \cup held

\* Until a restart the session answers one turn, the one the supervisor runs, from
\* the moment its prompt is accepted: before it is typed and after it was escaped
\* or has ended, there is no prompt in the box and nothing at work.
OneTurnAtATime ==
  restarts = 0 =>
    /\ marks.answering <= last
    /\ box \subseteq {mine}
    /\ sup \in {"polling", "acquiring", "watching", "clearing"} => box = {}
    /\ sup \in {"polling", "acquiring", "clearing"} => phase # "working"
    /\ sup \in {"confirming", "watching", "escaping"} => dotTurn = mine
    /\ sup = "acquiring" => marks.answering # mine
    /\ sup = "confirming" /\ marks.answering = mine => box = {}
    /\ phase = "working" => marks.answering = mine
    /\ phase # "idle" => work = {marks.answering}

\* The inductive invariant.
IInv == TypeOK /\ InOrder /\ Grounds /\ OneTurnAtATime /\ HandoverIsSafe

(* The ages are counted up to a bound that is a number. *)
LEMMA MaxAgeIsNat == MaxAge \in Nat
<1> DEFINE All == {NoAck, BridgeTimeout, AgentTimeout, ReadyTimeout}
<1>1. \E n \in All : \A k \in All : k <= n
  BY HandoverAssumption
<1>2. (CHOOSE n \in All : \A k \in All : k <= n) \in All
  BY <1>1
<1> QED
  BY <1>2, HandoverAssumption DEF MaxAge

LEMMA OlderIsAge == ASSUME NEW a \in 0..MaxAge PROVE Older(a) \in 0..MaxAge /\ Older(a) >= a
  BY MaxAgeIsNat DEF Older

LEMMA InitHolds == Init => IInv
<1> SUFFICES ASSUME Init PROVE IInv
  OBVIOUS
<1> USE HandoverAssumption DEF Init, None, NoMarks
<1>1. 0 \in 0..MaxAge /\ 0 \in 0..Turns /\ 0 \in 0..MaxStops /\ 0 \in 0..MaxRestarts
  BY MaxAgeIsNat
<1>2. TypeOK
  BY <1>1 DEF TypeOK
<1>3. InOrder /\ Grounds /\ OneTurnAtATime
  BY DEF InOrder, Grounds, OneTurnAtATime
<1>4. HandoverIsSafe
  BY DEF HandoverIsSafe, RepliesAreStampedWithTheirTurn, RelayIsSafe, GivenUpOnlyBehindAnother
<1> QED
  BY <1>2, <1>3, <1>4 DEF IInv

(* What every step leaves has its shape. *)
LEMMA TypeHolds == IInv /\ [Next]_vars => TypeOK'
<1> SUFFICES ASSUME IInv, [Next]_vars PROVE TypeOK'
  OBVIOUS
<1> USE HandoverAssumption DEF IInv, TypeOK, Turn, None, bridge, supervisor, session, workspace
<1>1. CASE Publish
  <2>1. current' \in 0..Turns /\ 0 \in 0..MaxAge
    BY <1>1, MaxAgeIsNat DEF Publish
  <2>2. files = {}
    BY <1>1 DEF Publish
  <2>3. files' \subseteq {current'}
    BY <1>1, <2>2 DEF Publish
  <2> QED
    BY <1>1, <2>1, <2>3 DEF Publish
<1>2. CASE StartEnds
  BY <1>2 DEF StartEnds, Acknowledged
<1>3. CASE FinishTurn
  <2>1. files' = {}
    BY <1>3 DEF FinishTurn, TurnOver, Retired
  <2>2. current \in Turn
    BY <1>3 DEF FinishTurn, TurnOver, InOrder
  <2>3. over' \subseteq Turn
    BY <1>3, <2>2 DEF FinishTurn
  <2> QED
    BY <1>3, <2>1, <2>3 DEF FinishTurn, TurnOver
<1>4. CASE Stop
  BY <1>4 DEF Stop, Retired
<1>5. CASE Receive
  <2>1. 0 \in 0..MaxAge
    BY MaxAgeIsNat
  <2>2. current \in Turn
    BY <1>5 DEF Receive, InOrder
  <2> QED
    BY <1>5, <2>1, <2>2 DEF Receive
<1>6. CASE Prompt
  <2>1. mine \in Turn
    BY <1>6 DEF Prompt, Grounds
  <2>2. Fallback(mine) \in 0..Turns /\ None \in 0..Turns
    BY <2>1 DEF Fallback
  <2>3. marks' \in [answering: 0..Turns, busy: 0..Turns, fallback: 0..Turns, spoke: BOOLEAN]
    BY <1>6, <2>2 DEF Prompt
  <2>4. box' \subseteq Turn
    BY <1>6, <2>1 DEF Prompt
  <2> QED
    BY <1>6, <2>3, <2>4 DEF Prompt
<1>7. CASE NoSession
  BY <1>7 DEF NoSession
<1>8. CASE Started
  <2>1. 0 \in 0..MaxAge
    BY MaxAgeIsNat
  <2> QED
    BY <1>8, <2>1 DEF Started
<1>9. CASE Unconfirmed
  BY <1>9 DEF Unconfirmed, Confirmed
<1>10. CASE Done
  BY <1>10 DEF Done, Quiet
<1>11. CASE TimeOut
  BY <1>11 DEF TimeOut, RunsTooLong
<1>12. CASE PressEscape
  BY <1>12 DEF PressEscape, Interrupted
<1>13. CASE ClearTurn
  BY <1>13 DEF ClearTurn, Unbound
<1>14. CASE TypeEscape
  BY <1>14 DEF TypeEscape, Interrupted
<1>15. CASE AgentRestart
  <2>1. 0 \in 0..MaxAge /\ 0 \in 0..Turns
    BY MaxAgeIsNat
  <2>2. restarts' \in 0..MaxRestarts
    BY <1>15 DEF AgentRestart
  <2> QED
    BY <1>15, <2>1, <2>2 DEF AgentRestart
<1>16. CASE AcceptPrompt
  BY <1>16 DEF AcceptPrompt, Bound
<1>17. CASE Say
  <2>1. dotTurn \in Turn
    BY <1>17 DEF Say
  <2>2. said' \subseteq [from: Turn, stamp: Turn, via: {"send", "relay", "stray"}]
    BY <1>17, <2>1 DEF Say, Action
  <2>3. marks' \in [answering: 0..Turns, busy: 0..Turns, fallback: 0..Turns, spoke: BOOLEAN]
    BY <1>17 DEF Say
  <2> QED
    BY <1>17, <2>2, <2>3 DEF Say
<1>18. CASE FinishWork
  BY <1>18 DEF FinishWork
<1>19. CASE StopHook
  BY <1>19 DEF StopHook, AutomaticFallbackTurn, Action
<1>20. ASSUME NEW t \in Turn, StraySay(t) PROVE TypeOK'
  <2>1. dotTurn \in Turn
    BY <1>20 DEF StraySay
  <2>2. said' \subseteq [from: Turn, stamp: Turn, via: {"send", "relay", "stray"}]
    BY <1>20, <2>1 DEF StraySay, Action
  <2>3. marks' \in [answering: 0..Turns, busy: 0..Turns, fallback: 0..Turns, spoke: BOOLEAN]
    BY <1>20 DEF StraySay
  <2>4. strays' \subseteq Turn
    BY <1>20 DEF StraySay
  <2> QED
    BY <1>20, <2>2, <2>3, <2>4 DEF StraySay
<1>21. CASE Tick
  <2>1. bridgeAge' \in 0..MaxAge /\ supAge' \in 0..MaxAge
    BY <1>21, OlderIsAge DEF Tick
  <2>2. HeldByAnother => current \in Turn
    BY DEF HeldByAnother, InOrder
  <2>3. held' \subseteq Turn
    BY <1>21, <2>2 DEF Tick
  <2> QED
    BY <1>21, <2>1, <2>3 DEF Tick
<1>22. CASE UNCHANGED vars
  BY <1>22 DEF vars
<1> QED
  BY <1>1, <1>2, <1>3, <1>4, <1>5, <1>6, <1>7, <1>8, <1>9, <1>10, <1>11, <1>12, <1>13, <1>14, <1>15, <1>16, <1>17, <1>18, <1>19, <1>20, <1>21, <1>22 DEF Next

(* No step takes turns out of the order they were published in. *)
LEMMA OrderHolds == IInv /\ [Next]_vars => InOrder'
<1> SUFFICES ASSUME IInv, [Next]_vars PROVE InOrder'
  OBVIOUS
<1> USE HandoverAssumption DEF IInv, TypeOK, InOrder, Turn, None, bridge, supervisor, session, workspace
<1>1. CASE Publish
  BY <1>1 DEF Publish
<1>2. CASE StartEnds
  BY <1>2 DEF StartEnds, Acknowledged
<1>3. CASE FinishTurn
  BY <1>3 DEF FinishTurn, TurnOver, Retired
<1>4. CASE Stop
  BY <1>4 DEF Stop, Retired
<1>5. CASE Receive
  BY <1>5 DEF Receive
<1>6. CASE Prompt
  BY <1>6 DEF Prompt, Fallback
<1>7. CASE NoSession
  BY <1>7 DEF NoSession
<1>8. CASE Started
  BY <1>8 DEF Started, Confirmed
<1>9. CASE Unconfirmed
  BY <1>9 DEF Unconfirmed, Confirmed
<1>10. CASE Done
  BY <1>10 DEF Done, Quiet
<1>11. CASE TimeOut
  BY <1>11 DEF TimeOut, RunsTooLong
<1>12. CASE PressEscape
  BY <1>12 DEF PressEscape, Interrupted
<1>13. CASE ClearTurn
  BY <1>13 DEF ClearTurn, Unbound
<1>14. CASE TypeEscape
  BY <1>14 DEF TypeEscape, Interrupted
<1>15. CASE AgentRestart
  BY <1>15 DEF AgentRestart
<1>16. CASE AcceptPrompt
  BY <1>16 DEF AcceptPrompt, Bound
<1>17. CASE Say
  BY <1>17 DEF Say, Action
<1>18. CASE FinishWork
  BY <1>18 DEF FinishWork
<1>19. CASE StopHook
  BY <1>19 DEF StopHook, AutomaticFallbackTurn, Action
<1>20. ASSUME NEW t \in Turn, StraySay(t) PROVE InOrder'
  BY <1>20 DEF StraySay, Action
<1>21. CASE Tick
  BY <1>21 DEF Tick, HeldByAnother
<1>22. CASE UNCHANGED vars
  BY <1>22 DEF vars
<1> QED
  BY <1>1, <1>2, <1>3, <1>4, <1>5, <1>6, <1>7, <1>8, <1>9, <1>10, <1>11, <1>12, <1>13, <1>14, <1>15, <1>16, <1>17, <1>18, <1>19, <1>20, <1>21, <1>22 DEF Next

(* No step leaves the bridge to go by something without grounds. *)
LEMMA GroundsHold == IInv /\ [Next]_vars => Grounds'
<1> SUFFICES ASSUME IInv, [Next]_vars PROVE Grounds'
  OBVIOUS
<1> USE HandoverAssumption DEF IInv, TypeOK, InOrder, Grounds, Turn, None, bridge, supervisor, session, workspace
<1>1. CASE Publish
  BY <1>1 DEF Publish
<1>2. CASE StartEnds
  BY <1>2 DEF StartEnds, Acknowledged
<1>3. CASE FinishTurn
  BY <1>3 DEF FinishTurn, TurnOver, Retired
<1>4. CASE Stop
  BY <1>4 DEF Stop, Retired
<1>5. CASE Receive
  BY <1>5 DEF Receive
<1>6. CASE Prompt
  BY <1>6 DEF Prompt, Fallback
<1>7. CASE NoSession
  BY <1>7 DEF NoSession
<1>8. CASE Started
  BY <1>8 DEF Started, Confirmed
<1>9. CASE Unconfirmed
  BY <1>9 DEF Unconfirmed, Confirmed
<1>10. CASE Done
  BY <1>10 DEF Done, Quiet
<1>11. CASE TimeOut
  BY <1>11 DEF TimeOut, RunsTooLong
<1>12. CASE PressEscape
  BY <1>12 DEF PressEscape, Interrupted
<1>13. CASE ClearTurn
  BY <1>13 DEF ClearTurn, Unbound
<1>14. CASE TypeEscape
  BY <1>14 DEF TypeEscape, Interrupted
<1>15. CASE AgentRestart
  BY <1>15 DEF AgentRestart
<1>16. CASE AcceptPrompt
  BY <1>16 DEF AcceptPrompt, Bound
<1>17. CASE Say
  BY <1>17 DEF Say, Action
<1>18. CASE FinishWork
  BY <1>18 DEF FinishWork
<1>19. CASE StopHook
  BY <1>19 DEF StopHook, AutomaticFallbackTurn, Action
<1>20. ASSUME NEW t \in Turn, StraySay(t) PROVE Grounds'
  BY <1>20 DEF StraySay, Action
<1>21. CASE Tick
  <2>1. bridgeAge' \in 0..MaxAge /\ bridgeAge' >= bridgeAge
    BY <1>21, OlderIsAge DEF Tick
  <2>2. slot = "starting" => sup # "polling" \/ current = last
    BY <1>21 DEF Tick, Urgent
  <2>3. slot = "starting" /\ bridgeAge' >= NoAck => current \in received \cup held'
    <3>1. CASE HeldByAnother
      BY <1>21, <3>1 DEF Tick
    <3>2. CASE ~HeldByAnother
      BY <2>2, <3>2 DEF HeldByAnother
    <3> QED
      BY <3>1, <3>2
  <2>4. received' = received /\ held \subseteq held'
    BY <1>21 DEF Tick
  <2> QED
    BY <1>21, <2>3, <2>4 DEF Tick
<1>22. CASE UNCHANGED vars
  BY <1>22 DEF vars
<1> QED
  BY <1>1, <1>2, <1>3, <1>4, <1>5, <1>6, <1>7, <1>8, <1>9, <1>10, <1>11, <1>12, <1>13, <1>14, <1>15, <1>16, <1>17, <1>18, <1>19, <1>20, <1>21, <1>22 DEF Next

(* No step but a restart lets a second turn into the session. *)
LEMMA OneTurnHolds == IInv /\ [Next]_vars => OneTurnAtATime'
<1> SUFFICES ASSUME IInv, [Next]_vars PROVE OneTurnAtATime'
  OBVIOUS
<1> USE HandoverAssumption DEF IInv, TypeOK, InOrder, OneTurnAtATime, Turn, None, bridge, supervisor, session, workspace
<1>1. CASE Publish
  BY <1>1 DEF Publish
<1>2. CASE StartEnds
  BY <1>2 DEF StartEnds, Acknowledged
<1>3. CASE FinishTurn
  BY <1>3 DEF FinishTurn, TurnOver, Retired
<1>4. CASE Stop
  BY <1>4 DEF Stop, Retired
<1>5. CASE Receive
  BY <1>5 DEF Receive
<1>6. CASE Prompt
  BY <1>6 DEF Prompt, Fallback
<1>7. CASE NoSession
  BY <1>7 DEF NoSession
<1>8. CASE Started
  BY <1>8 DEF Started, Confirmed
<1>9. CASE Unconfirmed
  BY <1>9 DEF Unconfirmed, Confirmed
<1>10. CASE Done
  BY <1>10 DEF Done, Quiet
<1>11. CASE TimeOut
  BY <1>11 DEF TimeOut, RunsTooLong
<1>12. CASE PressEscape
  BY <1>12 DEF PressEscape, Interrupted
<1>13. CASE ClearTurn
  BY <1>13 DEF ClearTurn, Unbound
<1>14. CASE TypeEscape
  BY <1>14 DEF TypeEscape, Interrupted
<1>15. CASE AgentRestart
  BY <1>15 DEF AgentRestart
<1>16. CASE AcceptPrompt
  BY <1>16 DEF AcceptPrompt, Bound
<1>17. CASE Say
  BY <1>17 DEF Say, Action
<1>18. CASE FinishWork
  BY <1>18 DEF FinishWork
<1>19. CASE StopHook
  BY <1>19 DEF StopHook, AutomaticFallbackTurn, Action
<1>20. ASSUME NEW t \in Turn, StraySay(t) PROVE OneTurnAtATime'
  BY <1>20 DEF StraySay, Action
<1>21. CASE Tick
  BY <1>21 DEF Tick, HeldByAnother
<1>22. CASE UNCHANGED vars
  BY <1>22 DEF vars
<1> QED
  BY <1>1, <1>2, <1>3, <1>4, <1>5, <1>6, <1>7, <1>8, <1>9, <1>10, <1>11, <1>12, <1>13, <1>14, <1>15, <1>16, <1>17, <1>18, <1>19, <1>20, <1>21, <1>22 DEF Next


(* No step writes under another's turn or gives up one that was not received.
   Only the three that write, and the one that gives up, could. *)
LEMMA SafetyHolds == IInv /\ [Next]_vars => HandoverIsSafe'
<1> SUFFICES ASSUME IInv, [Next]_vars PROVE HandoverIsSafe'
  OBVIOUS
<1> USE DEF IInv, HandoverIsSafe, RepliesAreStampedWithTheirTurn, RelayIsSafe, GivenUpOnlyBehindAnother
<1>1. CASE FinishTurn
  <2>1. current \in received \cup held
    BY <1>1 DEF FinishTurn, TurnOver, Grounds
  <2> QED
    BY <1>1, <2>1 DEF FinishTurn, supervisor
<1>2. CASE Say
  <2>1. restarts = 0 => \A u \in work : u = dotTurn
    BY <1>2 DEF Say, OneTurnAtATime, TypeOK
  <2>2. \A a \in said' \ said : a.via = "send" /\ (restarts = 0 => a.from = a.stamp)
    BY <1>2, <2>1 DEF Say, Action
  <2> QED
    BY <1>2, <2>2 DEF Say, supervisor
<1>3. ASSUME NEW t \in Turn, StraySay(t) PROVE HandoverIsSafe'
  <2>1. \A a \in said' \ said : a.via = "stray"
    BY <1>3 DEF StraySay, Action
  <2> QED
    BY <1>3, <2>1 DEF StraySay, supervisor
<1>4. CASE StopHook
  <2>1. AutomaticFallbackTurn # None => AutomaticFallbackTurn \in Direct
    BY DEF AutomaticFallbackTurn, InOrder
  <2>2. restarts = 0 /\ AutomaticFallbackTurn # None => \A u \in work : u = AutomaticFallbackTurn
    BY <1>4 DEF StopHook, AutomaticFallbackTurn, OneTurnAtATime
  <2>3. \A a \in said' \ said : a.stamp \in Direct /\ (restarts = 0 => a.from = a.stamp)
    BY <1>4, <2>1, <2>2 DEF StopHook, Action
  <2> QED
    BY <1>4, <2>3 DEF StopHook, supervisor
<1>5. CASE AgentRestart
  <2>1. restarts' # 0 /\ UNCHANGED <<said, over, received, held>>
    BY <1>5 DEF AgentRestart, TypeOK
  <2> QED
    BY <2>1
<1>6. CASE said' = said /\ over' = over /\ restarts' = restarts
           /\ received \subseteq received' /\ held \subseteq held'
  BY <1>6
<1>7. Publish \/ StartEnds \/ Stop => UNCHANGED <<said, over, restarts, received, held>>
  BY DEF Publish, StartEnds, Stop, supervisor
<1>8. Prompt \/ NoSession \/ Started \/ Unconfirmed \/ Done \/ TimeOut
        => UNCHANGED <<said, over, restarts, received, held>>
  BY DEF Prompt, NoSession, Started, Unconfirmed, Done, TimeOut
<1>9. PressEscape \/ ClearTurn \/ TypeEscape \/ AcceptPrompt \/ FinishWork
        => UNCHANGED <<said, over, restarts, received, held>>
  BY DEF PressEscape, ClearTurn, TypeEscape, AcceptPrompt, FinishWork, supervisor
<1>10. Receive => UNCHANGED <<said, over, restarts, held>> /\ received \subseteq received'
  BY DEF Receive
<1>11. Tick => UNCHANGED <<said, over, restarts, received>> /\ held \subseteq held'
  BY DEF Tick
<1>12. UNCHANGED vars => UNCHANGED <<said, over, restarts, received, held>>
  BY DEF vars, supervisor
<1> HIDE DEF IInv, HandoverIsSafe
<1> QED
  BY <1>1, <1>2, <1>3, <1>4, <1>5, <1>6, <1>7, <1>8, <1>9, <1>10, <1>11, <1>12 DEF Next

----------------------------------------------------------------------------
(* The pool *)

(* Sessions.  While reap drops nothing made after it decided, the only window is
   the one the record names, or that of the session being drawn. *)

LEMMA PoolConstants ==
  /\ IDLE_REAP \in Nat /\ TURN_TIMEOUT \in Nat /\ TURN_TIMEOUT < IDLE_REAP
  /\ MaxResets \in Nat /\ MaxSaves \in Nat
BY AgentAssumption DEF P!SessionsAssumption

Live == [win: Nat, uuid: 0..MaxResets, version: 0..MaxSaves, brief: 0..MaxSaves]

LEMMA ASession ==
  ASSUME NEW s \in Live
  PROVE  s.win \in Nat /\ s.uuid \in 0..MaxResets /\ s.version \in 0..MaxSaves /\ s.brief \in 0..MaxSaves
BY DEF Live

LEMMA NoneLive == P!NoSession \in Live /\ P!NoSession.win = 0 /\ P!NoSession.brief = P!NoSession.version
BY PoolConstants DEF P!NoSession, Live

LEMMA Made ==
  ASSUME NEW n \in Nat, NEW u \in 0..MaxResets, NEW v \in 0..MaxSaves, NEW b \in 0..MaxSaves,
         NEW s, s = [win |-> n, uuid |-> u, version |-> v, brief |-> b]
  PROVE  s \in Live /\ s.win = n /\ s.uuid = u /\ s.version = v /\ s.brief = b
BY DEF Live

Steps == {"idle", "asking", "closing", "spawning", "drawing", "given"}
PoolTyped ==
  /\ live \in Live /\ PSession \in Live /\ reaping \in Live
  /\ next \in Nat \ {0} /\ step \in Steps /\ want \in 0..MaxResets /\ generation \in 0..MaxResets
  /\ landed \in BOOLEAN /\ raced \in BOOLEAN /\ late \in BOOLEAN /\ cut \in BOOLEAN
WindowsTyped ==
  /\ live.win < next /\ PSession.win < next /\ reaping.win < next
  /\ \A w \in windows : w \in Nat /\ 0 < w /\ w < next
Aged ==
  /\ age \in 0..IDLE_REAP /\ turnAge \in 0..TURN_TIMEOUT /\ (step = "given" => age <= turnAge)
Published ==
  /\ published \in 0..MaxSaves /\ readable \in BOOLEAN /\ brief \in 0..(MaxSaves + 1)
  /\ during \subseteq 0..(MaxSaves + 1)
  /\ ~readable => published > 0
  /\ step # "idle" => P!Now \in during
Sound(s) == s.brief = s.version \/ (s.version = 0 /\ published > 0)
Answering ==
  /\ step \in {"asking", "drawing", "given"} => PSession.uuid = want
  /\ step \in {"drawing", "given"} => PSession.brief \in during \/ MaxSaves + 1 \in during
  /\ Sound(live) /\ Sound(PSession)
OneWindow ==
  /\ step \in {"spawning", "drawing"} => live = P!NoSession
  /\ ~late /\ step # "drawing" => windows \subseteq {live.win}
  /\ ~late /\ step = "drawing" => windows \subseteq {PSession.win}
  /\ ~late /\ landed => reaping.win \notin windows
Uncut ==
  /\ step = "given" /\ reaping # P!NoSession => raced
  /\ cut => raced
PoolInv == PoolTyped /\ WindowsTyped /\ Aged /\ Published /\ Answering /\ OneWindow /\ Uncut

LEMMA PoolStart == P!Init => PoolInv
<1> SUFFICES ASSUME P!Init PROVE PoolInv
  OBVIOUS
<1> USE DEF P!Init
<1>1. PoolTyped
  <2>1. /\ live = P!NoSession /\ PSession = P!NoSession /\ reaping = P!NoSession
        /\ next = 1 /\ step = "idle" /\ want = 0 /\ generation = 0
        /\ landed = FALSE /\ raced = FALSE /\ late = FALSE /\ cut = FALSE
    OBVIOUS
  <2>2. 0 \in 0..MaxResets
    BY PoolConstants
  <2> QED
    <3>1. live \in Live /\ PSession \in Live /\ reaping \in Live
      BY <2>1, NoneLive
    <3>2. next \in Nat \ {0} /\ want \in 0..MaxResets /\ generation \in 0..MaxResets
      BY ONLY <2>1, <2>2
    <3>3. step \in Steps
      BY ONLY <2>1 DEF Steps
    <3>4. landed \in BOOLEAN /\ raced \in BOOLEAN /\ late \in BOOLEAN /\ cut \in BOOLEAN
      BY ONLY <2>1
    <3> QED
      BY ONLY <3>1, <3>2, <3>3, <3>4 DEF PoolTyped
<1>2. WindowsTyped
  BY NoneLive DEF WindowsTyped
<1>3. Aged /\ Published
  BY PoolConstants DEF Aged, Published, P!NoBrief
<1>4. Answering
  BY NoneLive DEF Answering, Sound
<1>5. OneWindow /\ Uncut
  BY DEF OneWindow, Uncut
<1> QED
  BY <1>1, <1>2, <1>3, <1>4, <1>5 DEF PoolInv

\* A kill closes the window when there is one, and opens none.
LEMMA Kills ==
  /\ P!Killed \subseteq windows
  /\ \A w : windows \subseteq {w} => P!Killed = {}
<1>1. P!Killed \subseteq windows
  BY DEF P!Killed
<1>2. ASSUME NEW w, windows \subseteq {w} PROVE P!Killed = {}
  <2>1. CASE windows = {}
    BY <2>1 DEF P!Killed
  <2>2. CASE windows = {w}
    <3>1. P!Cardinality(windows) = 1
      BY <2>2, FS_Singleton DEF P!Cardinality, Cardinality
    <3> QED
      BY <3>1 DEF P!Killed
  <2> QED
    BY <1>2, <2>1, <2>2
<1> QED
  BY <1>1, <1>2

\* With no window between sessions, those left after a kill are in nobody's way.
LEMMA FewerWindows ==
  ASSUME PoolInv, windows' \subseteq windows
  PROVE  \A w \in windows' : w \in Nat /\ 0 < w /\ w < next
BY DEF PoolInv, WindowsTyped

LEMMA PoolStep == PoolInv /\ [P!Next]_(P!sessionsVars) => PoolInv'
<1> SUFFICES ASSUME PoolInv, [P!Next]_(P!sessionsVars) PROVE PoolInv'
  OBVIOUS
<1> USE DEF PoolInv, P!pool, P!acquiring, P!persona, P!clock, P!reaper, P!history
<1>0. /\ P!NoSession \in Live /\ P!NoSession.win = 0 /\ P!NoSession.brief = P!NoSession.version
      /\ MaxSaves \in Nat /\ MaxResets \in Nat
      /\ IDLE_REAP \in Nat /\ TURN_TIMEOUT \in Nat /\ TURN_TIMEOUT < IDLE_REAP
  BY NoneLive, PoolConstants
<1>1. CASE P!Acquire
  <2>1. PoolTyped'
    BY <1>0, <1>1 DEF PoolTyped, Steps, P!Acquire, P!To, P!Outdated, P!Now
  <2>2. WindowsTyped'
    BY <1>0, <1>1, ASession DEF PoolTyped, WindowsTyped, P!Acquire, P!To, P!Outdated, P!Now
  <2>3. Aged'
    BY <1>0, <1>1 DEF PoolTyped, Aged, P!Acquire, P!To, P!Outdated, P!Now
  <2>4. Published'
    BY <1>0, <1>1 DEF Published, P!Now, P!Unreadable, P!Acquire, P!To, P!Outdated, P!Now
  <2>5. Answering'
    BY <1>0, <1>1, ASession DEF PoolTyped, Published, Answering, Sound, P!Acquire, P!To, P!Outdated, P!Now
  <2>6. OneWindow'
    BY <1>0, <1>1 DEF PoolTyped, WindowsTyped, OneWindow, P!Acquire, P!To, P!Outdated, P!Now
  <2>7. Uncut'
    BY <1>0, <1>1 DEF PoolTyped, Aged, Uncut, P!Acquire, P!To, P!Outdated, P!Now
  <2> QED
    BY <2>1, <2>2, <2>3, <2>4, <2>5, <2>6, <2>7
<1>2. CASE P!Ask
  <2>1. PoolTyped'
    BY <1>0, <1>2 DEF PoolTyped, Steps, P!Ask, P!To, P!windowExists, P!SameBrief, P!Now, P!Unreadable
  <2>2. WindowsTyped'
    BY <1>0, <1>2, ASession DEF PoolTyped, WindowsTyped, P!Ask, P!To, P!windowExists, P!SameBrief, P!Now, P!Unreadable
  <2>3. Aged'
    BY <1>0, <1>2 DEF PoolTyped, Aged, P!Ask, P!To, P!windowExists, P!SameBrief, P!Now, P!Unreadable
  <2>4. Published'
    BY <1>0, <1>2 DEF Published, P!Now, P!Unreadable, P!Ask, P!To, P!windowExists, P!SameBrief, P!Now, P!Unreadable
  <2>5. Answering'
    BY <1>0, <1>2, ASession DEF PoolTyped, Published, Answering, Sound, P!Ask, P!To, P!windowExists, P!SameBrief, P!Now, P!Unreadable
  <2>6. OneWindow'
    BY <1>0, <1>2 DEF PoolTyped, WindowsTyped, OneWindow, P!Ask, P!To, P!windowExists, P!SameBrief, P!Now, P!Unreadable
  <2>7. Uncut'
    BY <1>0, <1>2 DEF PoolTyped, Aged, Uncut, P!Ask, P!To, P!windowExists, P!SameBrief, P!Now, P!Unreadable
  <2> QED
    BY <2>1, <2>2, <2>3, <2>4, <2>5, <2>6, <2>7
<1>3. CASE P!Close
  <2>1. PoolTyped'
    BY <1>0, <1>3 DEF PoolTyped, Steps, P!Close, P!To
  <2>2. WindowsTyped'
    BY <1>0, <1>3, Kills, ASession DEF PoolTyped, WindowsTyped, P!Close, P!To
  <2>3. Aged'
    BY <1>0, <1>3 DEF PoolTyped, Aged, P!Close, P!To
  <2>4. Published'
    BY <1>0, <1>3 DEF Published, P!Now, P!Unreadable, P!Close, P!To
  <2>5. Answering'
    BY <1>0, <1>3, ASession DEF PoolTyped, Published, Answering, Sound, P!Close, P!To
  <2>6. OneWindow'
    BY <1>0, <1>3, Kills DEF PoolTyped, WindowsTyped, OneWindow, P!Close, P!To
  <2>7. Uncut'
    BY <1>0, <1>3 DEF PoolTyped, Aged, Uncut, P!Close, P!To
  <2> QED
    BY <2>1, <2>2, <2>3, <2>4, <2>5, <2>6, <2>7
<1>4. CASE P!Spawn
  <2>8. P!Brief \in 0..MaxSaves /\ P!Version \in 0..MaxSaves
    BY <1>0 DEF Published, P!Brief, P!Version, P!NoBrief
  <2>9. \/ /\ PSession' = [win |-> next, uuid |-> want, version |-> P!Version, brief |-> P!Brief] /\ next' = next + 1
           /\ step' = "drawing"
        \/ PSession' = PSession /\ next' = next /\ step' = "idle"
    BY <1>4 DEF P!Spawn, P!To
  <2>10. PSession' = [win |-> next, uuid |-> want, version |-> P!Version, brief |-> P!Brief] =>
           /\ PSession' \in Live /\ PSession'.win = next /\ PSession'.uuid = want
           /\ PSession'.version = P!Version /\ PSession'.brief = P!Brief
    BY <2>8, Made DEF PoolTyped
  <2>1. PoolTyped'
    <3>1. PSession' \in Live /\ next' \in Nat \ {0}
      BY <2>9, <2>10 DEF PoolTyped
    <3> QED
      BY <1>4, <3>1 DEF PoolTyped, Steps, P!Spawn, P!To
  <2>2. WindowsTyped'
    BY <1>0, <1>4, ASession DEF PoolTyped, WindowsTyped, P!Spawn, P!To, P!Brief, P!Version, P!NoBrief
  <2>3. Aged'
    BY <1>0, <1>4 DEF PoolTyped, Aged, P!Spawn, P!To, P!Brief, P!Version, P!NoBrief
  <2>4. Published'
    BY <1>0, <1>4 DEF Published, P!Now, P!Unreadable, P!Spawn, P!To, P!Brief, P!Version, P!NoBrief
  <2>5. Answering'
    <3>1. UNCHANGED <<want, live, published, during>>
      BY <1>4 DEF P!Spawn
    <3>2. step' \in {"idle", "drawing"}
      BY <1>4 DEF P!Spawn, P!To
    <3>3. CASE PSession' = [win |-> next, uuid |-> want, version |-> P!Version, brief |-> P!Brief]
      <4>1. PSession'.uuid = want /\ PSession'.version = P!Version /\ PSession'.brief = P!Brief
        BY <2>10, <3>3
      <4>2. CASE readable
        BY <1>4, <3>1, <3>2, <4>1, <4>2 DEF Answering, Sound, Published, P!Now, P!Brief, P!Version, P!Spawn
      <4>3. CASE ~readable
        <5>1. P!Version = 0 /\ published > 0 /\ MaxSaves + 1 \in during
          BY <1>4, <4>3 DEF Published, P!Now, P!Unreadable, P!Version, P!Spawn
        <5> QED
          BY <3>1, <3>2, <4>1, <5>1 DEF Answering, Sound
      <4> QED
        BY <4>2, <4>3 DEF Published
    <3>4. CASE PSession' = PSession /\ step' = "idle"
      BY <3>1, <3>4 DEF Answering, Sound
    <3> QED
      BY <1>4, <3>3, <3>4 DEF P!Spawn, P!To
  <2>6. OneWindow'
    BY <1>0, <1>4 DEF PoolTyped, WindowsTyped, OneWindow, P!Spawn, P!To, P!Brief, P!Version, P!NoBrief
  <2>7. Uncut'
    BY <1>0, <1>4 DEF PoolTyped, Aged, Uncut, P!Spawn, P!To, P!Brief, P!Version, P!NoBrief
  <2> QED
    BY <2>1, <2>2, <2>3, <2>4, <2>5, <2>6, <2>7
<1>5. CASE P!Ready
  <2>1. PoolTyped'
    BY <1>0, <1>5 DEF PoolTyped, Steps, P!Ready, P!To
  <2>2. WindowsTyped'
    BY <1>0, <1>5, ASession DEF PoolTyped, WindowsTyped, P!Ready, P!To
  <2>3. Aged'
    BY <1>0, <1>5 DEF PoolTyped, Aged, P!Ready, P!To
  <2>4. Published'
    BY <1>0, <1>5 DEF Published, P!Now, P!Unreadable, P!Ready, P!To
  <2>5. Answering'
    BY <1>0, <1>5, ASession DEF PoolTyped, Published, Answering, Sound, P!Ready, P!To
  <2>6. OneWindow'
    BY <1>0, <1>5 DEF PoolTyped, WindowsTyped, OneWindow, P!Ready, P!To
  <2>7. Uncut'
    BY <1>0, <1>5 DEF PoolTyped, Aged, Uncut, P!Ready, P!To
  <2> QED
    BY <2>1, <2>2, <2>3, <2>4, <2>5, <2>6, <2>7
<1>6. CASE P!ReadyTooLate
  <2>1. PoolTyped'
    BY <1>0, <1>6 DEF PoolTyped, Steps, P!ReadyTooLate, P!To
  <2>2. WindowsTyped'
    BY <1>0, <1>6, Kills, ASession DEF PoolTyped, WindowsTyped, P!ReadyTooLate, P!To
  <2>3. Aged'
    BY <1>0, <1>6 DEF PoolTyped, Aged, P!ReadyTooLate, P!To
  <2>4. Published'
    BY <1>0, <1>6 DEF Published, P!Now, P!Unreadable, P!ReadyTooLate, P!To
  <2>5. Answering'
    BY <1>0, <1>6, ASession DEF PoolTyped, Published, Answering, Sound, P!ReadyTooLate, P!To
  <2>6. OneWindow'
    BY <1>0, <1>6, Kills DEF PoolTyped, WindowsTyped, OneWindow, P!ReadyTooLate, P!To
  <2>7. Uncut'
    BY <1>0, <1>6 DEF PoolTyped, Aged, Uncut, P!ReadyTooLate, P!To
  <2> QED
    BY <2>1, <2>2, <2>3, <2>4, <2>5, <2>6, <2>7
<1>7. CASE P!EndTurn
  <2>1. PoolTyped'
    BY <1>0, <1>7 DEF PoolTyped, Steps, P!EndTurn, P!To
  <2>2. WindowsTyped'
    BY <1>0, <1>7, ASession DEF PoolTyped, WindowsTyped, P!EndTurn, P!To
  <2>3. Aged'
    BY <1>0, <1>7 DEF PoolTyped, Aged, P!EndTurn, P!To
  <2>4. Published'
    BY <1>0, <1>7 DEF Published, P!Now, P!Unreadable, P!EndTurn, P!To
  <2>5. Answering'
    BY <1>0, <1>7, ASession DEF PoolTyped, Published, Answering, Sound, P!EndTurn, P!To
  <2>6. OneWindow'
    BY <1>0, <1>7 DEF PoolTyped, WindowsTyped, OneWindow, P!EndTurn, P!To
  <2>7. Uncut'
    BY <1>0, <1>7 DEF PoolTyped, Aged, Uncut, P!EndTurn, P!To
  <2> QED
    BY <2>1, <2>2, <2>3, <2>4, <2>5, <2>6, <2>7
<1>8. CASE P!Reap
  <2>1. PoolTyped'
    BY <1>0, <1>8 DEF PoolTyped, Steps, P!Reap, P!IdleLong
  <2>2. WindowsTyped'
    BY <1>0, <1>8, ASession DEF PoolTyped, WindowsTyped, P!Reap, P!IdleLong
  <2>3. Aged'
    BY <1>0, <1>8 DEF PoolTyped, Aged, P!Reap, P!IdleLong
  <2>4. Published'
    BY <1>0, <1>8 DEF Published, P!Now, P!Unreadable, P!Reap, P!IdleLong
  <2>5. Answering'
    BY <1>0, <1>8, ASession DEF PoolTyped, Published, Answering, Sound, P!Reap, P!IdleLong
  <2>6. OneWindow'
    BY <1>0, <1>8 DEF PoolTyped, WindowsTyped, OneWindow, P!Reap, P!IdleLong
  <2>7. Uncut'
    BY <1>0, <1>8 DEF PoolTyped, Aged, Uncut, P!Reap, P!IdleLong
  <2> QED
    BY <2>1, <2>2, <2>3, <2>4, <2>5, <2>6, <2>7
<1>9. CASE P!ReapKill
  <2>1. PoolTyped'
    BY <1>0, <1>9 DEF PoolTyped, Steps, P!ReapKill
  <2>2. WindowsTyped'
    BY <1>0, <1>9, Kills, ASession DEF PoolTyped, WindowsTyped, P!ReapKill
  <2>3. Aged'
    BY <1>0, <1>9 DEF PoolTyped, Aged, P!ReapKill
  <2>4. Published'
    BY <1>0, <1>9 DEF Published, P!Now, P!Unreadable, P!ReapKill
  <2>5. Answering'
    BY <1>0, <1>9, ASession DEF PoolTyped, Published, Answering, Sound, P!ReapKill
  <2>6. OneWindow'
    BY <1>0, <1>9, Kills DEF PoolTyped, WindowsTyped, OneWindow, P!ReapKill
  <2>7. Uncut'
    BY <1>0, <1>9 DEF PoolTyped, Aged, Uncut, P!ReapKill
  <2> QED
    BY <2>1, <2>2, <2>3, <2>4, <2>5, <2>6, <2>7
<1>10. CASE P!ReapDelete
  <2>1. PoolTyped'
    BY <1>0, <1>10 DEF PoolTyped, Steps, P!ReapDelete
  <2>2. WindowsTyped'
    BY <1>0, <1>10, ASession DEF PoolTyped, WindowsTyped, P!ReapDelete
  <2>3. Aged'
    BY <1>0, <1>10 DEF PoolTyped, Aged, P!ReapDelete
  <2>4. Published'
    BY <1>0, <1>10 DEF Published, P!Now, P!Unreadable, P!ReapDelete
  <2>5. Answering'
    BY <1>0, <1>10, ASession DEF PoolTyped, Published, Answering, Sound, P!ReapDelete
  <2>6. OneWindow'
    BY <1>0, <1>10 DEF PoolTyped, WindowsTyped, OneWindow, P!ReapDelete
  <2>7. Uncut'
    BY <1>0, <1>10 DEF PoolTyped, Aged, Uncut, P!ReapDelete
  <2> QED
    BY <2>1, <2>2, <2>3, <2>4, <2>5, <2>6, <2>7
<1>11. CASE P!Reset
  <2>1. PoolTyped'
    BY <1>0, <1>11 DEF PoolTyped, Steps, P!Reset
  <2>2. WindowsTyped'
    BY <1>0, <1>11, ASession DEF PoolTyped, WindowsTyped, P!Reset
  <2>3. Aged'
    BY <1>0, <1>11 DEF PoolTyped, Aged, P!Reset
  <2>4. Published'
    BY <1>0, <1>11 DEF Published, P!Now, P!Unreadable, P!Reset
  <2>5. Answering'
    BY <1>0, <1>11, ASession DEF PoolTyped, Published, Answering, Sound, P!Reset
  <2>6. OneWindow'
    BY <1>0, <1>11 DEF PoolTyped, WindowsTyped, OneWindow, P!Reset
  <2>7. Uncut'
    BY <1>0, <1>11 DEF PoolTyped, Aged, Uncut, P!Reset
  <2> QED
    BY <2>1, <2>2, <2>3, <2>4, <2>5, <2>6, <2>7
<1>12. CASE P!publishPersona
  <2>1. PoolTyped'
    BY <1>0, <1>12 DEF PoolTyped, Steps, P!publishPersona
  <2>2. WindowsTyped'
    BY <1>0, <1>12, ASession DEF PoolTyped, WindowsTyped, P!publishPersona
  <2>3. Aged'
    BY <1>0, <1>12 DEF PoolTyped, Aged, P!publishPersona
  <2>4. Published'
    BY <1>0, <1>12 DEF Published, P!Now, P!Unreadable, P!publishPersona
  <2>5. Answering'
    BY <1>0, <1>12, ASession DEF PoolTyped, Published, Answering, Sound, P!publishPersona
  <2>6. OneWindow'
    BY <1>0, <1>12 DEF PoolTyped, WindowsTyped, OneWindow, P!publishPersona
  <2>7. Uncut'
    BY <1>0, <1>12 DEF PoolTyped, Aged, Uncut, P!publishPersona
  <2> QED
    BY <2>1, <2>2, <2>3, <2>4, <2>5, <2>6, <2>7
<1>13. CASE P!BadWrite
  <2>1. PoolTyped'
    BY <1>0, <1>13 DEF PoolTyped, Steps, P!BadWrite, P!Unreadable
  <2>2. WindowsTyped'
    BY <1>0, <1>13, ASession DEF PoolTyped, WindowsTyped, P!BadWrite, P!Unreadable
  <2>3. Aged'
    BY <1>0, <1>13 DEF PoolTyped, Aged, P!BadWrite, P!Unreadable
  <2>4. Published'
    <3>1. /\ readable /\ published > 0 /\ readable' = FALSE /\ during' = during \cup {MaxSaves + 1}
          /\ UNCHANGED <<published, brief, step>>
      BY <1>13 DEF P!BadWrite, P!Unreadable
    <3>2. MaxSaves + 1 \in 0..(MaxSaves + 1)
      BY <1>0
    <3>3. during' \subseteq 0..(MaxSaves + 1)
      BY <3>1, <3>2 DEF Published
    <3>4. P!Now' \in during'
      BY <3>1 DEF P!Now, P!Unreadable
    <3> QED
      BY <3>1, <3>3, <3>4 DEF Published
  <2>5. Answering'
    BY <1>0, <1>13, ASession DEF PoolTyped, Published, Answering, Sound, P!BadWrite, P!Unreadable
  <2>6. OneWindow'
    BY <1>0, <1>13 DEF PoolTyped, WindowsTyped, OneWindow, P!BadWrite, P!Unreadable
  <2>7. Uncut'
    BY <1>0, <1>13 DEF PoolTyped, Aged, Uncut, P!BadWrite, P!Unreadable
  <2> QED
    BY <2>1, <2>2, <2>3, <2>4, <2>5, <2>6, <2>7
<1>14. ASSUME NEW w \in windows, P!WindowDies(w) PROVE PoolInv'
  <2>1. PoolTyped'
    BY <1>0, <1>14 DEF PoolTyped, Steps, P!WindowDies
  <2>2. WindowsTyped'
    BY <1>0, <1>14, ASession DEF PoolTyped, WindowsTyped, P!WindowDies
  <2>3. Aged'
    BY <1>0, <1>14 DEF PoolTyped, Aged, P!WindowDies
  <2>4. Published'
    BY <1>0, <1>14 DEF Published, P!Now, P!Unreadable, P!WindowDies
  <2>5. Answering'
    BY <1>0, <1>14, ASession DEF PoolTyped, Published, Answering, Sound, P!WindowDies
  <2>6. OneWindow'
    BY <1>0, <1>14 DEF PoolTyped, WindowsTyped, OneWindow, P!WindowDies
  <2>7. Uncut'
    BY <1>0, <1>14 DEF PoolTyped, Aged, Uncut, P!WindowDies
  <2> QED
    BY <2>1, <2>2, <2>3, <2>4, <2>5, <2>6, <2>7
<1>15. CASE P!Tick
  <2>1. PoolTyped'
    BY <1>0, <1>15 DEF PoolTyped, Steps, P!Tick
  <2>2. WindowsTyped'
    BY <1>0, <1>15, ASession DEF PoolTyped, WindowsTyped, P!Tick
  <2>3. Aged'
    BY <1>0, <1>15 DEF PoolTyped, Aged, P!Tick
  <2>4. Published'
    BY <1>0, <1>15 DEF Published, P!Now, P!Unreadable, P!Tick
  <2>5. Answering'
    BY <1>0, <1>15, ASession DEF PoolTyped, Published, Answering, Sound, P!Tick
  <2>6. OneWindow'
    BY <1>0, <1>15 DEF PoolTyped, WindowsTyped, OneWindow, P!Tick
  <2>7. Uncut'
    BY <1>0, <1>15 DEF PoolTyped, Aged, Uncut, P!Tick
  <2> QED
    BY <2>1, <2>2, <2>3, <2>4, <2>5, <2>6, <2>7
<1>16. CASE UNCHANGED P!sessionsVars
  <2>1. PoolTyped'
    BY <1>0, <1>16 DEF PoolTyped, Steps, P!sessionsVars
  <2>2. WindowsTyped'
    BY <1>0, <1>16, ASession DEF PoolTyped, WindowsTyped, P!sessionsVars
  <2>3. Aged'
    BY <1>0, <1>16 DEF PoolTyped, Aged, P!sessionsVars
  <2>4. Published'
    BY <1>0, <1>16 DEF Published, P!Now, P!Unreadable, P!sessionsVars
  <2>5. Answering'
    BY <1>0, <1>16, ASession DEF PoolTyped, Published, Answering, Sound, P!sessionsVars
  <2>6. OneWindow'
    BY <1>0, <1>16 DEF PoolTyped, WindowsTyped, OneWindow, P!sessionsVars
  <2>7. Uncut'
    BY <1>0, <1>16 DEF PoolTyped, Aged, Uncut, P!sessionsVars
  <2> QED
    BY <2>1, <2>2, <2>3, <2>4, <2>5, <2>6, <2>7
<1> QED
  BY <1>1, <1>2, <1>3, <1>4, <1>5, <1>6, <1>7, <1>8, <1>9, <1>10, <1>11, <1>12, <1>13, <1>14, <1>15, <1>16 DEF P!Next

LEMMA PoolPromise == PoolInv => P!TypeOK /\ P!PoolKeepsTrack /\ P!AnswersAsAsked
<1> SUFFICES ASSUME PoolInv PROVE P!TypeOK /\ P!PoolKeepsTrack /\ P!AnswersAsAsked
  OBVIOUS
<1>1. \A s \in Live : s.win < next => s \in P!Session
  BY DEF PoolInv, PoolTyped, Live, P!Session
<1>2. live \in P!Session /\ PSession \in P!Session /\ reaping \in P!Session
  BY <1>1 DEF PoolInv, PoolTyped, WindowsTyped
<1>3. windows \subseteq 1..next /\ next \in Nat
  BY DEF PoolInv, PoolTyped, WindowsTyped
<1>4. brief \in 0..P!NoBrief /\ during \subseteq 0..P!Unreadable
  BY DEF PoolInv, Published, P!NoBrief, P!Unreadable
<1>5. P!TypeOK
  <2>1. /\ want \in 0..MaxResets /\ generation \in 0..MaxResets /\ landed \in BOOLEAN
        /\ raced \in BOOLEAN /\ late \in BOOLEAN /\ cut \in BOOLEAN
        /\ step \in {"idle", "asking", "closing", "spawning", "drawing", "given"}
    BY DEF PoolInv, PoolTyped, Steps
  <2>2. published \in 0..MaxSaves /\ readable \in BOOLEAN /\ age \in 0..IDLE_REAP /\ turnAge \in 0..TURN_TIMEOUT
    BY DEF PoolInv, Published, Aged
  <2> QED
    BY <1>2, <1>3, <1>4, <2>1, <2>2 DEF P!TypeOK
<1>6. P!PoolKeepsTrack
  <2>1. ASSUME ~late PROVE P!Cardinality(windows) <= 1
    <3>1. PICK w : windows = {} \/ windows = {w}
      BY <2>1 DEF PoolInv, OneWindow
    <3>2. Cardinality(windows) \in {0, 1}
      BY <3>1, FS_EmptySet, FS_Singleton
    <3> QED
      BY <3>2 DEF P!Cardinality, Cardinality
  <2> QED
    BY <2>1 DEF PoolInv, OneWindow, Uncut, P!PoolKeepsTrack
<1>7. P!AnswersAsAsked
  BY DEF PoolInv, Answering, P!AnswersAsAsked, P!Unreadable
<1> QED
  BY <1>5, <1>6, <1>7

----------------------------------------------------------------------------
(* Memory.  What a step leaves of the notes it takes from them in their order. *)

Note == [id: Nat, text: Texts \ TooLong]
Ascending(s) == \A i, j \in 1..Len(s) : i < j => s[i].id < s[j].id
From(t, s) == \A k \in 1..Len(t) : \E i \in 1..Len(s) : t[k] = s[i]

LEMMA MemoryConstants ==
  MAX_NOTES \in Nat \ {0} /\ MEMORY_IN_BRIEF \in Nat \ {0} /\ MAX_CATCHUP \in Nat \ {0} /\ MaxIds \in Nat
BY AgentAssumption DEF M!MemoryAssumption

LEMMA Narrowed ==
  ASSUME NEW S, NEW T, NEW s \in Seq(S), \A i \in 1..Len(s) : s[i] \in T
  PROVE  s \in Seq(T)
OBVIOUS

LEMMA NewestAreLast ==
  ASSUME NEW S, NEW s \in Seq(S), NEW n \in Nat
  PROVE  /\ M!Newest(s, n) \in Seq(S) /\ Len(M!Newest(s, n)) <= n
         /\ From(M!Newest(s, n), s) /\ (Ascending(s) => Ascending(M!Newest(s, n)))
<1> DEFINE t == M!Newest(s, n)
           d == IF Len(s) > n THEN Len(s) - n ELSE 0
<1>1. Len(s) \in Nat /\ d \in Nat /\ d <= Len(s) /\ Len(s) - d <= n
  BY LenProperties
<1>2. \A i \in (d + 1)..Len(s) : s[i] \in S
  BY <1>1, ElementOfSeq
<1>3. t = SubSeq(s, d + 1, Len(s))
  BY <1>1 DEF M!Newest
<1> HIDE DEF d, t
<1>4. /\ t \in Seq(S) /\ Len(t) = Len(s) - d
      /\ \A k \in 1..(Len(s) - d) : t[k] = s[k + d]
  <2> DEFINE u == SubSeq(s, d + 1, Len(s))
  <2>1. /\ u \in Seq(S)
        /\ Len(u) = IF d + 1 <= Len(s) THEN Len(s) - (d + 1) + 1 ELSE 0
        /\ \A i \in 1..(Len(s) - (d + 1) + 1) : u[i] = s[d + 1 + i - 1]
    BY <1>1, <1>2, SubSeqProperties
  <2> HIDE DEF u
  <2>2. Len(u) = Len(s) - d
    BY ONLY <1>1, <2>1
  <2>3. \A k \in 1..(Len(s) - d) : u[k] = s[k + d]
    BY ONLY <1>1, <2>1
  <2>4. u = t
    BY <1>3 DEF u
  <2> QED
    BY <2>1, <2>2, <2>3, <2>4
<1>5. From(t, s)
  <2>1. ASSUME NEW k \in 1..Len(t) PROVE \E i \in 1..Len(s) : t[k] = s[i]
    <3>1. k \in 1..(Len(s) - d) /\ k + d \in 1..Len(s)
      BY <1>1, <1>4
    <3> QED
      BY <1>4, <3>1
  <2> QED
    BY <2>1 DEF From
<1>6. Ascending(s) => Ascending(t)
  BY <1>1, <1>4 DEF Ascending
<1> QED
  BY <1>1, <1>4, <1>5, <1>6 DEF t

LEMMA Positions ==
  ASSUME NEW n \in Nat, NEW i \in 1..n, NEW k \in 1..(n - 1)
  PROVE  /\ k < i => k \in 1..(i - 1) /\ k <= i - 1
         /\ ~(k < i) => k - (i - 1) \in 1..(n - i) /\ ~(k <= i - 1) /\ i + (k - (i - 1)) = k + 1
OBVIOUS

LEMMA OthersRemain ==
  ASSUME NEW s \in Seq(Note), NEW i \in 1..Len(s)
  PROVE  /\ M!RemoveAt(s, i) \in Seq(Note) /\ Len(M!RemoveAt(s, i)) <= Len(s)
         /\ From(M!RemoveAt(s, i), s) /\ (Ascending(s) => Ascending(M!RemoveAt(s, i)))
<1> DEFINE a == SubSeq(s, 1, i - 1)
           b == SubSeq(s, i + 1, Len(s))
           t == a \o b
<1>1. Len(s) \in Nat /\ \A k \in 1..Len(s) : s[k] \in Note
  BY LenProperties, ElementOfSeq
<1>2. a \in Seq(Note) /\ Len(a) = i - 1 /\ \A k \in 1..(i - 1) : a[k] = s[k]
  <2>1. \A k \in 1..(i - 1) : s[k] \in Note
    BY <1>1
  <2>2. /\ a \in Seq(Note) /\ Len(a) = IF 1 <= i - 1 THEN i - 1 - 1 + 1 ELSE 0
        /\ \A k \in 1..(i - 1 - 1 + 1) : a[k] = s[1 + k - 1]
    BY <1>1, <2>1, SubSeqProperties
  <2> QED
    BY <1>1, <2>2
<1>3. b \in Seq(Note) /\ Len(b) = Len(s) - i /\ \A k \in 1..(Len(s) - i) : b[k] = s[i + k]
  <2>1. \A k \in (i + 1)..Len(s) : s[k] \in Note
    BY <1>1
  <2>2. /\ b \in Seq(Note) /\ Len(b) = IF i + 1 <= Len(s) THEN Len(s) - (i + 1) + 1 ELSE 0
        /\ \A k \in 1..(Len(s) - (i + 1) + 1) : b[k] = s[i + 1 + k - 1]
    BY <1>1, <2>1, SubSeqProperties
  <2> QED
    BY <1>1, <2>2
<1>4. M!RemoveAt(s, i) = t
  BY DEF M!RemoveAt
<1> HIDE DEF a, b
<1>5. /\ t \in Seq(Note) /\ Len(t) = Len(a) + Len(b)
      /\ \A k \in 1..(Len(a) + Len(b)) : t[k] = IF k <= Len(a) THEN a[k] ELSE b[k - Len(a)]
  BY <1>2, <1>3, ConcatProperties
<1> HIDE DEF t
<1>6. /\ Len(t) = Len(s) - 1
      /\ \A k \in 1..(Len(s) - 1) : t[k] = IF k < i THEN s[k] ELSE s[k + 1]
  <2>1. Len(a) = i - 1 /\ Len(b) = Len(s) - i /\ Len(a) + Len(b) = Len(s) - 1
    BY ONLY <1>1, <1>2, <1>3, i \in 1..Len(s)
  <2>2. \A k \in 1..(Len(s) - 1) : t[k] = IF k <= i - 1 THEN a[k] ELSE b[k - (i - 1)]
    BY ONLY <1>5, <2>1
  <2>3. ASSUME NEW k \in 1..(Len(s) - 1), k < i PROVE t[k] = s[k]
    <3>1. k \in 1..(i - 1) /\ k <= i - 1
      BY <1>1, <2>3, Positions
    <3>2. t[k] = a[k]
      BY ONLY <2>2, <3>1, k \in 1..(Len(s) - 1)
    <3> QED
      BY ONLY <1>2, <3>1, <3>2
  <2>4. ASSUME NEW k \in 1..(Len(s) - 1), ~(k < i) PROVE t[k] = s[k + 1]
    <3> DEFINE m == k - (i - 1)
    <3>1. m \in 1..(Len(s) - i) /\ ~(k <= i - 1) /\ i + m = k + 1
      BY <1>1, <2>4, Positions
    <3>2. t[k] = b[m]
      BY ONLY <2>2, <3>1, k \in 1..(Len(s) - 1)
    <3> HIDE DEF m
    <3>3. b[m] = s[i + m]
      BY ONLY <1>3, <3>1
    <3> QED
      BY ONLY <3>1, <3>2, <3>3
  <2>5. Len(t) = Len(s) - 1
    BY ONLY <1>5, <2>1
  <2> QED
    BY <2>3, <2>4, <2>5
<1>7. From(t, s)
  <2>1. ASSUME NEW k \in 1..Len(t) PROVE \E n \in 1..Len(s) : t[k] = s[n]
    BY <1>1, <1>6
  <2> QED
    BY <2>1 DEF From
<1>8. ASSUME Ascending(s) PROVE Ascending(t)
  BY <1>1, <1>6, <1>8 DEF Ascending
<1> QED
  BY <1>1, <1>4, <1>5, <1>6, <1>7, <1>8

----------------------------------------------------------------------------
MemoryTyped ==
  /\ notes \in Seq(Note) /\ Len(notes) <= MAX_NOTES
  /\ lastId \in 0..MaxIds /\ seen \in 0..lastId
  /\ \A i \in 1..Len(notes) : notes[i].id \in 1..lastId
ContextTyped ==
  /\ briefed \in BOOLEAN /\ starting \in BOOLEAN
  /\ MBrief \subseteq 1..lastId /\ told \subseteq 1..lastId
  /\ between \subseteq 1..lastId /\ skipped \subseteq 1..lastId
Divided ==
  briefed /\ ~starting =>
    \A i \in 1..Len(notes) :
      IF notes[i].id <= seen THEN notes[i].id \in MBrief \cup told \cup skipped
                             ELSE notes[i].id \notin told /\ notes[i].id \notin MBrief \ between
\* While a session is started, what is after the marker was kept since it was moved.
KeptSince ==
  starting =>
    \A i \in 1..Len(notes) : notes[i].id > seen => notes[i].id \in between /\ notes[i].id \notin told
MemoryInv == MemoryTyped /\ Ascending(notes) /\ ContextTyped /\ Divided /\ KeptSince

LEMMA MemoryStart == M!Init => MemoryInv
<1> SUFFICES ASSUME M!Init PROVE MemoryInv
  OBVIOUS
<1>1. /\ notes = <<>> /\ lastId = 0 /\ seen = 0 /\ briefed = FALSE /\ MBrief = {} /\ told = {} /\ skipped = {}
      /\ starting = FALSE /\ between = {}
  BY DEF M!Init
<1>2. notes \in Seq(Note) /\ Len(notes) = 0
  BY <1>1, EmptySeq
<1>3. MemoryTyped
  BY <1>1, <1>2, MemoryConstants DEF MemoryTyped
<1>4. Ascending(notes)
  BY <1>2 DEF Ascending
<1> QED
  BY <1>1, <1>3, <1>4 DEF MemoryInv, ContextTyped, Divided, KeptSince

\* Fewer of the notes, in their order, keep what is said of all.
LEMMA FewerNotes ==
  ASSUME MemoryInv, notes' \in Seq(Note), Len(notes') <= MAX_NOTES, From(notes', notes), Ascending(notes'),
         UNCHANGED <<lastId, seen, starting, briefed, MBrief, told, between, skipped>>
  PROVE  MemoryInv'
<1>1. \A k \in 1..Len(notes') : \E i \in 1..Len(notes) : notes'[k] = notes[i]
  BY DEF From
<1>2. \A k \in 1..Len(notes') : notes'[k].id \in 1..lastId
  BY <1>1 DEF MemoryInv, MemoryTyped
<1>3. MemoryTyped'
  BY <1>2 DEF MemoryInv, MemoryTyped
<1>4. ContextTyped'
  BY DEF MemoryInv, ContextTyped
<1>5. Divided'
  BY <1>1 DEF MemoryInv, Divided
<1>6. KeptSince'
  BY <1>1 DEF MemoryInv, KeptSince
<1> QED
  BY <1>3, <1>4, <1>5, <1>6 DEF MemoryInv

LEMMA TipIsLast ==
  ASSUME MemoryInv
  PROVE  /\ M!Tip \in 0..lastId
         /\ \A i \in 1..Len(notes) : notes[i].id <= M!Tip
<1>1. Len(notes) \in Nat /\ (notes # <<>> => Len(notes) \in 1..Len(notes)) /\ lastId \in Nat
  BY LenProperties, EmptySeq, MemoryConstants DEF MemoryInv, MemoryTyped
<1>2. CASE notes = <<>>
  BY <1>1, <1>2 DEF M!Tip
<1>3. CASE notes # <<>>
  <2>1. M!Tip = notes[Len(notes)].id
    BY <1>3 DEF M!Tip
  <2> QED
    BY <1>1, <1>3, <2>1 DEF MemoryInv, MemoryTyped, Ascending
<1> QED
  BY <1>2, <1>3

LEMMA MemoryStep == MemoryInv /\ [M!Next]_(M!memoryVars) => MemoryInv'
<1> SUFFICES ASSUME MemoryInv, [M!Next]_(M!memoryVars) PROVE MemoryInv'
  OBVIOUS
<1>0. /\ notes \in Seq(Note) /\ Len(notes) \in Nat /\ lastId \in Nat /\ Ascending(notes)
      /\ DOMAIN notes = 1..Len(notes)
  BY MemoryConstants, LenProperties DEF MemoryInv, MemoryTyped
<1>1. ASSUME NEW text \in Texts, M!remember(text) PROVE MemoryInv'
  <2> DEFINE note == [id |-> lastId', text |-> text]
             grown == Append(notes, note)
  <2>1. /\ lastId' = lastId + 1 /\ lastId < MaxIds /\ notes' = M!Newest(grown, MAX_NOTES)
        /\ UNCHANGED <<seen, starting, briefed, MBrief, told, skipped>>
        /\ between' = IF starting THEN between \cup {lastId'} ELSE between
    BY <1>1 DEF M!remember
  <2>2. note \in Note /\ note.id = lastId + 1
    BY <1>0, <1>1, <2>1 DEF M!remember, Note
  <2> HIDE DEF note
  <2>3. /\ grown \in Seq(Note) /\ Len(grown) = Len(notes) + 1 /\ grown[Len(notes) + 1] = note
        /\ \A i \in 1..Len(notes) : grown[i] = notes[i]
    BY <1>0, <2>2, AppendProperties
  <2> HIDE DEF grown
  <2>4. Ascending(grown)
    <3>1. ASSUME NEW i \in 1..Len(grown), NEW j \in 1..Len(grown), i < j PROVE grown[i].id < grown[j].id
      <4>1. i \in 1..Len(notes) /\ notes[i].id \in 1..lastId /\ grown[i] = notes[i]
        BY <1>0, <2>3, <3>1 DEF MemoryInv, MemoryTyped
      <4>2. CASE j = Len(notes) + 1
        BY <1>0, <2>2, <2>3, <4>1, <4>2
      <4>3. CASE j \in 1..Len(notes)
        BY <1>0, <2>3, <3>1, <4>1, <4>3 DEF Ascending
      <4> QED
        BY <1>0, <2>3, <4>2, <4>3
    <3> QED
      BY <3>1 DEF Ascending
  <2>5. /\ notes' \in Seq(Note) /\ Len(notes') <= MAX_NOTES /\ Ascending(notes') /\ From(notes', grown)
    BY <2>1, <2>3, <2>4, NewestAreLast, MemoryConstants
  <2>6. ASSUME NEW k \in 1..Len(notes')
        PROVE  notes'[k].id = lastId + 1 \/ \E i \in 1..Len(notes) : notes'[k] = notes[i]
    <3>1. PICK i \in 1..Len(grown) : notes'[k] = grown[i]
      BY <2>5 DEF From
    <3> QED
      BY <1>0, <2>2, <2>3, <3>1
  <2>7. MemoryTyped'
    <3>1. lastId' \in 0..MaxIds /\ seen' \in 0..lastId'
      BY <1>0, <2>1, MemoryConstants DEF MemoryInv, MemoryTyped
    <3>2. \A k \in 1..Len(notes') : notes'[k].id \in 1..lastId'
      BY <1>0, <2>1, <2>6 DEF MemoryInv, MemoryTyped
    <3> QED
      BY <2>5, <3>1, <3>2 DEF MemoryTyped
  <2>8. ContextTyped'
    <3>1. 1..lastId \subseteq 1..lastId' /\ lastId' \in 1..lastId'
      BY <1>0, <2>1
    <3> QED
      BY <2>1, <3>1 DEF MemoryInv, ContextTyped
  <2>9. Divided'
    <3> SUFFICES ASSUME briefed, ~starting, NEW k \in 1..Len(notes')
                 PROVE  IF notes'[k].id <= seen THEN notes'[k].id \in MBrief \cup told \cup skipped
                          ELSE notes'[k].id \notin told /\ notes'[k].id \notin MBrief \ between
      BY <2>1 DEF Divided
    <3>1. CASE notes'[k].id = lastId + 1
      BY <1>0, <3>1 DEF MemoryInv, MemoryTyped, ContextTyped
    <3>2. CASE notes'[k].id # lastId + 1
      BY <2>6, <3>2 DEF MemoryInv, Divided
    <3> QED
      BY <3>1, <3>2
  <2>10. KeptSince'
    <3> SUFFICES ASSUME starting, NEW k \in 1..Len(notes'), notes'[k].id > seen
                 PROVE  notes'[k].id \in between' /\ notes'[k].id \notin told
      BY <2>1 DEF KeptSince
    <3>1. CASE notes'[k].id = lastId + 1
      BY <1>0, <2>1, <3>1 DEF MemoryInv, ContextTyped
    <3>2. CASE notes'[k].id # lastId + 1
      BY <2>1, <2>6, <3>2 DEF MemoryInv, KeptSince
    <3> QED
      BY <3>1, <3>2
  <2> QED
    BY <2>5, <2>7, <2>8, <2>9, <2>10 DEF MemoryInv
<1>2. ASSUME NEW id \in 1..lastId, M!forget(id) PROVE MemoryInv'
  <2>1. PICK i \in 1..Len(notes) : notes' = M!RemoveAt(notes, i)
    BY <1>0, <1>2 DEF M!forget
  <2>2. /\ notes' \in Seq(Note) /\ Len(notes') <= Len(notes) /\ From(notes', notes) /\ Ascending(notes')
    BY <1>0, <2>1, OthersRemain
  <2>3. Len(notes') <= MAX_NOTES
    BY <1>0, <2>2, LenProperties, MemoryConstants DEF MemoryInv, MemoryTyped
  <2> QED
    BY <1>2, <2>2, <2>3, FewerNotes DEF M!forget
<1>3. CASE M!forgetAll
  <2>1. notes' = <<>> /\ UNCHANGED <<lastId, seen, starting, briefed, MBrief, told, between, skipped>>
    BY <1>3 DEF M!forgetAll
  <2>2. notes' \in Seq(Note) /\ Len(notes') = 0
    BY <2>1, EmptySeq
  <2>3. From(notes', notes) /\ Ascending(notes') /\ Len(notes') <= MAX_NOTES
    BY <2>2, MemoryConstants DEF From, Ascending
  <2> QED
    BY <2>1, <2>2, <2>3, FewerNotes
<1>4. CASE M!CatchUp
  <2>1. /\ briefed /\ told' = told \cup M!Carried /\ skipped' = skipped \cup (M!Fresh \ M!Carried)
        /\ seen' = M!Mark /\ ~starting /\ UNCHANGED <<notes, lastId, starting, briefed, MBrief, between>>
    BY <1>4 DEF M!CatchUp
  <2>2. M!AfterSeen \subseteq 1..Len(notes)
    BY <1>0 DEF M!AfterSeen
  <2>3. M!Fresh \subseteq 1..lastId /\ M!Carried \subseteq M!Fresh
    BY <2>2 DEF M!Fresh, M!Carried, MemoryInv, MemoryTyped
  <2>4. seen' \in 0..lastId /\ \A i \in 1..Len(notes) : notes[i].id <= seen'
    BY <1>0, <2>1, TipIsLast, LenProperties DEF M!Mark, MemoryInv, MemoryTyped
  <2>5. MemoryTyped' /\ Ascending(notes')
    BY <1>0, <2>1, <2>4 DEF MemoryInv, MemoryTyped
  <2>6. ContextTyped'
    BY <2>1, <2>3 DEF MemoryInv, ContextTyped
  <2>7. ASSUME NEW i \in 1..Len(notes) PROVE notes[i].id \in MBrief \cup told' \cup skipped'
    <3>1. CASE i \in M!AfterSeen
      BY <2>1, <3>1 DEF M!Fresh
    <3>2. CASE i \notin M!AfterSeen
      <4>1. notes[i].id <= seen
        BY <1>0, <3>2 DEF M!AfterSeen, MemoryInv, MemoryTyped
      <4> QED
        BY <2>1, <4>1 DEF MemoryInv, Divided
    <3> QED
      BY <3>1, <3>2
  <2> QED
    BY <2>1, <2>4, <2>5, <2>6, <2>7 DEF MemoryInv, Divided, KeptSince
<1>5. CASE M!markMemorySeen
  <2>1. /\ seen' = M!Tip /\ starting' = TRUE /\ between' = {}
        /\ UNCHANGED <<notes, lastId, briefed, MBrief, told, skipped>>
    BY <1>5 DEF M!markMemorySeen
  <2>2. seen' \in 0..lastId /\ \A i \in 1..Len(notes) : notes[i].id <= seen'
    BY <2>1, TipIsLast
  <2>3. MemoryTyped' /\ Ascending(notes') /\ ContextTyped'
    BY <1>0, <2>1, <2>2 DEF MemoryInv, MemoryTyped, ContextTyped
  <2>4. KeptSince'
    <3>1. \A i \in 1..Len(notes) : notes[i].id \in Nat /\ seen' \in Nat
      BY <1>0, <2>2 DEF MemoryInv, MemoryTyped
    <3> QED
      BY <2>1, <2>2, <3>1 DEF KeptSince
  <2> QED
    BY <2>1, <2>3, <2>4 DEF MemoryInv, Divided
<1>6. ASSUME NEW kept \in BOOLEAN, NEW reset \in BOOLEAN, M!writeBrief(kept, reset) PROVE MemoryInv'
  <2>1. /\ starting /\ starting' = FALSE /\ briefed' = TRUE /\ UNCHANGED <<notes, lastId, seen, between>>
        /\ MBrief' = IF kept THEN MBrief ELSE M!Ids(M!Newest(notes, MEMORY_IN_BRIEF))
        /\ told' = IF reset THEN {} ELSE told
        /\ skipped' = ({id \in M!Ids(notes) : id <= seen} \ (MBrief' \cup told'))
                      \cup (IF reset THEN {} ELSE skipped)
        /\ kept => briefed
    BY <1>6 DEF M!writeBrief
  <2>2. M!Ids(notes) = {notes[i].id : i \in 1..Len(notes)} /\ M!Ids(notes) \subseteq 1..lastId
    BY <1>0 DEF M!Ids, MemoryInv, MemoryTyped
  <2>3. M!Ids(M!Newest(notes, MEMORY_IN_BRIEF)) \subseteq M!Ids(notes)
    <3> DEFINE t == M!Newest(notes, MEMORY_IN_BRIEF)
    <3>1. t \in Seq(Note) /\ From(t, notes)
      BY <1>0, NewestAreLast, MemoryConstants
    <3>2. DOMAIN t = 1..Len(t)
      BY <3>1, LenProperties
    <3> HIDE DEF t
    <3>3. M!Ids(t) \subseteq M!Ids(notes)
      BY <2>2, <3>1, <3>2 DEF M!Ids, From
    <3> QED
      BY <3>3 DEF t
  <2>4. MemoryTyped' /\ Ascending(notes')
    BY <1>0, <2>1 DEF MemoryInv, MemoryTyped
  <2>5. ContextTyped'
    BY <2>1, <2>2, <2>3 DEF MemoryInv, ContextTyped
  <2>6. ASSUME NEW i \in 1..Len(notes)
        PROVE  IF notes[i].id <= seen THEN notes[i].id \in MBrief' \cup told' \cup skipped'
                 ELSE notes[i].id \notin told' /\ notes[i].id \notin MBrief' \ between
    <3>1. CASE notes[i].id <= seen
      BY <2>1, <2>2, <3>1
    <3>2. CASE ~(notes[i].id <= seen)
      <4>1. notes[i].id > seen
        BY <1>0, <3>2 DEF MemoryInv, MemoryTyped
      <4> QED
        BY <2>1, <3>2, <4>1 DEF MemoryInv, KeptSince
    <3> QED
      BY <3>1, <3>2
  <2> QED
    BY <2>1, <2>4, <2>5, <2>6 DEF MemoryInv, Divided, KeptSince
<1>7. CASE UNCHANGED M!memoryVars
  <2>1. UNCHANGED <<notes, lastId, seen, starting, briefed, MBrief, told, between, skipped>>
    BY <1>7 DEF M!memoryVars
  <2> QED
    BY <2>1 DEF MemoryInv, MemoryTyped, ContextTyped, Divided, KeptSince
<1> QED
  BY <1>1, <1>2, <1>3, <1>4, <1>5, <1>6, <1>7 DEF M!Next

LEMMA MemoryPromise == MemoryInv => M!TypeOK /\ M!MarkerDividesMemory
<1> SUFFICES ASSUME MemoryInv PROVE M!TypeOK /\ M!MarkerDividesMemory
  OBVIOUS
<1>1. /\ notes \in Seq(Note) /\ DOMAIN notes = 1..Len(notes)
      /\ \A i \in 1..Len(notes) : notes[i] \in Note /\ notes[i].id \in 1..lastId
  BY LenProperties, ElementOfSeq DEF MemoryInv, MemoryTyped
<1>2. \A i \in 1..Len(notes) : notes[i] \in [id: 1..lastId, text: Texts \ TooLong]
  BY <1>1 DEF Note
<1>3. notes \in Seq([id: 1..lastId, text: Texts \ TooLong])
  BY <1>1, <1>2, Narrowed
<1>4. M!TypeOK
  BY <1>3 DEF MemoryInv, MemoryTyped, ContextTyped, M!TypeOK
<1> QED
  BY <1>1, <1>4 DEF MemoryInv, Divided, M!MarkerDividesMemory

----------------------------------------------------------------------------
(* Apps *)

AppsInv ==
  /\ now \in 0..MaxNow /\ label \in Labels /\ ABox \in 1..MaxBoxes
  /\ cached \in [at: A!Never..MaxNow, box: 0..MaxBoxes, label: Labels]
  /\ inflight \in 0..MaxFlights /\ flights \subseteq A!Call /\ labelled \in 0..MaxLabelled
  /\ A!LabelsAreCurrent
  /\ IsFiniteSet(flights) /\ Cardinality(flights) <= 1 + labelled
  /\ inflight = 0 => Cardinality(flights) <= labelled

LEMMA AppsConstants ==
  /\ TTL \in Nat /\ MaxNow \in Nat /\ MaxFlights \in Nat /\ MaxLabelled \in Nat
  /\ MaxBoxes \in Nat /\ MaxBoxes > 0
BY AgentAssumption DEF A!AppsAssumption

LEMMA AppsStart == A!Init => AppsInv
<1> SUFFICES ASSUME A!Init PROVE AppsInv
  OBVIOUS
<1>1. IsFiniteSet(flights) /\ Cardinality(flights) = 0
  BY FS_EmptySet DEF A!Init
<1>2. A!NoListing \in [at: A!Never..MaxNow, box: 0..MaxBoxes, label: Labels] /\ A!NoListing.at = A!Never
  BY AppsConstants DEF A!Init, A!NoListing, A!Never
<1> QED
  BY <1>1, <1>2, AppsConstants DEF A!Init, AppsInv, A!LabelsAreCurrent

LEMMA AppsStep == AppsInv /\ [A!Next]_(A!vars) => AppsInv'
<1> SUFFICES ASSUME AppsInv, [A!Next]_(A!vars) PROVE AppsInv'
  OBVIOUS
<1> USE AppsConstants DEF AppsInv, A!LabelsAreCurrent
<1>0. Cardinality(flights) \in Nat /\ labelled \in Nat
  BY FS_CardinalityType
<1>1. A!NoListing \in [at: A!Never..MaxNow, box: 0..MaxBoxes, label: Labels] /\ A!NoListing.at = A!Never
  BY DEF A!NoListing, A!Never
<1>2. CASE A!Tick
  BY <1>2 DEF A!Tick
<1>3. CASE A!Deploy
  BY <1>3 DEF A!Deploy
<1>4. CASE A!ListApps
  <2>1. PICK n \in 1..MaxFlights :
          flights' = flights \cup {[n |-> n, at |-> now, box |-> 0]} /\ inflight' = n
    BY <1>4 DEF A!ListApps
  <2>2. inflight = 0 /\ UNCHANGED <<now, label, ABox, cached, labelled>>
    BY <1>4 DEF A!ListApps, A!MustAsk
  <2>3. /\ IsFiniteSet(flights') /\ Cardinality(flights') \in {Cardinality(flights), Cardinality(flights) + 1}
    BY <2>1, FS_AddElement
  <2>4. [n |-> n, at |-> now, box |-> 0] \in A!Call
    BY DEF A!Call
  <2> QED
    BY <1>0, <2>1, <2>2, <2>3, <2>4
<1>5. ASSUME NEW f \in flights, A!BoxAnswers(f) PROVE AppsInv'
  <2>1. /\ flights' = (flights \ {f}) \cup {[f EXCEPT !.box = ABox]}
        /\ UNCHANGED <<now, label, ABox, cached, inflight, labelled>>
    BY <1>5 DEF A!BoxAnswers
  <2>2. /\ IsFiniteSet(flights \ {f}) /\ Cardinality(flights \ {f}) = Cardinality(flights) - 1
    BY <1>5, FS_RemoveElement
  <2>3. IsFiniteSet(flights') /\ Cardinality(flights') <= Cardinality(flights)
    <3> DEFINE F == flights \ {f}
               g == [f EXCEPT !.box = ABox]
    <3>1. /\ IsFiniteSet(F \cup {g})
          /\ Cardinality(F \cup {g}) = Cardinality(F) \/ Cardinality(F \cup {g}) = Cardinality(F) + 1
      BY <2>2, FS_AddElement
    <3> HIDE DEF F, g
    <3>2. Cardinality(F) = Cardinality(flights) - 1 /\ flights' = F \cup {g}
      BY <2>1, <2>2 DEF F, g
    <3> QED
      BY <1>0, <3>1, <3>2
  <2>4. [f EXCEPT !.box = ABox] \in A!Call
    BY <1>5 DEF A!Call
  <2>5. Cardinality(flights') \in Nat
    BY <2>3, FS_CardinalityType
  <2> QED
    BY <1>0, <2>1, <2>3, <2>4, <2>5
<1>6. ASSUME NEW f \in flights, A!Land(f) PROVE AppsInv'
  <2>1. /\ inflight' = 0 /\ flights' = flights \ {f} /\ UNCHANGED <<now, label, ABox, labelled>>
        /\ cached' = cached \/ cached' = [at |-> f.at, box |-> f.box, label |-> label]
    BY <1>6 DEF A!Land
  <2>2. IsFiniteSet(flights') /\ Cardinality(flights') = Cardinality(flights) - 1
    BY <1>6, <2>1, FS_RemoveElement
  <2>3. [at |-> f.at, box |-> f.box, label |-> label] \in [at: A!Never..MaxNow, box: 0..MaxBoxes, label: Labels]
    BY <1>6 DEF A!Call, A!Never
  <2> QED
    BY <1>0, <2>1, <2>2, <2>3
<1>7. ASSUME NEW l \in Labels, A!SetLabel(l) PROVE AppsInv'
  BY <1>0, <1>1, <1>7 DEF A!SetLabel, A!Forgotten
<1>8. CASE UNCHANGED A!vars
  BY <1>8 DEF A!vars
<1> QED
  BY <1>2, <1>3, <1>4, <1>5, <1>6, <1>7, <1>8 DEF A!Next

LEMMA AppsPromise == AppsInv => A!TypeOK /\ A!LabelsAreCurrent /\ A!CallsAreShared
BY DEF AppsInv, A!TypeOK, A!CallsAreShared, A!Cardinality, Cardinality

(* Rooms *)

RoomTyped ==
  /\ member \in BOOLEAN /\ RLeft \in BOOLEAN /\ RUp \in BOOLEAN
  /\ leaving \in {"no", "asked", "gone", "refused"}
RoomCounted == RDrops \in 0..RMaxDrops /\ added \in 0..MaxAdded
RoomLeft ==
  /\ RDrops = 0 => RUp
  /\ RDrops = 0 /\ added = 0 /\ (RLeft \/ leaving = "gone") => ~member
PromptSound ==
  /\ turn \in [n: 0..RMaxTurns, here: BOOLEAN, open: BOOLEAN]
  /\ lines \in Seq(1..RMaxTurns) /\ heard \subseteq (1..RMaxTurns) \X (1..RMaxTurns)
  /\ turn.open \/ lines # <<>> => turn.n > 0
RoomsInv == RoomTyped /\ RoomCounted /\ RoomLeft /\ PromptSound

LEMMA RoomsStart == R!Init => RoomsInv
<1> SUFFICES ASSUME R!Init PROVE RoomsInv
  OBVIOUS
<1>0. RMaxDrops \in Nat /\ MaxAdded \in Nat /\ RMaxTurns \in Nat
  BY AgentAssumption DEF R!RoomsAssumption
<1>1. RoomTyped
  BY DEF R!Init, RoomTyped
<1>2. RoomCounted
  BY <1>0 DEF R!Init, RoomCounted
<1>3. RoomLeft
  BY DEF R!Init, RoomLeft
<1>4. PromptSound
  BY <1>0 DEF R!Init, PromptSound
<1> QED
  BY <1>1, <1>2, <1>3, <1>4 DEF RoomsInv

LEMMA RoomsStep == RoomsInv /\ [R!Next]_(R!vars) => RoomsInv'
<1> SUFFICES ASSUME RoomsInv, [R!Next]_(R!vars) PROVE RoomsInv'
  OBVIOUS
<1> USE DEF RoomsInv, RoomCounted, RoomLeft
<1>0. RMaxDrops \in Nat /\ MaxAdded \in Nat /\ RMaxTurns \in Nat
  BY AgentAssumption DEF R!RoomsAssumption
<1>1. CASE R!Leave \/ R!Lands \/ R!Acked \/ R!Fails \/ R!Checked \/ R!Added \/ R!RoomSpeaks
  <2>1. UNCHANGED <<RUp, RDrops, turn, lines, heard>>
    BY <1>1 DEF R!Leave, R!Lands, R!Acked, R!Fails, R!Checked, R!Added, R!RoomSpeaks, R!line, R!prompt
  <2>2. RoomTyped'
    BY <1>1, <2>1 DEF RoomTyped, R!Leave, R!Lands, R!Acked, R!Fails, R!Checked, R!Added, R!RoomSpeaks
  <2>4. RoomCounted'
    BY <1>0, <1>1, <2>1 DEF R!Leave, R!Lands, R!Acked, R!Fails, R!Checked, R!Added, R!RoomSpeaks
  <2>3. RDrops = 0 /\ added' = 0 /\ (RLeft' \/ leaving' = "gone") => ~member'
    <3>1. CASE R!Leave \/ R!Lands \/ R!Acked \/ R!Fails \/ R!RoomSpeaks
      BY <3>1 DEF R!Leave, R!Lands, R!Acked, R!Fails, R!RoomSpeaks
    <3>2. CASE R!Checked
      BY <3>2 DEF R!Checked, R!IsInGroup
    <3>3. CASE R!Added
      BY <1>0, <3>3 DEF R!Added
    <3> QED
      BY <1>1, <3>1, <3>2, <3>3
  <2>5. PromptSound'
    BY <2>1 DEF PromptSound
  <2> QED
    BY <2>1, <2>2, <2>3, <2>4, <2>5
<1>2. CASE R!Drop \/ R!Reconnect
  <2>1. UNCHANGED <<member, RLeft, leaving, added, turn, lines, heard>>
    BY <1>2 DEF R!Drop, R!Reconnect, R!room, R!prompt
  <2>2. RoomTyped' /\ PromptSound'
    BY <1>2, <2>1 DEF R!Drop, R!Reconnect, RoomTyped, PromptSound
  <2>3. RoomCounted' /\ RoomLeft'
    BY <1>0, <1>2, <2>1 DEF R!Drop, R!Reconnect
  <2> QED
    BY <2>2, <2>3
<1>8. ASSUME UNCHANGED <<member, RLeft, leaving, added, RUp, RDrops>>, PromptSound' PROVE RoomsInv'
  BY <1>8 DEF RoomTyped
<1>3. CASE R!SendToChat
  <2>1. PromptSound'
    BY <1>0, <1>3 DEF R!SendToChat, R!MayType, PromptSound
  <2> QED
    BY <1>3, <1>8, <2>1 DEF R!SendToChat, R!room, R!line
<1>4. CASE R!TypesLine
  <2>1. Head(lines) \in 1..RMaxTurns /\ Tail(lines) \in Seq(1..RMaxTurns) /\ turn.n \in 1..RMaxTurns
    BY <1>0, <1>4 DEF R!TypesLine, PromptSound
  <2>2. PromptSound'
    BY <1>4, <2>1 DEF R!TypesLine, PromptSound
  <2> QED
    BY <1>4, <1>8, <2>2 DEF R!TypesLine, R!room, R!line
<1>5. ASSUME NEW here \in BOOLEAN, R!TurnBegins(here) PROVE RoomsInv'
  <2>1. PromptSound'
    BY <1>0, <1>5 DEF R!TurnBegins, PromptSound
  <2> QED
    BY <1>5, <1>8, <2>1 DEF R!TurnBegins, R!room, R!line
<1>6. CASE R!TurnEnds
  <2>1. PromptSound'
    BY <1>0, <1>6 DEF R!TurnEnds, PromptSound
  <2> QED
    BY <1>6, <1>8, <2>1 DEF R!TurnEnds, R!room, R!line
<1>7. CASE UNCHANGED R!vars
  <2>1. PromptSound'
    BY <1>7 DEF PromptSound, R!vars, R!prompt
  <2> QED
    BY <1>7, <1>8, <2>1 DEF R!vars, R!room, R!line, R!prompt
<1> QED
  BY <1>1, <1>2, <1>3, <1>4, <1>5, <1>6, <1>7 DEF R!Next

LEMMA RoomsPromise == RoomsInv => R!TypeOK /\ R!LeftWithReason
<1> SUFFICES ASSUME RoomsInv PROVE R!TypeOK /\ R!LeftWithReason
  OBVIOUS
<1>1. {member, RLeft, RUp} \subseteq BOOLEAN /\ leaving \in {"no", "asked", "gone", "refused"}
  BY DEF RoomsInv, RoomTyped
<1>2. RDrops \in 0..RMaxDrops /\ added \in 0..MaxAdded
  BY DEF RoomsInv, RoomCounted
<1>3. /\ turn \in [n: 0..RMaxTurns, here: BOOLEAN, open: BOOLEAN]
      /\ heard \subseteq (1..RMaxTurns) \X (1..RMaxTurns) /\ lines \in Seq(1..RMaxTurns)
  BY DEF RoomsInv, PromptSound
<1>5. \A i \in DOMAIN lines : lines[i] \in 1..RMaxTurns
  BY ONLY <1>3, ElementOfSeq, LenProperties
<1>4. R!LeftWithReason
  <2>1. MaxAdded \in Nat
    BY AgentAssumption DEF R!RoomsAssumption
  <2> QED
    BY <2>1 DEF RoomsInv, RoomCounted, RoomLeft, R!LeftWithReason, R!LeftMeansGone
<1> QED
  BY <1>1, <1>2, <1>3, <1>4, <1>5 DEF R!TypeOK

----------------------------------------------------------------------------
(* Operator.  A hand that corrects a message, or has sent one, is told from the
   others by what its request says; the record of a message and what the phones
   show of it are compared entry by entry. *)

Entry == [id : O!Ids, kind : {"text", "file"}, words : {"first"} \cup Hands, unsent : BOOLEAN]
Shown == [words : {"none", "first"} \cup Hands, gone : BOOLEAN]
Errand == {O!Free} \cup O!Correction \cup O!Speech

Corrects(h) == request[h].op \in {"edit", "unsend"}
Landed(h) == request[h].op = "say" /\ request[h].id # 0
Of(h) == request[h].id

LEMMA OperatorConstants == KEEP_PER_CHAT \in Nat /\ OMaxIds \in Nat /\ MaxDrops \in Nat /\ "none" \notin Hands
BY AgentAssumption DEF O!OperatorAssumption

LEMMA Errands ==
  ASSUME NEW r \in Errand
  PROVE  /\ r.op \in {"edit", "unsend"} => r \in O!Correction
         /\ r.op = "say" => r \in O!Speech
BY DEF Errand, O!Free, O!Correction, O!Speech

LEMMA ACorrection ==
  ASSUME NEW c \in O!Correction
  PROVE  /\ c.op \in {"edit", "unsend"} /\ c.id \in O!Ids /\ c.done \in BOOLEAN
         /\ [c EXCEPT !.done = TRUE] \in O!Correction
         /\ [c EXCEPT !.done = TRUE].op = c.op /\ [c EXCEPT !.done = TRUE].id = c.id
         /\ [c EXCEPT !.done = TRUE].done
BY DEF O!Correction

LEMMA ASpeech ==
  ASSUME NEW s \in O!Speech
  PROVE  /\ s.op = "say" /\ s.id \in {0} \cup O!Ids /\ Head(s.left) \in {"text", "file"}
         /\ \A i \in O!Ids :
              /\ [s EXCEPT !.id = i] \in O!Speech
              /\ [s EXCEPT !.id = i].op = "say" /\ [s EXCEPT !.id = i].id = i
BY DEF O!Speech

LEMMA ShorterSpeech ==
  ASSUME NEW s \in O!Speech, NEW rest \in {<<"text">>, <<"file">>, <<"file", "text">>}
  PROVE  /\ [s EXCEPT !.left = rest, !.id = 0] \in O!Speech
         /\ [s EXCEPT !.left = rest, !.id = 0].op = "say"
         /\ [s EXCEPT !.left = rest, !.id = 0].id = 0
<1> DEFINE sorts == {<<"text">>, <<"file">>, <<"file", "text">>}
<1>1. s \in [op : {"say"}, left : sorts, id : {0} \cup O!Ids] /\ rest \in sorts
  BY DEF O!Speech
<1>2. O!Speech = [op : {"say"}, left : sorts, id : {0} \cup O!Ids]
  BY DEF O!Speech
<1> HIDE DEF sorts
<1> QED
  BY <1>1, <1>2

LEMMA TheRest ==
  ASSUME NEW s \in O!Speech, Len(s.left) # 1
  PROVE  /\ [s EXCEPT !.left = Tail(@), !.id = 0] \in O!Speech
         /\ [s EXCEPT !.left = Tail(@), !.id = 0].op = "say"
         /\ [s EXCEPT !.left = Tail(@), !.id = 0].id = 0
<1>1. s.left = <<"file", "text">>
  BY DEF O!Speech
<1>2. Tail(s.left) = <<"text">>
  BY <1>1
<1>3. Tail(s.left) \in {<<"text">>, <<"file">>, <<"file", "text">>}
  BY <1>2
<1> QED
  BY <1>3, ShorterSpeech

LEMMA NewErrands ==
  /\ O!Free \in Errand /\ O!Free.op = "free"
  /\ \A op \in {"edit", "unsend"} : \A i \in O!Ids :
       LET c == [op |-> op, id |-> i, done |-> FALSE]
       IN  c \in O!Correction /\ c.op = op /\ c.id = i /\ ~c.done
  /\ \A pieces \in {<<"text">>, <<"file", "text">>} :
       LET s == [op |-> "say", left |-> pieces, id |-> 0]
       IN  s \in O!Speech /\ s.op = "say" /\ s.id = 0
BY DEF Errand, O!Free, O!Correction, O!Speech

LEMMA Reworded ==
  ASSUME NEW w \in Shown, NEW h \in Hands, NEW v, v = [w EXCEPT !.words = h]
  PROVE  v \in Shown /\ v.words = h /\ v.gone = w.gone /\ v # O!Unsaid
BY OperatorConstants DEF Shown, O!Unsaid

LEMMA Retracted ==
  ASSUME NEW w \in Shown, NEW v, v = [w EXCEPT !.gone = TRUE]
  PROVE  v \in Shown /\ v.words = w.words /\ v.gone /\ v # O!Unsaid
BY DEF Shown, O!Unsaid

LEMMA FirstShown ==
  LET w == [O!Unsaid EXCEPT !.words = "first"]
  IN  w \in Shown /\ w.words = "first" /\ ~w.gone /\ w # O!Unsaid
BY DEF Shown, O!Unsaid

LEMMA TheEntry ==
  ASSUME NEW e \in Entry
  PROVE  e.id \in O!Ids /\ e.unsent \in BOOLEAN
BY DEF Entry

LEMMA RewordedEntry ==
  ASSUME NEW e \in Entry, NEW h \in Hands, NEW f, f = [e EXCEPT !.words = h]
  PROVE  f \in Entry /\ f.id = e.id /\ f.words = h /\ f.unsent = e.unsent
BY DEF Entry

LEMMA RetractedEntry ==
  ASSUME NEW e \in Entry, NEW f, f = [e EXCEPT !.unsent = TRUE]
  PROVE  f \in Entry /\ f.id = e.id /\ f.words = e.words /\ f.unsent
BY DEF Entry

----------------------------------------------------------------------------
OperatorTyped ==
  /\ sent \in Seq(Entry) /\ Len(sent) <= KEEP_PER_CHAT
  /\ wire \in [O!Ids -> Shown] /\ request \in [Hands -> Errand]
  /\ crossed \subseteq O!Ids /\ stored \in BOOLEAN /\ up \in BOOLEAN /\ drops \in 0..MaxDrops

KnownIsSaid ==
  /\ \A i \in 1..Len(sent) : wire[sent[i].id] # O!Unsaid
  /\ \A h \in Hands : Corrects(h) => wire[Of(h)] # O!Unsaid
LandedIsNew ==
  \A h \in Hands : Landed(h) =>
    /\ wire[Of(h)].words = "first" /\ ~wire[Of(h)].gone /\ wire[Of(h)] # O!Unsaid
    /\ \A i \in 1..Len(sent) : sent[i].id # Of(h)
    /\ \A g \in Hands : /\ Corrects(g) => Of(g) # Of(h)
                        /\ Landed(g) /\ Of(g) = Of(h) => g = h
OneCorrects ==
  \A h, g \in Hands : Corrects(h) /\ Corrects(g) /\ Of(h) = Of(g) /\ Of(h) \notin crossed => h = g
SettledAgrees ==
  \A i \in 1..Len(sent) :
    sent[i].id \notin crossed /\ (\A h \in Hands : Corrects(h) => Of(h) # sent[i].id)
      => sent[i].words = wire[sent[i].id].words /\ sent[i].unsent = wire[sent[i].id].gone
\* What is on record, e, of a message shown as w that hand h corrects by request r.
Fits(h, r, e, w) ==
  /\ ~r.done => e.words = w.words /\ e.unsent = w.gone
  /\ r.done /\ r.op = "edit" => w.words = h /\ e.unsent = w.gone
  /\ r.done /\ r.op = "unsend" => w.gone /\ e.words = w.words
MidWay(h) ==
  Corrects(h) /\ Of(h) \notin crossed =>
    \A i \in 1..Len(sent) : sent[i].id = Of(h) => Fits(h, request[h], sent[i], wire[Of(h)])
OnTheWay == \A h \in Hands : MidWay(h)
OperatorInv ==
  OperatorTyped /\ KnownIsSaid /\ LandedIsNew /\ OneCorrects /\ SettledAgrees /\ OnTheWay

LEMMA OperatorStart == O!Init => OperatorInv
<1> SUFFICES ASSUME O!Init PROVE OperatorInv
  OBVIOUS
<1>1. sent = <<>> /\ request = [h \in Hands |-> O!Free] /\ wire = [i \in O!Ids |-> O!Unsaid]
      /\ crossed = {} /\ stored = FALSE /\ up = TRUE /\ drops = 0
  BY DEF O!Init
<1>2. sent \in Seq(Entry) /\ Len(sent) = 0
  BY <1>1, EmptySeq
<1>3. \A h \in Hands : request[h].op = "free"
  BY <1>1, NewErrands
<1>4. O!Unsaid \in Shown
  BY DEF O!Unsaid, Shown
<1>5. OperatorTyped
  <2>1. wire \in [O!Ids -> Shown]
    BY <1>1, <1>4
  <2>2. request \in [Hands -> Errand]
    BY <1>1, NewErrands
  <2>3. Len(sent) <= KEEP_PER_CHAT /\ drops \in 0..MaxDrops
    BY <1>1, <1>2, OperatorConstants
  <2> QED
    BY <1>1, <1>2, <2>1, <2>2, <2>3 DEF OperatorTyped
<1>6. \A h \in Hands : ~Corrects(h) /\ ~Landed(h)
  BY <1>3 DEF Corrects, Landed
<1> QED
  BY <1>2, <1>5, <1>6 DEF OperatorInv, KnownIsSaid, LandedIsNew, OneCorrects, SettledAgrees, OnTheWay, MidWay

\* A hand that takes up, or lays down, what is not a message it corrects or has sent.
LEMMA HandsFree ==
  ASSUME OperatorInv, NEW h \in Hands, NEW r \in Errand, r.op \notin {"edit", "unsend"},
         r.op = "say" => r.id = 0,
         request' = [request EXCEPT ![h] = r]
  PROVE  /\ request' \in [Hands -> Errand] /\ ~Corrects(h)' /\ ~Landed(h)'
         /\ \A g \in Hands : g # h => /\ request'[g] = request[g] /\ Of(g)' = Of(g)
                                      /\ Corrects(g)' = Corrects(g) /\ Landed(g)' = Landed(g)
<1>1. /\ request' \in [Hands -> Errand] /\ request'[h] = r
      /\ \A g \in Hands : g # h => request'[g] = request[g]
  BY DEF OperatorInv, OperatorTyped
<1> QED
  BY <1>1 DEF Corrects, Landed, Of

LEMMA HandsBusy ==
  ASSUME OperatorInv, NEW h \in Hands, NEW r \in Errand, request' = [request EXCEPT ![h] = r]
  PROVE  /\ request' \in [Hands -> Errand] /\ request'[h] = r /\ Of(h)' = r.id
         /\ Corrects(h)' <=> r.op \in {"edit", "unsend"}
         /\ Landed(h)' <=> r.op = "say" /\ r.id # 0
         /\ \A g \in Hands : g # h => /\ request'[g] = request[g] /\ Of(g)' = Of(g)
                                      /\ Corrects(g)' = Corrects(g) /\ Landed(g)' = Landed(g)
<1>1. /\ request' \in [Hands -> Errand] /\ request'[h] = r
      /\ \A g \in Hands : g # h => request'[g] = request[g]
  BY DEF OperatorInv, OperatorTyped
<1> QED
  BY <1>1 DEF Corrects, Landed, Of

\* A step that leaves alone what the phones show, what is on record and what is crossed.
LEMMA LetGo ==
  ASSUME OperatorInv, NEW h \in Hands, NEW r \in Errand, r.op \notin {"edit", "unsend"},
         r.op = "say" => r.id = 0, request' = [request EXCEPT ![h] = r],
         UNCHANGED <<sent, wire, stored, up, drops>>, crossed \subseteq crossed', crossed' \subseteq O!Ids,
         Corrects(h) /\ request[h].done => Of(h) \in crossed'
  PROVE  OperatorInv'
<1>1. /\ request' \in [Hands -> Errand] /\ ~Corrects(h)' /\ ~Landed(h)'
      /\ \A g \in Hands : g # h => /\ request'[g] = request[g] /\ Of(g)' = Of(g)
                                   /\ Corrects(g)' = Corrects(g) /\ Landed(g)' = Landed(g)
  BY HandsFree
<1>2. OperatorTyped'
  BY <1>1 DEF OperatorInv, OperatorTyped
<1>3. KnownIsSaid'
  BY <1>1 DEF OperatorInv, KnownIsSaid
<1>4. LandedIsNew'
  BY <1>1 DEF OperatorInv, LandedIsNew
<1>5. OneCorrects'
  BY <1>1 DEF OperatorInv, OneCorrects
<1>6. SettledAgrees'
  <2>1. ASSUME NEW i \in 1..Len(sent), sent[i].id \notin crossed',
               \A g \in Hands : Corrects(g)' => Of(g)' # sent[i].id
        PROVE  sent[i].words = wire[sent[i].id].words /\ sent[i].unsent = wire[sent[i].id].gone
    <3>1. CASE Corrects(h) /\ Of(h) = sent[i].id
      <4>1. request[h].done \in BOOLEAN
        <5>1. request[h] \in Errand /\ request[h].op \in {"edit", "unsend"}
          BY <3>1 DEF OperatorInv, OperatorTyped, Corrects
        <5>2. request[h] \in O!Correction
          BY <5>1, Errands
        <5> QED
          BY <5>2, ACorrection
      <4> QED
        BY <2>1, <3>1, <4>1 DEF OperatorInv, OnTheWay, MidWay, Fits
    <3>2. CASE ~(Corrects(h) /\ Of(h) = sent[i].id)
      <4>1. sent[i].id \notin crossed
        BY <2>1
      <4>2. ASSUME NEW g \in Hands, Corrects(g) PROVE Of(g) # sent[i].id
        <5>1. CASE g = h
          BY <3>2, <4>2, <5>1
        <5>2. CASE g # h
          BY <1>1, <2>1, <4>2, <5>2
        <5> QED
          BY <5>1, <5>2
      <4> QED
        BY <2>1, <4>1, <4>2 DEF OperatorInv, SettledAgrees
    <3> QED
      BY <3>1, <3>2
  <2> QED
    BY <2>1 DEF SettledAgrees
<1>7. OnTheWay'
  BY <1>1 DEF OperatorInv, OnTheWay, MidWay
<1> QED
  BY <1>2, <1>3, <1>4, <1>5, <1>6, <1>7 DEF OperatorInv

LEMMA Corrected ==
  ASSUME OperatorInv, NEW h \in Hands, NEW nth, NEW op \in {"edit", "unsend"}, O!Correct(h, nth, op)
  PROVE  OperatorInv'
<1>1. PICK i \in 1..Len(sent) :
        /\ request' = [request EXCEPT ![h] = [op |-> op, id |-> sent[i].id, done |-> FALSE]]
        /\ crossed' = IF O!UnderWay(sent[i].id) = {} THEN crossed ELSE crossed \cup {sent[i].id}
  <2>1. DOMAIN sent = 1..Len(sent)
    BY LenProperties DEF OperatorInv, OperatorTyped
  <2> QED
    BY <2>1 DEF O!Correct, O!Recent, O!Set
<1> DEFINE id == sent[i].id
           c == [op |-> op, id |-> id, done |-> FALSE]
<1>2. request[h] = O!Free /\ UNCHANGED <<sent, wire, stored, up, drops>>
  BY DEF O!Correct, O!line
<1>3. sent[i] \in Entry /\ id \in O!Ids
  BY ElementOfSeq, TheEntry DEF OperatorInv, OperatorTyped
<1>4. c \in Errand /\ c.op = op /\ c.id = id /\ ~c.done
  BY <1>3, NewErrands DEF Errand
<1>5. request' = [request EXCEPT ![h] = c]
  BY <1>1
<1> HIDE DEF c
<1>6. /\ request' \in [Hands -> Errand] /\ request'[h] = c /\ Of(h)' = id
      /\ Corrects(h)' /\ ~Landed(h)'
      /\ \A g \in Hands : g # h => /\ request'[g] = request[g] /\ Of(g)' = Of(g)
                                   /\ Corrects(g)' = Corrects(g) /\ Landed(g)' = Landed(g)
  BY <1>4, <1>5, HandsBusy
<1>7. ~Corrects(h) /\ ~Landed(h)
  BY <1>2, NewErrands DEF Corrects, Landed
<1>8. /\ crossed \subseteq crossed' /\ crossed' \subseteq O!Ids
      /\ id \notin crossed' => \A g \in Hands : Corrects(g) => Of(g) # id
  <2>1. O!UnderWay(id) = {g \in Hands : Corrects(g) /\ Of(g) = id}
    BY DEF O!UnderWay, Corrects, Of
  <2> QED
    BY <1>1, <1>3, <2>1 DEF OperatorInv, OperatorTyped
<1>9. \A k \in 1..Len(sent) : sent[k].id = id /\ id \notin crossed' =>
        sent[k].words = wire[id].words /\ sent[k].unsent = wire[id].gone
  BY <1>8 DEF OperatorInv, SettledAgrees
<1> HIDE DEF id
<1>10. wire[id] # O!Unsaid /\ \A g \in Hands : Landed(g) => Of(g) # id
  BY DEF id, OperatorInv, KnownIsSaid, LandedIsNew
<1>11. OperatorTyped'
  BY <1>2, <1>6, <1>8 DEF OperatorInv, OperatorTyped
<1>12. KnownIsSaid'
  BY <1>2, <1>6, <1>10 DEF OperatorInv, KnownIsSaid
<1>13. LandedIsNew'
  BY <1>2, <1>6, <1>10 DEF OperatorInv, LandedIsNew
<1>14. OneCorrects'
  BY <1>6, <1>8 DEF OperatorInv, OneCorrects
<1>15. SettledAgrees'
  BY <1>2, <1>6, <1>7, <1>8 DEF OperatorInv, SettledAgrees
<1>16. OnTheWay'
  <2>1. ASSUME NEW g \in Hands, g # h, Corrects(g), Of(g) \notin crossed'
        PROVE  Of(g) \notin crossed
    BY <1>8, <2>1
  <2>2. ASSUME NEW g \in Hands, g # h PROVE MidWay(g)'
    BY <1>2, <1>6, <2>1, <2>2 DEF OperatorInv, OnTheWay, MidWay
  <2>3. MidWay(h)'
    BY <1>2, <1>4, <1>6, <1>9 DEF MidWay, Fits
  <2> QED
    BY <2>2, <2>3 DEF OnTheWay
<1> QED
  BY <1>11, <1>12, <1>13, <1>14, <1>15, <1>16 DEF OperatorInv

LEMMA IdsKnown ==
  ASSUME OperatorInv
  PROVE  /\ \A k \in 1..Len(sent) : sent[k].id \in O!Ids
         /\ \A g \in Hands : Corrects(g) \/ Landed(g) => Of(g) \in O!Ids
<1>1. \A k \in 1..Len(sent) : sent[k].id \in O!Ids
  BY ElementOfSeq, TheEntry DEF OperatorInv, OperatorTyped
<1>2. ASSUME NEW g \in Hands, Corrects(g) \/ Landed(g) PROVE Of(g) \in O!Ids
  <2>1. request[g] \in Errand
    BY DEF OperatorInv, OperatorTyped
  <2> QED
    BY <1>2, <2>1, Errands, ACorrection, ASpeech DEF Corrects, Landed, Of
<1> QED
  BY <1>1, <1>2

LEMMA CorrectionLanded ==
  ASSUME OperatorInv, NEW h \in Hands, O!CorrectionLands(h)
  PROVE  OperatorInv'
<1> DEFINE c == request[h]
           d == [c EXCEPT !.done = TRUE]
           id == c.id
           w == wire[id]
           v == IF c.op = "edit" THEN [w EXCEPT !.words = h] ELSE [w EXCEPT !.gone = TRUE]
<1>1. /\ c.op \in {"edit", "unsend"} /\ ~c.done /\ ~w.gone
      /\ wire' = (IF c.op = "edit" THEN [wire EXCEPT ![id].words = h] ELSE [wire EXCEPT ![id].gone = TRUE])
      /\ request' = [request EXCEPT ![h] = d]
      /\ UNCHANGED <<sent, crossed, stored, up, drops>>
  BY DEF O!CorrectionLands, O!Set, O!line
<1>2. c \in O!Correction /\ id \in O!Ids /\ w \in Shown /\ c.op \in {"edit", "unsend"}
  BY <1>1, Errands, ACorrection DEF OperatorInv, OperatorTyped
<1>3. d \in O!Correction /\ d \in Errand /\ d.op = c.op /\ d.id = id /\ d.done
  BY <1>2, ACorrection DEF Errand
<1>4. wire' = [wire EXCEPT ![id] = v]
  BY <1>1
<1>5. v \in Shown /\ v # O!Unsaid
      /\ (c.op = "edit" => v.words = h /\ v.gone = w.gone) /\ (c.op = "unsend" => v.gone /\ v.words = w.words)
  <2>1. CASE c.op = "edit"
    <3>1. v = [w EXCEPT !.words = h]
      BY <2>1
    <3>2. c.op # "unsend"
      BY <2>1
    <3> HIDE DEF v, w, c
    <3>3. v \in Shown /\ v.words = h /\ v.gone = w.gone /\ v # O!Unsaid
      BY <1>2, <3>1, Reworded
    <3> QED
      BY <3>2, <3>3
  <2>2. CASE c.op = "unsend"
    <3>1. v = [w EXCEPT !.gone = TRUE]
      BY <2>2
    <3>2. c.op # "edit"
      BY <2>2
    <3> HIDE DEF v, w, c
    <3>3. v \in Shown /\ v.words = w.words /\ v.gone /\ v # O!Unsaid
      BY <1>2, <3>1, Retracted
    <3> QED
      BY <3>2, <3>3
  <2> QED
    BY <1>2, <2>1, <2>2
<1>6. Corrects(h) /\ Of(h) = id
  BY <1>1 DEF Corrects, Of
<1> HIDE DEF d, v
<1>7. /\ request' \in [Hands -> Errand] /\ request'[h] = d /\ Of(h)' = id
      /\ Corrects(h)' /\ ~Landed(h)'
      /\ \A g \in Hands : g # h => /\ request'[g] = request[g] /\ Of(g)' = Of(g)
                                   /\ Corrects(g)' = Corrects(g) /\ Landed(g)' = Landed(g)
  BY <1>1, <1>3, HandsBusy
<1>8. /\ wire' \in [O!Ids -> Shown] /\ wire'[id] = v
      /\ \A j \in O!Ids : j # id => wire'[j] = wire[j]
  BY <1>2, <1>4, <1>5 DEF OperatorInv, OperatorTyped
<1>9. /\ \A k \in 1..Len(sent) : sent[k].id \in O!Ids
      /\ \A g \in Hands : Corrects(g) \/ Landed(g) => Of(g) \in O!Ids
  BY IdsKnown
<1>10. \A g \in Hands : Landed(g) => Of(g) # id /\ g # h
  BY <1>6, <1>7 DEF OperatorInv, LandedIsNew, Landed, Corrects
<1> HIDE DEF c, id, w
<1>11. OperatorTyped'
  BY <1>1, <1>7, <1>8 DEF OperatorInv, OperatorTyped
<1>12. KnownIsSaid'
  <2>1. \A j \in O!Ids : wire[j] # O!Unsaid => wire'[j] # O!Unsaid
    BY <1>5, <1>8
  <2>2. \A k \in 1..Len(sent) : wire'[sent[k].id] # O!Unsaid
    BY <1>9, <2>1 DEF OperatorInv, KnownIsSaid
  <2>3. \A g \in Hands : Corrects(g)' => wire'[Of(g)'] # O!Unsaid
    BY <1>5, <1>7, <1>8, <1>9, <2>1 DEF OperatorInv, KnownIsSaid
  <2> QED
    BY <1>1, <2>2, <2>3 DEF KnownIsSaid
<1>13. LandedIsNew'
  <2>1. ASSUME NEW g \in Hands, Landed(g)'
        PROVE  /\ Landed(g) /\ Of(g)' = Of(g) /\ Of(g) \in O!Ids /\ Of(g) # id /\ g # h
               /\ wire'[Of(g)] = wire[Of(g)]
    BY <1>7, <1>8, <1>9, <1>10, <2>1
  <2> QED
    BY <1>1, <1>7, <2>1 DEF OperatorInv, LandedIsNew
<1>14. OneCorrects'
  BY <1>1, <1>6, <1>7 DEF OperatorInv, OneCorrects
<1>15. SettledAgrees'
  <2>1. ASSUME NEW k \in 1..Len(sent), sent[k].id \notin crossed,
               \A g \in Hands : Corrects(g)' => Of(g)' # sent[k].id
        PROVE  sent[k].words = wire'[sent[k].id].words /\ sent[k].unsent = wire'[sent[k].id].gone
    <3>1. sent[k].id # id /\ \A g \in Hands : Corrects(g) => Of(g) # sent[k].id
      BY <1>6, <1>7, <2>1
    <3>2. wire'[sent[k].id] = wire[sent[k].id]
      BY <1>8, <1>9, <3>1
    <3> QED
      BY <2>1, <3>1, <3>2 DEF OperatorInv, SettledAgrees
  <2> QED
    BY <1>1, <2>1 DEF SettledAgrees
<1>16. OnTheWay'
  <2>1. ASSUME NEW g \in Hands, g # h, Corrects(g), Of(g) \notin crossed
        PROVE  wire'[Of(g)] = wire[Of(g)]
    <3>1. Of(g) # id
      BY <1>6, <2>1 DEF OperatorInv, OneCorrects
    <3> QED
      BY <1>8, <1>9, <2>1, <3>1
  <2>2. ASSUME NEW g \in Hands, g # h PROVE MidWay(g)'
    BY <1>1, <1>7, <2>1, <2>2 DEF OperatorInv, OnTheWay, MidWay
  <2>3. ASSUME id \notin crossed, NEW k \in 1..Len(sent), sent[k].id = id
        PROVE  sent[k].words = w.words /\ sent[k].unsent = w.gone
    BY <1>1, <1>6, <2>3 DEF OperatorInv, OnTheWay, MidWay, Fits, c, w, id
  <2>4. id \notin crossed => \A k \in 1..Len(sent) : sent[k].id = id =>
          /\ d.op = "edit" => v.words = h /\ sent[k].unsent = v.gone
          /\ d.op = "unsend" => v.gone /\ sent[k].words = v.words
    BY <1>2, <1>3, <1>5, <2>3
  <2>5. id \notin crossed => \A k \in 1..Len(sent) : sent[k].id = id => Fits(h, d, sent[k], v)
    BY <1>3, <2>4 DEF Fits
  <2>6. MidWay(h)'
    <3>1. sent' = sent /\ crossed' = crossed /\ request'[h] = d /\ Of(h)' = id /\ wire'[Of(h)'] = v
      BY <1>1, <1>7, <1>8
    <3> QED
      BY <2>5, <3>1 DEF MidWay
  <2> QED
    BY <2>2, <2>6 DEF OnTheWay
<1> QED
  BY <1>11, <1>12, <1>13, <1>14, <1>15, <1>16 DEF OperatorInv

LEMMA CorrectionAnswered ==
  ASSUME OperatorInv, NEW h \in Hands, O!CorrectionAcked(h)
  PROVE  OperatorInv'
<1> DEFINE c == request[h]
           id == c.id
<1>1. /\ c.op \in {"edit", "unsend"} /\ c.done /\ sent' = O!Folded(h, c)
      /\ request' = [request EXCEPT ![h] = O!Free]
      /\ UNCHANGED <<wire, crossed, stored, up, drops>>
  BY DEF O!CorrectionAcked, O!Answered, O!Set, O!line
<1>2. c \in O!Correction /\ id \in O!Ids /\ Corrects(h) /\ Of(h) = id
  BY <1>1, Errands, ACorrection DEF OperatorInv, OperatorTyped, Corrects, Of
<1>3. /\ request' \in [Hands -> Errand] /\ ~Corrects(h)' /\ ~Landed(h)'
      /\ \A g \in Hands : g # h => /\ request'[g] = request[g] /\ Of(g)' = Of(g)
                                   /\ Corrects(g)' = Corrects(g) /\ Landed(g)' = Landed(g)
  BY <1>1, NewErrands, HandsFree
<1>4. Len(sent) \in Nat /\ DOMAIN sent = 1..Len(sent) /\ \A i \in 1..Len(sent) : sent[i] \in Entry
  BY LenProperties, ElementOfSeq DEF OperatorInv, OperatorTyped
<1>5. /\ sent' = [i \in 1..Len(sent) |-> sent'[i]]
      /\ \A i \in 1..Len(sent) : /\ sent[i].id # id => sent'[i] = sent[i]
                                 /\ sent[i].id = id /\ c.op = "edit" => sent'[i] = [sent[i] EXCEPT !.words = h]
                                 /\ sent[i].id = id /\ c.op = "unsend" => sent'[i] = [sent[i] EXCEPT !.unsent = TRUE]
  BY <1>1, <1>4 DEF O!Folded
<1> HIDE DEF c, id
<1>6. ASSUME NEW i \in 1..Len(sent)
      PROVE  /\ sent'[i] \in Entry /\ sent'[i].id = sent[i].id
             /\ sent[i].id # id => sent'[i] = sent[i]
             /\ sent[i].id = id /\ c.op = "edit" => sent'[i].words = h /\ sent'[i].unsent = sent[i].unsent
             /\ sent[i].id = id /\ c.op = "unsend" => sent'[i].unsent /\ sent'[i].words = sent[i].words
  <2>1. CASE sent[i].id # id
    BY <1>4, <1>5, <2>1
  <2>2. CASE sent[i].id = id /\ c.op = "edit"
    <3>1. sent'[i] = [sent[i] EXCEPT !.words = h]
      BY <1>5, <2>2
    <3>2. sent'[i] \in Entry /\ sent'[i].id = sent[i].id /\ sent'[i].words = h /\ sent'[i].unsent = sent[i].unsent
      BY <1>4, <3>1, RewordedEntry
    <3> QED
      BY <2>2, <3>2
  <2>3. CASE sent[i].id = id /\ c.op = "unsend"
    <3>1. sent'[i] = [sent[i] EXCEPT !.unsent = TRUE]
      BY <1>5, <2>3
    <3>2. sent'[i] \in Entry /\ sent'[i].id = sent[i].id /\ sent'[i].unsent /\ sent'[i].words = sent[i].words
      BY <1>4, <3>1, RetractedEntry
    <3> QED
      BY <2>3, <3>2
  <2> QED
    BY <1>1, <2>1, <2>2, <2>3 DEF c
<1>7. sent' \in Seq(Entry) /\ Len(sent') = Len(sent)
  BY <1>4, <1>5, <1>6, IsASeq, LenProperties
<1>8. OperatorTyped'
  BY <1>1, <1>3, <1>7 DEF OperatorInv, OperatorTyped
<1>9. KnownIsSaid'
  <2>1. \A i \in 1..Len(sent) : wire[sent'[i].id] # O!Unsaid
    BY <1>6 DEF OperatorInv, KnownIsSaid
  <2>2. \A g \in Hands : Corrects(g)' => wire[Of(g)'] # O!Unsaid
    BY <1>3 DEF OperatorInv, KnownIsSaid
  <2> QED
    BY <1>1, <1>7, <2>1, <2>2 DEF KnownIsSaid
<1>10. LandedIsNew'
  <2>1. ASSUME NEW g \in Hands, Landed(g)'
        PROVE  Landed(g) /\ Of(g)' = Of(g) /\ \A i \in 1..Len(sent) : sent'[i].id # Of(g)
    BY <1>3, <1>6, <2>1 DEF OperatorInv, LandedIsNew
  <2> QED
    BY <1>1, <1>3, <1>7, <2>1 DEF OperatorInv, LandedIsNew
<1>11. OneCorrects'
  BY <1>1, <1>3 DEF OperatorInv, OneCorrects
<1>12. SettledAgrees'
  <2>1. ASSUME NEW i \in 1..Len(sent), sent[i].id \notin crossed,
               \A g \in Hands : Corrects(g)' => Of(g)' # sent[i].id
        PROVE  sent'[i].words = wire[sent[i].id].words /\ sent'[i].unsent = wire[sent[i].id].gone
    <3>1. CASE sent[i].id = id
      <4>1. Fits(h, c, sent[i], wire[id])
        BY <1>2, <2>1, <3>1 DEF OperatorInv, OnTheWay, MidWay, c
      <4>2. /\ c.op = "edit" => wire[id].words = h /\ sent[i].unsent = wire[id].gone
            /\ c.op = "unsend" => wire[id].gone /\ sent[i].words = wire[id].words
        BY <1>1, <4>1 DEF Fits, c
      <4>3. wire[id].gone \in BOOLEAN /\ sent'[i].unsent \in BOOLEAN
        <5>1. wire[id] \in Shown /\ sent'[i] \in Entry
          BY <1>2, <1>6 DEF OperatorInv, OperatorTyped
        <5> QED
          BY <5>1 DEF Shown, Entry
      <4>4. CASE c.op = "edit"
        BY <1>6, <3>1, <4>2, <4>4
      <4>5. CASE c.op = "unsend"
        BY <1>6, <3>1, <4>2, <4>3, <4>5
      <4> QED
        BY <1>1, <4>4, <4>5 DEF c
    <3>2. CASE sent[i].id # id
      <4>1. \A g \in Hands : Corrects(g) => Of(g) # sent[i].id
        BY <1>2, <1>3, <2>1, <3>2
      <4> QED
        BY <1>6, <2>1, <3>2, <4>1 DEF OperatorInv, SettledAgrees
    <3> QED
      BY <3>1, <3>2
  <2> QED
    BY <1>1, <1>6, <1>7, <2>1 DEF SettledAgrees
<1>13. OnTheWay'
  <2>1. ASSUME NEW g \in Hands PROVE MidWay(g)'
    <3>1. ASSUME g # h, Corrects(g), Of(g) \notin crossed, NEW i \in 1..Len(sent), sent[i].id = Of(g)
          PROVE  sent'[i] = sent[i]
      <4>1. Of(g) # id
        BY <1>2, <3>1 DEF OperatorInv, OneCorrects
      <4> QED
        BY <1>6, <3>1, <4>1
    <3>2. ASSUME g # h, Corrects(g), Of(g) \notin crossed, NEW i \in 1..Len(sent), sent'[i].id = Of(g)
          PROVE  Fits(g, request[g], sent'[i], wire[Of(g)])
      BY <1>6, <3>1, <3>2 DEF OperatorInv, OnTheWay, MidWay
    <3> QED
      BY <1>1, <1>3, <1>7, <3>2 DEF MidWay
  <2> QED
    BY <2>1 DEF OnTheWay
<1> QED
  BY <1>8, <1>9, <1>10, <1>11, <1>12, <1>13 DEF OperatorInv

LEMMA CorrectionFailed ==
  ASSUME OperatorInv, NEW h \in Hands, O!CorrectionFails(h)
  PROVE  OperatorInv'
<1>1. /\ Corrects(h) /\ request' = [request EXCEPT ![h] = O!Free]
      /\ crossed' = IF request[h].done THEN crossed \cup {Of(h)} ELSE crossed
      /\ UNCHANGED <<sent, wire, stored, up, drops>>
  BY DEF O!CorrectionFails, O!Set, O!line, Corrects, Of
<1>2. Of(h) \in O!Ids
  BY <1>1, Errands, ACorrection DEF OperatorInv, OperatorTyped, Corrects, Of
<1>3. crossed \subseteq crossed' /\ crossed' \subseteq O!Ids /\ (request[h].done => Of(h) \in crossed')
  BY <1>1, <1>2 DEF OperatorInv, OperatorTyped
<1> QED
  BY <1>1, <1>3, NewErrands, LetGo

LEMMA Saying ==
  ASSUME OperatorInv, NEW h \in Hands, NEW pieces \in {<<"text">>, <<"file", "text">>}, O!Say(h, pieces)
  PROVE  OperatorInv'
<1> DEFINE r == [op |-> "say", left |-> pieces, id |-> 0]
<1>1. /\ request[h] = O!Free /\ request' = [request EXCEPT ![h] = r]
      /\ UNCHANGED <<sent, wire, crossed, stored, up, drops>>
  BY DEF O!Say, O!Set, O!line
<1>2. r \in Errand /\ r.op = "say" /\ r.id = 0
  BY NewErrands DEF Errand
<1>3. ~Corrects(h) /\ crossed' \subseteq O!Ids
  BY <1>1, NewErrands DEF Corrects, OperatorInv, OperatorTyped
<1> HIDE DEF r
<1> QED
  BY <1>1, <1>2, <1>3, LetGo

LEMMA SayingFailed ==
  ASSUME OperatorInv, NEW h \in Hands, O!SayFails(h)
  PROVE  OperatorInv'
<1>1. /\ request[h].op = "say" /\ request' = [request EXCEPT ![h] = O!Free]
      /\ crossed' = IF request[h].id # 0 THEN crossed \cup {request[h].id} ELSE crossed
      /\ UNCHANGED <<sent, wire, stored, up, drops>>
  BY DEF O!SayFails, O!Set, O!line
<1>2. request[h].id \in {0} \cup O!Ids /\ ~Corrects(h)
  BY <1>1, Errands, ASpeech DEF OperatorInv, OperatorTyped, Corrects
<1>3. crossed \subseteq crossed' /\ crossed' \subseteq O!Ids
  BY <1>1, <1>2 DEF OperatorInv, OperatorTyped
<1> QED
  BY <1>1, <1>2, <1>3, NewErrands, LetGo

LEMMA PieceLanded ==
  ASSUME OperatorInv, NEW h \in Hands, O!PieceLands(h)
  PROVE  OperatorInv'
<1> DEFINE s == request[h]
<1>1. PICK i \in O!Ids :
        /\ wire[i] = O!Unsaid /\ wire' = [wire EXCEPT ![i] = [wire[i] EXCEPT !.words = "first"]]
        /\ request' = [request EXCEPT ![h] = [s EXCEPT !.id = i]]
  BY DEF O!PieceLands, O!Set
<1>2. s.op = "say" /\ s.id = 0 /\ UNCHANGED <<sent, crossed, stored, up, drops>>
  BY DEF O!PieceLands, O!line
<1> DEFINE r == [s EXCEPT !.id = i]
           v == [wire[i] EXCEPT !.words = "first"]
<1>3. s \in O!Speech
  BY <1>2, Errands DEF OperatorInv, OperatorTyped
<1>4. r \in Errand /\ r.op = "say" /\ r.id = i /\ i # 0
  <2>1. r \in O!Speech /\ r.op = "say" /\ r.id = i
    BY <1>3, ASpeech
  <2>2. i # 0
    BY OperatorConstants DEF O!Ids
  <2> HIDE DEF r
  <2> QED
    BY <2>1, <2>2 DEF Errand
<1>5. v \in Shown /\ v.words = "first" /\ ~v.gone /\ v # O!Unsaid
  BY <1>1, FirstShown
<1>6. request' = [request EXCEPT ![h] = r] /\ wire' = [wire EXCEPT ![i] = v]
  BY <1>1
<1>7. ~Corrects(h) /\ ~Landed(h)
  BY <1>2 DEF Corrects, Landed
<1> HIDE DEF r, v, s
<1>8. /\ request' \in [Hands -> Errand] /\ Of(h)' = i /\ ~Corrects(h)' /\ Landed(h)'
      /\ \A g \in Hands : g # h => /\ request'[g] = request[g] /\ Of(g)' = Of(g)
                                   /\ Corrects(g)' = Corrects(g) /\ Landed(g)' = Landed(g)
  BY <1>4, <1>6, HandsBusy
<1>9. wire' \in [O!Ids -> Shown] /\ wire'[i] = v /\ \A j \in O!Ids : j # i => wire'[j] = wire[j]
  BY <1>5, <1>6 DEF OperatorInv, OperatorTyped
<1>10. /\ \A k \in 1..Len(sent) : sent[k].id \in O!Ids
       /\ \A g \in Hands : Corrects(g) \/ Landed(g) => Of(g) \in O!Ids
  BY IdsKnown
<1>11. /\ \A k \in 1..Len(sent) : sent[k].id # i
       /\ \A g \in Hands : Corrects(g) \/ Landed(g) => Of(g) # i
  BY <1>1 DEF OperatorInv, KnownIsSaid, LandedIsNew
<1>12. /\ \A k \in 1..Len(sent) : wire'[sent[k].id] = wire[sent[k].id]
       /\ \A g \in Hands : Corrects(g) \/ Landed(g) => wire'[Of(g)] = wire[Of(g)]
  BY <1>9, <1>10, <1>11
<1>13. OperatorTyped'
  BY <1>2, <1>8, <1>9 DEF OperatorInv, OperatorTyped
<1>14. KnownIsSaid'
  BY <1>2, <1>8, <1>12 DEF OperatorInv, KnownIsSaid
<1>15. LandedIsNew'
  <2>1. ASSUME NEW g \in Hands, Landed(g)'
        PROVE  /\ wire'[Of(g)'].words = "first" /\ ~wire'[Of(g)'].gone /\ wire'[Of(g)'] # O!Unsaid
               /\ \A k \in 1..Len(sent) : sent[k].id # Of(g)'
               /\ \A f \in Hands : /\ Corrects(f)' => Of(f)' # Of(g)'
                                   /\ Landed(f)' /\ Of(f)' = Of(g)' => f = g
    <3>1. CASE g = h
      BY <1>5, <1>8, <1>9, <1>11, <3>1
    <3>2. CASE g # h
      BY <1>8, <1>11, <1>12, <2>1, <3>2 DEF OperatorInv, LandedIsNew
    <3> QED
      BY <3>1, <3>2
  <2> QED
    BY <1>2, <2>1 DEF LandedIsNew
<1>16. OneCorrects'
  BY <1>2, <1>8 DEF OperatorInv, OneCorrects
<1>17. SettledAgrees'
  BY <1>2, <1>7, <1>8, <1>12 DEF OperatorInv, SettledAgrees
<1>18. OnTheWay'
  BY <1>2, <1>8, <1>12 DEF OperatorInv, OnTheWay, MidWay
<1> QED
  BY <1>13, <1>14, <1>15, <1>16, <1>17, <1>18 DEF OperatorInv

LEMMA PieceAnswered ==
  ASSUME OperatorInv, NEW h \in Hands, O!PieceAcked(h)
  PROVE  OperatorInv'
<1> DEFINE s == request[h]
           r == IF Len(s.left) = 1 THEN O!Free ELSE [s EXCEPT !.left = Tail(@), !.id = 0]
           e == [id |-> s.id, kind |-> Head(s.left), words |-> "first", unsent |-> FALSE]
           grown == Append(sent, e)
<1>1. /\ s.op = "say" /\ s.id # 0 /\ sent' = O!Kept(grown) /\ request' = [request EXCEPT ![h] = r]
      /\ UNCHANGED <<wire, crossed, stored, up, drops>>
  BY DEF O!PieceAcked, O!Set, O!line
<1>2. s \in O!Speech /\ s.id \in O!Ids /\ Head(s.left) \in {"text", "file"}
  <2>1. s \in O!Speech
    BY <1>1, Errands DEF OperatorInv, OperatorTyped
  <2> QED
    BY <1>1, <2>1, ASpeech
<1>3. r \in Errand /\ r.op \notin {"edit", "unsend"} /\ (r.op = "say" => r.id = 0)
  <2>1. CASE Len(s.left) = 1
    BY <2>1, NewErrands
  <2>2. CASE Len(s.left) # 1
    <3> DEFINE q == [s EXCEPT !.left = Tail(@), !.id = 0]
    <3>1. q \in O!Speech /\ q.op = "say" /\ q.id = 0
      BY <1>2, <2>2, TheRest
    <3>2. r = q
      BY <2>2
    <3> HIDE DEF q, r
    <3> QED
      BY <3>1, <3>2 DEF Errand
  <2> QED
    BY <2>1, <2>2
<1>4. Landed(h) /\ Of(h) = s.id
  BY <1>1 DEF Landed, Of
<1>5. e \in Entry /\ e.id = s.id /\ e.words = "first" /\ e.unsent = FALSE
  BY <1>2 DEF Entry
<1> HIDE DEF s, r, e
<1>6. /\ request' \in [Hands -> Errand] /\ ~Corrects(h)' /\ ~Landed(h)'
      /\ \A g \in Hands : g # h => /\ request'[g] = request[g] /\ Of(g)' = Of(g)
                                   /\ Corrects(g)' = Corrects(g) /\ Landed(g)' = Landed(g)
  BY <1>1, <1>3, HandsFree
<1>7. /\ grown \in Seq(Entry) /\ Len(grown) = Len(sent) + 1 /\ grown[Len(sent) + 1] = e
      /\ \A i \in 1..Len(sent) : grown[i] = sent[i]
  BY <1>5, AppendProperties DEF OperatorInv, OperatorTyped
<1>8. O!Kept(grown) = M!Newest(grown, KEEP_PER_CHAT)
  BY DEF O!Kept, M!Newest
<1> HIDE DEF grown
<1>9. sent' \in Seq(Entry) /\ Len(sent') <= KEEP_PER_CHAT /\ From(sent', grown)
  BY <1>1, <1>7, <1>8, NewestAreLast, OperatorConstants
<1>10. \A k \in 1..Len(sent') : sent'[k] = e \/ \E i \in 1..Len(sent) : sent'[k] = sent[i]
  <2>1. Len(sent) \in Nat
    BY LenProperties DEF OperatorInv, OperatorTyped
  <2>2. ASSUME NEW k \in 1..Len(sent') PROVE sent'[k] = e \/ \E i \in 1..Len(sent) : sent'[k] = sent[i]
    <3>1. PICK i \in 1..Len(grown) : sent'[k] = grown[i]
      BY <1>9 DEF From
    <3> QED
      BY <1>7, <2>1, <3>1
  <2> QED
    BY <2>2
<1>11. wire[e.id].words = "first" /\ ~wire[e.id].gone /\ wire[e.id] # O!Unsaid
  BY <1>4, <1>5 DEF OperatorInv, LandedIsNew
<1>12. OperatorTyped'
  BY <1>1, <1>6, <1>9 DEF OperatorInv, OperatorTyped
<1>13. KnownIsSaid'
  <2>1. \A k \in 1..Len(sent') : wire[sent'[k].id] # O!Unsaid
    BY <1>10, <1>11 DEF OperatorInv, KnownIsSaid
  <2>2. \A g \in Hands : Corrects(g)' => wire[Of(g)'] # O!Unsaid
    BY <1>6 DEF OperatorInv, KnownIsSaid
  <2> QED
    BY <1>1, <2>1, <2>2 DEF KnownIsSaid
<1>14. LandedIsNew'
  <2>1. ASSUME NEW g \in Hands, Landed(g)'
        PROVE  /\ g # h /\ Landed(g) /\ Of(g)' = Of(g) /\ Of(g) # e.id
               /\ \A k \in 1..Len(sent') : sent'[k].id # Of(g)
    <3>1. g # h /\ Landed(g) /\ Of(g)' = Of(g)
      BY <1>6, <2>1
    <3>2. Of(g) # e.id
      BY <1>4, <1>5, <3>1 DEF OperatorInv, LandedIsNew
    <3> QED
      BY <1>10, <3>1, <3>2 DEF OperatorInv, LandedIsNew
  <2> QED
    BY <1>1, <1>6, <2>1 DEF OperatorInv, LandedIsNew
<1>15. OneCorrects'
  BY <1>1, <1>6 DEF OperatorInv, OneCorrects
<1>16. SettledAgrees'
  <2>1. ASSUME NEW k \in 1..Len(sent'), sent'[k].id \notin crossed,
               \A g \in Hands : Corrects(g)' => Of(g)' # sent'[k].id
        PROVE  sent'[k].words = wire[sent'[k].id].words /\ sent'[k].unsent = wire[sent'[k].id].gone
    <3>1. CASE sent'[k] = e
      <4>1. wire[e.id].gone \in BOOLEAN
        <5>1. wire[e.id] \in Shown
          BY <1>2, <1>5 DEF OperatorInv, OperatorTyped
        <5> QED
          BY <5>1 DEF Shown
      <4> QED
        BY <1>5, <1>11, <3>1, <4>1
    <3>2. CASE sent'[k] # e
      <4>1. PICK i \in 1..Len(sent) : sent'[k] = sent[i]
        BY <1>10, <3>2
      <4>2. ~Corrects(h)
        BY <1>4 DEF Corrects, Landed
      <4> QED
        BY <1>6, <2>1, <4>1, <4>2 DEF OperatorInv, SettledAgrees
    <3> QED
      BY <3>1, <3>2
  <2> QED
    BY <1>1, <2>1 DEF SettledAgrees
<1>17. OnTheWay'
  <2>1. ASSUME NEW g \in Hands PROVE MidWay(g)'
    <3>1. ASSUME g # h, Corrects(g), Of(g) \notin crossed, NEW k \in 1..Len(sent'), sent'[k].id = Of(g)
          PROVE  Fits(g, request[g], sent'[k], wire[Of(g)])
      <4>1. Of(g) # e.id
        BY <1>4, <1>5, <3>1 DEF OperatorInv, LandedIsNew
      <4>2. PICK i \in 1..Len(sent) : sent'[k] = sent[i]
        BY <1>10, <3>1, <4>1
      <4> QED
        BY <3>1, <4>2 DEF OperatorInv, OnTheWay, MidWay
    <3> QED
      BY <1>1, <1>6, <3>1 DEF MidWay
  <2> QED
    BY <2>1 DEF OnTheWay
<1> QED
  BY <1>12, <1>13, <1>14, <1>15, <1>16, <1>17 DEF OperatorInv

LEMMA OperatorStep == OperatorInv /\ [O!Next]_(O!vars) => OperatorInv'
<1> SUFFICES ASSUME OperatorInv, [O!Next]_(O!vars) PROVE OperatorInv'
  OBVIOUS
<1>1. ASSUME UNCHANGED <<sent, wire, request, crossed>>, stored' \in BOOLEAN, up' \in BOOLEAN, drops' \in 0..MaxDrops
      PROVE  OperatorInv'
  BY <1>1 DEF OperatorInv, OperatorTyped, KnownIsSaid, LandedIsNew, OneCorrects, SettledAgrees, OnTheWay, MidWay,
              Corrects, Landed, Of
<1>2. stored \in BOOLEAN /\ up \in BOOLEAN /\ drops \in 0..MaxDrops
  BY DEF OperatorInv, OperatorTyped
<1>3. CASE O!Attach \/ O!DeleteMedia
  BY <1>1, <1>2, <1>3 DEF O!Attach, O!DeleteMedia, O!line
<1>4. CASE O!Drop \/ O!Reconnect
  <2>1. /\ UNCHANGED <<sent, wire, request, crossed, stored>> /\ up' \in BOOLEAN
        /\ drops' = drops \/ (drops < MaxDrops /\ drops' = drops + 1)
    BY <1>4 DEF O!Drop, O!Reconnect, O!record
  <2>2. drops' \in 0..MaxDrops
    BY <1>2, <2>1, OperatorConstants
  <2> QED
    BY <1>1, <1>2, <2>1, <2>2
<1>5. CASE UNCHANGED O!vars
  BY <1>1, <1>2, <1>5 DEF O!vars, O!record, O!line
<1>6. ASSUME NEW h \in Hands, NEW nth \in 1..KEEP_PER_CHAT, O!Correct(h, nth, "edit") \/ O!Correct(h, nth, "unsend")
      PROVE  OperatorInv'
  BY <1>6, Corrected
<1>7. ASSUME NEW h \in Hands, NEW pieces \in {<<"text">>, <<"file", "text">>}, O!Say(h, pieces)
      PROVE  OperatorInv'
  BY <1>7, Saying
<1>8. ASSUME NEW h \in Hands,
             O!CorrectionLands(h) \/ O!CorrectionAcked(h) \/ O!CorrectionFails(h)
               \/ O!PieceLands(h) \/ O!PieceAcked(h) \/ O!SayFails(h)
      PROVE  OperatorInv'
  BY <1>8, CorrectionLanded, CorrectionAnswered, CorrectionFailed, PieceLanded, PieceAnswered, SayingFailed
<1> QED
  BY <1>3, <1>4, <1>5, <1>6, <1>7, <1>8 DEF O!Next

LEMMA OperatorPromise == OperatorInv => O!TypeOK /\ O!RecordAgreesWithPhones
<1> SUFFICES ASSUME OperatorInv PROVE O!TypeOK /\ O!RecordAgreesWithPhones
  OBVIOUS
<1>1. DOMAIN sent = 1..Len(sent) /\ \A i \in 1..Len(sent) : sent[i] \in Entry
  BY LenProperties, ElementOfSeq DEF OperatorInv, OperatorTyped
<1>2. O!TypeOK
  BY <1>1 DEF O!TypeOK, OperatorInv, OperatorTyped, Entry, Shown, Errand
<1>3. ASSUME NEW i \in 1..Len(sent), sent[i].id \notin crossed, O!UnderWay(sent[i].id) = {}
      PROVE  sent[i].words = wire[sent[i].id].words /\ sent[i].unsent = wire[sent[i].id].gone
  <2>1. \A h \in Hands : Corrects(h) => Of(h) # sent[i].id
    BY <1>3 DEF O!UnderWay, Corrects, Of
  <2> QED
    BY <1>3, <2>1 DEF OperatorInv, SettledAgrees
<1> QED
  BY <1>1, <1>2, <1>3 DEF O!RecordAgreesWithPhones

----------------------------------------------------------------------------
(* The parts together: a behaviour is one of a single part, and every other part
   stays as it began. *)

agentVars == <<which, vars, PVars, MVars, AVars, OVars, RVars>>

LEMMA StepsOfTheParts ==
  ASSUME [Step]_agentVars
  PROVE  /\ [Next]_vars /\ [P!Next]_(P!sessionsVars) /\ [M!Next]_(M!memoryVars)
         /\ [A!Next]_(A!vars) /\ [O!Next]_(O!vars) /\ [R!Next]_(R!vars)
<1>1. PVars' = PVars => P!sessionsVars' = P!sessionsVars
  BY DEF PVars, P!sessionsVars, P!pool, P!acquiring, P!persona, P!clock, P!reaper, P!history
<1>2. MVars' = MVars => M!memoryVars' = M!memoryVars
  BY DEF MVars, M!memoryVars
<1>3. AVars' = AVars => A!vars' = A!vars
  BY DEF AVars, A!vars
<1>4. OVars' = OVars => O!vars' = O!vars
  BY DEF OVars, O!vars, O!record, O!line
<1>5. RVars' = RVars => R!vars' = R!vars
  BY DEF RVars, R!vars, R!room, R!line, R!prompt
<1> QED
  BY <1>1, <1>2, <1>3, <1>4, <1>5 DEF Step, agentVars

LEMMA Behaviours ==
  Sum => /\ Spec
         /\ P!Init /\ [][P!Next]_(P!sessionsVars)
         /\ M!Init /\ [][M!Next]_(M!memoryVars)
         /\ A!Init /\ [][A!Next]_(A!vars)
         /\ O!Init /\ [][O!Next]_(O!vars)
         /\ R!Init /\ [][R!Next]_(R!vars)
<1>1. Start => Init /\ P!Init /\ M!Init /\ A!Init /\ O!Init /\ R!Init
  BY DEF Start
<1>2. [Step]_agentVars =>
        /\ [Next]_vars /\ [P!Next]_(P!sessionsVars) /\ [M!Next]_(M!memoryVars)
        /\ [A!Next]_(A!vars) /\ [O!Next]_(O!vars) /\ [R!Next]_(R!vars)
  BY StepsOfTheParts
<1> QED
  BY <1>1, <1>2, PTL DEF Sum, Spec, agentVars

(* What the supervisor runs, what the session answers and what the bridge goes by
   agree, through every stop, timeout and restart: the inductive invariant of
   Handover. *)
THEOREM HandoverInvariant == Spec => []IInv
<1>1. IInv /\ [Next]_vars => IInv'
  BY TypeHolds, OrderHolds, GroundsHold, OneTurnHolds, SafetyHolds DEF IInv
<1> QED
  BY InitHolds, <1>1, PTL DEF Spec

(* A reply bears the turn the session is answering, relayed prose goes only into
   the direct message that produced it, and the bridge gives up only a turn that
   was received or held up by another: of supervisor.ts, the two hooks and
   wa-cli.ts, through every stop, timeout and restart. *)
THEOREM HandoverIsSafeAlways == Sum => []HandoverIsSafe
<1>1. IInv => HandoverIsSafe
  BY DEF IInv
<1> QED
  BY HandoverInvariant, Behaviours, <1>1, PTL

(* The record of the session, the windows that bear its name, what acquire holds and
   what reap has decided on agree: the inductive invariant of Sessions. *)
THEOREM PoolInvariant == Sum => []PoolInv
<1> QED
  BY PoolStart, PoolStep, Behaviours, PTL

(* For any turns, resets, saved personas, deaths and unreadable writes: no window is
   lost and none is closed under a turn but by a race that is named, and a turn is
   answered in the context and under a brief that stood while it was acquired
   (acquire and reap of sessions.ts, ensureWorkspace). *)
THEOREM PoolKeepsTrackAlways == Sum => []PoolKeepsTrack
<1>1. PoolInv => PoolKeepsTrack
  BY PoolPromise DEF PoolKeepsTrack
<1> QED
  BY <1>1, PoolInvariant, PTL

(* The notes are in the order they were kept, and the marker divides them: the
   inductive invariant of Memory. *)
THEOREM MemoryInvariant == Sum => []MemoryInv
<1> QED
  BY MemoryStart, MemoryStep, Behaviours, PTL

(* For any notes, ceilings and resets: what is not after the marker the session knows,
   or it was left out for a reason; what is after it, it has not been given (notesSince
   and ensureWorkspace). *)
THEOREM MarkerDividesMemoryAlways == Sum => []MarkerDividesMemory
<1>1. MemoryInv => MarkerDividesMemory
  BY MemoryPromise DEF MarkerDividesMemory
<1> QED
  BY <1>1, MemoryInvariant, PTL

(* For any hands that speak, reword and retract at once, any messages and losses of the
   connection, any boxes and any rooms: what is kept of a box bears its label, the
   record of a message agrees with the phones, and a room marked as left is left. *)
THEOREM RecordsAreTrueAlways == Sum => []RecordsAreTrue
<1>1. AppsInv /\ OperatorInv /\ RoomsInv => RecordsAreTrue
  BY AppsPromise, OperatorPromise, RoomsPromise DEF RecordsAreTrue
<1> QED
  BY <1>1, AppsStart, AppsStep, OperatorStart, OperatorStep, RoomsStart, RoomsStep, Behaviours, PTL

(* The state of every part has its shape, for any values of the constants. *)
THEOREM TypesAlways == Sum => []Types
<1>1. IInv /\ PoolInv /\ MemoryInv /\ AppsInv /\ OperatorInv /\ RoomsInv => Types
  BY PoolPromise, MemoryPromise, AppsPromise, OperatorPromise, RoomsPromise DEF IInv, Types
<1> QED
  BY <1>1, HandoverInvariant, PoolInvariant, MemoryInvariant, AppsStart, AppsStep, OperatorStart, OperatorStep,
     RoomsStart, RoomsStep, Behaviours, PTL

=============================================================================
