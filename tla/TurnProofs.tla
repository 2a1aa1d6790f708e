----------------------------- MODULE TurnProofs -----------------------------
(*****************************************************************************)
(* Theorems about what a turn may say and what comes of it, for any values   *)
(* of the constants: the registry of turns (Turns), the verbs of a turn and   *)
(* the contract they keep (Verbs, as V), the posts and sends of Teams         *)
(* (Teams, as M), and MCTurn, whose behaviours are theirs.                    *)
(*****************************************************************************)
EXTENDS MCTurn, FiniteSetTheorems, TLAPS

(* Turns.  The registry and current.json. *)

(* Counting the turns issued so far gives a natural number: the insertion
   order open() stamps on a record. *)
LEMMA IssuedIsCounted == Cardinality(Issued) \in Nat
  BY TurnsAssumption, FS_Subset, FS_CardinalityType DEF Issued

(* Eviction only ever removes. *)
LEMMA EvictRemoves == ASSUME NEW m, NEW r PROVE Evict(m, r) \subseteq m
  BY DEF Evict

(* The pointer a restart adopts from is the one current.json holds. *)
LEMMA AdoptsThePointer ==
  ASSUME PointerIsHonest, NEW p \in Interrupted
  PROVE  (CHOOSE q \in Interrupted : TRUE) = p
<1>1. (CHOOSE q \in Interrupted : TRUE) \in Interrupted
  OBVIOUS
<1> QED
  BY <1>1 DEF Interrupted, PointerIsHonest

LEMMA InitRegistry == Init => RegistryInv
<1> SUFFICES ASSUME Init PROVE RegistryInv
  OBVIOUS
<1> USE TurnsAssumption DEF Init, Never, NotClosed
<1>1. TypeOK
  BY DEF TypeOK, TurnRecord, HistoryRecord, NoTurn, NoHistory
<1>2. BootsInOrder /\ PointerIsHonest /\ RecordsMatchHistory
  BY DEF BootsInOrder, PointerIsHonest, RecordsMatchHistory, NoHistory, Issued
<1>3. AllowanceIsPerTurn
  BY DEF AllowanceIsPerTurn, NoHistory
<1> QED
  BY <1>1, <1>2, <1>3 DEF RegistryInv

LEMMA OpenKeepsRegistry ==
  ASSUME RegistryInv, NEW t \in Turn, NEW c \in Chat, NEW op \in BOOLEAN, Open(t, c, op)
  PROVE  RegistryInv'
<1> USE TurnsAssumption DEF Never, NotClosed
<1>1. Cardinality(Issued) + 1 \in Nat
  BY IssuedIsCounted
<1>2. live' \subseteq live \cup {t}
  BY EvictRemoves DEF Open
<1>3. TypeOK'
  <2>1. turn' \in [Turn -> TurnRecord]
    BY <1>1 DEF RegistryInv, TypeOK, TurnRecord, Open
  <2>2. history' \in [Turn -> HistoryRecord]
    <3>1. /\ history \in [Turn -> HistoryRecord] /\ clock \in Nat /\ restarts \in Nat
          /\ history' = [history EXCEPT ![t] = [history[t] EXCEPT !.issuedAt = clock, !.boot = restarts]]
      BY DEF RegistryInv, TypeOK, Open
    <3>2. [history[t] EXCEPT !.issuedAt = clock, !.boot = restarts] \in HistoryRecord
      BY ONLY <3>1 DEF HistoryRecord
    <3> QED
      BY ONLY <3>1, <3>2
  <2> QED
    BY <1>2, <2>1, <2>2 DEF RegistryInv, TypeOK, Open
<1>4. BootsInOrder' /\ PointerIsHonest'
  BY DEF RegistryInv, TypeOK, HistoryRecord, Pointer, Open, Issued, BootsInOrder, PointerIsHonest
<1>5. RecordsMatchHistory'
  BY <1>1, <1>2 DEF RegistryInv, TypeOK, TurnRecord, HistoryRecord, Open, Issued,
     BootsInOrder, RecordsMatchHistory
<1>6. AllowanceIsPerTurn'
  BY DEF RegistryInv, TypeOK, HistoryRecord, Open, Issued, AllowanceIsPerTurn, BootsInOrder
<1> QED
  BY <1>3, <1>4, <1>5, <1>6 DEF RegistryInv

LEMMA PublishKeepsRegistry ==
  ASSUME RegistryInv, NEW t \in Turn, Publish(t)
  PROVE  RegistryInv'
<1> USE TurnsAssumption DEF Never, NotClosed
<1>1. history' \in [Turn -> HistoryRecord]
  BY DEF RegistryInv, TypeOK, HistoryRecord, Publish
<1>2. published' \in SUBSET Pointer
  BY DEF RegistryInv, TypeOK, TurnRecord, Pointer, Publish
<1>3. TypeOK'
  BY <1>1, <1>2 DEF RegistryInv, TypeOK, Publish
<1>4. BootsInOrder' /\ PointerIsHonest'
  BY DEF RegistryInv, TypeOK, HistoryRecord, Publish, LastOpened, Issued,
     BootsInOrder, PointerIsHonest
<1>5. RecordsMatchHistory' /\ AllowanceIsPerTurn'
  BY DEF RegistryInv, TypeOK, HistoryRecord, Publish, Issued,
     RecordsMatchHistory, AllowanceIsPerTurn
<1> QED
  BY <1>3, <1>4, <1>5 DEF RegistryInv

LEMMA CloseKeepsRegistry ==
  ASSUME RegistryInv, NEW t \in Turn, Close(t)
  PROVE  RegistryInv'
<1> USE TurnsAssumption DEF Never, NotClosed
<1>1. turn' \in [Turn -> TurnRecord]
  BY DEF RegistryInv, TypeOK, TurnRecord, Close
<1>2. history' \in [Turn -> HistoryRecord]
  BY DEF RegistryInv, TypeOK, HistoryRecord, Close
<1>3. TypeOK'
  BY <1>1, <1>2 DEF RegistryInv, TypeOK, Close
<1>4. BootsInOrder' /\ PointerIsHonest'
  BY DEF RegistryInv, TypeOK, HistoryRecord, Close, Issued, BootsInOrder, PointerIsHonest, Pointer
<1>5. RecordsMatchHistory' /\ AllowanceIsPerTurn'
  BY DEF RegistryInv, TypeOK, TurnRecord, HistoryRecord, Close, InFlight, Issued,
     RecordsMatchHistory, AllowanceIsPerTurn
<1> QED
  BY <1>3, <1>4, <1>5 DEF RegistryInv

LEMMA SendKeepsRegistry ==
  ASSUME RegistryInv, NEW t \in Turn, Send(t)
  PROVE  RegistryInv'
<1> USE TurnsAssumption DEF Never, NotClosed
<1>1. turn' \in [Turn -> TurnRecord]
  BY DEF RegistryInv, TypeOK, TurnRecord, Send, SendLeft
<1>2. history' \in [Turn -> HistoryRecord]
  BY DEF RegistryInv, TypeOK, HistoryRecord, Send
<1>3. TypeOK'
  BY <1>1, <1>2 DEF RegistryInv, TypeOK, Send
<1>4. BootsInOrder' /\ PointerIsHonest'
  BY DEF RegistryInv, TypeOK, HistoryRecord, Send, Issued, BootsInOrder, PointerIsHonest, Pointer
<1>5. RecordsMatchHistory' /\ AllowanceIsPerTurn'
  BY DEF RegistryInv, TypeOK, TurnRecord, HistoryRecord, Send, SendLeft, Resolves, Issued,
     RecordsMatchHistory, AllowanceIsPerTurn
<1> QED
  BY <1>3, <1>4, <1>5 DEF RegistryInv

LEMMA UseToolKeepsRegistry ==
  ASSUME RegistryInv, NEW t \in Turn, UseTool(t)
  PROVE  RegistryInv'
<1> USE TurnsAssumption DEF Never, NotClosed
<1>1. turn' \in [Turn -> TurnRecord]
  BY DEF RegistryInv, TypeOK, TurnRecord, UseTool, ToolLeft
<1>2. TypeOK'
  BY <1>1 DEF RegistryInv, TypeOK, UseTool
<1>3. BootsInOrder' /\ PointerIsHonest' /\ AllowanceIsPerTurn'
  BY DEF RegistryInv, UseTool, Issued, BootsInOrder, PointerIsHonest, AllowanceIsPerTurn
<1>4. RecordsMatchHistory'
  BY DEF RegistryInv, TypeOK, TurnRecord, UseTool, Issued, RecordsMatchHistory
<1> QED
  BY <1>2, <1>3, <1>4 DEF RegistryInv

LEMMA RestartKeepsRegistry ==
  ASSUME RegistryInv, Restart
  PROVE  RegistryInv'
<1> USE TurnsAssumption DEF Never, NotClosed
<1>1. live' \in SUBSET Turn
  BY DEF RegistryInv, TypeOK, Pointer, Restart, Interrupted
<1>2. ASSUME NEW p \in Interrupted
      PROVE  Adopted(p) \in TurnRecord
  BY DEF RegistryInv, TypeOK, Pointer, TurnRecord, Interrupted, Adopted
<1>3. ASSUME NEW t \in live'
      PROVE  \E p \in Interrupted : p.turn = t /\ turn'[t] = Adopted(p)
  <2>1. PICK p \in Interrupted : p.turn = t
    BY <1>3 DEF Restart
  <2>2. (CHOOSE q \in Interrupted : TRUE) = p
    BY AdoptsThePointer DEF RegistryInv
  <2> QED
    BY <1>1, <1>3, <2>1, <2>2 DEF Restart
<1>4. turn' \in [Turn -> TurnRecord]
  <2>1. ASSUME NEW t \in Turn PROVE turn'[t] \in TurnRecord
    <3>1. CASE t \in live'
      BY <1>2, <1>3, <3>1
    <3>2. CASE t \notin live'
      BY <3>2 DEF RegistryInv, TypeOK, Restart
    <3> QED
      BY <3>1, <3>2
  <2> QED
    BY <2>1 DEF Restart
<1>5. TypeOK'
  BY <1>1, <1>4 DEF RegistryInv, TypeOK, Restart
<1>6. BootsInOrder' /\ PointerIsHonest' /\ AllowanceIsPerTurn'
  BY DEF RegistryInv, TypeOK, HistoryRecord, Restart, Issued, BootsInOrder, PointerIsHonest, AllowanceIsPerTurn
<1>7. RecordsMatchHistory'
  <2> SUFFICES ASSUME NEW t \in live'
               PROVE  /\ t \in Issued'
                      /\ history[t].boot # restarts'
                      /\ history[t].publishedAt # Never
                      /\ turn'[t].openedAt = history[t].publishedAt
                      /\ ~turn'[t].fromOperator
    BY DEF RecordsMatchHistory, Restart
  <2>1. PICK p \in Interrupted : p.turn = t /\ turn'[t] = Adopted(p)
    BY <1>3
  <2>2. /\ history[t].publishedAt # Never
        /\ p.startedAt = history[t].publishedAt
    BY <2>1 DEF RegistryInv, PointerIsHonest, Interrupted
  <2>3. t \in Issued /\ history[t].boot <= restarts
    BY <1>1, <2>2 DEF RegistryInv, BootsInOrder, Issued
  <2>4. history[t].boot # restarts'
    BY <1>1, <2>3 DEF RegistryInv, TypeOK, HistoryRecord, Restart
  <2> QED
    BY <1>1, <2>1, <2>2, <2>3, <2>4 DEF Adopted, Restart, Issued
<1> QED
  BY <1>5, <1>6, <1>7 DEF RegistryInv

(* Every step keeps the registry in order, and so does standing still. *)
LEMMA NextKeepsRegistry == RegistryInv /\ [Next]_vars => RegistryInv'
<1> SUFFICES ASSUME RegistryInv, [Next]_vars PROVE RegistryInv'
  OBVIOUS
<1>1. ASSUME NEW t \in Turn, NEW c \in Chat, NEW op \in BOOLEAN, Open(t, c, op)
      PROVE  RegistryInv'
  BY <1>1, OpenKeepsRegistry
<1>2. ASSUME NEW t \in Turn, Publish(t) PROVE RegistryInv'
  BY <1>2, PublishKeepsRegistry
<1>3. ASSUME NEW t \in Turn, Close(t) PROVE RegistryInv'
  BY <1>3, CloseKeepsRegistry
<1>4. ASSUME NEW t \in Turn, Send(t) PROVE RegistryInv'
  BY <1>4, SendKeepsRegistry
<1>5. ASSUME NEW t \in Turn, UseTool(t) PROVE RegistryInv'
  BY <1>5, UseToolKeepsRegistry
<1>6. CASE Restart
  BY <1>6, RestartKeepsRegistry
<1>7. CASE Tick
  BY <1>7, TurnsAssumption DEF Tick, RegistryInv, TypeOK, BootsInOrder, PointerIsHonest,
     RecordsMatchHistory, AllowanceIsPerTurn, Issued
<1>8. CASE UNCHANGED vars
  BY <1>8 DEF vars, RegistryInv, TypeOK, BootsInOrder, PointerIsHonest,
     RecordsMatchHistory, AllowanceIsPerTurn, Issued
<1> QED
  BY <1>1, <1>2, <1>3, <1>4, <1>5, <1>6, <1>7, <1>8 DEF Next

(* turns.ts, index.ts: every record the registry holds agrees with what was
   done to its turn, in every reachable state. *)
THEOREM RegistryInvariant == Spec => []RegistryInv
  BY InitRegistry, NextKeepsRegistry, PTL DEF Spec

(* Type correctness of the registry, the pointer and the histories. *)
THEOREM TypeCorrect == Spec => []TypeOK
<1>1. RegistryInv => TypeOK
  BY DEF RegistryInv
<1> QED
  BY <1>1, RegistryInvariant, PTL

(* turns.ts countSend, resolve: a turn is never given more than its allowance
   by the process that issued it. *)
THEOREM AllowanceHolds == Spec => []AllowanceIsPerTurn
<1>1. RegistryInv => AllowanceIsPerTurn
  BY DEF RegistryInv
<1> QED
  BY <1>1, RegistryInvariant, PTL

(* turns.ts adopt: no restart hands operator authority to a turn. *)
THEOREM AuthorityDies == Spec => []AuthorityDiesWithTheProcess
<1>1. RegistryInv => AuthorityDiesWithTheProcess
  BY DEF RegistryInv, RecordsMatchHistory, AuthorityDiesWithTheProcess
<1> QED
  BY <1>1, RegistryInvariant, PTL

(* Only Send makes a turn speak, and only for the turn it names. *)
LEMMA OnlySendSpeaks ==
  ASSUME TypeOK, [Next]_vars, NEW t \in Turn, Speaks(t)
  PROVE  Send(t)
<1>1. ASSUME NEW u \in Turn, Send(u) PROVE u = t
  BY <1>1 DEF Send, TypeOK, Speaks
<1>2. ASSUME NEW u \in Turn, NEW c \in Chat, NEW op \in BOOLEAN, Open(u, c, op)
      PROVE  FALSE
  <2>1. history' = [history EXCEPT ![u].issuedAt = clock, ![u].boot = restarts]
    BY <1>2 DEF Open
  <2>2. history'[t].spoke = history[t].spoke
    <3>1. CASE t = u
      BY <2>1, <3>1 DEF TypeOK, HistoryRecord
    <3>2. CASE t # u
      BY <2>1, <3>2 DEF TypeOK
    <3> QED
      BY <3>1, <3>2
  <2> QED
    BY <2>2 DEF Speaks
<1>3. ASSUME NEW u \in Turn, Publish(u) PROVE FALSE
  BY <1>3 DEF Publish, TypeOK, HistoryRecord, Speaks
<1>4. ASSUME NEW u \in Turn, Close(u) PROVE FALSE
  BY <1>4 DEF Close, TypeOK, HistoryRecord, Speaks
<1>5. ~ (\E u \in Turn : UseTool(u)) /\ ~Restart /\ ~Tick /\ ~UNCHANGED vars
  BY DEF UseTool, Restart, Tick, vars, Speaks
<1> QED
  BY <1>1, <1>2, <1>3, <1>4, <1>5 DEF Next

(* turns.ts resolve: a speaking right expires, across restarts too. *)
THEOREM VoiceExpiresHolds == Spec => VoiceExpires
<1>1. RegistryInv /\ [Next]_vars => [\A t \in Turn : Speaks(t) => SpeaksInTime(t)]_vars
  <2> SUFFICES ASSUME RegistryInv, [Next]_vars, NEW t \in Turn, Speaks(t)
               PROVE  SpeaksInTime(t)
    OBVIOUS
  <2>1. Send(t)
    BY OnlySendSpeaks DEF RegistryInv
  <2>2. /\ t \in live /\ turn[t].openedAt \in Nat
        /\ clock \in Nat /\ clock - turn[t].openedAt <= Ttl
    BY <2>1, TurnsAssumption DEF Send, Resolves, Expired, RegistryInv, TypeOK, TurnRecord
  <2> QED
    BY <2>2, TurnsAssumption DEF SpeaksInTime, RegistryInv, RecordsMatchHistory
<1> QED
  BY <1>1, RegistryInvariant, PTL DEF Spec, VoiceExpires

(* turns.ts resolve, CLOSED_TURN_GRACE_MS: no speech from a closed turn after
   the grace window, in the process that closed it. *)
THEOREM ClosedTurnFallsSilentHolds == Spec => ClosedTurnFallsSilent
<1>1. RegistryInv /\ [Next]_vars =>
        [\A t \in Turn : Speaks(t) /\ history[t].boot = restarts => SpeaksBeforeSilence(t)]_vars
  <2> SUFFICES ASSUME RegistryInv, [Next]_vars,
                      NEW t \in Turn, Speaks(t), history[t].boot = restarts
               PROVE  SpeaksBeforeSilence(t)
    OBVIOUS
  <2>1. Send(t)
    BY OnlySendSpeaks DEF RegistryInv
  <2>2. t \in live /\ turn[t].closedAt = history[t].firstClosed
    BY <2>1 DEF Send, Resolves, RegistryInv, RecordsMatchHistory
  <2>3. clock \in Nat /\ history[t].firstClosed \in Nat \cup {Never}
    BY DEF RegistryInv, TypeOK, HistoryRecord
  <2> QED
    BY <2>1, <2>2, <2>3, TurnsAssumption
    DEF Send, Resolves, PastGrace, SpeaksBeforeSilence, Never, NotClosed
<1> QED
  BY <1>1, RegistryInvariant, PTL DEF Spec, ClosedTurnFallsSilent

----------------------------------------------------------------------------
(* Turns.  The newest turn is kept. *)

\* The order of insertion counts the turns issued, adopted ones having none.
InsertedInOrder == \A u \in Turn : turn[u].inserted <= Cardinality(Issued)

LEMMA NewestStart == Init => InsertedInOrder /\ NewestTurnIsKept
<1> SUFFICES ASSUME Init PROVE InsertedInOrder /\ NewestTurnIsKept
  OBVIOUS
<1>1. Issued = {}
  BY DEF Init, Issued, NoHistory
<1>2. NewestTurnIsKept
  BY <1>1 DEF NewestTurnIsKept, LastOpened
<1>3. \A u \in Turn : turn[u].inserted = 0
  BY DEF Init, NoTurn
<1> QED
  BY <1>1, <1>2, <1>3, FS_EmptySet DEF InsertedInOrder

(* A step that opens no turn and starts no process keeps the newest turn. *)
LEMMA NewestKept ==
  ASSUME RegistryInv, InsertedInOrder, NewestTurnIsKept, clock' \in Nat, clock <= clock',
         UNCHANGED <<live, restarts>>,
         \A u \in Turn : /\ turn'[u].inserted = turn[u].inserted /\ turn'[u].openedAt = turn[u].openedAt
                         /\ history'[u].issuedAt = history[u].issuedAt /\ history'[u].boot = history[u].boot
  PROVE  InsertedInOrder' /\ NewestTurnIsKept'
<1>1. Issued' = Issued
  BY DEF Issued
<1>2. InsertedInOrder'
  BY <1>1 DEF InsertedInOrder
<1>3. ASSUME NEW u \in Turn, LastOpened(u)', ~Expired(turn[u])' PROVE u \in live'
  <2>1. LastOpened(u)
    BY <1>1, <1>3 DEF LastOpened, Issued
  <2>2. clock \in Nat /\ turn[u].openedAt \in Nat
    BY DEF RegistryInv, TypeOK, TurnRecord
  <2>3. ~Expired(turn[u])
    BY <1>3, <2>2, TurnsAssumption DEF Expired
  <2> QED
    BY <2>1, <2>3 DEF NewestTurnIsKept
<1> QED
  BY <1>2, <1>3 DEF NewestTurnIsKept

LEMMA OpenKeepsNewest ==
  ASSUME RegistryInv, InsertedInOrder, NEW t \in Turn, NEW c \in Chat, NEW op \in BOOLEAN, Open(t, c, op)
  PROVE  InsertedInOrder' /\ NewestTurnIsKept'
<1> DEFINE n == Cardinality(Issued) + 1
           r == [chat |-> c, openedAt |-> clock, inserted |-> n, fromOperator |-> op, sends |-> 0, tools |-> 0,
                 closedAt |-> NotClosed]
<1>0. /\ clock \in Nat /\ turn \in [Turn -> TurnRecord] /\ history \in [Turn -> HistoryRecord] /\ live \subseteq Turn
      /\ \A u \in Turn : turn[u].inserted \in Nat
  BY DEF RegistryInv, TypeOK, TurnRecord
<1>1. /\ t \notin Issued /\ turn' = [turn EXCEPT ![t] = r] /\ live' = Evict(live \cup {t}, turn')
      /\ history' = [history EXCEPT ![t].issuedAt = clock, ![t].boot = restarts]
      /\ UNCHANGED <<clock, restarts>>
  BY DEF Open
<1>2. n \in Nat /\ r.inserted = n /\ r.openedAt = clock
  BY IssuedIsCounted
<1> HIDE DEF r
<1>3. turn'[t] = r /\ \A u \in Turn : u # t => turn'[u] = turn[u] /\ history'[u] = history[u]
  BY <1>0, <1>1
<1>4. history'[t].issuedAt = clock /\ history'[t].boot = restarts
  <2>1. history'[t] = [history[t] EXCEPT !.issuedAt = clock, !.boot = restarts] /\ history[t] \in HistoryRecord
    BY <1>0, <1>1
  <2> QED
    BY ONLY <2>1 DEF HistoryRecord
<1>5. Issued' = Issued \cup {t}
  BY <1>0, <1>3, <1>4 DEF Issued, Never
<1>6. Cardinality(Issued') = n
  <2>1. IsFiniteSet(Issued)
    BY TurnsAssumption, FS_Subset DEF Issued
  <2> QED
    BY <1>1, <1>5, <2>1, FS_AddElement
<1> HIDE DEF n
<1>7. \A u \in Turn : u # t => turn'[u].inserted < n
  BY <1>0, <1>3, IssuedIsCounted DEF InsertedInOrder, n
<1>8. InsertedInOrder'
  BY <1>0, <1>2, <1>3, <1>6, <1>7 DEF InsertedInOrder
<1>9. t \in live'
  <2> DEFINE later(u) == turn'[u].inserted > turn'[t].inserted
             fresh == {u \in live \cup {t} : ~Expired(turn'[u])}
  <2>1. t \in fresh
    BY <1>0, <1>2, <1>3, TurnsAssumption DEF Expired
  <2>2. ASSUME NEW u \in fresh PROVE ~later(u)
    <3>1. u \in Turn
      BY <1>0
    <3>2. CASE u = t
      BY <1>2, <1>3, <3>2
    <3>3. CASE u # t
      <4>1. turn'[u].inserted \in Nat /\ turn'[u].inserted < n
        BY <1>0, <1>3, <1>7, <3>1, <3>3
      <4> QED
        BY <1>2, <1>3, <4>1
    <3> QED
      BY <3>2, <3>3
  <2>3. {u \in fresh : turn'[u].inserted > turn'[t].inserted} = {}
    BY <2>2
  <2>4. Cardinality({u \in fresh : turn'[u].inserted > turn'[t].inserted}) < Capacity
    <3>1. ASSUME NEW S, S = {} PROVE Cardinality(S) < Capacity
      BY <3>1, FS_EmptySet, TurnsAssumption
    <3> QED
      BY <2>3, <3>1
  <2>5. Evict(live \cup {t}, turn') =
          {v \in fresh : Cardinality({u \in fresh : turn'[u].inserted > turn'[v].inserted}) < Capacity}
    BY DEF Evict
  <2> HIDE DEF fresh
  <2> QED
    BY ONLY <1>1, <2>1, <2>4, <2>5
<1>10. ASSUME NEW u \in Turn, u # t PROVE ~LastOpened(u)'
  <2>1. t \in Issued' /\ history'[t].boot = restarts'
    BY <1>1, <1>4, <1>5
  <2>2. ~(turn'[t].inserted <= turn'[u].inserted)
    BY <1>0, <1>2, <1>3, <1>7, <1>10
  <2> QED
    BY <2>1, <2>2 DEF LastOpened
<1> QED
  BY <1>8, <1>9, <1>10 DEF NewestTurnIsKept

LEMMA RestartKeepsNewest ==
  ASSUME RegistryInv, InsertedInOrder, Restart
  PROVE  InsertedInOrder' /\ NewestTurnIsKept'
<1>1. /\ restarts' = restarts + 1 /\ UNCHANGED history
      /\ turn' = [t \in Turn |-> IF t \in live' THEN Adopted(CHOOSE p \in Interrupted : TRUE) ELSE turn[t]]
  BY DEF Restart
<1>2. Issued' = Issued
  BY <1>1 DEF Issued
<1>3. InsertedInOrder'
  BY <1>1, <1>2, IssuedIsCounted DEF InsertedInOrder, Adopted
<1>4. \A u \in Issued : history[u].boot <= restarts /\ history[u].boot \in Nat /\ restarts \in Nat
  BY DEF RegistryInv, TypeOK, HistoryRecord, BootsInOrder, Issued, Never
<1>5. NewestTurnIsKept'
  BY <1>1, <1>2, <1>4 DEF NewestTurnIsKept, LastOpened
<1> QED
  BY <1>3, <1>5

LEMMA NextKeepsNewest ==
  RegistryInv /\ InsertedInOrder /\ NewestTurnIsKept /\ [Next]_vars => InsertedInOrder' /\ NewestTurnIsKept'
<1> SUFFICES ASSUME RegistryInv, InsertedInOrder, NewestTurnIsKept, [Next]_vars
             PROVE  InsertedInOrder' /\ NewestTurnIsKept'
  OBVIOUS
<1>0. clock \in Nat /\ turn \in [Turn -> TurnRecord] /\ history \in [Turn -> HistoryRecord]
  BY DEF RegistryInv, TypeOK
<1>1. ASSUME NEW t \in Turn, NEW c \in Chat, NEW op \in BOOLEAN, Open(t, c, op)
      PROVE  InsertedInOrder' /\ NewestTurnIsKept'
  BY <1>1, OpenKeepsNewest
<1>2. ASSUME NEW t \in Turn, Publish(t) PROVE InsertedInOrder' /\ NewestTurnIsKept'
  <2>1. \A u \in Turn : history'[u].issuedAt = history[u].issuedAt /\ history'[u].boot = history[u].boot
    BY <1>0, <1>2 DEF Publish, HistoryRecord
  <2> QED
    BY <1>0, <1>2, <2>1, NewestKept DEF Publish
<1>3. ASSUME NEW t \in Turn, Close(t) PROVE InsertedInOrder' /\ NewestTurnIsKept'
  <2>1. \A u \in Turn : history'[u].issuedAt = history[u].issuedAt /\ history'[u].boot = history[u].boot
    BY <1>0, <1>3 DEF Close, HistoryRecord
  <2>2. \A u \in Turn : turn'[u].inserted = turn[u].inserted /\ turn'[u].openedAt = turn[u].openedAt
    BY <1>0, <1>3 DEF Close, TurnRecord
  <2> QED
    BY <1>0, <1>3, <2>1, <2>2, NewestKept DEF Close
<1>4. ASSUME NEW t \in Turn, Send(t) PROVE InsertedInOrder' /\ NewestTurnIsKept'
  <2>1. \A u \in Turn : history'[u].issuedAt = history[u].issuedAt /\ history'[u].boot = history[u].boot
    BY <1>0, <1>4 DEF Send, HistoryRecord
  <2>2. \A u \in Turn : turn'[u].inserted = turn[u].inserted /\ turn'[u].openedAt = turn[u].openedAt
    BY <1>0, <1>4 DEF Send, TurnRecord
  <2> QED
    BY <1>0, <1>4, <2>1, <2>2, NewestKept DEF Send
<1>5. ASSUME NEW t \in Turn, UseTool(t) PROVE InsertedInOrder' /\ NewestTurnIsKept'
  <2>1. \A u \in Turn : turn'[u].inserted = turn[u].inserted /\ turn'[u].openedAt = turn[u].openedAt
    BY <1>0, <1>5 DEF UseTool, TurnRecord
  <2> QED
    BY <1>0, <1>5, <2>1, NewestKept DEF UseTool
<1>6. CASE Restart
  BY <1>6, RestartKeepsNewest
<1>7. CASE Tick
  BY <1>0, <1>7, NewestKept DEF Tick
<1>8. CASE UNCHANGED vars
  BY <1>0, <1>8, NewestKept DEF vars
<1> QED
  BY <1>1, <1>2, <1>3, <1>4, <1>5, <1>6, <1>7, <1>8 DEF Next

----------------------------------------------------------------------------
(* Verbs.  Whatever the bridge does about an action, it does one of two things to
   what is kept of it: it deals with the action (DealsWith) or lets it wait. *)

LEMMA VerbsConstants == MAX_ATTEMPTS \in Nat \ {0} /\ Relay \notin Asks /\ Tried \subseteq V!Kinds
BY PartsAssumption DEF V!VerbsAssumption

Known == {V!NoVerb} \cup UNION {V!Verb(k) : k \in V!Kinds}

LEMMA AVerb ==
  ASSUME NEW v \in Known
  PROVE  /\ v.names \in BOOLEAN /\ (v = V!NoVerb \/ v.kind \in V!Kinds)
         /\ v.kind = "sendTo" => v.names
<1>1. v = V!NoVerb \/ \E k \in V!Kinds : v \in V!Verb(k)
  BY DEF Known
<1>2. CASE v = V!NoVerb
  BY <1>2 DEF V!NoVerb
<1>3. ASSUME NEW k \in V!Kinds, v \in V!Verb(k)
      PROVE  v.names \in BOOLEAN /\ v.kind \in V!Kinds /\ (v.kind = "sendTo" => v.names)
  BY <1>3 DEF V!Verb, V!NamesChat, V!MayNameChat
<1> QED
  BY <1>1, <1>2, <1>3

LEMMA NoneKnown ==
  /\ V!NoVerb \in Known /\ V!RelayVerb \in Known /\ V!RelayVerb # V!NoVerb
  /\ V!RelayVerb.kind = "text" /\ V!RelayVerb.names = FALSE /\ V!NoVerb.kind = "none"
  /\ "none" \notin V!Kinds
<1>1. V!RelayVerb \in V!Verb("text")
  BY DEF V!RelayVerb, V!Verb, V!NamesChat, V!MayNameChat
<1>2. "text" \in V!Kinds /\ "none" \notin V!Kinds
  BY DEF V!Kinds, V!Delivers, V!Says, V!Media, V!Awaited, V!Recalls, V!Reaches, V!Notes, V!Pages, V!Offers,
         V!Corrections, V!Detached
<1> QED
  BY <1>1, <1>2 DEF Known, V!RelayVerb, V!NoVerb

LEMMA TriedKnown ==
  ASSUME NEW k \in Tried, NEW v \in V!Verb(k)
  PROVE  v \in Known /\ v # V!NoVerb /\ v.kind = k
<1>1. k \in V!Kinds /\ v.kind = k
  BY VerbsConstants DEF V!Verb
<1> QED
  BY <1>1, NoneKnown DEF Known

\* What says something to the person of the turn, unless it is dropped.
Plain(a) == V!kind(a) \in {"text", "voice"} /\ ~verb[a].names

DealsWith(a) ==
  /\ \/ action' = [action EXCEPT ![a] = "done"]
     \/ action' = [action EXCEPT ![a] = "away"] /\ answered' = answered
        /\ action[a] = "queued" /\ V!kind(a) \in V!Detached
  /\ \/ answered' = answered
     \/ \E r \in {"ok", "error", "unsure"} :
          /\ answered' = [answered EXCEPT ![a] = r]
          /\ r = "ok" => a \in effects'
          /\ r = "error" => a \notin effects'
  /\ effects' = effects \/ (action[a] = "queued" /\ effects' = effects \cup {a})
  /\ action[a] \in {"queued", "away"} /\ (action[a] = "away" => ~Plain(a))
  /\ heard' \in BOOLEAN /\ (heard => heard')
  /\ dropped' = dropped \/ dropped' = dropped \cup {a}
  /\ hushed' = hushed \/ hushed' = hushed \cup {a}
  /\ Plain(a) => heard' \/ a \in dropped' \cup hushed'
  /\ UNCHANGED <<off, can, direct, fromOperator, verb, report, spoke, ended, attempts>>

LEMMA Performing ==
  ASSUME NEW a, NEW answer, V!Performed(a, answer)
  PROVE  /\ action' = [action EXCEPT ![a] = IF answer = "later" THEN "away" ELSE "done"]
         /\ \/ answered' = answered
            \/ answer \in {"ok", "error", "unsure"} /\ answered' = [answered EXCEPT ![a] = answer]
         /\ UNCHANGED <<off, can, direct, fromOperator, verb, report, spoke, ended, attempts>>
BY DEF V!Performed, V!turnVars, V!agentVars

VerbsTyped ==
  /\ off \subseteq V!Switches /\ can \subseteq V!Switches
  /\ direct \in BOOLEAN /\ fromOperator \in BOOLEAN /\ spoke \in BOOLEAN /\ heard \in BOOLEAN
  /\ verb \in [V!All -> Known]
  /\ action \in [V!All -> {"none", "queued", "away", "done", "gone"}]
  /\ answered \in [V!All -> {"nothing", "ok", "error", "unsure"}]
  /\ report \in [V!All -> {"nothing", "waiting", "queued", "notSent", "done", "refused", "unknown"}]
  /\ effects \subseteq V!All /\ dropped \subseteq V!All /\ hushed \subseteq V!All
  /\ attempts \in [V!All -> 0..(MAX_ATTEMPTS - 1)]
  /\ ended \in {"no", "prose", "quiet"}

Consistent(a) ==
  /\ verb[a] = V!NoVerb => action[a] = "none" /\ report[a] = "nothing"
  /\ action[a] = "none" => report[a] \in {"nothing", "notSent"}
  /\ action[a] # "none" => report[a] # "notSent"
  /\ action[a] \in {"none", "queued"} => a \notin effects
  /\ answered[a] # "nothing" => action[a] = "done"
  /\ action[a] = "away" => V!kind(a) \in V!Detached
  /\ answered[a] = "ok" => a \in effects
  /\ answered[a] = "error" => a \notin effects
  /\ report[a] = "done" => answered[a] = "ok"
  /\ report[a] = "refused" => answered[a] = "error"
PlainIsHeard ==
  \A a \in V!All : Plain(a) /\ action[a] \in {"away", "done", "gone"} => heard \/ a \in dropped \cup hushed
SpokeWithReason ==
  spoke /\ ended # "quiet" => \E a \in Asks : action[a] # "none" /\ V!Marks(V!kind(a))
ProseRelayed ==
  /\ ended = "no" => verb[Relay] = V!NoVerb
  /\ ended = "prose" /\ direct => spoke \/ (action[Relay] # "none" /\ verb[Relay] = V!RelayVerb)
VerbsInv ==
  VerbsTyped /\ (\A a \in V!All : Consistent(a)) /\ PlainIsHeard /\ SpokeWithReason /\ ProseRelayed

LEMMA UsedAreSwitches == V!Used \subseteq V!Switches
<1>1. ASSUME NEW k PROVE V!SwitchOf(k) \subseteq V!Switches
  <2>1. \/ V!SwitchOf(k) = {"voice"} \/ V!SwitchOf(k) = {"images"} \/ V!SwitchOf(k) = {"search"}
        \/ V!SwitchOf(k) = {"schedule"} \/ V!SwitchOf(k) = {"recall"} \/ V!SwitchOf(k) = {"crossChat"}
        \/ V!SwitchOf(k) = {}
    BY DEF V!SwitchOf
  <2> QED
    BY <2>1 DEF V!Switches
<1>2. {"crossChat"} \subseteq V!Switches
  BY DEF V!Switches
<1>3. ASSUME NEW x \in V!Used PROVE x \in V!Switches
  <2>1. x = "crossChat" \/ \E k \in Tried : x \in V!SwitchOf(k)
    BY <1>3 DEF V!Used
  <2> QED
    BY <1>1, <1>2, <2>1
<1> QED
  BY <1>3

LEMMA VerbsStart == V!Init => VerbsInv
<1> SUFFICES ASSUME V!Init PROVE VerbsInv
  OBVIOUS
<1>1. V!Used \subseteq V!Switches
  BY UsedAreSwitches
<1>2. /\ verb = [a \in V!All |-> V!NoVerb] /\ action = [a \in V!All |-> "none"]
      /\ answered = [a \in V!All |-> "nothing"] /\ report = [a \in V!All |-> "nothing"]
      /\ effects = {} /\ attempts = [a \in V!All |-> 0]
      /\ spoke = FALSE /\ ended = "no" /\ heard = FALSE /\ dropped = {} /\ hushed = {}
      /\ off \subseteq V!Switches /\ can \subseteq V!Switches /\ direct \in BOOLEAN /\ fromOperator \in BOOLEAN
  BY <1>1 DEF V!Init
<1>3. 0 \in 0..(MAX_ATTEMPTS - 1)
  BY VerbsConstants
<1>4. VerbsTyped
  BY <1>2, <1>3, NoneKnown DEF VerbsTyped
<1>5. Relay \in V!All
  BY DEF V!All
<1> QED
  BY <1>2, <1>4, <1>5 DEF VerbsInv, Consistent, PlainIsHeard, SpokeWithReason, ProseRelayed

LEMMA BridgeDeals ==
  ASSUME VerbsInv, NEW a \in V!All,
         \/ V!Drop(a) \/ V!CrossChatRefused(a) \/ V!ExchangeClosed(a) \/ V!Typing(a)
         \/ \E how \in {"whole", "words", "nothing"} : V!Say(a, how) \/ V!Draw(a, how) \/ V!Speak(a, how)
         \/ V!Find(a) \/ V!Note(a) \/ V!ChangePage(a) \/ V!Recall(a) \/ V!Reach(a) \/ V!Offer(a) \/ V!Correct(a)
         \/ V!Detach(a) \/ \E answer \in {"ok", "error", "unsure"} : V!Late(a, answer)
  PROVE  DealsWith(a)
<1>1. verb[a].names \in BOOLEAN /\ heard \in BOOLEAN /\ (action[a] = "queued" => a \notin effects)
  BY AVerb DEF VerbsInv, VerbsTyped, Consistent
<1>2. action[a] = "away" => V!kind(a) \in V!Detached /\ ~Plain(a)
  BY DEF VerbsInv, Consistent, Plain, V!Detached
<1>3. CASE V!Drop(a)
  <2>1. V!Performed(a, "none") /\ dropped' = dropped \cup {a} /\ UNCHANGED <<effects, heard, hushed>> /\ action[a] = "queued"
    BY <1>3 DEF V!Drop
  <2> QED
    BY <1>1, <1>2, <2>1, Performing DEF DealsWith
<1>4. CASE V!CrossChatRefused(a)
  <2>1. V!Performed(a, "none") /\ UNCHANGED <<effects, heard, dropped, hushed>> /\ action[a] = "queued" /\ verb[a].names
    BY <1>1, <1>4 DEF V!CrossChatRefused, V!Reachable, V!historyVars
  <2> QED
    BY <1>1, <1>2, <2>1, Performing DEF DealsWith, Plain
<1>11. CASE V!ExchangeClosed(a)
  <2>1. /\ V!Performed(a, "error") /\ hushed' = hushed \cup {a} /\ UNCHANGED <<effects, heard, dropped>>
        /\ action[a] = "queued"
    BY <1>11 DEF V!ExchangeClosed, V!Goes
  <2> QED
    BY <1>1, <1>2, <2>1, Performing DEF DealsWith
<1>5. CASE V!Typing(a)
  <2>1. V!Performed(a, "none") /\ UNCHANGED <<heard, dropped, hushed>> /\ effects' = effects \cup {a} /\ action[a] = "queued"
        /\ ~Plain(a)
    BY <1>5 DEF V!Typing, V!historyVars, V!Goes, Plain
  <2> QED
    BY <1>1, <1>2, <2>1, Performing DEF DealsWith
<1>6. ASSUME NEW how \in {"whole", "words", "nothing"}, V!Say(a, how) \/ V!Draw(a, how) \/ V!Speak(a, how)
      PROVE  DealsWith(a)
  <2>1. /\ V!Performed(a, "none") /\ UNCHANGED <<dropped, hushed>> /\ action[a] = "queued"
        /\ effects' = effects \/ effects' = effects \cup {a}
        /\ heard' = (heard \/ (how # "nothing" /\ V!Here(a)))
    BY <1>6 DEF V!Say, V!Draw, V!Speak, V!Deliver, V!Goes
  <2>2. V!Here(a) \in BOOLEAN /\ (Plain(a) => how # "nothing" /\ V!Here(a))
    BY <1>6 DEF V!Say, V!Draw, V!Speak, Plain, V!Here
  <2> QED
    BY <1>1, <1>2, <2>1, <2>2, Performing DEF DealsWith
<1>7. ASSUME NEW may, V!Answer(a, may), ~Plain(a), heard' \in BOOLEAN, heard => heard' PROVE DealsWith(a)
  <2>1. action[a] = "queued" /\ UNCHANGED <<dropped, hushed>>
    BY <1>7 DEF V!Answer, V!Goes
  <2>2. CASE V!Performed(a, "error") /\ UNCHANGED effects
    BY <1>1, <1>2, <1>7, <2>1, <2>2, Performing DEF DealsWith
  <2>3. CASE V!Performed(a, "ok") /\ effects' = effects \cup {a}
    BY <1>1, <1>2, <1>7, <2>1, <2>3, Performing DEF DealsWith
  <2> QED
    BY <1>7, <2>2, <2>3 DEF V!Answer
<1>8. CASE V!Find(a) \/ V!Note(a) \/ V!ChangePage(a) \/ V!Recall(a) \/ V!Reach(a) \/ V!Offer(a) \/ V!Correct(a)
  <2>1. ~Plain(a)
    BY <1>8 DEF Plain, V!Find, V!Note, V!ChangePage, V!Recall, V!Reach, V!Offer, V!Correct, V!Notes, V!Pages,
                V!Recalls, V!Reaches, V!Offers, V!Corrections
  <2>2. heard' \in BOOLEAN /\ (heard => heard')
    BY <1>1, <1>8 DEF V!Find, V!Note, V!ChangePage, V!Recall, V!Reach, V!Offer, V!Correct
  <2>3. \E may : V!Answer(a, may)
    BY <1>8 DEF V!Find, V!Note, V!ChangePage, V!Recall, V!Reach, V!Offer, V!Correct
  <2> QED
    BY <1>7, <2>1, <2>2, <2>3
<1>9. CASE V!Detach(a)
  <2>1. /\ V!Performed(a, "later") \/ V!Performed(a, "error")
        /\ UNCHANGED <<effects, heard, dropped, hushed>> /\ action[a] = "queued" /\ V!kind(a) \in V!Detached /\ ~Plain(a)
    BY <1>9 DEF V!Detach, V!historyVars, V!Goes, Plain, V!Detached
  <2> QED
    BY <1>1, <1>2, <2>1, Performing DEF DealsWith
<1>10. ASSUME NEW answer \in {"ok", "error", "unsure"}, V!Late(a, answer) PROVE DealsWith(a)
  <2>1. /\ V!Performed(a, answer) /\ UNCHANGED <<effects, heard, dropped, hushed>> /\ action[a] = "away"
        /\ (answer = "ok" => a \in effects) /\ (answer = "error" => a \notin effects)
    BY <1>10 DEF V!Late, V!historyVars
  <2> QED
    BY <1>1, <1>2, <2>1, Performing DEF DealsWith
<1> QED
  BY <1>3, <1>4, <1>5, <1>6, <1>8, <1>9, <1>10, <1>11

LEMMA Dealt ==
  ASSUME VerbsInv, NEW a \in V!All, DealsWith(a)
  PROVE  VerbsInv'
<1>1. /\ action' \in [V!All -> {"none", "queued", "away", "done", "gone"}] /\ action'[a] \in {"done", "away"}
      /\ action'[a] = "away" => answered' = answered /\ action[a] = "queued" /\ V!kind(a) \in V!Detached
      /\ \A b \in V!All : b # a => action'[b] = action[b]
  BY DEF VerbsInv, VerbsTyped, DealsWith
<1>2. /\ answered' \in [V!All -> {"nothing", "ok", "error", "unsure"}]
      /\ \A b \in V!All : b # a => answered'[b] = answered[b]
      /\ answered'[a] = "ok" => a \in effects' \/ answered[a] = "ok"
      /\ answered'[a] = "error" => a \notin effects' \/ answered[a] = "error"
  BY DEF VerbsInv, VerbsTyped, DealsWith
<1>3. effects \subseteq effects' /\ effects' \subseteq effects \cup {a} /\ dropped \subseteq dropped'
      /\ dropped' \subseteq dropped \cup {a} /\ hushed \subseteq hushed' /\ hushed' \subseteq hushed \cup {a}
      /\ action[a] \in {"queued", "away"}
      /\ UNCHANGED <<off, can, direct, fromOperator, verb, report, spoke, ended, attempts>>
      /\ V!kind(a)' = V!kind(a)
  BY DEF DealsWith, V!kind
<1>4. answered[a] = "nothing" /\ report[a] \notin {"notSent", "done", "refused"} /\ verb[a] # V!NoVerb
  BY <1>3 DEF VerbsInv, VerbsTyped, Consistent
<1>5. VerbsTyped'
  BY <1>1, <1>2, <1>3 DEF VerbsInv, VerbsTyped, DealsWith
<1>6. Consistent(a)'
  BY <1>1, <1>2, <1>3, <1>4 DEF Consistent
<1>7. ASSUME NEW b \in V!All, b # a PROVE Consistent(b)'
  BY <1>1, <1>2, <1>3, <1>7 DEF VerbsInv, Consistent, V!kind
<1>8. PlainIsHeard'
  <2>1. ASSUME NEW b \in V!All, Plain(b), action'[b] \in {"away", "done", "gone"} PROVE heard' \/ b \in dropped' \cup hushed'
    <3>1. CASE b = a
      BY <2>1, <3>1 DEF DealsWith
    <3>2. CASE b # a
      BY <1>1, <1>3, <2>1, <3>2 DEF VerbsInv, PlainIsHeard, DealsWith
    <3> QED
      BY <3>1, <3>2
  <2> QED
    BY <1>3, <2>1 DEF PlainIsHeard, Plain, V!kind
<1>9. SpokeWithReason'
  <2>1. \A b \in Asks : b \in V!All /\ (action[b] # "none" => action'[b] # "none")
    BY <1>1 DEF V!All
  <2> QED
    BY <1>3, <2>1 DEF VerbsInv, SpokeWithReason, V!kind, V!Marks
<1>10. ProseRelayed'
  <2>1. action[Relay] # "none" => action'[Relay] # "none"
    BY <1>1 DEF V!All
  <2> QED
    BY <1>3, <2>1 DEF VerbsInv, ProseRelayed
<1> QED
  BY <1>5, <1>6, <1>7, <1>8, <1>9, <1>10 DEF VerbsInv

LEMMA Queued ==
  ASSUME VerbsInv, NEW a \in Asks, NEW k \in Tried, NEW v \in V!Verb(k), V!queue(a, v)
  PROVE  VerbsInv'
<1>1. v \in Known /\ v # V!NoVerb /\ v.kind = k
  BY TriedKnown
<1>2. /\ ended = "no" /\ verb[a] = V!NoVerb /\ verb' = [verb EXCEPT ![a] = v]
      /\ UNCHANGED <<off, can, direct, fromOperator, answered, effects, attempts, ended, heard, dropped, hushed>>
  BY DEF V!queue, V!MayAsk, V!turnVars, V!historyVars
<1>3. \/ report' = [report EXCEPT ![a] = "notSent"] /\ UNCHANGED <<action, spoke>>
      \/ /\ action' = [action EXCEPT ![a] = "queued"] /\ spoke' = (spoke \/ V!Marks(v.kind))
         /\ \E r \in {"waiting", "queued"} : report' = [report EXCEPT ![a] = r]
  BY DEF V!queue
<1>4. a \in V!All /\ a # Relay /\ action[a] = "none" /\ report[a] = "nothing" /\ a \notin effects
      /\ answered[a] = "nothing"
  BY <1>2, VerbsConstants DEF VerbsInv, Consistent, V!All, VerbsTyped
<1>5. /\ verb' \in [V!All -> Known] /\ verb'[a] = v /\ \A b \in V!All : b # a => verb'[b] = verb[b]
  BY <1>1, <1>2, <1>4 DEF VerbsInv, VerbsTyped
<1>6. /\ action' \in [V!All -> {"none", "queued", "away", "done", "gone"}]
      /\ report' \in [V!All -> {"nothing", "waiting", "queued", "notSent", "done", "refused", "unknown"}]
      /\ \A b \in V!All : b # a => action'[b] = action[b] /\ report'[b] = report[b]
      /\ \/ action'[a] = "none" /\ report'[a] = "notSent" /\ spoke' = spoke
         \/ action'[a] = "queued" /\ report'[a] \in {"waiting", "queued"} /\ spoke' = (spoke \/ V!Marks(k))
  BY <1>1, <1>3, <1>4 DEF VerbsInv, VerbsTyped
<1>7. spoke' \in BOOLEAN
  BY <1>6 DEF VerbsInv, VerbsTyped, V!Marks
<1>8. VerbsTyped'
  BY <1>2, <1>5, <1>6, <1>7 DEF VerbsInv, VerbsTyped
<1>9. Consistent(a)'
  BY <1>1, <1>2, <1>4, <1>5, <1>6 DEF Consistent
<1>10. ASSUME NEW b \in V!All, b # a PROVE Consistent(b)' /\ (Plain(b)' = Plain(b)) /\ V!kind(b)' = V!kind(b)
  BY <1>2, <1>5, <1>6, <1>10 DEF VerbsInv, Consistent, V!kind, Plain
<1>11. PlainIsHeard'
  BY <1>2, <1>6, <1>10 DEF VerbsInv, PlainIsHeard
<1>12. SpokeWithReason'
  <2>1. CASE spoke /\ spoke' = spoke
    <3>1. PICK b \in Asks : action[b] # "none" /\ V!Marks(V!kind(b))
      BY <1>2, <2>1 DEF VerbsInv, SpokeWithReason
    <3>2. b # a /\ b \in V!All
      BY <1>4, <3>1 DEF V!All
    <3>3. action'[b] # "none" /\ V!kind(b)' = V!kind(b)
      BY <1>6, <1>10, <3>1, <3>2
    <3> QED
      BY <3>1, <3>3 DEF SpokeWithReason, V!Marks
  <2>2. CASE action'[a] # "none" /\ V!Marks(k)
    <3>1. V!kind(a)' = k
      BY <1>1, <1>5 DEF V!kind
    <3> QED
      BY <2>2, <3>1 DEF SpokeWithReason, V!Marks
  <2>3. CASE ~spoke'
    BY <2>3 DEF SpokeWithReason
  <2> QED
    BY <1>6, <1>7, <2>1, <2>2, <2>3 DEF VerbsInv, VerbsTyped
<1>13. ProseRelayed'
  BY <1>2, <1>4, <1>5 DEF VerbsInv, ProseRelayed, V!All
<1> QED
  BY <1>8, <1>9, <1>10, <1>11, <1>12, <1>13 DEF VerbsInv

LEMMA Awaiting ==
  ASSUME VerbsInv, NEW a \in Asks, V!awaitResult(a)
  PROVE  VerbsInv'
<1>1. /\ report[a] = "waiting" /\ report' = [report EXCEPT ![a] = V!Understood(a)]
      /\ UNCHANGED <<off, can, direct, fromOperator, verb, action, answered, effects, attempts, spoke, ended,
                     heard, dropped, hushed>>
  BY DEF V!awaitResult, V!Told, V!turnVars, V!historyVars
<1>2. /\ V!Understood(a) \in {"done", "refused", "unknown"}
      /\ V!Understood(a) = "done" => answered[a] = "ok"
      /\ V!Understood(a) = "refused" => answered[a] = "error"
  BY DEF V!Understood
<1>3. a \in V!All
  BY DEF V!All
<1>4. /\ report' \in [V!All -> {"nothing", "waiting", "queued", "notSent", "done", "refused", "unknown"}]
      /\ report'[a] = V!Understood(a) /\ \A b \in V!All : b # a => report'[b] = report[b]
  BY <1>1, <1>2, <1>3 DEF VerbsInv, VerbsTyped
<1>5. VerbsTyped'
  BY <1>1, <1>4 DEF VerbsInv, VerbsTyped
<1>6. Consistent(a)'
  BY <1>1, <1>2, <1>3, <1>4 DEF VerbsInv, Consistent, V!kind
<1>7. ASSUME NEW b \in V!All, b # a PROVE Consistent(b)'
  BY <1>1, <1>4, <1>7 DEF VerbsInv, Consistent, V!kind
<1>8. PlainIsHeard' /\ SpokeWithReason' /\ ProseRelayed'
  BY <1>1 DEF VerbsInv, PlainIsHeard, SpokeWithReason, ProseRelayed, Plain, V!kind, V!Marks
<1> QED
  BY <1>5, <1>6, <1>7, <1>8 DEF VerbsInv

LEMMA TurnEnded ==
  ASSUME VerbsInv, NEW prose \in BOOLEAN, V!EndTurn(prose)
  PROVE  VerbsInv'
<1>1. /\ ended = "no" /\ ended' = (IF prose THEN "prose" ELSE "quiet") /\ spoke' = (spoke \/ ~prose)
      /\ UNCHANGED <<off, can, direct, fromOperator, report, answered, effects, attempts, heard, dropped, hushed>>
  BY DEF V!EndTurn, V!turnVars, V!historyVars
<1>2. Relay \in V!All /\ \A a \in Asks : a \in V!All /\ a # Relay
  BY VerbsConstants DEF V!All
<1>3. direct \in BOOLEAN /\ spoke \in BOOLEAN
  BY DEF VerbsInv, VerbsTyped
<1>4. CASE V!Relays(prose)
  <2>1. verb' = [verb EXCEPT ![Relay] = V!RelayVerb] /\ action' = [action EXCEPT ![Relay] = "queued"]
    BY <1>4 DEF V!EndTurn
  <2>2. prose /\ direct /\ ~spoke
    BY <1>4 DEF V!Relays
  <2>3. /\ verb[Relay] = V!NoVerb /\ action[Relay] = "none" /\ report[Relay] = "nothing" /\ Relay \notin effects
        /\ answered[Relay] = "nothing"
    BY <1>1, <1>2 DEF VerbsInv, VerbsTyped, Consistent, ProseRelayed
  <2>4. /\ verb' \in [V!All -> Known] /\ verb'[Relay] = V!RelayVerb
        /\ action' \in [V!All -> {"none", "queued", "away", "done", "gone"}] /\ action'[Relay] = "queued"
        /\ \A b \in V!All : b # Relay => verb'[b] = verb[b] /\ action'[b] = action[b]
    BY <1>2, <2>1, NoneKnown DEF VerbsInv, VerbsTyped
  <2>5. VerbsTyped'
    BY <1>1, <1>3, <2>4 DEF VerbsInv, VerbsTyped
  <2>6. Consistent(Relay)'
    BY <1>1, <2>3, <2>4, NoneKnown DEF Consistent
  <2>7. ASSUME NEW b \in V!All, b # Relay PROVE Consistent(b)' /\ Plain(b)' = Plain(b)
    BY <1>1, <2>4, <2>7 DEF VerbsInv, Consistent, V!kind, Plain
  <2>8. PlainIsHeard'
    BY <1>1, <2>4, <2>7 DEF VerbsInv, PlainIsHeard
  <2>9. SpokeWithReason' /\ ProseRelayed'
    BY <1>1, <2>2, <2>4 DEF SpokeWithReason, ProseRelayed
  <2> QED
    BY <2>5, <2>6, <2>7, <2>8, <2>9 DEF VerbsInv
<1>5. CASE ~V!Relays(prose)
  <2>1. UNCHANGED <<verb, action>>
    BY <1>5 DEF V!EndTurn
  <2>2. VerbsTyped'
    BY <1>1, <1>3, <2>1 DEF VerbsInv, VerbsTyped
  <2>3. \A b \in V!All : Consistent(b)'
    BY <1>1, <2>1 DEF VerbsInv, Consistent, V!kind
  <2>4. PlainIsHeard' /\ SpokeWithReason'
    BY <1>1, <1>3, <2>1 DEF VerbsInv, PlainIsHeard, SpokeWithReason, Plain, V!kind, V!Marks
  <2>5. ProseRelayed'
    BY <1>1, <1>3, <1>5, <2>1 DEF ProseRelayed, V!Relays
  <2> QED
    BY <2>2, <2>3, <2>4, <2>5 DEF VerbsInv
<1> QED
  BY <1>4, <1>5

LEMMA CalledUpon ==
  ASSUME VerbsInv, NEW a \in V!All, V!Called(a)
  PROVE  VerbsInv'
<1>1. /\ action[a] = "away" /\ a \notin effects /\ effects' = effects \cup {a}
      /\ UNCHANGED <<off, can, direct, fromOperator, verb, report, action, answered, attempts, spoke, ended,
                     heard, dropped, hushed>>
  BY DEF V!Called, V!turnVars, V!agentVars, V!historyVars
<1>2. VerbsTyped'
  BY <1>1 DEF VerbsInv, VerbsTyped
<1>3. \A b \in V!All : Consistent(b)'
  BY <1>1 DEF VerbsInv, Consistent, V!kind
<1>4. PlainIsHeard' /\ SpokeWithReason' /\ ProseRelayed'
  BY <1>1 DEF VerbsInv, PlainIsHeard, SpokeWithReason, ProseRelayed, Plain, V!kind, V!Marks
<1> QED
  BY <1>2, <1>3, <1>4 DEF VerbsInv

\* What waits, or is given up, is not dealt with.
LEMMA NotDealt ==
  ASSUME VerbsInv,
         action' \in [V!All -> {"none", "queued", "away", "done", "gone"}],
         \A b \in V!All : action'[b] = action[b]
           \/ (action[b] = "queued" /\ action'[b] = "gone" /\ b \in dropped')
           \/ (action[b] = "away" /\ action'[b] = "gone"),
         attempts' \in [V!All -> 0..(MAX_ATTEMPTS - 1)], off' \subseteq V!Switches,
         dropped \subseteq dropped', dropped' \subseteq V!All,
         UNCHANGED <<can, direct, fromOperator, verb, report, answered, effects, spoke, ended, heard, hushed>>
  PROVE  VerbsInv'
<1>1. VerbsTyped'
  BY DEF VerbsInv, VerbsTyped
<1>2. ASSUME NEW b \in V!All PROVE Consistent(b)'
  BY DEF VerbsInv, Consistent, V!kind
<1>3. PlainIsHeard'
  BY DEF VerbsInv, PlainIsHeard, Plain, V!kind
<1>4. Relay \in V!All /\ \A a \in Asks : a \in V!All
  BY DEF V!All
<1>5. \A b \in V!All : action[b] # "none" => action'[b] # "none"
  OBVIOUS
<1>6. SpokeWithReason' /\ ProseRelayed'
  BY <1>4, <1>5 DEF VerbsInv, SpokeWithReason, ProseRelayed, V!kind, V!Marks
<1> QED
  BY <1>1, <1>2, <1>3, <1>6 DEF VerbsInv

LEMMA VerbsStep == VerbsInv /\ [V!Next]_(V!verbsVars) => VerbsInv'
<1> SUFFICES ASSUME VerbsInv, [V!Next]_(V!verbsVars) PROVE VerbsInv'
  OBVIOUS
<1>0. /\ action \in [V!All -> {"none", "queued", "away", "done", "gone"}]
      /\ attempts \in [V!All -> 0..(MAX_ATTEMPTS - 1)] /\ off \subseteq V!Switches /\ dropped \subseteq V!All
  BY DEF VerbsInv, VerbsTyped
<1>1. ASSUME NEW a \in Asks, V!awaitResult(a) PROVE VerbsInv'
  BY <1>1, Awaiting
<1>2. ASSUME NEW a \in Asks, NEW k \in Tried, NEW v \in V!Verb(k),
             V!Tell(a, v) \/ V!Look(a, v) \/ V!Later(a, v) \/ V!Publish(a, v) \/ V!ReachOut(a, v)
      PROVE  VerbsInv'
  BY <1>2, Queued DEF V!Tell, V!Look, V!Later, V!Publish, V!ReachOut
<1>3. ASSUME NEW prose \in BOOLEAN, V!EndTurn(prose) PROVE VerbsInv'
  BY <1>3, TurnEnded
<1>4. ASSUME NEW a \in V!All,
         \/ V!Drop(a) \/ V!CrossChatRefused(a) \/ V!ExchangeClosed(a) \/ V!Typing(a)
         \/ \E how \in {"whole", "words", "nothing"} : V!Say(a, how) \/ V!Draw(a, how) \/ V!Speak(a, how)
         \/ V!Find(a) \/ V!Note(a) \/ V!ChangePage(a) \/ V!Recall(a) \/ V!Reach(a) \/ V!Offer(a) \/ V!Correct(a)
         \/ V!Detach(a) \/ \E answer \in {"ok", "error", "unsure"} : V!Late(a, answer)
      PROVE  VerbsInv'
  BY <1>4, BridgeDeals, Dealt
<1>5. ASSUME NEW a \in V!All, V!Called(a) PROVE VerbsInv'
  BY <1>5, CalledUpon
<1>6. ASSUME NEW a \in V!All, V!Throw(a) PROVE VerbsInv'
  <2>1. /\ action[a] = "queued"
        /\ UNCHANGED <<off, can, direct, fromOperator, verb, report, answered, effects, spoke, ended, heard, hushed>>
    BY <1>6 DEF V!Throw, V!Goes, V!turnVars, V!agentVars
  <2>2. CASE attempts[a] + 1 >= MAX_ATTEMPTS
    <3>1. action' = [action EXCEPT ![a] = "gone"] /\ attempts' = [attempts EXCEPT ![a] = 0]
          /\ dropped' = dropped \cup {a}
      BY <1>6, <2>2 DEF V!Throw
    <3>2. attempts' \in [V!All -> 0..(MAX_ATTEMPTS - 1)]
      BY <1>0, <3>1, VerbsConstants
    <3> QED
      BY <1>0, <2>1, <3>1, <3>2, NotDealt
  <2>3. CASE ~(attempts[a] + 1 >= MAX_ATTEMPTS)
    <3>1. UNCHANGED <<action, dropped>> /\ attempts' = [attempts EXCEPT ![a] = attempts[a] + 1]
      BY <1>6, <2>3 DEF V!Throw
    <3>2. attempts' \in [V!All -> 0..(MAX_ATTEMPTS - 1)]
      BY <1>0, <2>3, <3>1, VerbsConstants
    <3> QED
      BY <1>0, <2>1, <3>1, <3>2, NotDealt
  <2> QED
    BY <2>2, <2>3
<1>7. CASE V!Restart
  <2>1. /\ action' = [a \in V!All |-> IF action[a] = "away" THEN "gone" ELSE action[a]]
        /\ attempts' = [a \in V!All |-> 0]
        /\ UNCHANGED <<off, can, direct, fromOperator, verb, report, answered, effects, spoke, ended, heard, dropped, hushed>>
    BY <1>7 DEF V!Restart, V!turnVars, V!agentVars, V!historyVars
  <2>2. attempts' \in [V!All -> 0..(MAX_ATTEMPTS - 1)]
    BY <2>1, VerbsConstants
  <2> QED
    BY <1>0, <2>1, <2>2, NotDealt
<1>8. ASSUME NEW s \in V!Used, V!Flip(s) PROVE VerbsInv'
  <2>1. /\ off' \subseteq off \cup {s}
        /\ UNCHANGED <<action, attempts, can, direct, fromOperator, verb, report, answered, effects, spoke, ended,
                       heard, dropped, hushed>>
    BY <1>8 DEF V!Flip, V!turnVars, V!agentVars, V!historyVars
  <2> QED
    BY <1>0, <2>1, UsedAreSwitches, NotDealt
<1>9. CASE UNCHANGED V!verbsVars
  <2>1. UNCHANGED <<off, action, attempts, can, direct, fromOperator, verb, report, answered, effects, spoke, ended,
                    heard, dropped, hushed>>
    BY <1>9 DEF V!verbsVars, V!turnVars, V!agentVars, V!historyVars
  <2> QED
    BY <1>0, <2>1, NotDealt
<1> QED
  BY <1>1, <1>2, <1>3, <1>4, <1>5, <1>6, <1>7, <1>8, <1>9 DEF V!Next

LEMMA VerbsPromise == VerbsInv => V!TypeOK /\ V!SilenceHasAReason
<1> SUFFICES ASSUME VerbsInv PROVE V!TypeOK /\ V!SilenceHasAReason
  OBVIOUS
<1>1. V!TypeOK
  BY DEF VerbsInv, VerbsTyped, V!TypeOK, Known
<1>2. ASSUME direct, ended = "prose", V!Settled, ~heard, dropped \cup hushed = {}
      PROVE  \E a \in Asks : verb[a] # V!NoVerb /\ V!Mute(a)
  <2>1. Relay \in V!All /\ \A a \in Asks : a \in V!All
    BY DEF V!All
  <2>2. \A a \in V!All : Plain(a) => action[a] = "none"
    BY <1>2 DEF VerbsInv, VerbsTyped, PlainIsHeard, V!Settled
  <2>3. spoke
    <3>1. ASSUME ~spoke PROVE FALSE
      <4>1. action[Relay] # "none" /\ verb[Relay] = V!RelayVerb
        BY <1>2, <3>1 DEF VerbsInv, ProseRelayed
      <4>2. Plain(Relay)
        BY <4>1, NoneKnown DEF Plain, V!kind
      <4> QED
        BY <2>1, <2>2, <4>1, <4>2
    <3> QED
      BY <3>1
  <2>4. PICK a \in Asks : action[a] # "none" /\ V!Marks(V!kind(a))
    BY <1>2, <2>3 DEF VerbsInv, SpokeWithReason
  <2>5. verb[a] \in Known /\ verb[a] # V!NoVerb /\ ~Plain(a)
    BY <2>1, <2>2, <2>4 DEF VerbsInv, VerbsTyped, Consistent
  <2>6. V!kind(a) \in V!Kinds /\ V!kind(a) \notin V!Silent /\ (V!kind(a) = "sendTo" => verb[a].names)
    BY <2>4, <2>5, AVerb DEF V!kind, V!Marks
  <2>7. V!Mute(a)
    BY <2>5, <2>6 DEF V!Mute, Plain, V!Kinds, V!Delivers, V!Says, V!Media, V!Awaited, V!Silent
  <2> QED
    BY <2>5, <2>7
<1> QED
  BY <1>1, <1>2 DEF V!SilenceHasAReason

(* The refinement of the contract: what becomes of a question, as the agent is told. *)

Outcome(a) ==
  CASE report[a] \in {"notSent", "refused"} -> "notAsked"
    [] report[a] = "done" -> "answered"
    [] report[a] = "unknown" -> "unknown"
    [] OTHER -> IF action[a] = "none" THEN "none" ELSE "pending"
Outcomes == [a \in V!All |-> Outcome(a)]

LEMMA ContractIs ==
  /\ V!Contract!contractVars = <<Outcomes, effects>>
  /\ V!Contract!contractVars' = <<Outcomes', effects'>>
  /\ V!Contract!Init <=> Outcomes = [a \in V!All |-> "none"] /\ effects = {}
  /\ \A a \in V!All :
       /\ V!Contract!Ask(a) <=> Outcomes[a] = "none" /\ Outcomes' = [Outcomes EXCEPT ![a] = "pending"]
                                 /\ UNCHANGED effects
       /\ V!Contract!Take(a) <=> /\ Outcomes[a] \in {"pending", "unknown", "lost"} /\ a \notin effects
                                 /\ effects' = effects \cup {a} /\ Outcomes' = Outcomes
       /\ \A o \in {"answered", "notAsked", "unknown"} :
            V!Contract!Conclude(a, o) <=>
              /\ Outcomes[a] \in {"none", "pending"}
              /\ \/ o = "answered" /\ a \in effects
                 \/ o = "notAsked" /\ a \notin effects
                 \/ o = "unknown"
              /\ Outcomes' = [Outcomes EXCEPT ![a] = o] /\ UNCHANGED effects
BY DEF V!Contract!contractVars, V!Contract!Init, V!Contract!Ask, V!Contract!Take, V!Contract!Conclude, Outcomes, Outcome

LEMMA SameOutcome ==
  ASSUME NEW a, report'[a] = report[a], (action'[a] = "none") = (action[a] = "none")
  PROVE  Outcome(a)' = Outcome(a)
BY DEF Outcome

LEMMA SameOutcomes ==
  ASSUME \A a \in V!All : report'[a] = report[a] /\ (action'[a] = "none") = (action[a] = "none")
  PROVE  Outcomes' = Outcomes
<1>1. \A a \in V!All : Outcome(a)' = Outcome(a)
  BY SameOutcome
<1>2. Outcomes' = [a \in V!All |-> Outcome(a)']
  BY DEF Outcomes, V!All
<1> HIDE DEF Outcome
<1> QED
  BY <1>1, <1>2 DEF Outcomes

LEMMA NewOutcome ==
  ASSUME NEW a \in V!All, NEW o, Outcome(a)' = o, \A b \in V!All : b # a => Outcome(b)' = Outcome(b)
  PROVE  Outcomes' = [Outcomes EXCEPT ![a] = o]
<1>1. Outcomes' = [b \in V!All |-> Outcome(b)']
  BY DEF Outcomes, V!All
<1> HIDE DEF Outcome
<1>2. \A b \in V!All : Outcomes'[b] = [Outcomes EXCEPT ![a] = o][b]
  BY <1>1 DEF Outcomes
<1> QED
  BY <1>1, <1>2 DEF Outcomes

LEMMA VerbsStartMaps == V!Init => V!Contract!Init
<1> SUFFICES ASSUME V!Init PROVE V!Contract!Init
  OBVIOUS
<1>1. Outcomes = [a \in V!All |-> "none"] /\ effects = {}
  BY DEF V!Init, Outcomes, Outcome
<1> QED
  BY <1>1, ContractIs

\* An action that had its effect at last.
LEMMA Taken ==
  ASSUME NEW a \in V!All, Outcome(a) \in {"pending", "unknown"}, a \notin effects,
         effects' = effects \cup {a}, Outcomes' = Outcomes
  PROVE  V!Contract!Next
<1>1. Outcomes[a] = Outcome(a)
  BY DEF Outcomes
<1>2. V!Contract!Take(a)
  BY <1>1, ContractIs
<1> QED
  BY <1>2 DEF V!Contract!Next

LEMMA Concluded ==
  ASSUME NEW a \in V!All, NEW o \in {"answered", "notAsked", "unknown"}, Outcome(a) \in {"none", "pending"},
         o = "answered" => a \in effects, o = "notAsked" => a \notin effects, effects' = effects,
         Outcome(a)' = o, \A b \in V!All : b # a => Outcome(b)' = Outcome(b)
  PROVE  V!Contract!Next
<1>1. Outcomes[a] = Outcome(a)
  BY DEF Outcomes
<1>2. Outcomes' = [Outcomes EXCEPT ![a] = o]
  BY NewOutcome
<1>3. V!Contract!Conclude(a, o)
  BY <1>1, <1>2, ContractIs
<1> QED
  BY <1>3 DEF V!Contract!Next

LEMMA Asked ==
  ASSUME NEW a \in V!All, Outcome(a) = "none", effects' = effects,
         Outcome(a)' = "pending", \A b \in V!All : b # a => Outcome(b)' = Outcome(b)
  PROVE  V!Contract!Next
<1>1. Outcomes[a] = Outcome(a)
  BY DEF Outcomes
<1>2. Outcomes' = [Outcomes EXCEPT ![a] = "pending"]
  BY NewOutcome
<1>3. V!Contract!Ask(a)
  BY <1>1, <1>2, ContractIs
<1> QED
  BY <1>3 DEF V!Contract!Next

LEMMA Stuttered ==
  ASSUME Outcomes' = Outcomes, effects' = effects
  PROVE  UNCHANGED V!Contract!contractVars
BY ContractIs

\* While the bridge has not answered, the agent has been told nothing, or that it is unknown.
LEMMA NotYetTold ==
  ASSUME VerbsInv, NEW a \in V!All, action[a] \in {"queued", "away"}
  PROVE  Outcome(a) \in {"pending", "unknown"}
<1>1. /\ answered[a] = "nothing" /\ report[a] \notin {"notSent", "refused", "done"}
  BY DEF VerbsInv, VerbsTyped, Consistent
<1> QED
  BY <1>1 DEF Outcome

LEMMA VerbsStepMaps ==
  ASSUME VerbsInv, [V!Next]_(V!verbsVars)
  PROVE  V!Contract!Next \/ UNCHANGED V!Contract!contractVars
<1> DEFINE Maps == V!Contract!Next \/ UNCHANGED V!Contract!contractVars
<1> HIDE DEF Maps
<1>0. /\ action \in [V!All -> {"none", "queued", "away", "done", "gone"}]
      /\ report \in [V!All -> {"nothing", "waiting", "queued", "notSent", "done", "refused", "unknown"}]
  BY DEF VerbsInv, VerbsTyped
<1>1. ASSUME NEW a \in Asks, V!awaitResult(a) PROVE Maps
  <2>1. /\ report[a] = "waiting" /\ report' = [report EXCEPT ![a] = V!Understood(a)]
        /\ UNCHANGED <<action, answered, effects>> /\ a \in V!All
    BY <1>1 DEF V!awaitResult, V!Told, V!All
  <2>2. Outcome(a) = "pending"
    BY <2>1 DEF Outcome, VerbsInv, Consistent
  <2>3. report'[a] = V!Understood(a) /\ \A b \in V!All : b # a => report'[b] = report[b]
    BY <1>0, <2>1
  <2>4. \A b \in V!All : b # a => Outcome(b)' = Outcome(b)
    BY <2>1, <2>3, SameOutcome
  <2>5. PICK o \in {"answered", "notAsked", "unknown"} :
          Outcome(a)' = o /\ (o = "answered" => answered[a] = "ok") /\ (o = "notAsked" => answered[a] = "error")
    BY <2>3 DEF Outcome, V!Understood
  <2>6. (o = "answered" => a \in effects) /\ (o = "notAsked" => a \notin effects)
    BY <2>1, <2>5 DEF VerbsInv, Consistent
  <2> QED
    BY <2>1, <2>2, <2>4, <2>5, <2>6, Concluded DEF Maps
<1>2. ASSUME NEW a \in Asks, NEW v, V!queue(a, v) PROVE Maps
  <2>1. /\ verb[a] = V!NoVerb /\ UNCHANGED effects /\ a \in V!All
        /\ \/ report' = [report EXCEPT ![a] = "notSent"] /\ UNCHANGED action
           \/ /\ action' = [action EXCEPT ![a] = "queued"]
              /\ \E r \in {"waiting", "queued"} : report' = [report EXCEPT ![a] = r]
    BY <1>2 DEF V!queue, V!MayAsk, V!All
  <2>2. action[a] = "none" /\ report[a] = "nothing" /\ a \notin effects
    BY <2>1 DEF VerbsInv, Consistent
  <2>3. /\ \A b \in V!All : b # a => report'[b] = report[b] /\ action'[b] = action[b]
        /\ \/ report'[a] = "notSent"
           \/ report'[a] \in {"waiting", "queued"} /\ action'[a] = "queued"
    BY <1>0, <2>1
  <2>4. Outcome(a) = "none" /\ \A b \in V!All : b # a => Outcome(b)' = Outcome(b)
    BY <2>2, <2>3, SameOutcome DEF Outcome
  <2>5. CASE report'[a] = "notSent"
    <3>1. Outcome(a)' = "notAsked"
      BY <2>5 DEF Outcome
    <3> QED
      BY <2>1, <2>2, <2>4, <3>1, Concluded DEF Maps
  <2>6. CASE report'[a] \in {"waiting", "queued"} /\ action'[a] = "queued"
    <3>1. Outcome(a)' = "pending"
      BY <2>6 DEF Outcome
    <3> QED
      BY <2>1, <2>4, <3>1, Asked DEF Maps
  <2> QED
    BY <2>3, <2>5, <2>6
<1>3. ASSUME NEW a \in Asks, NEW v,
             V!Tell(a, v) \/ V!Look(a, v) \/ V!Later(a, v) \/ V!Publish(a, v) \/ V!ReachOut(a, v)
      PROVE  Maps
  BY <1>2, <1>3 DEF V!Tell, V!Look, V!Later, V!Publish, V!ReachOut
<1>4. ASSUME NEW prose \in BOOLEAN, V!EndTurn(prose) PROVE Maps
  <2>1. ended = "no" /\ UNCHANGED <<report, effects>> /\ Relay \in V!All
    BY <1>4 DEF V!EndTurn, V!All
  <2>2. action[Relay] = "none" /\ report[Relay] = "nothing" /\ Outcome(Relay) = "none"
    BY <2>1 DEF VerbsInv, ProseRelayed, Consistent, Outcome
  <2>3. CASE action' = [action EXCEPT ![Relay] = "queued"]
    <3>1. action'[Relay] = "queued" /\ \A b \in V!All : b # Relay => action'[b] = action[b]
      BY <1>0, <2>1, <2>3
    <3>2. Outcome(Relay)' = "pending" /\ \A b \in V!All : b # Relay => Outcome(b)' = Outcome(b)
      BY <2>1, <2>2, <3>1, SameOutcome DEF Outcome
    <3> QED
      BY <2>1, <2>2, <3>2, Asked DEF Maps
  <2>4. CASE UNCHANGED action
    BY <2>1, <2>4, SameOutcomes, Stuttered DEF Maps
  <2> QED
    BY <1>4, <2>3, <2>4 DEF V!EndTurn
<1>5. ASSUME NEW a \in V!All, DealsWith(a) PROVE Maps
  <2>1. /\ action[a] \in {"queued", "away"} /\ UNCHANGED report
        /\ \E x \in {"done", "away"} : action' = [action EXCEPT ![a] = x]
        /\ effects' = effects \/ (action[a] = "queued" /\ effects' = effects \cup {a})
    BY <1>5 DEF DealsWith
  <2>2. \A b \in V!All : report'[b] = report[b] /\ (action'[b] = "none") = (action[b] = "none")
    BY <1>0, <2>1
  <2>3. Outcomes' = Outcomes
    BY <2>2, SameOutcomes
  <2>4. CASE effects' = effects
    BY <2>3, <2>4, Stuttered DEF Maps
  <2>5. CASE action[a] = "queued" /\ effects' = effects \cup {a}
    <3>1. a \notin effects
      BY <2>5 DEF VerbsInv, Consistent
    <3> QED
      BY <2>3, <2>5, <3>1, NotYetTold, Taken DEF Maps
  <2> QED
    BY <2>1, <2>4, <2>5
<1>6. ASSUME NEW a \in V!All,
         \/ V!Drop(a) \/ V!CrossChatRefused(a) \/ V!ExchangeClosed(a) \/ V!Typing(a)
         \/ \E how \in {"whole", "words", "nothing"} : V!Say(a, how) \/ V!Draw(a, how) \/ V!Speak(a, how)
         \/ V!Find(a) \/ V!Note(a) \/ V!ChangePage(a) \/ V!Recall(a) \/ V!Reach(a) \/ V!Offer(a) \/ V!Correct(a)
         \/ V!Detach(a) \/ \E answer \in {"ok", "error", "unsure"} : V!Late(a, answer)
      PROVE  Maps
  BY <1>5, <1>6, BridgeDeals
<1>7. ASSUME NEW a \in V!All, V!Called(a) PROVE Maps
  <2>1. action[a] = "away" /\ a \notin effects /\ effects' = effects \cup {a} /\ UNCHANGED <<action, report>>
    BY <1>7 DEF V!Called, V!agentVars
  <2> QED
    BY <2>1, SameOutcomes, NotYetTold, Taken DEF Maps
<1>8. ASSUME UNCHANGED <<report, effects>>,
             \A a \in V!All : (action'[a] = "none") = (action[a] = "none")
      PROVE  Maps
  BY <1>8, SameOutcomes, Stuttered DEF Maps
<1>9. ASSUME NEW a \in V!All, V!Throw(a) PROVE Maps
  <2>1. /\ action[a] = "queued" /\ UNCHANGED <<report, effects>>
        /\ action' = action \/ action' = [action EXCEPT ![a] = "gone"]
    BY <1>9 DEF V!Throw, V!Goes, V!agentVars
  <2> QED
    BY <1>0, <1>8, <2>1
<1>10. ASSUME V!Restart PROVE Maps
  <2>1. /\ UNCHANGED <<report, effects>>
        /\ action' = [a \in V!All |-> IF action[a] = "away" THEN "gone" ELSE action[a]]
    BY <1>10 DEF V!Restart, V!agentVars
  <2> QED
    BY <1>0, <1>8, <2>1
<1>11. ASSUME (\E s \in V!Used : V!Flip(s)) \/ UNCHANGED V!verbsVars PROVE Maps
  <2>1. UNCHANGED <<report, effects, action>>
    BY <1>11 DEF V!Flip, V!verbsVars, V!agentVars
  <2> QED
    BY <1>8, <2>1
<1>12. Maps
  BY <1>1, <1>3, <1>4, <1>6, <1>7, <1>9, <1>10, <1>11 DEF V!Next
<1> QED
  BY <1>12 DEF Maps

----------------------------------------------------------------------------
(* Teams.  What is kept of each request, and the fetch it may wait for. *)

LEMMA TeamsConstants ==
  /\ SEEN \in Nat /\ JWKS_TTL \in Nat /\ MaxNow \in Nat \ {0} /\ MaxRotations \in Nat
  /\ TOKEN_MARGIN \in Nat \ {0} /\ TokenLife \in Nat /\ TokenLife > 1
BY PartsAssumption DEF M!TeamsAssumption

Stages == {"unsent", "keys", "forced", "answered", "accepted", "refused", "dropped"}
Named == Services \cup {M!None}
Fetch == [at : Nat, got : Nat]
Request ==
  [stage : Stages, activity : Activities \cup {M!None}, kid : Nat, claim : Named, named : Named, fetch : Fetch]

Waits(r) == r.stage \in {"keys", "forced"}
\* An answer brings the key of the request or a later one: the newest, unless it
\* was changed while the answer was on its way.
FetchIsSound(r) ==
  /\ r.fetch.at <= now /\ r.fetch.got <= newest
  /\ r.fetch.got # 0 => r.fetch.got >= r.kid /\ (r.fetch.got = newest \/ rotatedAt >= r.fetch.at)
PostIsSound(r) ==
  /\ r \in Request
  /\ r.kid <= newest /\ FetchIsSound(r)
  /\ Waits(r) = (r.fetch # M!NoFetch)
  /\ r.stage = "answered" => M!Vouches(r)
  /\ r.stage # "unsent" => r.activity \in Activities
PostsAreSound == post \in [Posts -> Request] /\ \A p \in Posts : PostIsSound(post[p])

\* A forced fetch is under way, or has failed, or brought the newest keys since
\* replaced by another change, or by keys that were asked for earlier.
ForcedAccounted ==
  lastForcedAt # M!Never =>
    \/ \E q \in Posts : post[q].stage = "forced" /\ post[q].fetch.at = lastForcedAt
    \/ failedAt >= lastForcedAt \/ overwritten \/ keys.newest = newest \/ rotatedAt >= lastForcedAt
KeysAreSound ==
  /\ newest \in 1..(MaxRotations + 1) /\ rotatedAt \in 0..now /\ failedAt \in 0..now /\ lastForcedAt \in 0..now
  /\ keys \in [at : Nat, newest : Nat] /\ keys.newest <= newest /\ overwritten \in BOOLEAN

TakenIsSound ==
  /\ IsFiniteSet(seen) /\ Cardinality(seen) <= SEEN /\ seen \subseteq Activities
  /\ emitted \in [Activities -> Nat]
  /\ \A a \in Activities : emitted[a] > 0 => a \in seen \cup forgotten
  /\ reference \in Named /\ {reference} \cup sentTo \subseteq vouched \cup {M!None}

\* A token in hand was issued this tick or the one before, and is dated no later
\* than it lasts.
TokenIsSound ==
  /\ bearer \in [expiresAt : Nat, issued : Nat] /\ minting \in {"idle", "asked", "issued"}
  /\ bearer.expiresAt <= bearer.issued + TokenLife
  /\ minting = "issued" => now \in {bearer.issued, bearer.issued + 1}
  /\ expired = FALSE

TeamsInv ==
  /\ now \in 1..MaxNow /\ PostsAreSound /\ KeysAreSound /\ ForcedAccounted /\ TakenIsSound /\ TokenIsSound

LEMMA TeamsStart == M!Init => TeamsInv
<1> SUFFICES ASSUME M!Init PROVE TeamsInv
  OBVIOUS
<1>1. /\ now = 1 /\ newest = 1 /\ rotatedAt = 0 /\ keys = [at |-> 0, newest |-> 0] /\ lastForcedAt = 0
      /\ failedAt = 0 /\ overwritten = FALSE /\ post = [p \in Posts |-> M!Unsent]
      /\ seen = {} /\ emitted = [a \in Activities |-> 0] /\ reference = M!None /\ vouched = {}
      /\ bearer = [expiresAt |-> 0, issued |-> 0] /\ minting = "idle" /\ sentTo = {} /\ expired = FALSE
  BY DEF M!Init, M!NoKeys, M!NoToken, M!Never
<1>2. PostIsSound(M!Unsent)
  BY <1>1 DEF PostIsSound, M!Unsent, Request, Stages, Named, Fetch, FetchIsSound, Waits, M!NoFetch, M!Never, M!Stray
<1>3. PostsAreSound
  BY <1>1, <1>2 DEF PostsAreSound, PostIsSound
<1>4. KeysAreSound
  <2>1. 1 \in 1..(MaxRotations + 1) /\ 0 \in 0..1
    BY TeamsConstants
  <2>2. keys \in [at : Nat, newest : Nat] /\ keys.newest <= newest
    BY <1>1
  <2>3. newest \in 1..(MaxRotations + 1)
    BY <1>1, <2>1
  <2>4. rotatedAt \in 0..now /\ failedAt \in 0..now /\ lastForcedAt \in 0..now
    BY <1>1, <2>1
  <2> QED
    BY <1>1, <2>2, <2>3, <2>4 DEF KeysAreSound
<1>8. ForcedAccounted
  BY <1>1 DEF ForcedAccounted, M!Never
<1>5. TakenIsSound
  BY <1>1, TeamsConstants, FS_EmptySet DEF TakenIsSound, Named
<1>6. TokenIsSound
  BY <1>1, TeamsConstants DEF TokenIsSound
<1>7. now \in 1..MaxNow
  BY <1>1, TeamsConstants
<1> QED
  BY <1>3, <1>4, <1>5, <1>6, <1>7, <1>8 DEF TeamsInv

(* A request goes to another stage, at which it waits for no fetch, or for one
   asked for now. *)
Moved(r, s, f) == [r EXCEPT !.stage = s, !.fetch = f]
JustAsked == [at |-> now, got |-> M!Never]

LEMMA Becoming ==
  ASSUME NEW r \in Request, NEW s \in Stages, NEW f \in Fetch, NEW q, q = Moved(r, s, f)
  PROVE  /\ q \in Request /\ q.stage = s /\ q.fetch = f /\ q.kid = r.kid
         /\ q.activity = r.activity /\ q.claim = r.claim /\ q.named = r.named
<1>1. q \in Request
  BY DEF Request, Moved
<1>2. q.stage = s /\ q.fetch = f
  BY DEF Request, Moved
<1>3. q.kid = r.kid /\ q.activity = r.activity /\ q.claim = r.claim /\ q.named = r.named
  BY DEF Request, Moved
<1> QED
  BY <1>1, <1>2, <1>3

LEMMA TheFetches ==
  ASSUME now \in Nat
  PROVE  /\ M!NoFetch \in Fetch /\ M!NoFetch.at = 0 /\ M!NoFetch.got = 0
         /\ JustAsked \in Fetch /\ JustAsked.at = now /\ JustAsked.got = 0
         /\ now # 0 => JustAsked # M!NoFetch
BY DEF M!NoFetch, M!Never, Fetch, JustAsked

LEMMA Settled ==
  ASSUME now \in Nat, newest \in Nat, NEW r \in Request, r.kid <= newest, r.activity \in Activities,
         NEW s \in Stages \ {"keys", "forced"}, s = "answered" => M!Vouches(r),
         NEW q, q = Moved(r, s, M!NoFetch)
  PROVE  PostIsSound(q) /\ q.stage = s /\ q.kid = r.kid /\ (M!Vouches(q) <=> M!Vouches(r))
<1>1. /\ q \in Request /\ q.stage = s /\ q.fetch = M!NoFetch /\ q.kid = r.kid
      /\ q.activity = r.activity /\ q.claim = r.claim /\ q.named = r.named
  BY TheFetches, Becoming
<1>2. M!Vouches(q) <=> M!Vouches(r)
  BY <1>1 DEF M!Vouches
<1>3. FetchIsSound(q)
  BY <1>1, TheFetches DEF FetchIsSound
<1> QED
  BY <1>1, <1>2, <1>3 DEF PostIsSound, Waits

LEMMA Waiting ==
  ASSUME now \in Nat \ {0}, newest \in Nat, NEW r \in Request, r.kid <= newest, r.activity \in Activities,
         NEW s \in {"keys", "forced"}, NEW q, q = Moved(r, s, JustAsked)
  PROVE  PostIsSound(q) /\ q.stage = s /\ q.fetch.at = now /\ q.kid = r.kid
<1>1. JustAsked \in Fetch /\ JustAsked # M!NoFetch /\ JustAsked.at = now /\ JustAsked.got = 0
  BY TheFetches
<1>2. s \in Stages
  BY DEF Stages
<1>3. /\ q \in Request /\ q.stage = s /\ q.fetch = JustAsked /\ q.kid = r.kid
      /\ q.activity = r.activity /\ q.claim = r.claim /\ q.named = r.named
  BY <1>1, <1>2, Becoming
<1>4. FetchIsSound(q)
  BY <1>1, <1>3 DEF FetchIsSound
<1> QED
  BY <1>1, <1>3, <1>4 DEF PostIsSound, Waits

LEMMA Served ==
  ASSUME NEW r \in Request, NEW n \in Nat, NEW q, q = [r EXCEPT !.fetch.got = n]
  PROVE  /\ q \in Request /\ q.stage = r.stage /\ q.kid = r.kid /\ q.activity = r.activity
         /\ q.claim = r.claim /\ q.named = r.named /\ q.fetch.at = r.fetch.at /\ q.fetch.got = n
<1>1. r.fetch \in Fetch /\ q = [r EXCEPT !.fetch = [r.fetch EXCEPT !.got = n]]
  BY DEF Request
<1>2. [r.fetch EXCEPT !.got = n] \in Fetch /\ [r.fetch EXCEPT !.got = n].at = r.fetch.at
      /\ [r.fetch EXCEPT !.got = n].got = n
  BY <1>1 DEF Fetch
<1> DEFINE g == [r.fetch EXCEPT !.got = n]
<1>3. g \in Fetch /\ g.at = r.fetch.at /\ g.got = n /\ q = [r EXCEPT !.fetch = g]
  BY <1>1, <1>2
<1> HIDE DEF g
<1>4. q \in Request /\ q.fetch = g
  BY <1>3 DEF Request
<1>5. q.stage = r.stage /\ q.kid = r.kid /\ q.activity = r.activity /\ q.claim = r.claim /\ q.named = r.named
  BY <1>3 DEF Request
<1> QED
  BY <1>3, <1>4, <1>5

LEMMA PostChanges ==
  ASSUME PostsAreSound, NEW p \in Posts, NEW q, PostIsSound(q), post' = [post EXCEPT ![p] = q],
         UNCHANGED <<now, newest, rotatedAt>>
  PROVE  PostsAreSound' /\ post'[p] = q /\ \A o \in Posts : o # p => post'[o] = post[o]
<1>1. q \in Request /\ post \in [Posts -> Request]
  BY DEF PostIsSound, PostsAreSound
<1>2. post' \in [Posts -> Request] /\ post'[p] = q /\ \A o \in Posts : o # p => post'[o] = post[o]
  BY <1>1
<1>3. ASSUME NEW r PROVE PostIsSound(r)' <=> PostIsSound(r)
  BY DEF PostIsSound, FetchIsSound, Waits, M!Vouches
<1>4. \A o \in Posts : PostIsSound(post'[o])
  BY <1>2 DEF PostsAreSound
<1>5. \A o \in Posts : PostIsSound(post[o])'
  BY <1>4 DEF PostIsSound, FetchIsSound, Waits, M!Vouches
<1> QED
  BY <1>2, <1>5 DEF PostsAreSound

(* What verification makes of request p, now r: it is q, and if q waits for a
   forced fetch, that fetch is asked for now and dated. *)
Verified(p, r, q) ==
  /\ PostIsSound(q) /\ q.kid = r.kid /\ (M!Vouches(q) <=> M!Vouches(r)) /\ post' = [post EXCEPT ![p] = q]
  /\ \/ lastForcedAt' = now /\ q.stage = "forced" /\ q.fetch.at = now
     \/ lastForcedAt' = lastForcedAt /\ q.stage # "forced"
Whole(r) == r \in Request /\ r.kid <= newest /\ r.activity \in Activities

LEMMA Moves ==
  ASSUME NEW p, NEW r, NEW s
  PROVE  /\ M!Becomes(p, r, s) <=> post' = [post EXCEPT ![p] = Moved(r, s, M!NoFetch)]
         /\ M!Awaits(p, r, s) <=> post' = [post EXCEPT ![p] = Moved(r, s, JustAsked)]
BY DEF M!Becomes, M!Awaits, Moved, JustAsked

LEMMA WaitingVouches ==
  ASSUME NEW r \in Request, NEW s \in Stages, now \in Nat
  PROVE  M!Vouches(Moved(r, s, JustAsked)) <=> M!Vouches(r)
<1>1. JustAsked \in Fetch
  BY TheFetches
<1>2. Moved(r, s, JustAsked).claim = r.claim /\ Moved(r, s, JustAsked).named = r.named
  BY <1>1, Becoming
<1> QED
  BY <1>2 DEF M!Vouches

LEMMA KeysAwaited ==
  ASSUME now \in Nat \ {0}, newest \in Nat, NEW p \in Posts, NEW r, Whole(r),
         M!Awaits(p, r, "keys"), UNCHANGED lastForcedAt
  PROVE  \E q : Verified(p, r, q) /\ q.stage # "refused"
<1> DEFINE q == Moved(r, "keys", JustAsked)
<1>1. PostIsSound(q) /\ q.stage = "keys" /\ q.kid = r.kid
  BY Waiting DEF Whole
<1>2. M!Vouches(q) <=> M!Vouches(r)
  BY WaitingVouches DEF Whole, Stages
<1>3. post' = [post EXCEPT ![p] = q]
  BY Moves
<1> HIDE DEF q
<1> QED
  BY <1>1, <1>2, <1>3 DEF Verified

LEMMA JudgedWhole ==
  ASSUME now \in Nat \ {0}, newest \in Nat, NEW p \in Posts, NEW r, Whole(r),
         M!Judged(p, r), UNCHANGED lastForcedAt
  PROVE  \E q : Verified(p, r, q) /\ (q.stage = "refused" => ~M!Vouches(q))
<1>1. PICK s \in {"answered", "refused"} :
        /\ s = "answered" <=> M!Vouches(r)
        /\ post' = [post EXCEPT ![p] = Moved(r, s, M!NoFetch)]
  BY Moves DEF M!Judged
<1> DEFINE q == Moved(r, s, M!NoFetch)
<1>2. s \in Stages \ {"keys", "forced"}
  BY DEF Stages
<1>3. PostIsSound(q) /\ q.stage = s /\ q.kid = r.kid /\ (M!Vouches(q) <=> M!Vouches(r))
  BY <1>1, <1>2, Settled DEF Whole
<1>4. post' = [post EXCEPT ![p] = q]
  BY <1>1
<1> HIDE DEF q
<1> QED
  BY <1>1, <1>3, <1>4 DEF Verified

LEMMA ForcedOrRefused ==
  ASSUME now \in Nat \ {0}, newest \in Nat, NEW p \in Posts, NEW r, Whole(r), M!Forced(p, r)
  PROVE  \E q : Verified(p, r, q) /\ (q.stage = "refused" => ~M!MayForce)
<1>1. CASE M!MayForce
  <2> DEFINE q == Moved(r, "forced", JustAsked)
  <2>1. lastForcedAt' = now /\ post' = [post EXCEPT ![p] = q]
    BY <1>1, Moves DEF M!Forced
  <2>2. PostIsSound(q) /\ q.stage = "forced" /\ q.fetch.at = now /\ q.kid = r.kid
    BY Waiting DEF Whole
  <2>3. M!Vouches(q) <=> M!Vouches(r)
    BY WaitingVouches DEF Whole, Stages
  <2> HIDE DEF q
  <2> QED
    BY <2>1, <2>2, <2>3 DEF Verified
<1>2. CASE ~M!MayForce
  <2> DEFINE q == Moved(r, "refused", M!NoFetch)
  <2>1. lastForcedAt' = lastForcedAt /\ post' = [post EXCEPT ![p] = q]
    BY <1>2, Moves DEF M!Forced
  <2>2. PostIsSound(q) /\ q.stage = "refused" /\ q.kid = r.kid /\ (M!Vouches(q) <=> M!Vouches(r))
    BY Settled DEF Whole, Stages
  <2> HIDE DEF q
  <2> QED
    BY <1>2, <2>1, <2>2 DEF Verified
<1> QED
  BY <1>1, <1>2

LEMMA ReturnedTo ==
  ASSUME now \in Nat \ {0}, newest \in Nat, NEW p \in Posts, NEW k, Whole(post[p]), M!Returned(p, k)
  PROVE  \E q : Verified(p, post[p], q) /\ (q.stage = "refused" => ~M!Vouches(q) \/ ~M!Holds(k, post[p].kid))
<1>1. CASE M!Holds(k, post[p].kid)
  BY <1>1, JudgedWhole DEF M!Returned
<1>2. CASE ~M!Holds(k, post[p].kid) /\ post[p].stage = "keys"
  BY <1>2, ForcedOrRefused DEF M!Returned
<1>3. CASE ~M!Holds(k, post[p].kid) /\ post[p].stage # "keys"
  <2> DEFINE q == Moved(post[p], "refused", M!NoFetch)
  <2>1. lastForcedAt' = lastForcedAt /\ post' = [post EXCEPT ![p] = q]
    BY <1>3, Moves DEF M!Returned
  <2>2. PostIsSound(q) /\ q.stage = "refused" /\ q.kid = post[p].kid /\ (M!Vouches(q) <=> M!Vouches(post[p]))
    BY Settled DEF Whole, Stages
  <2> HIDE DEF q
  <2> QED
    BY <1>3, <2>1, <2>2 DEF Verified
<1> QED
  BY <1>1, <1>2, <1>3

AsPosted(u, a, kid, claim, named) ==
  [u EXCEPT !.activity = a, !.kid = kid, !.claim = claim, !.named = named]

LEMMA ANewRequest ==
  ASSUME NEW u \in Request, NEW a \in Activities, NEW kid \in Nat, NEW claim \in Named, NEW named \in Named,
         NEW r, r = AsPosted(u, a, kid, claim, named)
  PROVE  r \in Request /\ r.kid = kid /\ r.activity = a
<1>1. r \in Request
  BY DEF Request, AsPosted
<1>2. r.kid = kid
  BY DEF Request, AsPosted
<1>3. r.activity = a
  BY DEF Request, AsPosted
<1> QED
  BY <1>1, <1>2, <1>3

LEMMA Arrived ==
  ASSUME now \in Nat \ {0}, newest \in Nat, NEW p \in Posts, NEW a \in Activities, NEW kid \in 0..newest,
         NEW claim \in Services, NEW named \in Services \cup {M!None}, M!Arrive(p, a, kid, claim, named)
  PROVE  \E q, r : /\ Verified(p, r, q) /\ r.kid = kid
                   /\ (q.stage = "refused" => ~M!Vouches(q) \/ (~M!Holds(keys, kid) /\ ~M!MayForce))
<1> DEFINE r == AsPosted(M!Unsent, a, kid, claim, named)
<1>1. M!Unsent \in Request
  BY DEF M!Unsent, Request, Stages, Named, Fetch, M!NoFetch, M!Never, M!Stray
<1>2. Whole(r) /\ r.kid = kid
  <2>1. kid \in Nat /\ claim \in Named /\ named \in Named
    BY DEF Named
  <2>2. r \in Request /\ r.kid = kid /\ r.activity = a
    BY <1>1, <2>1, ANewRequest
  <2> QED
    BY <2>2 DEF Whole
<1>3. IF ~M!Fresh THEN M!Awaits(p, r, "keys") /\ UNCHANGED lastForcedAt
      ELSE IF M!Holds(keys, kid) THEN M!Judged(p, r) /\ UNCHANGED lastForcedAt
      ELSE M!Forced(p, r)
  BY DEF M!Arrive, AsPosted
<1> HIDE DEF r
<1>4. \E q : /\ Verified(p, r, q)
             /\ (q.stage = "refused" => ~M!Vouches(q) \/ (~M!Holds(keys, kid) /\ ~M!MayForce))
  BY <1>2, <1>3, KeysAwaited, JudgedWhole, ForcedOrRefused
<1> QED
  BY <1>2, <1>4

LEMMA TeamsNumbers ==
  ASSUME TeamsInv
  PROVE  /\ now \in Nat \ {0} /\ newest \in Nat \ {0} /\ rotatedAt \in Nat /\ failedAt \in Nat /\ lastForcedAt \in Nat
         /\ rotatedAt <= now /\ failedAt <= now /\ lastForcedAt <= now
         /\ keys.newest \in Nat /\ keys.newest <= newest /\ overwritten \in BOOLEAN
<1>1. now \in Nat \ {0} /\ newest \in Nat \ {0}
  BY TeamsConstants DEF TeamsInv, KeysAreSound
<1> QED
  BY <1>1 DEF TeamsInv, KeysAreSound

LEMMA RequestFields ==
  ASSUME TeamsInv, NEW p \in Posts
  PROVE  /\ post[p] \in Request /\ post[p].kid \in Nat /\ post[p].kid <= newest
         /\ post[p].fetch.at \in Nat /\ post[p].fetch.at <= now
         /\ post[p].fetch.got \in Nat /\ post[p].fetch.got <= newest
         /\ post[p].stage # "unsent" => Whole(post[p])
<1>1. PostIsSound(post[p]) /\ post[p] \in Request
  BY DEF TeamsInv, PostsAreSound
<1>2. post[p].fetch \in Fetch /\ post[p].kid \in Nat
  BY <1>1 DEF Request
<1>3. post[p].fetch.at \in Nat /\ post[p].fetch.got \in Nat
  BY <1>2 DEF Fetch
<1> QED
  BY <1>1, <1>2, <1>3 DEF PostIsSound, FetchIsSound, Whole

(* What of the rest a step may leave as it was. *)
LEMMA TakenKept ==
  ASSUME TakenIsSound, UNCHANGED <<seen, emitted, forgotten, reference, vouched, sentTo>>
  PROVE  TakenIsSound'
BY DEF TakenIsSound

LEMMA TokenKept ==
  ASSUME TokenIsSound, UNCHANGED <<now, bearer, minting, expired>>
  PROVE  TokenIsSound'
BY DEF TokenIsSound

LEMMA RestKept ==
  ASSUME TeamsInv, UNCHANGED <<now, M!takenVars, M!tokenVars>>
  PROVE  now' \in 1..MaxNow /\ TakenIsSound' /\ TokenIsSound'
<1>1. UNCHANGED <<seen, emitted, forgotten, reference, vouched, sentTo, now, bearer, minting, expired>>
  BY DEF M!takenVars, M!tokenVars
<1>2. TakenIsSound'
  BY <1>1, TakenKept DEF TeamsInv
<1>3. TokenIsSound'
  BY <1>1, TokenKept DEF TeamsInv
<1> QED
  BY <1>1, <1>2, <1>3 DEF TeamsInv

\* A forced fetch that is under way accounts for itself.
LEMMA AccountedBy ==
  ASSUME NEW q \in Posts, post'[q].stage = "forced", post'[q].fetch.at = lastForcedAt'
  PROVE  ForcedAccounted'
BY DEF ForcedAccounted

LEMMA ArriveStep ==
  ASSUME TeamsInv, NEW p \in Posts, NEW a \in Activities, NEW kid \in {newest, M!Stray},
         NEW claim \in Services, NEW named \in Services \cup {M!None}, M!Arrive(p, a, kid, claim, named)
  PROVE  TeamsInv'
<1>1. /\ post[p] = M!Unsent
      /\ UNCHANGED <<now, newest, rotatedAt, keys, failedAt, overwritten, M!takenVars, M!tokenVars>>
  BY DEF M!Arrive
<1>2. kid \in 0..newest
  BY TeamsNumbers DEF M!Stray
<1>3. PICK q, r : Verified(p, r, q)
  BY <1>2, TeamsNumbers, Arrived
<1>4. PostsAreSound' /\ post'[p] = q /\ \A o \in Posts : o # p => post'[o] = post[o]
  BY <1>1, <1>3, PostChanges DEF Verified, TeamsInv
<1>5. lastForcedAt' \in 0..now
  BY <1>3, TeamsNumbers DEF Verified
<1>6. KeysAreSound'
  BY <1>1, <1>5 DEF TeamsInv, KeysAreSound
<1>7. ForcedAccounted'
  <2>1. CASE lastForcedAt' = now /\ q.stage = "forced" /\ q.fetch.at = now
    BY <1>4, <2>1, AccountedBy
  <2>2. CASE lastForcedAt' = lastForcedAt
    <3>1. ASSUME NEW o \in Posts, post[o].stage = "forced", post[o].fetch.at = lastForcedAt PROVE ForcedAccounted'
      <4>1. o # p
        BY <1>1, <3>1 DEF M!Unsent
      <4> QED
        BY <1>4, <2>2, <3>1, <4>1, AccountedBy
    <3> QED
      BY <1>1, <2>2, <3>1 DEF TeamsInv, ForcedAccounted
  <2> QED
    BY <1>3, <2>1, <2>2 DEF Verified
<1> QED
  BY <1>1, <1>4, <1>6, <1>7, RestKept DEF TeamsInv

LEMMA ServeStep ==
  ASSUME TeamsInv, NEW p \in Posts, M!Serve(p)
  PROVE  TeamsInv'
<1>1. /\ Waits(post[p]) /\ post[p].fetch.got = 0 /\ post' = [post EXCEPT ![p].fetch.got = newest]
      /\ UNCHANGED <<now, newest, rotatedAt, keys, lastForcedAt, failedAt, overwritten, M!takenVars, M!tokenVars>>
  BY DEF M!Serve, M!Fetching, Waits, M!Never, M!keysVars
<1> DEFINE q == [post[p] EXCEPT !.fetch.got = newest]
<1>2. /\ q \in Request /\ q.stage = post[p].stage /\ q.kid = post[p].kid /\ q.activity = post[p].activity
      /\ q.claim = post[p].claim /\ q.named = post[p].named /\ q.fetch.at = post[p].fetch.at
      /\ q.fetch.got = newest
  BY RequestFields, TeamsNumbers, Served
<1>3. post' = [post EXCEPT ![p] = q]
  BY <1>1
<1> HIDE DEF q
<1>4. PostIsSound(q)
  <2>1. FetchIsSound(q)
    BY <1>2, RequestFields, TeamsNumbers DEF FetchIsSound
  <2>2. q.fetch # M!NoFetch
    BY <1>2, TeamsNumbers DEF M!NoFetch, M!Never
  <2>3. Waits(q) /\ q.stage # "answered" /\ q.stage # "unsent"
    BY <1>1, <1>2 DEF Waits
  <2>4. q.activity \in Activities
    BY <1>1, <1>2, RequestFields DEF Whole, Waits
  <2> QED
    BY <1>2, <2>1, <2>2, <2>3, <2>4, RequestFields DEF PostIsSound
<1>5. PostsAreSound' /\ post'[p] = q /\ \A o \in Posts : o # p => post'[o] = post[o]
  BY <1>1, <1>3, <1>4, PostChanges DEF TeamsInv
<1>6. KeysAreSound'
  BY <1>1 DEF TeamsInv, KeysAreSound
<1>7. ForcedAccounted'
  <2>1. \A o \in Posts : post'[o].stage = post[o].stage /\ post'[o].fetch.at = post[o].fetch.at
    BY <1>2, <1>5
  <2> QED
    BY <1>1, <2>1 DEF TeamsInv, ForcedAccounted
<1> QED
  BY <1>1, <1>5, <1>6, <1>7, RestKept DEF TeamsInv

\* A request that awaits its keys is given what there is.
LEMMA ReturnedStep ==
  ASSUME TeamsInv, NEW p \in Posts, Waits(post[p]), NEW k, M!Returned(p, k), UNCHANGED <<now, newest, rotatedAt>>
  PROVE  /\ PostsAreSound' /\ lastForcedAt' \in 0..now
         /\ \A o \in Posts : o # p => post'[o] = post[o]
         /\ \/ lastForcedAt' = lastForcedAt
            \/ lastForcedAt' = now /\ ForcedAccounted'
<1>1. Whole(post[p])
  BY RequestFields DEF Waits
<1>2. PICK q : Verified(p, post[p], q)
  BY <1>1, TeamsNumbers, ReturnedTo
<1>3. PostsAreSound' /\ post'[p] = q /\ \A o \in Posts : o # p => post'[o] = post[o]
  BY <1>2, PostChanges DEF Verified, TeamsInv
<1>4. CASE lastForcedAt' = now /\ q.stage = "forced" /\ q.fetch.at = now
  <2>1. ForcedAccounted'
    BY <1>3, <1>4, AccountedBy
  <2> QED
    BY <1>3, <1>4, <2>1, TeamsNumbers
<1>5. CASE lastForcedAt' = lastForcedAt
  BY <1>3, <1>5, TeamsNumbers
<1> QED
  BY <1>2, <1>4, <1>5 DEF Verified

LEMMA LandStep ==
  ASSUME TeamsInv, NEW p \in Posts, M!Land(p)
  PROVE  TeamsInv'
<1> DEFINE at == post[p].fetch.at
           got == post[p].fetch.got
<1>1. /\ Waits(post[p]) /\ got # 0 /\ keys' = [at |-> at, newest |-> got]
      /\ overwritten' = (overwritten \/ keys'.newest < keys.newest)
      /\ M!Returned(p, keys')
      /\ UNCHANGED <<now, newest, rotatedAt, failedAt, M!takenVars, M!tokenVars>>
  BY DEF M!Land, M!Fetching, Waits, M!Never
<1>2. at \in Nat /\ got \in Nat /\ got <= newest
  BY RequestFields
<1>3. keys'.newest = got /\ keys' \in [at : Nat, newest : Nat]
  BY <1>1, <1>2
<1>4. /\ PostsAreSound' /\ lastForcedAt' \in 0..now
      /\ \A o \in Posts : o # p => post'[o] = post[o]
      /\ \/ lastForcedAt' = lastForcedAt
         \/ lastForcedAt' = now /\ ForcedAccounted'
  BY <1>1, ReturnedStep
<1>5. PostIsSound(post[p])
  BY DEF TeamsInv, PostsAreSound
<1>6. got = newest \/ rotatedAt >= at
  BY <1>1, <1>5 DEF PostIsSound, FetchIsSound
<1> HIDE DEF at, got
<1>7. KeysAreSound'
  BY <1>1, <1>2, <1>3, <1>4, TeamsNumbers DEF TeamsInv, KeysAreSound
<1>8. ForcedAccounted'
  <2>1. CASE lastForcedAt' = lastForcedAt /\ lastForcedAt # M!Never
    <3>1. CASE failedAt >= lastForcedAt \/ overwritten \/ rotatedAt >= lastForcedAt
      BY <1>1, <2>1, <3>1 DEF ForcedAccounted
    <3>2. CASE keys.newest = newest
      <4>1. keys'.newest < keys.newest \/ keys'.newest = newest
        BY <1>2, <1>3, <3>2, TeamsNumbers
      <4> QED
        BY <1>1, <4>1 DEF ForcedAccounted
    <3>3. CASE post[p].stage = "forced" /\ at = lastForcedAt
      BY <1>1, <1>3, <1>6, <2>1, <3>3 DEF ForcedAccounted
    <3>4. ASSUME NEW q \in Posts, q # p, post[q].stage = "forced", post[q].fetch.at = lastForcedAt
          PROVE  ForcedAccounted'
      BY <1>4, <2>1, <3>4, AccountedBy
    <3> QED
      BY <2>1, <3>1, <3>2, <3>3, <3>4 DEF TeamsInv, ForcedAccounted, at
  <2>2. CASE lastForcedAt' = M!Never
    BY <2>2 DEF ForcedAccounted
  <2> QED
    BY <1>4, <2>1, <2>2
<1> QED
  BY <1>1, <1>4, <1>7, <1>8, RestKept DEF TeamsInv

LEMMA FetchFailsStep ==
  ASSUME TeamsInv, NEW p \in Posts, M!FetchFails(p)
  PROVE  TeamsInv'
<1>1. /\ Waits(post[p]) /\ failedAt' = now /\ M!Returned(p, keys)
      /\ UNCHANGED <<now, newest, rotatedAt, keys, overwritten, M!takenVars, M!tokenVars>>
  BY DEF M!FetchFails, M!Fetching, Waits
<1>2. PostsAreSound' /\ lastForcedAt' \in 0..now
  BY <1>1, ReturnedStep
<1>3. KeysAreSound'
  BY <1>1, <1>2, TeamsNumbers DEF TeamsInv, KeysAreSound
<1>4. ForcedAccounted'
  BY <1>1, <1>2 DEF ForcedAccounted
<1> QED
  BY <1>1, <1>2, <1>3, <1>4, RestKept DEF TeamsInv

LEMMA AcceptStep ==
  ASSUME TeamsInv, NEW p \in Posts, M!Accept(p)
  PROVE  TeamsInv'
<1> DEFINE a == post[p].activity
           full == M!Cardinality(seen \cup {a}) > SEEN
<1>1. /\ post[p].stage = "answered" /\ M!Becomes(p, post[p], "accepted")
      /\ reference' = post[p].named /\ vouched' = vouched \cup {post[p].claim}
      /\ IF a \notin seen
           THEN /\ emitted' = [emitted EXCEPT ![a] = @ + 1]
                /\ seen' = IF full THEN {} ELSE seen \cup {a}
                /\ forgotten' = IF full THEN seen \cup {a} \cup forgotten ELSE forgotten \ {a}
           ELSE UNCHANGED <<seen, emitted, forgotten>>
      /\ UNCHANGED <<now, newest, rotatedAt, keys, lastForcedAt, failedAt, overwritten, sentTo, bearer, minting, expired>>
  BY DEF M!Accept, M!New, M!keysVars, M!tokenVars
<1>2. Whole(post[p]) /\ post[p].named \in Named /\ M!Vouches(post[p])
  BY <1>1, RequestFields DEF TeamsInv, PostsAreSound, PostIsSound, Request
<1> DEFINE q == Moved(post[p], "accepted", M!NoFetch)
<1>3. PostIsSound(q) /\ q.stage = "accepted" /\ post' = [post EXCEPT ![p] = q]
  BY <1>1, <1>2, TeamsNumbers, Settled, Moves DEF Stages, Whole
<1> HIDE DEF q
<1>4. PostsAreSound' /\ post'[p] = q /\ \A o \in Posts : o # p => post'[o] = post[o]
  BY <1>1, <1>3, PostChanges DEF TeamsInv
<1>5. KeysAreSound'
  BY <1>1 DEF TeamsInv, KeysAreSound
<1>6. ForcedAccounted'
  <2>1. \A o \in Posts : post[o].stage = "forced" => post'[o] = post[o]
    BY <1>1, <1>4
  <2> QED
    BY <1>1, <2>1 DEF TeamsInv, ForcedAccounted
<1>7. a \in Activities
  BY <1>2 DEF Whole
<1> HIDE DEF a, full
<1>8. TakenIsSound'
  <2>1. IsFiniteSet(seen) /\ Cardinality(seen) <= SEEN /\ seen \subseteq Activities /\ emitted \in [Activities -> Nat]
        /\ \A b \in Activities : emitted[b] > 0 => b \in seen \cup forgotten
    BY DEF TeamsInv, TakenIsSound
  <2>2. reference' \in Named /\ {reference'} \cup sentTo' \subseteq vouched' \cup {M!None}
    BY <1>1, <1>2 DEF TeamsInv, TakenIsSound, M!Vouches
  <2>3. CASE a \in seen
    BY <1>1, <2>1, <2>2, <2>3 DEF TakenIsSound
  <2>4. CASE a \notin seen
    <3>1. /\ emitted' = [emitted EXCEPT ![a] = emitted[a] + 1]
          /\ seen' = IF full THEN {} ELSE seen \cup {a}
          /\ forgotten' = IF full THEN seen \cup {a} \cup forgotten ELSE forgotten \ {a}
      BY <1>1, <2>4
    <3>2. emitted' \in [Activities -> Nat] /\ \A b \in Activities : b # a => emitted'[b] = emitted[b]
      BY <1>7, <2>1, <3>1
    <3>3. \A b \in Activities : emitted'[b] > 0 => b \in seen' \cup forgotten'
      <4> SUFFICES ASSUME NEW b \in Activities, emitted'[b] > 0 PROVE b \in seen' \cup forgotten'
        OBVIOUS
      <4>1. b = a \/ b \in seen \cup forgotten
        BY <2>1, <3>2
      <4> QED
        BY <3>1, <4>1
    <3>4. IsFiniteSet(seen') /\ Cardinality(seen') <= SEEN /\ seen' \subseteq Activities
      <4>1. CASE full
        BY <3>1, <4>1, FS_EmptySet, TeamsConstants
      <4>2. CASE ~full
        <5>1. IsFiniteSet(seen \cup {a}) /\ Cardinality(seen \cup {a}) \in Nat
          BY <2>1, FS_AddElement, FS_CardinalityType
        <5>2. Cardinality(seen \cup {a}) <= SEEN
          BY <4>2, <5>1, TeamsConstants DEF full, M!Cardinality, Cardinality
        <5> QED
          BY <1>7, <2>1, <3>1, <4>2, <5>1, <5>2
      <4> QED
        BY <4>1, <4>2
    <3> QED
      BY <2>2, <3>2, <3>3, <3>4 DEF TakenIsSound
  <2> QED
    BY <2>3, <2>4
<1>9. TokenIsSound'
  BY <1>1, TokenKept DEF TeamsInv
<1> QED
  BY <1>1, <1>4, <1>5, <1>6, <1>8, <1>9 DEF TeamsInv

(* What a step that touches neither the requests nor the keys leaves as it was. *)
LEMMA RequestsKept ==
  ASSUME TeamsInv, UNCHANGED <<now, post, M!keysVars>>
  PROVE  now' \in 1..MaxNow /\ PostsAreSound' /\ KeysAreSound' /\ ForcedAccounted'
<1>1. UNCHANGED <<now, post, newest, rotatedAt, keys, lastForcedAt, failedAt, overwritten>>
  BY DEF M!keysVars
<1>2. PostsAreSound'
  BY <1>1 DEF TeamsInv, PostsAreSound, PostIsSound, FetchIsSound, Waits, M!Vouches
<1>3. KeysAreSound' /\ ForcedAccounted'
  BY <1>1 DEF TeamsInv, KeysAreSound, ForcedAccounted
<1> QED
  BY <1>1, <1>2, <1>3 DEF TeamsInv

LEMMA TokenNumbers ==
  ASSUME TeamsInv
  PROVE  /\ bearer.expiresAt \in Nat /\ bearer.issued \in Nat /\ bearer.expiresAt <= bearer.issued + TokenLife
         /\ minting = "issued" => now \in {bearer.issued, bearer.issued + 1}
         /\ expired = FALSE
BY DEF TeamsInv, TokenIsSound

\* What is sent now, under a token issued then, goes where it may, and the token lives.
LEMMA SentNow ==
  ASSUME TeamsInv, NEW issued \in Nat, now < issued + TokenLife, M!Posted(issued),
         UNCHANGED <<seen, emitted, forgotten, reference, vouched>>
  PROVE  TakenIsSound' /\ expired' = FALSE
<1>1. sentTo' = sentTo \cup {reference} /\ expired' = (expired \/ now >= issued + TokenLife)
  BY DEF M!Posted
<1>2. expired' = FALSE
  <2>1. ~(now >= issued + TokenLife)
    BY TeamsNumbers, TeamsConstants
  <2>2. expired = FALSE
    BY TokenNumbers
  <2> QED
    BY ONLY <1>1, <2>1, <2>2
<1> QED
  BY <1>1, <1>2 DEF TeamsInv, TakenIsSound

LEMMA SendStep ==
  ASSUME TeamsInv, M!Send
  PROVE  TeamsInv'
<1>1. /\ UNCHANGED <<now, post, M!keysVars, seen, emitted, reference, forgotten, vouched, bearer>>
      /\ \/ M!TokenFresh /\ M!Posted(bearer.issued) /\ UNCHANGED minting
         \/ minting = "idle" /\ minting' = "asked" /\ UNCHANGED <<sentTo, expired>>
  BY DEF M!Send, M!takenVars
<1>2. now' \in 1..MaxNow /\ PostsAreSound' /\ KeysAreSound' /\ ForcedAccounted'
  BY <1>1, RequestsKept
<1>3. CASE M!TokenFresh /\ M!Posted(bearer.issued) /\ UNCHANGED minting
  <2>1. now < bearer.issued + TokenLife
    BY <1>3, TokenNumbers, TeamsNumbers, TeamsConstants DEF M!TokenFresh
  <2>2. TakenIsSound' /\ expired' = FALSE
    BY <1>1, <1>3, <2>1, TokenNumbers, SentNow
  <2>3. TokenIsSound'
    BY <1>1, <1>3, <2>2 DEF TeamsInv, TokenIsSound
  <2> QED
    BY <1>2, <2>2, <2>3 DEF TeamsInv
<1>4. CASE minting = "idle" /\ minting' = "asked" /\ UNCHANGED <<sentTo, expired>>
  <2>1. TakenIsSound'
    BY <1>1, <1>4, TakenKept DEF TeamsInv
  <2>2. TokenIsSound'
    BY <1>1, <1>4 DEF TeamsInv, TokenIsSound
  <2> QED
    BY <1>2, <2>1, <2>2 DEF TeamsInv
<1> QED
  BY <1>1, <1>3, <1>4

LEMMA MintStep ==
  ASSUME TeamsInv, M!Issue \/ M!MintFails
  PROVE  TeamsInv'
<1>1. /\ UNCHANGED <<now, post, M!keysVars, seen, emitted, reference, forgotten, vouched, sentTo, expired>>
      /\ \/ minting' = "issued" /\ bearer' = [expiresAt |-> 0, issued |-> now]
         \/ minting' = "idle" /\ bearer' = [expiresAt |-> 0, issued |-> 0]
  BY DEF M!Issue, M!MintFails, M!takenVars, M!NoToken, M!Never
<1>2. now' \in 1..MaxNow /\ PostsAreSound' /\ KeysAreSound' /\ ForcedAccounted'
  BY <1>1, RequestsKept
<1>3. TakenIsSound'
  BY <1>1, TakenKept DEF TeamsInv
<1>4. PICK n \in Nat : /\ bearer' = [expiresAt |-> 0, issued |-> n] /\ minting' \in {"issued", "idle"}
                       /\ minting' = "issued" => n = now
  BY <1>1, TeamsNumbers
<1>5. bearer' \in [expiresAt : Nat, issued : Nat] /\ bearer'.expiresAt = 0 /\ bearer'.issued = n
  BY <1>4
<1>6. TokenIsSound'
  BY <1>1, <1>4, <1>5, TokenNumbers, TeamsConstants DEF TokenIsSound
<1> QED
  BY <1>2, <1>3, <1>6 DEF TeamsInv

LEMMA MintedStep ==
  ASSUME TeamsInv, M!Minted
  PROVE  TeamsInv'
<1>1. /\ UNCHANGED <<now, post, M!keysVars, seen, emitted, reference, forgotten, vouched>>
      /\ minting = "issued" /\ minting' = "idle" /\ bearer' = [bearer EXCEPT !.expiresAt = M!Expiry]
      /\ M!Posted(bearer.issued)
  BY DEF M!Minted, M!takenVars
<1>2. now' \in 1..MaxNow /\ PostsAreSound' /\ KeysAreSound' /\ ForcedAccounted'
  BY <1>1, RequestsKept
<1>3. now < bearer.issued + TokenLife
  BY <1>1, TokenNumbers, TeamsNumbers, TeamsConstants
<1>4. TakenIsSound' /\ expired' = FALSE
  BY <1>1, <1>3, TokenNumbers, SentNow
<1>5. M!Expiry \in Nat /\ M!Expiry <= bearer.issued + TokenLife
  BY <1>1, TokenNumbers, TeamsNumbers, TeamsConstants DEF M!Expiry
<1> DEFINE e == M!Expiry
<1> HIDE DEF e
<1>6. /\ bearer' \in [expiresAt : Nat, issued : Nat] /\ bearer'.issued = bearer.issued
      /\ bearer'.expiresAt <= bearer.issued + TokenLife
  <2>1. bearer \in [expiresAt : Nat, issued : Nat] /\ e \in Nat /\ e <= bearer.issued + TokenLife
    BY <1>5 DEF TeamsInv, TokenIsSound, e
  <2>2. bearer' = [bearer EXCEPT !.expiresAt = e]
    BY <1>1 DEF e
  <2> QED
    BY ONLY <2>1, <2>2
<1>7. TokenIsSound'
  BY <1>1, <1>4, <1>6 DEF TokenIsSound
<1> QED
  BY <1>2, <1>4, <1>7 DEF TeamsInv

LEMMA RotateStep ==
  ASSUME TeamsInv, M!Rotate
  PROVE  TeamsInv'
<1>1. /\ newest <= MaxRotations /\ newest' = newest + 1 /\ rotatedAt' = now
      /\ UNCHANGED <<now, post, keys, lastForcedAt, failedAt, overwritten, M!takenVars, M!tokenVars>>
  BY DEF M!Rotate
<1>2. ASSUME NEW p \in Posts PROVE PostIsSound(post[p])'
  <2>1. PostIsSound(post[p])
    BY DEF TeamsInv, PostsAreSound
  <2>2. FetchIsSound(post[p])' /\ post[p].kid <= newest'
    BY <1>1, <2>1, RequestFields, TeamsNumbers DEF PostIsSound, FetchIsSound
  <2> QED
    BY <1>1, <2>1, <2>2 DEF PostIsSound, Waits, M!Vouches
<1>3. PostsAreSound'
  BY <1>1, <1>2 DEF TeamsInv, PostsAreSound
<1>4. KeysAreSound'
  BY <1>1, TeamsNumbers, TeamsConstants DEF TeamsInv, KeysAreSound
<1>5. ForcedAccounted'
  BY <1>1, TeamsNumbers DEF ForcedAccounted
<1> QED
  BY <1>1, <1>3, <1>4, <1>5, RestKept DEF TeamsInv

LEMMA TickStep ==
  ASSUME TeamsInv, M!Tick
  PROVE  TeamsInv'
<1>1. /\ now < MaxNow /\ now' = now + 1
      /\ minting = "issued" => bearer.issued = now
      /\ UNCHANGED <<post, newest, rotatedAt, keys, lastForcedAt, failedAt, overwritten, bearer, minting, expired,
                     seen, emitted, forgotten, reference, vouched, sentTo>>
  BY DEF M!Tick, M!keysVars, M!takenVars, M!tokenVars
<1>2. ASSUME NEW p \in Posts PROVE PostIsSound(post[p])'
  <2>1. PostIsSound(post[p])
    BY DEF TeamsInv, PostsAreSound
  <2>2. FetchIsSound(post[p])'
    BY <1>1, <2>1, RequestFields, TeamsNumbers DEF PostIsSound, FetchIsSound
  <2> QED
    BY <1>1, <2>1, <2>2 DEF PostIsSound, Waits, M!Vouches
<1>3. PostsAreSound'
  BY <1>1, <1>2 DEF TeamsInv, PostsAreSound
<1>4. KeysAreSound'
  BY <1>1, TeamsNumbers DEF TeamsInv, KeysAreSound
<1>5. ForcedAccounted'
  BY <1>1 DEF TeamsInv, ForcedAccounted
<1>6. TakenIsSound'
  BY <1>1, TakenKept DEF TeamsInv
<1>7. TokenIsSound'
  BY <1>1, TokenNumbers DEF TeamsInv, TokenIsSound
<1>8. now' \in 1..MaxNow
  BY <1>1, TeamsConstants DEF TeamsInv
<1> QED
  BY <1>3, <1>4, <1>5, <1>6, <1>7, <1>8 DEF TeamsInv

LEMMA RestartStep ==
  ASSUME TeamsInv, M!Restart
  PROVE  TeamsInv'
<1>1. /\ keys' = [at |-> 0, newest |-> 0] /\ lastForcedAt' = 0
      /\ post' = [p \in Posts |-> IF Waits(post[p]) \/ post[p].stage = "answered"
                                  THEN Moved(post[p], "dropped", M!NoFetch) ELSE post[p]]
      /\ seen' = {} /\ forgotten' = Activities
      /\ bearer' = [expiresAt |-> 0, issued |-> 0] /\ minting' = "idle"
      /\ UNCHANGED <<now, newest, rotatedAt, failedAt, overwritten, emitted, reference, vouched, sentTo, expired>>
  BY DEF M!Restart, M!NoKeys, M!NoToken, M!Never, M!Fetching, Waits, Moved
<1>2. ASSUME NEW p \in Posts PROVE PostIsSound(post'[p])
  <2>1. CASE Waits(post[p]) \/ post[p].stage = "answered"
    <3>1. Whole(post[p])
      BY <2>1, RequestFields DEF Waits
    <3>2. post'[p] = Moved(post[p], "dropped", M!NoFetch)
      BY <1>1, <2>1
    <3> QED
      BY <3>1, <3>2, TeamsNumbers, Settled DEF Stages, Whole
  <2>2. CASE ~(Waits(post[p]) \/ post[p].stage = "answered")
    BY <1>1, <2>2 DEF TeamsInv, PostsAreSound
  <2> QED
    BY <2>1, <2>2
<1>3. PostsAreSound'
  <2>1. post' \in [Posts -> Request]
    BY <1>1, <1>2 DEF PostIsSound
  <2>2. \A p \in Posts : PostIsSound(post[p])'
    BY <1>1, <1>2 DEF PostIsSound, FetchIsSound, Waits, M!Vouches
  <2> QED
    BY <2>1, <2>2 DEF PostsAreSound
<1>4. KeysAreSound'
  <2>1. keys' \in [at : Nat, newest : Nat] /\ keys'.newest = 0 /\ lastForcedAt' \in 0..now
    BY <1>1, TeamsNumbers
  <2> QED
    BY <1>1, <2>1, TeamsNumbers DEF TeamsInv, KeysAreSound
<1>5. ForcedAccounted'
  BY <1>1 DEF ForcedAccounted, M!Never
<1>6. TakenIsSound'
  BY <1>1, FS_EmptySet, TeamsConstants DEF TeamsInv, TakenIsSound
<1>7. TokenIsSound'
  BY <1>1, TokenNumbers, TeamsConstants DEF TokenIsSound
<1> QED
  BY <1>1, <1>3, <1>4, <1>5, <1>6, <1>7 DEF TeamsInv

LEMMA TeamsStep == TeamsInv /\ [M!Next]_(M!teamsVars) => TeamsInv'
<1> SUFFICES ASSUME TeamsInv, [M!Next]_(M!teamsVars) PROVE TeamsInv'
  OBVIOUS
<1>1. ASSUME NEW p \in Posts, NEW a \in Activities, NEW claim \in Services, NEW named \in Services \cup {M!None},
             M!Arrive(p, a, newest, claim, named) \/ M!Arrive(p, a, M!Stray, claim, named)
      PROVE  TeamsInv'
  BY <1>1, ArriveStep
<1>2. ASSUME NEW p \in Posts, M!Serve(p) \/ M!Land(p) \/ M!FetchFails(p) \/ M!Accept(p) PROVE TeamsInv'
  BY <1>2, ServeStep, LandStep, FetchFailsStep, AcceptStep
<1>3. CASE M!Send \/ M!Issue \/ M!Minted \/ M!MintFails
  BY <1>3, SendStep, MintStep, MintedStep
<1>4. CASE M!Rotate \/ M!Tick \/ M!Restart
  BY <1>4, RotateStep, TickStep, RestartStep
<1>5. CASE UNCHANGED M!teamsVars
  <2>1. UNCHANGED <<now, post, M!keysVars, M!takenVars, M!tokenVars>>
    BY <1>5 DEF M!teamsVars
  <2> QED
    BY <2>1, RestKept, RequestsKept DEF TeamsInv
<1> QED
  BY <1>1, <1>2, <1>3, <1>4, <1>5 DEF M!Next

LEMMA TeamsPromise == TeamsInv => M!TypeOK /\ M!GoesWhereVouched /\ M!TokenIsLive
<1> SUFFICES ASSUME TeamsInv PROVE M!TypeOK /\ M!GoesWhereVouched /\ M!TokenIsLive
  OBVIOUS
<1>1. ASSUME NEW p \in Posts
      PROVE  /\ post[p].stage \in {"unsent", "keys", "forced", "answered", "accepted", "refused", "dropped"}
             /\ M!Fetching(p) = (post[p].fetch # M!NoFetch)
  BY DEF TeamsInv, PostsAreSound, PostIsSound, Request, Stages, Waits, M!Fetching
<1>2. M!Cardinality(seen) <= SEEN
  BY DEF TeamsInv, TakenIsSound, M!Cardinality, Cardinality
<1>3. M!TypeOK
  BY <1>1, <1>2, TeamsNumbers DEF TeamsInv, KeysAreSound, TakenIsSound, TokenIsSound, Named, M!TypeOK
<1>4. M!GoesWhereVouched /\ M!TokenIsLive
  BY DEF TeamsInv, TakenIsSound, TokenIsSound, M!GoesWhereVouched, M!TokenIsLive
<1> QED
  BY <1>3, <1>4

LEMMA HandedOnStep ==
  ASSUME TeamsInv, [M!Next]_(M!teamsVars), NEW a \in Activities, emitted'[a] > emitted[a], emitted[a] > 0
  PROVE  a \in forgotten
<1>0. emitted \in [Activities -> Nat] /\ a \in seen \cup forgotten
  BY DEF TeamsInv, TakenIsSound
<1>1. ASSUME NEW p \in Posts, M!Accept(p) PROVE a \in forgotten
  <2>1. CASE a = post[p].activity
    BY <1>0, <1>1, <2>1 DEF M!Accept, M!New
  <2>2. CASE a # post[p].activity
    BY <1>0, <1>1, <2>2 DEF M!Accept, M!New
  <2> QED
    BY <2>1, <2>2
<1>2. emitted' = emitted => FALSE
  BY <1>0
<1>3. ASSUME NEW p \in Posts, NEW b \in Activities, NEW kid, NEW claim, NEW named, M!Arrive(p, b, kid, claim, named)
      PROVE  FALSE
  <2>1. UNCHANGED M!takenVars
    BY <1>3 DEF M!Arrive
  <2> QED
    BY <1>2, <2>1 DEF M!takenVars
<1>4. ASSUME NEW p \in Posts, M!Serve(p) \/ M!Land(p) \/ M!FetchFails(p) PROVE FALSE
  BY <1>2, <1>4 DEF M!Serve, M!Land, M!FetchFails, M!takenVars
<1>5. ASSUME M!Send \/ M!Issue \/ M!Minted \/ M!MintFails \/ M!Rotate \/ M!Tick \/ M!Restart \/ UNCHANGED M!teamsVars
      PROVE  FALSE
  BY <1>2, <1>5 DEF M!Send, M!Issue, M!Minted, M!MintFails, M!Rotate, M!Tick, M!Restart, M!teamsVars, M!takenVars
<1> QED
  BY <1>1, <1>3, <1>4, <1>5 DEF M!Next

\* Why a genuine request may be turned away.
Excused(p) ==
  \/ M!Recent(rotatedAt) \/ M!Recent(failedAt') \/ overwritten' \/ post'[p].kid + 1 < newest
  \/ \E q \in Posts \ {p} : post[q].stage = "forced"

LEMMA ArriveExcused ==
  ASSUME TeamsInv, NEW p \in Posts, NEW a \in Activities, NEW kid \in {newest, M!Stray},
         NEW claim \in Services, NEW named \in Services \cup {M!None}, M!Arrive(p, a, kid, claim, named),
         post'[p].stage = "refused", post'[p].kid # M!Stray, M!Vouches(post'[p])
  PROVE  Excused(p)
<1>1. post[p] = M!Unsent /\ UNCHANGED <<now, newest, rotatedAt, keys, failedAt, overwritten>>
  BY DEF M!Arrive
<1>2. kid \in 0..newest
  BY TeamsNumbers DEF M!Stray
<1>3. PICK q, r : /\ Verified(p, r, q) /\ r.kid = kid
                  /\ (q.stage = "refused" => ~M!Vouches(q) \/ (~M!Holds(keys, kid) /\ ~M!MayForce))
  BY <1>2, TeamsNumbers, Arrived
<1>4. post'[p] = q
  BY <1>1, <1>3, PostChanges DEF Verified, TeamsInv
<1>5. ~M!Holds(keys, newest) /\ ~M!MayForce
  BY <1>3, <1>4 DEF Verified
<1>6. keys.newest # newest
  BY <1>5, TeamsNumbers DEF M!Holds, M!Stray
<1>7. lastForcedAt = now /\ lastForcedAt # M!Never
  BY <1>5, TeamsNumbers DEF M!MayForce, M!FORCED_REFETCH_MIN
<1>8. CASE failedAt >= lastForcedAt
  <2>1. M!Recent(failedAt')
    BY <1>1, <1>7, <1>8, TeamsNumbers DEF M!Recent, M!Never, M!FORCED_REFETCH_MIN
  <2> QED
    BY <2>1 DEF Excused
<1>9. CASE rotatedAt >= lastForcedAt
  <2>1. M!Recent(rotatedAt)
    BY <1>7, <1>9, TeamsNumbers DEF M!Recent, M!Never, M!FORCED_REFETCH_MIN
  <2> QED
    BY <2>1 DEF Excused
<1>10. CASE overwritten
  BY <1>1, <1>10 DEF Excused
<1>11. ASSUME NEW o \in Posts, post[o].stage = "forced" PROVE Excused(p)
  BY <1>1, <1>11 DEF Excused, M!Unsent
<1> QED
  BY <1>6, <1>7, <1>8, <1>9, <1>10, <1>11 DEF TeamsInv, ForcedAccounted

LEMMA LandExcused ==
  ASSUME TeamsInv, NEW p \in Posts, M!Land(p),
         post'[p].stage = "refused", post'[p].kid # M!Stray, M!Vouches(post'[p])
  PROVE  Excused(p)
<1>1. /\ Waits(post[p]) /\ post[p].fetch.got # 0 /\ keys' = [at |-> post[p].fetch.at, newest |-> post[p].fetch.got]
      /\ M!Returned(p, keys') /\ UNCHANGED <<now, newest, rotatedAt>>
  BY DEF M!Land, M!Fetching, Waits, M!Never
<1>2. Whole(post[p]) /\ post[p].fetch.got >= post[p].kid
  BY <1>1, RequestFields DEF TeamsInv, PostsAreSound, PostIsSound, FetchIsSound, Waits
<1>3. PICK q : /\ Verified(p, post[p], q)
               /\ (q.stage = "refused" => ~M!Vouches(q) \/ ~M!Holds(keys', post[p].kid))
  BY <1>1, <1>2, TeamsNumbers, ReturnedTo
<1>4. post'[p] = q
  BY <1>1, <1>3, PostChanges DEF Verified, TeamsInv
<1>5. ~M!Holds(keys', post[p].kid) /\ post'[p].kid = post[p].kid /\ post[p].kid # M!Stray
  BY <1>3, <1>4 DEF Verified
<1>6. keys'.newest = post[p].fetch.got
  BY <1>1
<1>7. post[p].kid + 1 < newest
  BY <1>2, <1>5, <1>6, RequestFields, TeamsNumbers DEF M!Holds
<1> QED
  BY <1>5, <1>7 DEF Excused

LEMMA RefusalExcused ==
  ASSUME TeamsInv, [M!Next]_(M!teamsVars), NEW p \in Posts,
         post'[p].stage = "refused", post[p].stage # "refused", post'[p].kid # M!Stray, M!Vouches(post'[p])
  PROVE  Excused(p)
<1>0. post \in [Posts -> Request]
  BY DEF TeamsInv, PostsAreSound
<1>1. ASSUME NEW q \in Posts, NEW a \in Activities, NEW claim \in Services, NEW named \in Services \cup {M!None},
             NEW kid \in {newest, M!Stray}, M!Arrive(q, a, kid, claim, named)
      PROVE  Excused(p)
  <2>1. CASE q = p
    BY <1>1, <2>1, ArriveExcused
  <2>2. CASE q # p
    <3>1. kid \in 0..newest
      BY TeamsNumbers DEF M!Stray
    <3>2. PICK n, r : Verified(q, r, n)
      BY <1>1, <3>1, TeamsNumbers, Arrived
    <3>3. post'[p] = post[p]
      BY <1>0, <2>2, <3>2 DEF Verified
    <3> QED
      BY <3>3
  <2> QED
    BY <2>1, <2>2
<1>2. ASSUME NEW q \in Posts, M!Serve(q) PROVE FALSE
  <2>1. post' = [post EXCEPT ![q].fetch.got = newest]
    BY <1>2 DEF M!Serve
  <2>2. post'[p] = post[p] \/ post'[p] = [post[p] EXCEPT !.fetch.got = newest]
    BY <1>0, <2>1
  <2>3. post'[p].stage = post[p].stage
    BY <1>0, <2>2, TeamsNumbers, Served
  <2> QED
    BY <2>3
<1>3. ASSUME NEW q \in Posts, M!Land(q) \/ M!FetchFails(q) PROVE Excused(p)
  <2>1. PICK k : M!Returned(q, k)
    BY <1>3 DEF M!Land, M!FetchFails
  <2>2. Waits(post[q]) /\ UNCHANGED <<now, newest, rotatedAt>>
    BY <1>3 DEF M!Land, M!FetchFails, M!Fetching, Waits
  <2>3. q # p => post'[p] = post[p]
    BY <2>1, <2>2, ReturnedStep
  <2>4. CASE M!Land(q)
    BY <2>3, <2>4, LandExcused
  <2>5. CASE M!FetchFails(q)
    <3>1. M!Recent(failedAt')
      BY <2>5, TeamsNumbers DEF M!FetchFails, M!Recent, M!Never, M!FORCED_REFETCH_MIN
    <3> QED
      BY <3>1 DEF Excused
  <2> QED
    BY <1>3, <2>4, <2>5
<1>4. ASSUME NEW q \in Posts, M!Accept(q) PROVE FALSE
  <2>1. PICK n : post' = [post EXCEPT ![q] = n] /\ n = Moved(post[q], "accepted", M!NoFetch)
    BY <1>4, Moves DEF M!Accept
  <2>2. n.stage = "accepted"
    <3>1. post[q] \in Request /\ "accepted" \in Stages /\ M!NoFetch \in Fetch
      BY <1>0, TeamsNumbers, TheFetches DEF Stages
    <3> QED
      BY ONLY <2>1, <3>1, Becoming
  <2> QED
    BY <1>0, <2>1, <2>2
<1>5. ASSUME M!Restart PROVE FALSE
  <2>1. post'[p] = post[p] \/ post'[p] = Moved(post[p], "dropped", M!NoFetch)
    BY <1>5 DEF M!Restart, Moved
  <2>2. Moved(post[p], "dropped", M!NoFetch).stage = "dropped"
    <3>1. post[p] \in Request /\ "dropped" \in Stages /\ M!NoFetch \in Fetch
      BY <1>0, TeamsNumbers, TheFetches DEF Stages
    <3> QED
      BY ONLY <3>1, Becoming
  <2> QED
    BY <2>1, <2>2
<1>6. post' # post
  OBVIOUS
<1> QED
  BY <1>1, <1>2, <1>3, <1>4, <1>5, <1>6 DEF M!Next, M!Send, M!Issue, M!Minted, M!MintFails, M!Rotate, M!Tick,
    M!teamsVars

----------------------------------------------------------------------------
(* The parts together: a behaviour is one of a single part, and every other part
   stays as it began. *)

allVars == <<which, vars, VVars, MVars>>

LEMMA StepsOfTheParts ==
  ASSUME [Step]_allVars
  PROVE  [Next]_vars /\ [V!Next]_(V!verbsVars) /\ [M!Next]_(M!teamsVars)
<1>1. VVars' = VVars => V!verbsVars' = V!verbsVars
  BY DEF VVars, V!verbsVars, V!turnVars, V!agentVars, V!historyVars
<1>2. MVars' = MVars => M!teamsVars' = M!teamsVars
  BY DEF MVars, M!teamsVars, M!keysVars, M!takenVars, M!tokenVars
<1> QED
  BY <1>1, <1>2 DEF Step, allVars

LEMMA Behaviours ==
  Sum => /\ Spec
         /\ V!Init /\ [][V!Next]_(V!verbsVars)
         /\ M!Init /\ [][M!Next]_(M!teamsVars)
<1>1. Start => Init /\ V!Init /\ M!Init
  BY DEF Start
<1>2. [Step]_allVars => [Next]_vars /\ [V!Next]_(V!verbsVars) /\ [M!Next]_(M!teamsVars)
  BY StepsOfTheParts
<1> QED
  BY <1>1, <1>2, PTL DEF Sum, Spec, allVars

(* The turn that was opened last is never the one that makes room for others, however
   many are open, closed or adopted: evict of turns.ts. *)
THEOREM NewestTurnIsKeptAlways == Spec => []NewestTurnIsKept
<1> QED
  BY RegistryInvariant, NewestStart, NextKeepsNewest, PTL DEF Spec

(* What is kept of every ask agrees with what was done about it: the inductive
   invariant of Verbs. *)
THEOREM VerbsInvariant == Sum => []VerbsInv
<1> QED
  BY VerbsStart, VerbsStep, Behaviours, PTL

(* For any verbs tried, in any order, whatever switches are flipped, dropped, thrown
   or restarted: a direct message whose turn ends in prose is left in silence for a
   reason only (the Stop hook of the agent, perform of outbox.ts). *)
THEOREM SilenceHasAReasonAlways == Sum => []SilenceHasAReason
<1>1. VerbsInv => SilenceHasAReason
  BY VerbsPromise DEF SilenceHasAReason
<1> QED
  BY <1>1, VerbsInvariant, PTL

(* For any verbs tried: what the agent is told of one is true for good, the verbs
   keep the contract of a question that is asked once (awaitResult of wa-cli.ts,
   perform of outbox.ts). *)
THEOREM ToldTheTruthAlways == Sum => ToldTheTruth
<1>1. V!Init => (which = "verbs" => V!Contract!Init)
  BY VerbsStartMaps
<1>2. VerbsInv /\ [V!Next]_(V!verbsVars) =>
        [which = "verbs" => V!Contract!Next \/ UNCHANGED V!Contract!contractVars]_VVars
  BY VerbsStepMaps
<1> QED
  BY <1>1, <1>2, VerbsInvariant, Behaviours, PTL DEF ToldTheTruth

(* A forced fetch of the keys accounts for itself, a token lasts as long as it is
   taken to, an id that was handed on is known or forgotten: the inductive invariant
   of Teams. *)
THEOREM TeamsInvariant == Sum => []TeamsInv
<1> QED
  BY TeamsStart, TeamsStep, Behaviours, PTL

(* For any posts, changes of keys, failures and restarts: what is sent goes where a
   signed token vouched for, under a token that lives; a genuine post is turned away
   in the shadow of a change of keys or a failure only; and no activity is handed on
   twice unless its id was forgotten (verify, accept and mint of the Teams
   transport). *)
THEOREM TeamsIsSoundAlways == Sum => TeamsIsSound
<1>1. TeamsInv => (which = "teams" => M!GoesWhereVouched /\ M!TokenIsLive)
  BY TeamsPromise
<1>2. TeamsInv /\ [M!Next]_(M!teamsVars) =>
        [\A p \in Posts :
           post'[p].stage = "refused" /\ post[p].stage # "refused" /\ post'[p].kid # M!Stray /\ M!Vouches(post'[p])
           => \/ M!Recent(rotatedAt) \/ M!Recent(failedAt') \/ overwritten' \/ post'[p].kid + 1 < newest
              \/ \E q \in Posts \ {p} : post[q].stage = "forced"]_(M!teamsVars)
  BY RefusalExcused DEF Excused
<1>3. TeamsInv /\ [M!Next]_(M!teamsVars) =>
        [\A a \in Activities : emitted'[a] > emitted[a] /\ emitted[a] > 0 => a \in forgotten]_(M!teamsVars)
  BY HandedOnStep
<1> QED
  BY <1>1, <1>2, <1>3, TeamsInvariant, Behaviours, PTL
  DEF TeamsIsSound, M!GenuineIsRefusedOnlyBriefly, M!HandedOnOnce

(* The state of every part has its shape, and the newest turn is kept. *)
THEOREM TypesAlways == Sum => []Types
<1>1. RegistryInv /\ NewestTurnIsKept /\ VerbsInv /\ TeamsInv => Types
  BY VerbsPromise, TeamsPromise DEF Types
<1> QED
  BY <1>1, RegistryInvariant, NewestTurnIsKeptAlways, VerbsInvariant, TeamsInvariant, Behaviours, PTL

=============================================================================
