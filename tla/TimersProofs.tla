---------------------------- MODULE TimersProofs ----------------------------
(*****************************************************************************)
(* Theorems about what works from a timer and may meet itself, for any       *)
(* values of the constants: the reminders (Scheduler), the operator's keys   *)
(* (Terminal, as T), and MCTimers, whose behaviours are theirs.              *)
(*****************************************************************************)
EXTENDS MCTimers, SequenceTheorems, FiniteSetTheorems, TLAPS

(* Scheduler. *)

----------------------------------------------------------------------------
(* The invariant *)

(* The file, and a tick's copy of it. *)
Tables == UNION {[D -> Entry] : D \in SUBSET Ids}
PassRecord ==
  [phase : {"idle", "picking", "sending"}, at : Time, entries : Tables,
   todo : SUBSET Ids, out : SUBSET Ids, changed : BOOLEAN]

(* A tick's copy is as the file was; what is still to fire was due when it was read,
   and a send is out for one entry while the tick awaits it. *)
PassOK(r) ==
  /\ EntriesOK(r.entries)
  /\ r.todo \subseteq Due(r.entries, r.at) /\ r.out \subseteq r.todo
  /\ IF r.phase = "sending" THEN \E i \in Ids : r.out = {i} ELSE r.out = {}

Shape ==
  /\ store \in Tables /\ EntriesOK(store)
  /\ pass \in [1..Passes -> PassRecord] /\ \A p \in 1..Passes : PassOK(pass[p])
  /\ sent \in [Ids -> [Time -> Nat]]
  /\ now \in Time /\ faults \in 0..MaxFaults
  /\ promised \subseteq Ids /\ calledOff \subseteq promised /\ during \subseteq promised
  /\ told \subseteq Ids \X {"missed", "blocked", "threw"}

Running(p) == pass[p].phase # "idle"

(* The guard of tick(): no two run at once. *)
OnePass == \A p, q \in 1..Passes : Running(p) /\ Running(q) => p = q

(* Nothing is in the file, in a copy of it, or sent that was not created. *)
Created ==
  /\ DOMAIN store \subseteq promised
  /\ \A p \in 1..Passes : DOMAIN pass[p].entries \subseteq promised
  /\ \A i \in Ids, t \in Time : sent[i][t] > 0 => i \in promised

(* What is still to come of the active entries of a table was sent only as often as
   crashes and lost writes account for. *)
Fresh(entries) ==
  \A i \in Active(entries), t \in Time : entries[i].nextAt <= t => sent[i][t] <= faults

AccountedIn(entries, i) ==
  /\ i \in DOMAIN entries
  /\ entries[i].state = "done" => \E t \in Time : sent[i][t] > 0
  /\ entries[i].state = "cancelled" => i \in calledOff
  /\ entries[i].state = "missed" => <<i, "missed">> \in told
  /\ entries[i].state = "failed" => \E why \in {"blocked", "threw"} : <<i, why>> \in told

(* What was asked between passes is accounted for in the table. *)
Kept(entries) ==
  /\ \A i \in promised \ during : AccountedIn(entries, i)
  /\ \A i \in calledOff \ during : entries[i].state = "cancelled"

Unwritten == \E p \in 1..Passes : Running(p) /\ pass[p].changed

(* The inductive invariant: a running tick's copy is as good as the file, and until
   the tick has changed an entry the file is as good as the copy. *)
IInv ==
  /\ Shape /\ OnePass /\ Created /\ SentOnce
  /\ Kept(store) /\ (~Unwritten => Fresh(store))
  /\ \A p \in 1..Passes : Running(p) => Fresh(pass[p].entries) /\ Kept(pass[p].entries)

----------------------------------------------------------------------------
(* Time and entries *)

(* The next occurrence of a rule is later, and by no more than its period. *)
LEMMA NextIsLater ==
  ASSUME NEW t \in Nat
  PROVE  NextOf(t) \in Nat /\ t < NextOf(t) /\ NextOf(t) <= t + Period
<1> DEFINE q == t \div Period
           r == t % Period
<1>1. Period \in Nat /\ Period > 0
  BY SchedulerAssumption
<1>2. q \in Int /\ r \in 0..(Period - 1) /\ t = Period * q + r
  BY <1>1
<1>3. (q + 1) * Period = Period * q + Period
  BY <1>1, <1>2
<1>4. NextOf(t) = Period * q + Period
  BY <1>3 DEF NextOf
<1> HIDE DEF q, r
<1>5. Period * q \in Int
  BY <1>1, <1>2
<1> QED
  BY <1>1, <1>2, <1>4, <1>5

LEMMA Constants ==
  /\ MaxTime \in Nat /\ Period \in Nat /\ Horizon \in Nat /\ MaxFaults \in Nat
  /\ Time \subseteq Nat /\ Time \subseteq Occurrence /\ Occurrence \subseteq Nat /\ Never \notin Occurrence
  /\ \A t \in Time : NextOf(t) \in Occurrence
<1>1. MaxTime \in Nat /\ Period \in Nat /\ Horizon \in Nat /\ MaxFaults \in Nat
  BY SchedulerAssumption
<1>2. \A t \in Time : t \in Nat /\ t <= MaxTime
  BY <1>1 DEF Time
<1>3. \A t \in Time : NextOf(t) \in Occurrence
  BY <1>1, <1>2, NextIsLater DEF Occurrence
<1> QED
  BY <1>1, <1>2, <1>3 DEF Time, Occurrence, Never

(* A table is a function; putting one entry for another keeps it one. *)
LEMMA TableIs ==
  ASSUME NEW entries \in Tables
  PROVE  /\ DOMAIN entries \subseteq Ids
         /\ \A i \in DOMAIN entries : entries[i] \in Entry
         /\ \A i \in DOMAIN entries, e \in Entry :
              /\ [entries EXCEPT ![i] = e] \in Tables
              /\ DOMAIN [entries EXCEPT ![i] = e] = DOMAIN entries
              /\ [entries EXCEPT ![i] = e][i] = e
              /\ \A j \in DOMAIN entries : j # i => [entries EXCEPT ![i] = e][j] = entries[j]
<1>1. PICK D \in SUBSET Ids : entries \in [D -> Entry]
  BY DEF Tables
<1>2. \A i \in D, e \in Entry : [entries EXCEPT ![i] = e] \in [D -> Entry]
  BY <1>1
<1>3. \A f \in [D -> Entry] : f \in Tables
  BY DEF Tables
<1> QED
  BY <1>1, <1>2, <1>3

(* What may become of the entry a tick fires: it is over, or due later. *)
LEMMA AdvanceGoes ==
  ASSUME NEW e \in Entry, e.state = "active", NEW t \in Time
  PROVE  LET a == Advance(e, t) IN
         /\ a \in Entry
         /\ a.nextAt # Never => a.state = "active" /\ a.nextAt \in Nat /\ a.nextAt > t
         /\ a.nextAt = Never => a.state = "done"
         /\ a.state \in {"active", "done"}
<1>1. e.kind \in {"once", "cron"} /\ NextOf(t) \in Occurrence /\ t \in Nat /\ NextOf(t) > t /\ NextOf(t) # Never
  BY Constants, NextIsLater DEF Entry
<1>2. CASE e.kind = "once"
  <2>1. Advance(e, t) = [e EXCEPT !.state = "done", !.nextAt = Never]
    BY <1>2 DEF Advance
  <2>2. Advance(e, t) \in Entry /\ Advance(e, t).state = "done" /\ Advance(e, t).nextAt = Never
    BY <2>1 DEF Entry
  <2> QED
    BY <2>2
<1>3. CASE e.kind = "cron"
  <2>1. Advance(e, t) = [e EXCEPT !.nextAt = NextOf(t)]
    BY <1>3 DEF Advance
  <2>2. Advance(e, t) \in Entry /\ Advance(e, t).state = "active" /\ Advance(e, t).nextAt = NextOf(t)
    BY <1>1, <2>1 DEF Entry
  <2> QED
    BY <1>1, <2>2, Constants
<1> QED
  BY <1>1, <1>2, <1>3

LEMMA MissedGoes ==
  ASSUME NEW e \in Entry, e.state = "active", NEW t \in Time
  PROVE  LET a == Missed(e, t) IN
         /\ a \in Entry
         /\ a.nextAt # Never => a.state = "active" /\ a.nextAt \in Nat /\ a.nextAt > t
         /\ a.nextAt = Never => a.state = "missed"
         /\ a.state \in {"active", "missed"}
<1>1. CASE e.kind = "cron"
  <2>1. Missed(e, t) = Advance(e, t) /\ Advance(e, t) = [e EXCEPT !.nextAt = NextOf(t)]
    BY <1>1 DEF Missed, Advance
  <2>2. Advance(e, t).state = "active" /\ Advance(e, t).nextAt = NextOf(t) /\ NextOf(t) # Never
    BY <2>1, Constants DEF Entry
  <2> QED
    BY <2>1, <2>2, AdvanceGoes
<1>2. CASE e.kind # "cron"
  <2>1. Missed(e, t) = [e EXCEPT !.state = "missed", !.nextAt = Never]
    BY <1>2 DEF Missed
  <2>2. Missed(e, t) \in Entry /\ Missed(e, t).state = "missed" /\ Missed(e, t).nextAt = Never
    BY <2>1 DEF Entry
  <2> QED
    BY <2>2
<1> QED
  BY <1>1, <1>2

LEMMA FailedGoes ==
  ASSUME NEW e \in Entry
  PROVE  Failed(e) \in Entry /\ Failed(e).state = "failed" /\ Failed(e).nextAt = Never
  BY DEF Failed, Entry

----------------------------------------------------------------------------
(* What a step does to the table of running ticks *)

LEMMA ChangedGoes ==
  ASSUME Shape, NEW p \in 1..Passes, NEW i \in DOMAIN pass[p].entries, NEW e \in Entry,
         Changed(p, i, e)
  PROVE  /\ pass' = [pass EXCEPT ![p] =
                       [phase |-> "picking", at |-> pass[p].at,
                        entries |-> [pass[p].entries EXCEPT ![i] = e],
                        todo |-> pass[p].todo \ {i}, out |-> {}, changed |-> TRUE]]
         /\ pass' \in [1..Passes -> PassRecord]
<1> DEFINE r == pass[p]
           s == [phase |-> "picking", at |-> pass[p].at, entries |-> [pass[p].entries EXCEPT ![i] = e],
                 todo |-> pass[p].todo \ {i}, out |-> {}, changed |-> TRUE]
<1>1. r \in PassRecord /\ pass \in [1..Passes -> PassRecord]
  BY DEF Shape
<1>2. pass' = [pass EXCEPT ![p] = s]
  BY <1>1 DEF Changed
<1>3. [r.entries EXCEPT ![i] = e] \in Tables
  BY <1>1, TableIs DEF PassRecord
<1>4. s \in PassRecord
  BY <1>1, <1>3 DEF PassRecord
<1> HIDE DEF s, r
<1>5. pass' \in [1..Passes -> PassRecord]
  BY <1>1, <1>2, <1>4
<1> QED
  BY <1>2, <1>5 DEF s

----------------------------------------------------------------------------
(* A tick at work *)

(* Whatever fire() makes of an entry, and whatever it sends and reports for it, the
   copy stays as good as the file was. *)
LEMMA FiredHolds ==
  ASSUME IInv, NEW p \in 1..Passes, NEW i \in pass[p].todo, NEW e \in Entry, Running(p),
         Changed(p, i, e),
         e.nextAt = Never => e.state # "active",
         e.nextAt # Never => e.state = "active" /\ e.nextAt \in Nat /\ e.nextAt > pass[p].at,
         UNCHANGED <<store, now, faults, promised, calledOff, during>>,
         told \subseteq told', told' \subseteq Ids \X {"missed", "blocked", "threw"},
         sent' \in [Ids -> [Time -> Nat]],
         \A j \in Ids, t \in Time :
           \/ sent'[j][t] = sent[j][t]
           \/ j = i /\ t = pass[p].entries[i].nextAt /\ sent'[j][t] = sent[j][t] + 1,
         e.state = "done" => \E t \in Time : sent'[i][t] > 0,
         e.state # "cancelled",
         e.state = "missed" => <<i, "missed">> \in told',
         e.state = "failed" => \E why \in {"blocked", "threw"} : <<i, why>> \in told'
  PROVE  IInv'
<1> DEFINE old == pass[p].entries
           new == [old EXCEPT ![i] = e]
           at == pass[p].at
           n == old[i].nextAt
           s == [phase |-> "picking", at |-> at, entries |-> new,
                 todo |-> pass[p].todo \ {i}, out |-> {}, changed |-> TRUE]
<1>1. /\ Shape /\ OnePass /\ Created /\ SentOnce /\ Kept(store) /\ Fresh(old) /\ Kept(old)
      /\ pass \in [1..Passes -> PassRecord] /\ PassOK(pass[p]) /\ \A q \in 1..Passes : PassOK(pass[q])
      /\ faults \in Nat /\ sent \in [Ids -> [Time -> Nat]]
  BY Constants DEF IInv, Shape
<1>2. old \in Tables /\ at \in Nat
  BY <1>1, Constants DEF PassRecord
<1>3. /\ i \in DOMAIN old /\ i \in Ids /\ i \in promised /\ old[i].state = "active" /\ old[i] \in Entry
      /\ n <= at /\ n \in Nat /\ n # Never
  <2>1. i \in DOMAIN old /\ i \in Ids /\ old[i].state = "active" /\ n <= at /\ old[i] \in Entry /\ n # Never
    BY <1>1 DEF PassOK, Due, Active, EntriesOK
  <2>2. n \in Nat
    BY <2>1, Constants DEF Entry
  <2> QED
    BY <1>1, <2>1, <2>2 DEF Created
<1>4. pass' = [pass EXCEPT ![p] = s] /\ pass' \in [1..Passes -> PassRecord]
  BY <1>1, <1>3, ChangedGoes
<1>5. /\ new \in Tables /\ DOMAIN new = DOMAIN old /\ new[i] = e
      /\ \A j \in DOMAIN old : j # i => new[j] = old[j]
  BY <1>2, <1>3, TableIs
<1> HIDE DEF new, old, at, n
<1>6. /\ pass'[p] = s /\ \A q \in 1..Passes : q # p => pass'[q] = pass[q]
      /\ s.entries = new /\ s.at = at /\ s.out = {} /\ s.phase = "picking" /\ s.changed = TRUE
      /\ s.todo = pass[p].todo \ {i}
  BY <1>1, <1>4
<1>7. EntriesOK(new)
  <2>1. DOMAIN old \subseteq Ids /\ \A j \in DOMAIN old : old[j] \in Entry /\ (old[j].state = "active" <=> old[j].nextAt # Never)
    BY <1>1 DEF PassOK, EntriesOK, old
  <2> QED
    BY <1>5, <2>1 DEF EntriesOK
<1>8. PassOK(s)
  <2>1. pass[p].todo \subseteq Due(old, at)
    BY <1>1 DEF PassOK, old, at
  <2>2. s.todo \subseteq Due(new, at)
    BY <1>5, <1>6, <2>1 DEF Due, Active
  <2> QED
    BY <1>6, <1>7, <2>2 DEF PassOK
<1> HIDE DEF s
<1>9. Shape'
  <2>1. \A q \in 1..Passes : PassOK(pass'[q])
    BY <1>1, <1>6, <1>8
  <2> QED
    BY <1>1, <1>4, <2>1 DEF Shape, PassOK, EntriesOK, Due, Active
<1>10. OnePass' /\ \A q \in 1..Passes : Running(q)' => q = p
  BY <1>1, <1>6 DEF OnePass, Running
<1>11. Created'
  <2>1. \A q \in 1..Passes : DOMAIN pass'[q].entries \subseteq promised
    BY <1>1, <1>5, <1>6 DEF Created, old
  <2>2. \A j \in Ids, t \in Time : sent'[j][t] > 0 => j \in promised
    BY <1>1, <1>3 DEF Created
  <2> QED
    BY <1>1, <2>1, <2>2 DEF Created
<1>12. \A j \in Ids, t \in Time : sent[j][t] \in Nat /\ sent'[j][t] \in Nat /\ (sent[j][t] > 0 => sent'[j][t] > 0)
  <2>1. \A j \in Ids : sent[j] \in [Time -> Nat] /\ sent'[j] \in [Time -> Nat]
    BY <1>1
  <2>2. \A j \in Ids, t \in Time : sent[j][t] \in Nat /\ sent'[j][t] \in Nat
    BY <2>1
  <2> QED
    BY <2>2
<1>13. SentOnce'
  <2>1. ASSUME NEW t \in Time, t = n PROVE sent[i][t] <= faults
    BY <1>1, <1>3, <2>1 DEF Fresh, Active, n
  <2>2. ASSUME NEW j \in Ids, NEW t \in Time PROVE sent'[j][t] <= 1 + faults
    <3>1. sent[j][t] <= 1 + faults
      BY <1>1 DEF SentOnce
    <3> QED
      BY <1>1, <1>12, <2>1, <3>1 DEF n, old
  <2> QED
    BY <2>2 DEF SentOnce
<1>14. ASSUME NEW entries, NEW j \in Ids, AccountedIn(entries, j)
       PROVE  /\ j \in DOMAIN entries
              /\ entries[j].state = "done" => \E t \in Time : sent'[j][t] > 0
              /\ entries[j].state = "cancelled" => j \in calledOff
              /\ entries[j].state = "missed" => <<j, "missed">> \in told'
              /\ entries[j].state = "failed" => \E why \in {"blocked", "threw"} : <<j, why>> \in told'
  BY <1>12, <1>14 DEF AccountedIn
<1>15. Kept(store)'
  BY <1>1, <1>14 DEF Kept, AccountedIn, Shape
<1>16. Unwritten'
  BY <1>6 DEF Unwritten, Running
<1>20. PICK tab : tab = new
  OBVIOUS
<1>17. Fresh(tab)'
  <2>1. ASSUME NEW j \in Active(new), NEW t \in Time, new[j].nextAt <= t PROVE sent'[j][t] <= faults
    <3>1. CASE j = i
      <4>1. e.nextAt \in Nat /\ e.nextAt > at /\ e.nextAt <= t /\ t \in Nat
        BY <1>5, <2>1, <3>1, Constants DEF Active, at
      <4>2. n <= t /\ t # n
        BY <1>2, <1>3, <4>1
      <4>3. sent[i][t] <= faults
        BY <1>1, <1>3, <4>2 DEF Fresh, Active, n
      <4>4. sent'[i][t] = sent[i][t]
        BY <1>3, <4>2 DEF n, old
      <4> QED
        BY <3>1, <4>3, <4>4
    <3>2. CASE j # i
      <4>1. j \in Active(old) /\ new[j] = old[j] /\ j \in Ids
        BY <1>5, <1>7, <2>1, <3>2 DEF Active, EntriesOK
      <4>2. sent[j][t] <= faults
        BY <1>1, <2>1, <4>1 DEF Fresh
      <4> QED
        BY <3>2, <4>1, <4>2
    <3> QED
      BY <3>1, <3>2
  <2> QED
    BY <1>20, <2>1 DEF Fresh, Active
<1>18. Kept(tab)'
  <2>1. ASSUME NEW j \in promised \ during
        PROVE  /\ j \in DOMAIN new
               /\ new[j].state = "done" => \E t \in Time : sent'[j][t] > 0
               /\ new[j].state = "cancelled" => j \in calledOff
               /\ new[j].state = "missed" => <<j, "missed">> \in told'
               /\ new[j].state = "failed" => \E why \in {"blocked", "threw"} : <<j, why>> \in told'
    <3>1. CASE j = i
      BY <1>3, <1>5, <3>1
    <3>2. CASE j # i
      <4>1. AccountedIn(old, j) /\ j \in Ids
        BY <1>1, <2>1 DEF Kept, Shape
      <4>2. new[j] = old[j] /\ j \in DOMAIN new
        BY <1>5, <3>2, <4>1 DEF AccountedIn
      <4> QED
        BY <1>14, <4>1, <4>2
    <3> QED
      BY <3>1, <3>2
  <2>2. ASSUME NEW j \in calledOff \ during PROVE new[j].state = "cancelled"
    <3>1. j \in promised \ during /\ old[j].state = "cancelled"
      BY <1>1, <2>2 DEF Kept, Shape
    <3>2. j # i /\ j \in DOMAIN old
      BY <1>1, <1>3, <3>1 DEF Kept, AccountedIn
    <3> QED
      BY <1>5, <3>1, <3>2
  <2> QED
    BY <1>20, <2>1, <2>2 DEF Kept, AccountedIn
<1>19. \A q \in 1..Passes : Running(q)' => Fresh(pass[q].entries)' /\ Kept(pass[q].entries)'
  <2>1. pass'[p].entries = tab
    BY <1>6, <1>20
  <2>2. Fresh(pass[p].entries)' /\ Kept(pass[p].entries)'
    BY <1>17, <1>18, <2>1 DEF Fresh, Kept, AccountedIn, Active
  <2> QED
    BY <1>10, <2>2
<1> QED
  BY <1>9, <1>10, <1>11, <1>13, <1>15, <1>16, <1>19 DEF IInv

(* A tick passes an entry over, or awaits its send. *)
LEMMA PassedOverHolds ==
  ASSUME IInv, NEW p \in 1..Passes, Running(p), NEW s \in PassRecord,
         pass' = [pass EXCEPT ![p] = s], UNCHANGED <<store, now, faults, history>>,
         s.entries = pass[p].entries, s.at = pass[p].at, s.changed = pass[p].changed,
         s.phase # "idle", s.todo \subseteq pass[p].todo, s.out \subseteq s.todo,
         IF s.phase = "sending" THEN \E i \in Ids : s.out = {i} ELSE s.out = {}
  PROVE  IInv'
<1>1. /\ Shape /\ OnePass /\ Created /\ SentOnce /\ Kept(store) /\ (~Unwritten => Fresh(store))
      /\ \A q \in 1..Passes : Running(q) => Fresh(pass[q].entries) /\ Kept(pass[q].entries)
      /\ pass \in [1..Passes -> PassRecord]
  BY DEF IInv, Shape
<1>2. pass' \in [1..Passes -> PassRecord] /\ pass'[p] = s /\ \A q \in 1..Passes : q # p => pass'[q] = pass[q]
  BY <1>1
<1>3. \A q \in 1..Passes : /\ pass'[q].entries = pass[q].entries /\ pass'[q].changed = pass[q].changed
                           /\ (Running(q)' <=> Running(q))
  BY <1>2 DEF Running
<1>4. \A q \in 1..Passes : PassOK(pass'[q])
  <2>1. PassOK(s)
    BY <1>1 DEF Shape, PassOK
  <2> QED
    BY <1>1, <1>2, <2>1 DEF Shape
<1>5. Shape'
  BY <1>1, <1>2, <1>4 DEF Shape, PassOK, EntriesOK, Due, Active, history
<1>6. OnePass' /\ (Unwritten' <=> Unwritten)
  BY <1>1, <1>3 DEF OnePass, Unwritten
<1>7. Created' /\ SentOnce'
  BY <1>1, <1>3 DEF Created, SentOnce, history
<1>8. Kept(store)' /\ (~Unwritten' => Fresh(store)')
  BY <1>1, <1>6 DEF Kept, AccountedIn, Fresh, Active, history
<1>9. ASSUME NEW q \in 1..Passes, Running(q)' PROVE Fresh(pass[q].entries)' /\ Kept(pass[q].entries)'
  <2>1. Fresh(pass[q].entries) /\ Kept(pass[q].entries) /\ pass'[q].entries = pass[q].entries
    BY <1>1, <1>3, <1>9
  <2> QED
    BY <2>1 DEF Fresh, Kept, AccountedIn, Active, history
<1> QED
  BY <1>5, <1>6, <1>7, <1>8, <1>9 DEF IInv

(* The actions of a tick. *)
LEMMA FireHolds ==
  ASSUME IInv, NEW p \in 1..Passes, NEW i \in Ids,
         Fire(p, i) \/ SendOk(p, i) \/ SendThrows(p, i)
  PROVE  IInv'
<1> DEFINE r == pass[p]
           e == r.entries[i]
<1>1. /\ pass \in [1..Passes -> PassRecord] /\ r \in PassRecord /\ PassOK(r)
      /\ sent \in [Ids -> [Time -> Nat]] /\ told \subseteq Ids \X {"missed", "blocked", "threw"}
  BY DEF IInv, Shape
<1>2. i \in r.todo /\ Running(p)
  <2>1. i \in r.out => r.phase = "sending" /\ i \in r.todo
    BY <1>1 DEF PassOK
  <2> QED
    BY <2>1 DEF Fire, HoldBack, Miss, NoDestination, Throttle, BeginSend, MaySend, Picks, SendOk,
                SendThrows, Running
<1>3. i \in DOMAIN r.entries /\ e \in Entry /\ e.state = "active" /\ e.nextAt # Never /\ r.at \in Time
  BY <1>1, <1>2 DEF PassOK, Due, Active, EntriesOK, PassRecord
<1>4. CASE HoldBack(p, i) \/ Throttle(p, i)
  <2> DEFINE s == [r EXCEPT !.todo = @ \ {i}]
  <2>1. pass' = [pass EXCEPT ![p] = s] /\ UNCHANGED <<store, now, faults, history>> /\ r.phase = "picking"
    BY <1>1, <1>4 DEF HoldBack, Throttle, Left, MaySend, Picks
  <2>2. /\ s \in PassRecord /\ s.entries = r.entries /\ s.at = r.at /\ s.changed = r.changed
        /\ s.phase = r.phase /\ s.todo = r.todo \ {i} /\ s.out = r.out
    BY <1>1 DEF PassRecord
  <2>3. r.out = {}
    BY <1>1, <2>1 DEF PassOK
  <2> HIDE DEF s
  <2> QED
    BY <1>2, <2>1, <2>2, <2>3, PassedOverHolds DEF r
<1>5. CASE BeginSend(p, i)
  <2> DEFINE s == [r EXCEPT !.phase = "sending", !.out = {i}]
  <2>1. pass' = [pass EXCEPT ![p] = s] /\ UNCHANGED <<store, now, faults, history>>
    BY <1>1, <1>5 DEF BeginSend
  <2>2. /\ s \in PassRecord /\ s.entries = r.entries /\ s.at = r.at /\ s.changed = r.changed
        /\ s.phase = "sending" /\ s.todo = r.todo /\ s.out = {i}
    BY <1>1 DEF PassRecord
  <2> HIDE DEF s
  <2> QED
    BY <1>2, <2>1, <2>2, PassedOverHolds DEF r
<1>6. CASE Miss(p, i)
  <2> DEFINE m == Missed(e, r.at)
  <2>1. /\ m \in Entry /\ (m.nextAt # Never => m.state = "active" /\ m.nextAt \in Nat /\ m.nextAt > r.at)
        /\ (m.nextAt = Never => m.state = "missed") /\ m.state \in {"active", "missed"}
    BY <1>3, MissedGoes
  <2>2. /\ Changed(p, i, m) /\ told' = told \cup {<<i, "missed">>}
        /\ UNCHANGED <<store, now, faults, promised, calledOff, during, sent>>
    BY <1>6 DEF Miss
  <2>3. /\ told \subseteq told' /\ told' \subseteq Ids \X {"missed", "blocked", "threw"} /\ <<i, "missed">> \in told'
        /\ sent' = sent /\ sent' \in [Ids -> [Time -> Nat]]
    BY <1>1, <2>2
  <2> HIDE DEF m, e, r
  <2>4. /\ m.nextAt = Never => m.state # "active"
        /\ m.state # "cancelled" /\ m.state # "done" /\ m.state # "failed"
    BY <2>1
  <2> QED
    BY <1>2, <2>1, <2>2, <2>3, <2>4, FiredHolds DEF r
<1>7. CASE NoDestination(p, i) \/ SendThrows(p, i)
  <2> DEFINE f == Failed(e)
  <2>1. f \in Entry /\ f.state = "failed" /\ f.nextAt = Never
    BY <1>3, FailedGoes
  <2>2. PICK why \in {"blocked", "threw"} :
          /\ Changed(p, i, f) /\ told' = told \cup {<<i, why>>}
          /\ UNCHANGED <<store, now, faults, promised, calledOff, during, sent>>
    BY <1>7 DEF NoDestination, SendThrows
  <2>3. /\ told \subseteq told' /\ told' \subseteq Ids \X {"missed", "blocked", "threw"} /\ <<i, why>> \in told'
        /\ sent' = sent /\ sent' \in [Ids -> [Time -> Nat]]
    BY <1>1, <2>2
  <2> HIDE DEF f, e, r
  <2>4. f.state # "active" /\ f.state # "cancelled" /\ f.state # "done" /\ f.state # "missed"
    BY <2>1
  <2> QED
    BY <1>2, <2>1, <2>2, <2>3, <2>4, FiredHolds DEF r
<1>8. CASE SendOk(p, i)
  <2> DEFINE a == Advance(e, r.at)
             n == e.nextAt
  <2>1. /\ a \in Entry /\ (a.nextAt # Never => a.state = "active" /\ a.nextAt \in Nat /\ a.nextAt > r.at)
        /\ (a.nextAt = Never => a.state = "done") /\ a.state \in {"active", "done"}
    BY <1>3, AdvanceGoes
  <2>2. /\ Changed(p, i, a) /\ sent' = [sent EXCEPT ![i][n] = @ + 1]
        /\ UNCHANGED <<store, now, faults, promised, calledOff, during, told>>
    BY <1>8 DEF SendOk
  <2>3. n \in Time
    <3>1. n <= r.at
      BY <1>1, <1>2 DEF PassOK, Due
    <3>2. n \in Nat
      BY <1>3, Constants DEF Entry
    <3>4. r.at \in Nat /\ r.at <= MaxTime
      BY <1>3, Constants DEF Time
    <3> QED
      BY <3>1, <3>2, <3>4, Constants DEF Time
  <2> HIDE DEF a, n, e, r
  <2>4. sent[i] \in [Time -> Nat] /\ sent' = [sent EXCEPT ![i] = [sent[i] EXCEPT ![n] = sent[i][n] + 1]]
    BY <1>1, <2>2
  <2>5. /\ sent' \in [Ids -> [Time -> Nat]] /\ sent'[i][n] = sent[i][n] + 1 /\ sent[i][n] \in Nat
        /\ \A j \in Ids, t \in Time : j # i \/ t # n => sent'[j][t] = sent[j][t]
    <3> DEFINE g == [sent[i] EXCEPT ![n] = sent[i][n] + 1]
    <3>1. g \in [Time -> Nat] /\ g[n] = sent[i][n] + 1 /\ sent[i][n] \in Nat
          /\ \A t \in Time : t # n => g[t] = sent[i][t]
      BY <2>3, <2>4
    <3> HIDE DEF g
    <3>2. sent' = [sent EXCEPT ![i] = g]
      BY <2>4 DEF g
    <3> QED
      BY <1>1, <3>1, <3>2
  <2>6. \A j \in Ids, t \in Time :
          sent'[j][t] = sent[j][t] \/ (j = i /\ t = n /\ sent'[j][t] = sent[j][t] + 1)
    BY <2>5
  <2>7. \E t \in Time : sent'[i][t] > 0
    BY <2>3, <2>5
  <2> QED
    BY <1>1, <1>2, <2>1, <2>2, <2>5, <2>6, <2>7, FiredHolds DEF r, e, n
<1> QED
  BY <1>4, <1>5, <1>6, <1>7, <1>8 DEF Fire

----------------------------------------------------------------------------
(* Passes begin and end *)

LEMMA NoPassIs ==
  /\ NoPass \in PassRecord /\ PassOK(NoPass) /\ NoPass.phase = "idle" /\ ~NoPass.changed
  /\ DOMAIN NoPass.entries = {}
<1>1. NoEntries \in Tables /\ DOMAIN NoEntries = {} /\ EntriesOK(NoEntries)
  <2>1. NoEntries \in [{} -> Entry] /\ {} \in SUBSET Ids /\ DOMAIN NoEntries = {}
    BY DEF NoEntries
  <2> QED
    BY <2>1 DEF Tables, EntriesOK
<1>2. 0 \in Time
  BY Constants DEF Time
<1>3. NoPass \in PassRecord
  BY <1>1, <1>2 DEF NoPass, PassRecord
<1> QED
  BY <1>1, <1>3 DEF NoPass, PassOK

LEMMA TickHolds ==
  ASSUME IInv, NEW p \in 1..Passes, Tick(p)
  PROVE  IInv'
<1>1. /\ Shape /\ OnePass /\ Created /\ SentOnce /\ Kept(store) /\ (~Unwritten => Fresh(store))
      /\ pass \in [1..Passes -> PassRecord] /\ store \in Tables /\ EntriesOK(store) /\ now \in Time
  BY DEF IInv, Shape
<1>2. \A q \in 1..Passes : ~Running(q)
  BY DEF Tick, NotTicking, Idle, Running
<1>3. Fresh(store)
  BY <1>1, <1>2 DEF Unwritten
<1> DEFINE s == [phase |-> "picking", at |-> now, entries |-> store,
                 todo |-> Due(store, now), out |-> {}, changed |-> FALSE]
<1>4. pass' = [pass EXCEPT ![p] = s] /\ UNCHANGED <<store, now, faults, history>>
  BY DEF Tick
<1>5. s \in PassRecord
  <2>1. Due(store, now) \subseteq Ids
    BY <1>1 DEF Due, Active, EntriesOK
  <2> QED
    BY <1>1, <2>1 DEF PassRecord
<1>6. PassOK(s)
  BY <1>1 DEF PassOK
<1>7. s.phase = "picking" /\ s.entries = store /\ s.changed = FALSE
  OBVIOUS
<1> HIDE DEF s
<1>8. pass' \in [1..Passes -> PassRecord] /\ pass'[p] = s /\ \A q \in 1..Passes : q # p => pass'[q] = pass[q]
  BY <1>1, <1>4, <1>5
<1>9. Shape'
  <2>1. \A q \in 1..Passes : PassOK(pass'[q])
    BY <1>1, <1>6, <1>8 DEF Shape
  <2> QED
    BY <1>1, <1>4, <1>8, <2>1 DEF Shape, PassOK, EntriesOK, Due, Active, history
<1>10. \A q \in 1..Passes : Running(q)' => q = p
  BY <1>2, <1>8 DEF Running
<1>11. OnePass' /\ ~Unwritten'
  BY <1>7, <1>8, <1>10 DEF OnePass, Unwritten
<1>12. Created' /\ SentOnce'
  BY <1>1, <1>4, <1>7, <1>8 DEF Created, SentOnce, history
<1>13. Kept(store)' /\ Fresh(store)'
  BY <1>1, <1>3, <1>4 DEF Kept, AccountedIn, Fresh, Active, history
<1>14. \A q \in 1..Passes : Running(q)' => Fresh(pass[q].entries)' /\ Kept(pass[q].entries)'
  <2>1. pass'[p].entries = store'
    BY <1>4, <1>7, <1>8
  <2>2. Fresh(pass[p].entries)' /\ Kept(pass[p].entries)'
    BY <1>13, <2>1 DEF Kept, AccountedIn, Fresh, Active
  <2> QED
    BY <1>10, <2>2
<1> QED
  BY <1>9, <1>11, <1>12, <1>13, <1>14 DEF IInv

(* When no tick runs after a step, the file must stand by itself. *)
LEMMA AloneHolds ==
  ASSUME IInv, pass' \in [1..Passes -> PassRecord],
         \A q \in 1..Passes :
           pass'[q].phase = "idle" /\ PassOK(pass'[q]) /\ DOMAIN pass'[q].entries \subseteq promised,
         NEW f \in Tables, store' = f, EntriesOK(f), DOMAIN f \subseteq promised, Kept(f),
         faults' \in 0..MaxFaults, faults <= faults',
         \A i \in Active(f), t \in Time : f[i].nextAt <= t => sent[i][t] <= faults',
         UNCHANGED <<now, history>>
  PROVE  IInv'
<1>1. Shape /\ Created /\ SentOnce /\ faults \in Nat /\ faults' \in Nat /\ sent \in [Ids -> [Time -> Nat]]
  BY Constants DEF IInv, Shape
<1>2. \A q \in 1..Passes : ~Running(q)'
  BY DEF Running
<1>3. Shape'
  BY <1>1 DEF Shape, PassOK, EntriesOK, Due, Active, history
<1>4. OnePass' /\ ~Unwritten'
  BY <1>2 DEF OnePass, Unwritten
<1>5. Created'
  BY <1>1 DEF Created, history
<1>6. SentOnce'
  <2>1. \A i \in Ids, t \in Time : sent[i][t] \in Nat
    <3>1. \A i \in Ids : sent[i] \in [Time -> Nat]
      BY <1>1
    <3> QED
      BY <3>1
  <2>2. \A i \in Ids, t \in Time : sent[i][t] <= 1 + faults
    BY <1>1 DEF SentOnce
  <2>3. \A i \in Ids, t \in Time : sent[i][t] <= 1 + faults'
    BY <1>1, <2>1, <2>2
  <2> QED
    BY <2>3 DEF SentOnce, history
<1>7. Kept(store)' /\ Fresh(store)'
  BY DEF Kept, AccountedIn, Fresh, Active, history
<1> QED
  BY <1>2, <1>3, <1>4, <1>5, <1>6, <1>7 DEF IInv

(* A lost write and a crash cost one more sending of each occurrence at most. *)
LEMMA FaultCovers ==
  ASSUME IInv
  PROVE  \A i \in Active(store), t \in Time : sent[i][t] <= faults + 1
<1>1. Active(store) \subseteq Ids /\ \A i \in Ids, t \in Time : sent[i][t] <= 1 + faults
  BY DEF IInv, Shape, EntriesOK, Active, SentOnce
<1>2. \A i \in Ids, t \in Time : sent[i][t] \in Nat
  <2>1. \A i \in Ids : sent[i] \in [Time -> Nat]
    BY DEF IInv, Shape
  <2> QED
    BY <2>1
<1>3. faults \in Nat
  BY Constants DEF IInv, Shape
<1> QED
  BY <1>1, <1>2, <1>3

LEMMA EndPassHolds ==
  ASSUME IInv, NEW p \in 1..Passes, EndPass(p)
  PROVE  IInv'
<1> DEFINE e == pass[p].entries
<1>1. /\ Shape /\ OnePass /\ Created /\ Kept(store) /\ (~Unwritten => Fresh(store))
      /\ pass \in [1..Passes -> PassRecord] /\ store \in Tables /\ EntriesOK(store)
      /\ faults \in 0..MaxFaults /\ faults \in Nat /\ PassOK(pass[p]) /\ MaxFaults \in Nat
  BY Constants DEF IInv, Shape
<1>2. Running(p) /\ UNCHANGED <<now, history>>
  BY DEF EndPass, Running
<1>3. Fresh(e) /\ Kept(e) /\ e \in Tables /\ EntriesOK(e) /\ DOMAIN e \subseteq promised
  BY <1>1, <1>2 DEF IInv, PassRecord, PassOK, Created
<1>4. /\ pass' \in [1..Passes -> PassRecord]
      /\ \A q \in 1..Passes :
           pass'[q].phase = "idle" /\ PassOK(pass'[q]) /\ DOMAIN pass'[q].entries \subseteq promised
  <2>1. pass' = [pass EXCEPT ![p] = NoPass]
    BY DEF EndPass, After
  <2>2. pass' \in [1..Passes -> PassRecord] /\ pass'[p] = NoPass /\ \A q \in 1..Passes : q # p => pass'[q] = pass[q]
    BY <1>1, <2>1, NoPassIs
  <2>3. \A q \in 1..Passes : q # p => pass[q].phase = "idle"
    BY <1>1, <1>2 DEF OnePass, Running
  <2> QED
    BY <1>1, <2>2, <2>3, NoPassIs DEF Created, Shape
<1>5. Unwritten <=> pass[p].changed
  BY <1>1, <1>2 DEF OnePass, Unwritten
<1>6. CASE pass[p].changed /\ store' = e /\ faults' = faults
  <2>1. \A i \in Active(e), t \in Time : e[i].nextAt <= t => sent[i][t] <= faults'
    BY <1>3, <1>6 DEF Fresh
  <2> HIDE DEF e
  <2> QED
    BY <1>1, <1>2, <1>3, <1>4, <1>6, <2>1, AloneHolds
<1>7. CASE ~pass[p].changed /\ store' = store /\ faults' = faults
  <2>1. \A i \in Active(store), t \in Time : store[i].nextAt <= t => sent[i][t] <= faults'
    BY <1>1, <1>5, <1>7 DEF Fresh
  <2>2. DOMAIN store \subseteq promised
    BY <1>1 DEF Created
  <2> QED
    BY <1>1, <1>2, <1>4, <1>7, <2>1, <2>2, AloneHolds
<1>8. CASE faults < MaxFaults /\ faults' = faults + 1 /\ store' = store
  <2>1. \A i \in Active(store), t \in Time : store[i].nextAt <= t => sent[i][t] <= faults'
    BY <1>8, FaultCovers
  <2>2. DOMAIN store \subseteq promised /\ faults' \in 0..MaxFaults /\ faults <= faults'
    BY <1>1, <1>8 DEF Created
  <2> QED
    BY <1>1, <1>2, <1>4, <1>8, <2>1, <2>2, AloneHolds
<1> QED
  BY <1>6, <1>7, <1>8 DEF EndPass

LEMMA CrashHolds ==
  ASSUME IInv, Crash
  PROVE  IInv'
<1>1. /\ Shape /\ Created /\ Kept(store) /\ store \in Tables /\ EntriesOK(store)
      /\ faults \in 0..MaxFaults /\ MaxFaults \in Nat
  BY Constants DEF IInv, Shape
<1>2. /\ pass' = [q \in 1..Passes |-> NoPass] /\ faults < MaxFaults /\ faults' = faults + 1
      /\ UNCHANGED <<store, now, history>>
  BY DEF Crash
<1>3. /\ pass' \in [1..Passes -> PassRecord]
      /\ \A q \in 1..Passes :
           pass'[q].phase = "idle" /\ PassOK(pass'[q]) /\ DOMAIN pass'[q].entries \subseteq promised
  BY <1>2, NoPassIs
<1>4. \A i \in Active(store), t \in Time : store[i].nextAt <= t => sent[i][t] <= faults'
  BY <1>2, FaultCovers
<1>5. DOMAIN store \subseteq promised /\ faults' \in 0..MaxFaults /\ faults <= faults' /\ store' = store
  BY <1>1, <1>2 DEF Created
<1> QED
  BY <1>1, <1>2, <1>3, <1>4, <1>5, AloneHolds

----------------------------------------------------------------------------
(* Asking *)

(* A step that leaves every tick alone and asks something of the file. *)
LEMMA AskedHolds ==
  ASSUME IInv, UNCHANGED <<pass, now, faults, sent, told>>,
         NEW f \in Tables, store' = f, EntriesOK(f),
         promised \subseteq promised', promised' \subseteq Ids, calledOff \subseteq calledOff',
         calledOff' \subseteq promised', during \subseteq during', during' \subseteq promised',
         DOMAIN f \subseteq promised',
         ~Unwritten => Fresh(f), Kept(f)',
         ~Idle => /\ promised' \ during' \subseteq promised \ during
                  /\ calledOff' \ during' \subseteq calledOff \ during
  PROVE  IInv'
<1>1. /\ Shape /\ OnePass /\ Created /\ SentOnce
      /\ \A q \in 1..Passes : Running(q) => Fresh(pass[q].entries) /\ Kept(pass[q].entries)
  BY DEF IInv
<1>2. Shape'
  BY <1>1 DEF Shape, PassOK, EntriesOK, Due, Active
<1>3. OnePass' /\ Created' /\ SentOnce' /\ (Unwritten' <=> Unwritten)
  BY <1>1 DEF OnePass, Running, Created, SentOnce, Unwritten
<1>4. Kept(store)' /\ (~Unwritten' => Fresh(store)')
  BY <1>3 DEF Kept, AccountedIn, Fresh, Active
<1>5. ASSUME NEW q \in 1..Passes, Running(q)' PROVE Fresh(pass[q].entries)' /\ Kept(pass[q].entries)'
  <2>1. Running(q) /\ pass[q].entries = pass'[q].entries
    BY <1>5 DEF Running
  <2>2. ~Idle /\ Fresh(pass[q].entries) /\ Kept(pass[q].entries)
    BY <1>1, <2>1 DEF Idle, Running
  <2>3. Fresh(pass[q].entries)'
    BY <2>1, <2>2 DEF Fresh, Active
  <2>4. \A i \in promised' \ during' : AccountedIn(pass[q].entries, i)
    BY <2>2 DEF Kept
  <2>5. \A i \in calledOff' \ during' : pass[q].entries[i].state = "cancelled"
    BY <2>2 DEF Kept
  <2>6. Kept(pass[q].entries)'
    BY <2>1, <2>4, <2>5 DEF Kept, AccountedIn
  <2> QED
    BY <2>3, <2>6
<1> QED
  BY <1>2, <1>3, <1>4, <1>5 DEF IInv

LEMMA CreateHolds ==
  ASSUME IInv, NEW i \in Ids, NEW c \in Chats, NEW kind \in {"once", "cron"},
         NEW by \in {"agent", "operator"}, NEW at \in Occurrence, Create(i, c, kind, by, at)
  PROVE  IInv'
<1> DEFINE e == [chat |-> c, kind |-> kind, by |-> by, nextAt |-> at, state |-> "active"]
           f == [j \in DOMAIN store \cup {i} |-> IF j = i THEN e ELSE store[j]]
<1>1. /\ Shape /\ Created /\ Kept(store) /\ store \in Tables /\ EntriesOK(store)
      /\ (~Unwritten => Fresh(store)) /\ sent \in [Ids -> [Time -> Nat]] /\ faults \in Nat
      /\ DOMAIN store \subseteq promised
  BY Constants DEF IInv, Shape, Created
<1>2. /\ i \notin promised /\ store' = f /\ promised' = promised \cup {i}
      /\ during' = (IF Idle THEN during ELSE during \cup {i})
      /\ UNCHANGED <<pass, now, faults, sent, told, calledOff>>
  BY DEF Create, Overlaps
<1>3. e \in Entry /\ e.nextAt # Never /\ e.state = "active"
  BY Constants DEF Entry
<1> HIDE DEF e
<1>4. /\ DOMAIN f = DOMAIN store \cup {i} /\ f[i] = e /\ \A j \in DOMAIN store : j # i => f[j] = store[j]
  OBVIOUS
<1>5. \A j \in DOMAIN f : f[j] \in Entry /\ (f[j].state = "active" <=> f[j].nextAt # Never)
  BY <1>1, <1>3 DEF EntriesOK
<1>6. f \in Tables
  <2>1. DOMAIN f \in SUBSET Ids /\ f \in [DOMAIN f -> Entry]
    BY <1>1, <1>5 DEF EntriesOK
  <2> QED
    BY <2>1 DEF Tables
<1> HIDE DEF f
<1>7. EntriesOK(f)
  BY <1>1, <1>4, <1>5 DEF EntriesOK
<1>8. ~Unwritten => Fresh(f)
  <2>1. ASSUME NEW t \in Time PROVE sent[i][t] <= faults
    <3>1. sent[i] \in [Time -> Nat]
      BY <1>1
    <3>2. sent[i][t] \in Nat /\ ~(sent[i][t] > 0)
      BY <1>1, <1>2, <3>1 DEF Created
    <3> QED
      BY <1>1, <3>2
  <2>2. \A j \in Active(f) : j = i \/ (j \in Active(store) /\ f[j] = store[j])
    BY <1>4 DEF Active
  <2> QED
    BY <1>1, <2>1, <2>2 DEF Fresh
<1>12. PICK g : g = f
  OBVIOUS
<1>9. Kept(g)'
  <2>1. \A j \in promised' \ during' : AccountedIn(f, j)
    <3>1. AccountedIn(f, i)
      BY <1>3, <1>4 DEF AccountedIn
    <3>2. ASSUME NEW j \in promised \ during, j # i PROVE AccountedIn(f, j)
      BY <1>1, <1>4, <3>2 DEF Kept, AccountedIn
    <3> QED
      BY <1>2, <3>1, <3>2
  <2>2. \A j \in calledOff \ during : f[j].state = "cancelled"
    <3>1. ASSUME NEW j \in calledOff \ during PROVE f[j].state = "cancelled"
      <4>1. j \in promised \ during /\ j # i
        BY <1>1, <1>2, <3>1 DEF Shape
      <4>2. j \in DOMAIN store /\ store[j].state = "cancelled"
        BY <1>1, <3>1, <4>1 DEF Kept, AccountedIn
      <4> QED
        BY <1>4, <4>1, <4>2
    <3> QED
      BY <3>1
  <2> QED
    BY <1>2, <1>12, <2>1, <2>2 DEF Kept, AccountedIn
<1>10. /\ promised' \subseteq Ids /\ calledOff' \subseteq promised' /\ during \subseteq during'
       /\ during' \subseteq promised' /\ DOMAIN f \subseteq promised'
  BY <1>1, <1>2, <1>4 DEF Shape
<1>11. ~Idle => promised' \ during' \subseteq promised \ during /\ calledOff' \ during' \subseteq calledOff \ during
  BY <1>2
<1> QED
  BY <1>2, <1>6, <1>7, <1>8, <1>9, <1>10, <1>11, <1>12, AskedHolds

LEMMA CancelHolds ==
  ASSUME IInv, NEW i \in Ids, Cancel(i)
  PROVE  IInv'
<1> DEFINE e == [store[i] EXCEPT !.state = "cancelled", !.nextAt = Never]
           f == [store EXCEPT ![i] = e]
<1>1. /\ Shape /\ Created /\ Kept(store) /\ store \in Tables /\ EntriesOK(store)
      /\ (~Unwritten => Fresh(store)) /\ DOMAIN store \subseteq promised
  BY DEF IInv, Shape, Created
<1>2. /\ i \in DOMAIN store /\ calledOff' = calledOff \cup {i} /\ i \in promised
      /\ during' = (IF Idle THEN during ELSE during \cup {i})
      /\ UNCHANGED <<pass, now, faults, sent, told, promised>>
  BY <1>1 DEF Cancel, Overlaps, Active
<1>3. store' = f
  BY <1>1, <1>2 DEF Cancel
<1>4. e \in Entry /\ e.nextAt = Never /\ e.state = "cancelled"
  <2>1. store[i] \in Entry
    BY <1>1, <1>2 DEF EntriesOK
  <2> QED
    BY <2>1 DEF Entry
<1> HIDE DEF e
<1>5. f \in Tables /\ DOMAIN f = DOMAIN store /\ f[i] = e /\ \A j \in DOMAIN store : j # i => f[j] = store[j]
  BY <1>1, <1>2, <1>4, TableIs
<1> HIDE DEF f
<1>6. EntriesOK(f)
  BY <1>1, <1>4, <1>5 DEF EntriesOK
<1>7. ~Unwritten => Fresh(f)
  <2>1. \A j \in Active(f) : j \in Active(store) /\ f[j] = store[j]
    BY <1>4, <1>5 DEF Active
  <2> QED
    BY <1>1, <2>1 DEF Fresh
<1>11. PICK g : g = f
  OBVIOUS
<1>8. Kept(g)'
  <2>1. ASSUME NEW j \in promised' \ during'
        PROVE  /\ j \in DOMAIN f
               /\ f[j].state = "done" => \E t \in Time : sent[j][t] > 0
               /\ f[j].state = "cancelled" => j \in calledOff'
               /\ f[j].state = "missed" => <<j, "missed">> \in told
               /\ f[j].state = "failed" => \E why \in {"blocked", "threw"} : <<j, why>> \in told
    <3>1. CASE j = i
      BY <1>2, <1>4, <1>5, <3>1
    <3>2. CASE j # i
      <4>1. AccountedIn(store, j)
        BY <1>1, <1>2, <2>1 DEF Kept
      <4> QED
        BY <1>2, <1>5, <3>2, <4>1 DEF AccountedIn
    <3> QED
      BY <3>1, <3>2
  <2>2. ASSUME NEW j \in calledOff' \ during' PROVE f[j].state = "cancelled"
    <3>1. CASE j = i
      BY <1>4, <1>5, <3>1
    <3>2. CASE j # i
      <4>1. j \in calledOff \ during /\ j \in promised \ during
        BY <1>1, <1>2, <2>2, <3>2 DEF Shape
      <4>2. store[j].state = "cancelled" /\ j \in DOMAIN store
        BY <1>1, <4>1 DEF Kept, AccountedIn
      <4> QED
        BY <1>5, <3>2, <4>2
    <3> QED
      BY <3>1, <3>2
  <2> QED
    BY <1>2, <1>11, <2>1, <2>2 DEF Kept, AccountedIn
<1>9. /\ promised' \subseteq Ids /\ calledOff' \subseteq promised' /\ during \subseteq during'
      /\ during' \subseteq promised' /\ DOMAIN f \subseteq promised'
  BY <1>1, <1>2, <1>5 DEF Shape
<1>10. ~Idle => promised' \ during' \subseteq promised \ during /\ calledOff' \ during' \subseteq calledOff \ during
  BY <1>2
<1> QED
  BY <1>2, <1>3, <1>5, <1>6, <1>7, <1>8, <1>9, <1>10, <1>11, AskedHolds

----------------------------------------------------------------------------
(* The theorems *)

LEMMA InitHolds == Init => IInv
<1> SUFFICES ASSUME Init PROVE IInv
  OBVIOUS
<1>1. store = NoEntries /\ NoEntries \in Tables /\ DOMAIN NoEntries = {} /\ EntriesOK(NoEntries)
  BY NoPassIs DEF Init, NoPass, PassRecord, PassOK
<1>2. pass \in [1..Passes -> PassRecord] /\ \A p \in 1..Passes : pass[p] = NoPass
  BY NoPassIs DEF Init
<1>3. \A p \in 1..Passes : ~Running(p) /\ PassOK(pass[p]) /\ DOMAIN pass[p].entries = {}
  BY <1>2, NoPassIs DEF Running
<1>4. \A i \in Ids : sent[i] = [t \in Time |-> 0]
  BY DEF Init
<1>5. sent \in [Ids -> [Time -> Nat]] /\ \A i \in Ids, t \in Time : sent[i][t] = 0
  BY <1>4 DEF Init
<1>6. now \in Time /\ faults \in 0..MaxFaults /\ faults = 0
  BY Constants DEF Init, Time
<1>7. Shape
  BY <1>1, <1>2, <1>3, <1>5, <1>6 DEF Shape, Init
<1>8. OnePass /\ ~Unwritten
  BY <1>3 DEF OnePass, Unwritten
<1>9. Created /\ SentOnce
  BY <1>1, <1>3, <1>5, <1>6 DEF Created, SentOnce
<1>10. Kept(store) /\ Fresh(store)
  BY <1>1 DEF Kept, Fresh, Active, Init
<1> QED
  BY <1>3, <1>7, <1>8, <1>9, <1>10 DEF IInv

LEMMA StepHolds == IInv /\ [Next]_vars => IInv'
<1> SUFFICES ASSUME IInv, [Next]_vars PROVE IInv'
  OBVIOUS
<1>1. ASSUME NEW i \in Ids, NEW c \in Chats, NEW kind \in {"once", "cron"},
             NEW by \in {"agent", "operator"}, NEW at \in Occurrence, Create(i, c, kind, by, at)
      PROVE  IInv'
  BY <1>1, CreateHolds
<1>2. ASSUME NEW i \in Ids, Cancel(i) PROVE IInv'
  BY <1>2, CancelHolds
<1>3. ASSUME NEW p \in 1..Passes, Tick(p) PROVE IInv'
  BY <1>3, TickHolds
<1>4. ASSUME NEW p \in 1..Passes, EndPass(p) PROVE IInv'
  BY <1>4, EndPassHolds
<1>5. ASSUME NEW p \in 1..Passes, NEW i \in Ids, Fire(p, i) \/ SendOk(p, i) \/ SendThrows(p, i)
      PROVE  IInv'
  BY <1>5, FireHolds
<1>6. ASSUME UNCHANGED <<store, pass, faults, history>>, now' \in Time PROVE IInv'
  <2>1. /\ Shape /\ OnePass /\ Created /\ SentOnce /\ Kept(store) /\ (~Unwritten => Fresh(store))
        /\ \A q \in 1..Passes : Running(q) => Fresh(pass[q].entries) /\ Kept(pass[q].entries)
    BY DEF IInv
  <2>2. Shape'
    BY <1>6, <2>1 DEF Shape, PassOK, EntriesOK, Due, Active, history
  <2>3. OnePass' /\ Created' /\ SentOnce' /\ (Unwritten' <=> Unwritten)
    BY <1>6, <2>1 DEF OnePass, Created, SentOnce, Unwritten, Running, history
  <2>4. Kept(store)' /\ (~Unwritten' => Fresh(store)')
    BY <1>6, <2>1, <2>3 DEF Kept, AccountedIn, Fresh, Active, history
  <2>5. \A q \in 1..Passes : Running(q)' => Fresh(pass[q].entries)' /\ Kept(pass[q].entries)'
    BY <1>6, <2>1 DEF Running, Kept, AccountedIn, Fresh, Active, history
  <2> QED
    BY <2>2, <2>3, <2>4, <2>5 DEF IInv
<1>7. CASE TimePasses
  <2>1. now' \in Time
    BY <1>7, Constants DEF TimePasses, IInv, Shape, Time
  <2> QED
    BY <1>6, <1>7, <2>1 DEF TimePasses
<1>8. CASE Crash
  BY <1>8, CrashHolds
<1>9. CASE UNCHANGED vars
  BY <1>6, <1>9 DEF vars, IInv, Shape
<1> QED
  BY <1>1, <1>2, <1>3, <1>4, <1>5, <1>7, <1>8, <1>9 DEF Next, Ask

(* The inductive invariant: one tick at a time, its copy as good as the file, and
   each occurrence still to come sent no more often than faults account for. *)
THEOREM ReminderInvariant == Spec => []IInv
<1>1. Init => IInv
  BY InitHolds
<1>2. IInv /\ [Next]_vars => IInv'
  BY StepHolds
<1> QED
  BY <1>1, <1>2, PTL DEF Spec

(* The file and the copies of it hold entries of the schema, active ones with a next
   time and no other, and a send is out for one due entry (schedule.ts). *)
THEOREM TypesHold == Spec => []TypeOK
<1>1. IInv => TypeOK
  <2> SUFFICES ASSUME IInv PROVE TypeOK
    OBVIOUS
  <2>1. Shape
    BY DEF IInv
  <2>2. ASSUME NEW p \in 1..Passes
        PROVE  /\ pass[p].phase \in {"idle", "picking", "sending"}
               /\ EntriesOK(pass[p].entries)
               /\ pass[p].todo \subseteq Due(pass[p].entries, pass[p].at)
               /\ pass[p].out \subseteq pass[p].todo
               /\ Cardinality(pass[p].out) = (IF pass[p].phase = "sending" THEN 1 ELSE 0)
    <3>1. PassOK(pass[p]) /\ pass[p] \in PassRecord
      BY <2>1 DEF Shape
    <3>2. Cardinality(pass[p].out) = (IF pass[p].phase = "sending" THEN 1 ELSE 0)
      <4>1. CASE pass[p].phase = "sending"
        <5>1. PICK i \in Ids : pass[p].out = {i}
          BY <3>1, <4>1 DEF PassOK
        <5> QED
          BY <4>1, <5>1, FS_Singleton
      <4>2. CASE pass[p].phase # "sending"
        <5>1. pass[p].out = {}
          BY <3>1, <4>2 DEF PassOK
        <5> QED
          BY <4>2, <5>1, FS_EmptySet
      <4> QED
        BY <4>1, <4>2
    <3> QED
      BY <3>1, <3>2 DEF PassOK, PassRecord
  <2> QED
    BY <2>1, <2>2 DEF Shape, TypeOK
<1> QED
  BY <1>1, ReminderInvariant, PTL

(* An occurrence is sent once, but for one repetition a crash or lost write, and what
   is asked between two passes is kept, reported or cancelled as asked (schedule.ts,
   "nothing is ever silently dropped"): for any entries, limits, period and clock. *)
THEOREM RemindersHoldAlways == Spec => []RemindersHold
<1>1. IInv => RemindersHold
  BY DEF IInv, RemindersHold, AskedBetweenPassesHolds, Kept, AccountedIn, Accounted
<1> QED
  BY <1>1, ReminderInvariant, PTL

----------------------------------------------------------------------------
(* Terminal.  Keys have a number of their own, and an index counted by the bridge
   from its start. *)

\* By how much the numbers of the keys of a request, or of those a poll is to type,
\* are above their indices: the keys pressed before the bridge last restarted.
Offsets(r) == {r.keys[k] - (r.keySeq - Len(r.keys) + k) : k \in 1..Len(r.keys)}
FreshOffsets(fresh) == {fresh[k].key - fresh[k].index : k \in 1..Len(fresh)}
PollOffsets(p) == Offsets(poll[p].request) \cup FreshOffsets(poll[p].fresh)
Forgotten == pressed - keySeq

\* The shape of a request, and of what a poll is to type.
Requests == [window : T!Window \cup {T!Follow}, live : BOOLEAN, keySeq : 0..MaxKeys, keys : Seq(1..MaxKeys)]
Fits(r) == r \in Requests /\ Len(r.keys) <= KeyWindow /\ Len(r.keys) <= r.keySeq
ToType == Seq([index : 1..MaxKeys, key : 1..MaxKeys])
Numbered(fresh) ==
  /\ fresh \in ToType /\ Len(fresh) <= KeyWindow
  /\ \A k \in 1..Len(fresh) : fresh[k].index = fresh[1].index + k - 1
CallsOf == [phase : {"idle", "listing", "typing", "awaiting"}, request : Requests, window : T!Window, fresh : ToType]

Shaped ==
  /\ keySeq \in 0..MaxKeys /\ pressed \in 0..MaxKeys /\ applied \in 0..MaxKeys
  /\ keySeq <= pressed /\ Len(pending) <= keySeq
  /\ pending \in Seq(1..MaxKeys) /\ Len(pending) <= KeyWindow
  /\ \A k \in 1..Len(pending) : pending[k] = pressed - Len(pending) + k
  /\ aim \in T!Window \cup {T!NoAim}
  /\ Fits(request)
  /\ agentRestarts \in 0..MaxRestarts /\ bridgeRestarts \in 0..MaxRestarts
  /\ overlap \in BOOLEAN /\ order \in Seq(Nat)

PollsShaped ==
  /\ poll \in [Polls -> CallsOf]
  /\ \A p \in Polls :
       /\ Fits(poll[p].request) /\ Numbered(poll[p].fresh)
       /\ poll[p].phase = "awaiting" => poll[p].fresh # <<>>
       /\ poll[p].phase # "listing" => poll[p].request = T!NoRequest
       /\ poll[p].phase \notin {"typing", "awaiting"} => poll[p].fresh = <<>>

\* Nothing is read but what was pressed.
WasPressed ==
  /\ \A k \in 1..Len(request.keys) : request.keys[k] <= pressed
  /\ \A p \in Polls :
       /\ \A k \in 1..Len(poll[p].request.keys) : poll[p].request.keys[k] <= pressed
       /\ \A k \in 1..Len(poll[p].fresh) : poll[p].fresh[k].key <= pressed

\* What is read is never numbered later than what was written after it.
Aligned ==
  /\ Offsets(request) \subseteq 0..Forgotten
  /\ \A a, b \in Offsets(request) : a = b
  /\ \A p \in Polls :
       /\ PollOffsets(p) \subseteq 0..Forgotten
       /\ \A a, b \in PollOffsets(p) : a = b
       /\ \A a \in PollOffsets(p), b \in Offsets(request) : a <= b

\* Unless two calls overlapped there is one at most, and what it types is new.
OneCall ==
  /\ overlap => order = <<>>
  /\ ~overlap =>
       /\ \A p, q \in Polls : poll[p].phase # "idle" /\ poll[q].phase # "idle" => p = q
       /\ \A p \in Polls : poll[p].phase = "typing" /\ poll[p].fresh # <<>> => applied < poll[p].fresh[1].index

\* The index of the last key typed, counted from the moment tmux has it.
Typing == {p \in Polls : poll[p].phase = "awaiting"}
Reached == IF Typing = {} THEN {applied} ELSE {poll[p].fresh[1].index : p \in Typing}

\* Nothing typed is above a key that is still to be typed.
Behind ==
  \A n \in 1..Len(order), e \in Reached :
    /\ order[n] <= pressed /\ order[n] <= e + Forgotten
    /\ \A a \in Offsets(request) : order[n] <= e + a
    /\ \A p \in Polls : \A a \in PollOffsets(p) : order[n] <= e + a

\* While the bridge has not restarted a key's number is its index, and every key
\* before those held anywhere is settled.
Done(n, settled) == \A id \in 1..n : id \in settled
NothingSkipped ==
  bridgeRestarts = 0 =>
    /\ keySeq = pressed
    /\ Done(applied, typed \cup gone) /\ Done(keySeq - Len(pending), typed \cup gone) /\ Done(request.keySeq - Len(request.keys), typed \cup gone)
    /\ \A p \in Polls :
         /\ Done(poll[p].request.keySeq - Len(poll[p].request.keys), typed \cup gone)
         /\ poll[p].fresh # <<>> => Done(poll[p].fresh[1].index - 1, typed \cup gone)
         /\ poll[p].phase = "awaiting" => poll[p].fresh[1].key \in typed \cup gone

KeysInv == Shaped /\ PollsShaped /\ WasPressed /\ Aligned /\ OneCall /\ Behind /\ T!TypedInOrder /\ NothingSkipped

LEMMA KeysStart == T!Init => KeysInv
<1> SUFFICES ASSUME T!Init PROVE KeysInv
  OBVIOUS
<1> USE KeysAssumption DEF T!TerminalAssumption
<1>1. <<>> \in Seq(1..MaxKeys) /\ Len(<<>>) = 0
  BY EmptySeq
<1>2. <<>> \in Seq(Nat) /\ <<>> \in ToType
  BY EmptySeq DEF ToType
<1>3. Fits(T!NoRequest) /\ Offsets(T!NoRequest) = {} /\ T!NoRequest \in Requests /\ T!NoRequest.keys = <<>> /\ T!NoRequest.keySeq = 0
  BY <1>1 DEF Fits, Requests, Offsets, T!NoRequest, T!Follow
<1>4. T!NoPoll \in CallsOf
  BY <1>2, <1>3 DEF CallsOf, T!NoPoll, T!Window
<1>5. \A p \in Polls : PollOffsets(p) = {}
  BY <1>1, <1>3 DEF T!Init, T!NoPoll, PollOffsets, FreshOffsets
<1>6. Shaped
  <2>1. keySeq \in 0..MaxKeys /\ pressed \in 0..MaxKeys /\ applied \in 0..MaxKeys /\ keySeq <= pressed
    BY DEF T!Init
  <2>2. /\ Len(pending) <= keySeq /\ pending \in Seq(1..MaxKeys) /\ Len(pending) <= KeyWindow
        /\ \A k \in 1..Len(pending) : pending[k] = pressed - Len(pending) + k
    BY <1>1 DEF T!Init
  <2>3. /\ aim \in T!Window \cup {T!NoAim} /\ Fits(request)
        /\ agentRestarts \in 0..MaxRestarts /\ bridgeRestarts \in 0..MaxRestarts
        /\ overlap \in BOOLEAN /\ order \in Seq(Nat)
    <3>1. aim \in T!Window \cup {T!NoAim} /\ Fits(request)
      BY <1>3 DEF T!Init, T!NoAim
    <3>2. agentRestarts \in 0..MaxRestarts /\ bridgeRestarts \in 0..MaxRestarts
      BY DEF T!Init
    <3>4. overlap \in BOOLEAN
      BY DEF T!Init
    <3>3. order \in Seq(Nat)
      BY <1>2 DEF T!Init
    <3> QED
      BY <3>1, <3>2, <3>3, <3>4
  <2> QED
    BY <2>1, <2>2, <2>3 DEF Shaped
<1>7. PollsShaped
  BY <1>1, <1>2, <1>3, <1>4 DEF T!Init, PollsShaped, Numbered, T!NoPoll
<1>11. WasPressed
  BY <1>1, <1>3 DEF T!Init, WasPressed, T!NoPoll
<1>8. Aligned
  BY <1>3, <1>5 DEF T!Init, Aligned
<1>9. OneCall /\ Behind /\ T!TypedInOrder
  BY <1>1 DEF T!Init, OneCall, Behind, T!NoPoll, T!TypedInOrder
<1>10. NothingSkipped
  BY <1>1, <1>3 DEF T!Init, NothingSkipped, Done, T!NoPoll
<1> QED
  BY <1>6, <1>7, <1>8, <1>9, <1>10, <1>11 DEF KeysInv

(* A function from 1 to n is a sequence of n. *)
LEMMA AnyIsASeq ==
  ASSUME NEW S, NEW n \in Nat, NEW f \in [1..n -> S]
  PROVE  f \in Seq(S) /\ Len(f) = n
<1>1. f \in Seq(S)
  BY SeqDef
<1>2. Len(f) \in Nat /\ DOMAIN f = 1..Len(f)
  BY <1>1, LenProperties
<1> QED
  BY <1>1, <1>2

(* The last of a sequence of keys, as many as the window holds. *)
LEMMA Slid ==
  ASSUME NEW S, NEW keys \in Seq(S)
  PROVE  /\ T!Slide(keys) \in Seq(S)
         /\ Len(T!Slide(keys)) = IF Len(keys) > KeyWindow THEN KeyWindow ELSE Len(keys)
         /\ \A k \in 1..Len(T!Slide(keys)) : T!Slide(keys)[k] = keys[Len(keys) - Len(T!Slide(keys)) + k]
<1> USE KeysAssumption DEF T!TerminalAssumption
<1> DEFINE m == IF Len(keys) > KeyWindow THEN Len(keys) - KeyWindow + 1 ELSE 1
<1>1. Len(keys) \in Nat /\ m \in Nat \ {0}
  BY LenProperties
<1>2. \A i \in m..Len(keys) : keys[i] \in S
  BY <1>1, ElementOfSeq
<1>3. T!Slide(keys) = SubSeq(keys, m, Len(keys))
  BY DEF T!Slide
<1> HIDE DEF m
<1>4. /\ SubSeq(keys, m, Len(keys)) \in Seq(S)
      /\ Len(SubSeq(keys, m, Len(keys))) = IF m <= Len(keys) THEN Len(keys) - m + 1 ELSE 0
      /\ \A i \in 1..(Len(keys) - m + 1) : SubSeq(keys, m, Len(keys))[i] = keys[m + i - 1]
  BY <1>1, <1>2, SubSeqProperties
<1>5. /\ m <= Len(keys) + 1
      /\ Len(keys) - m + 1 = IF Len(keys) > KeyWindow THEN KeyWindow ELSE Len(keys)
  BY <1>1 DEF m
<1>6. Len(T!Slide(keys)) = Len(keys) - m + 1
  BY <1>1, <1>3, <1>4, <1>5
<1>7. ASSUME NEW k \in 1..Len(T!Slide(keys))
      PROVE  T!Slide(keys)[k] = keys[Len(keys) - Len(T!Slide(keys)) + k]
  <2>1. T!Slide(keys)[k] = keys[m + k - 1]
    BY <1>3, <1>4, <1>6
  <2>2. Len(keys) - Len(T!Slide(keys)) + k = m + k - 1
    BY <1>1, <1>6
  <2> QED
    BY <2>1, <2>2
<1> QED
  BY <1>3, <1>4, <1>5, <1>6, <1>7

(* The keys of the bridge with those just pressed. *)
LEMMA PressedOn ==
  ASSUME Shaped, NEW n \in Nat, pressed + n <= MaxKeys,
         NEW keys, keys = pending \o [k \in 1..n |-> pressed + k]
  PROVE  /\ keys \in Seq(1..MaxKeys)
         /\ Len(keys) = Len(pending) + n
         /\ \A k \in 1..Len(keys) : keys[k] = pressed - Len(pending) + k
<1> USE KeysAssumption DEF T!TerminalAssumption, Shaped
<1> DEFINE more == [k \in 1..n |-> pressed + k]
<1>1. more \in Seq(1..MaxKeys) /\ Len(more) = n
  <2>1. more \in [1..n -> 1..MaxKeys]
    OBVIOUS
  <2> QED
    BY <2>1, SeqDef
<1>2. Len(pending) \in Nat
  BY LenProperties
<1>3. \A k \in 1..n : more[k] = pressed + k
  OBVIOUS
<1> HIDE DEF more
<1>4. keys = pending \o more
  BY DEF more
<1> USE DEF Shaped
<1>7. pending \in Seq(1..MaxKeys)
  OBVIOUS
<1>5. /\ keys \in Seq(1..MaxKeys) /\ Len(keys) = Len(pending) + n
      /\ \A i \in 1..(Len(pending) + n) : keys[i] = IF i <= Len(pending) THEN pending[i] ELSE more[i - Len(pending)]
  BY ONLY <1>1, <1>4, <1>7, ConcatProperties
<1>6. ASSUME NEW i \in 1..(Len(pending) + n)
      PROVE  keys[i] = pressed - Len(pending) + i
  <2>1. CASE i <= Len(pending)
    BY <2>1, <1>2, <1>5
  <2>2. CASE i > Len(pending)
    <3>1. i - Len(pending) \in 1..n
      BY <2>2, <1>2
    <3>2. more[i - Len(pending)] = pressed + (i - Len(pending))
      BY <3>1, <1>3
    <3> QED
      BY <2>2, <1>2, <1>5, <3>2
  <2> QED
    BY <2>1, <2>2, <1>2
<1> QED
  BY <1>5, <1>6

(* What a poll is to type of a request: its last keys, those above what was applied. *)
LEMMA ToApply ==
  ASSUME NEW r, Fits(r), NEW done \in Nat, NEW fresh, fresh = T!KeysToApply(r, done)
  PROVE  /\ Numbered(fresh)
         /\ FreshOffsets(fresh) \subseteq Offsets(r)
         /\ \A k \in 1..Len(fresh) : \E j \in 1..Len(r.keys) : fresh[k].key = r.keys[j]
         /\ fresh # <<>> => done < fresh[1].index
         /\ fresh # <<>> => fresh[1].index = done + 1 \/ fresh[1].index = r.keySeq - Len(r.keys) + 1
<1> USE KeysAssumption DEF T!TerminalAssumption
<1> DEFINE skip == IF done >= T!FirstIndex(r) THEN done - T!FirstIndex(r) + 1 ELSE 0
           len == Len(r.keys)
           base == r.keySeq - len
           n == len - skip
<1>1. /\ Len(r.keys) \in Nat /\ r.keySeq \in 0..MaxKeys /\ Len(r.keys) <= r.keySeq /\ Len(r.keys) <= KeyWindow
      /\ \A k \in 1..Len(r.keys) : r.keys[k] \in 1..MaxKeys
  <2>1. r.keys \in Seq(1..MaxKeys) /\ r.keySeq \in 0..MaxKeys
    BY DEF Fits, Requests
  <2> QED
    BY <2>1, LenProperties, ElementOfSeq DEF Fits
<1>6. T!FirstIndex(r) = base + 1
  BY DEF T!FirstIndex
<1>7. len \in Nat /\ base \in Nat /\ base + len <= MaxKeys /\ len <= KeyWindow
  BY <1>1
<1>3. fresh = [k \in 1..n |-> [index |-> base + skip + k, key |-> r.keys[skip + k]]]
  BY DEF T!KeysToApply, T!Indexed
<1>8. skip = IF done >= base + 1 THEN done - base ELSE 0
  BY <1>6, <1>7
<1> HIDE DEF skip, base, len
<1>2. skip \in Nat /\ (skip = 0 => done <= base) /\ (skip # 0 => base + skip = done)
  BY <1>7, <1>8
<1>4. CASE n <= 0
  <2>1. 1..n = {}
    BY <1>7, <1>2, <1>4
  <2>2. fresh = <<>>
    BY <1>3, <2>1
  <2> QED
    BY <2>2, <1>1, EmptySeq DEF Numbered, FreshOffsets, ToType
<1>5. CASE n > 0
  <2>1. \A k \in 1..n : skip + k \in 1..len /\ base + skip + k \in 1..MaxKeys
    BY <1>7, <1>2, <1>5
  <2>2. n \in Nat
    BY <1>7, <1>2, <1>5
  <2>10. \A k \in 1..n : r.keys[skip + k] \in 1..MaxKeys
    BY <1>1, <2>1 DEF len
  <2>3. fresh \in [1..n -> [index : 1..MaxKeys, key : 1..MaxKeys]]
    BY <1>3, <2>1, <2>10
  <2>4. fresh \in ToType /\ Len(fresh) = n
    BY <2>2, <2>3, AnyIsASeq DEF ToType
  <2>5. \A k \in 1..n : fresh[k].index = base + skip + k /\ fresh[k].key = r.keys[skip + k]
    BY <1>3
  <2>11. n <= KeyWindow
    BY <1>7, <1>2
  <2> HIDE DEF n
  <2>6. fresh[1].index = base + skip + 1
    BY <2>5, <1>5, <2>2
  <2>7. Numbered(fresh)
    <3>2. \A k \in 1..n : fresh[k].index = fresh[1].index + k - 1
      BY <1>2, <1>7, <2>2, <2>5, <2>6
    <3> QED
      BY <2>4, <2>11, <3>2 DEF Numbered
  <2>8. FreshOffsets(fresh) \subseteq Offsets(r)
    <3> SUFFICES ASSUME NEW k \in 1..n
                 PROVE  fresh[k].key - fresh[k].index \in Offsets(r)
      BY <2>4 DEF FreshOffsets
    <3>1. fresh[k].key - fresh[k].index = r.keys[skip + k] - (r.keySeq - Len(r.keys) + (skip + k))
      <4>1. fresh[k].index = r.keySeq - Len(r.keys) + (skip + k)
        <5>1. fresh[k].index = base + (skip + k)
          BY <1>7, <1>2, <2>5
        <5> QED
          BY <5>1 DEF base, len
      <4> QED
        BY <4>1, <2>5
    <3>2. skip + k \in 1..Len(r.keys)
      BY <2>1 DEF len
    <3> QED
      BY <3>1, <3>2 DEF Offsets
  <2>9. done < fresh[1].index /\ (fresh[1].index = done + 1 \/ fresh[1].index = base + 1)
    BY <1>2, <1>7, <2>6
  <2>12. \A k \in 1..Len(fresh) : \E j \in 1..Len(r.keys) : fresh[k].key = r.keys[j]
    BY <2>1, <2>4, <2>5 DEF len
  <2> QED
    BY <2>7, <2>8, <2>9, <2>12 DEF base, len
<1> QED
  BY <1>7, <1>2, <1>4, <1>5


LEMMA Differ == \A a, b \in 0..MaxKeys : a <= b => b - a \in Nat /\ b \in Nat
  BY KeysAssumption DEF T!TerminalAssumption

LEMMA AtMost == \A t, n \in Nat : \A k \in 1..n : t - n + k <= t
  OBVIOUS

LEMMA Counted ==
  ASSUME Shaped
  PROVE  /\ Forgotten \in Nat /\ pressed \in Nat /\ keySeq \in Nat /\ applied \in Nat /\ bridgeRestarts \in Nat
         /\ Len(pending) \in Nat /\ Len(request.keys) \in Nat /\ request.keySeq \in Nat /\ Len(order) \in Nat
         /\ \A n \in 1..Len(order) : order[n] \in Nat
<1> USE KeysAssumption DEF T!TerminalAssumption
<1>1. Forgotten \in Nat /\ pressed \in Nat /\ keySeq \in Nat /\ applied \in Nat /\ bridgeRestarts \in Nat
  BY DEF Shaped, Forgotten
<1>2. pending \in Seq(1..MaxKeys) /\ request.keys \in Seq(1..MaxKeys) /\ order \in Seq(Nat) /\ request.keySeq \in 0..MaxKeys
  BY DEF Shaped, Fits, Requests
<1>3. Len(pending) \in Nat /\ Len(request.keys) \in Nat /\ request.keySeq \in Nat /\ Len(order) \in Nat
  BY <1>2, LenProperties
<1>4. \A n \in 1..Len(order) : order[n] \in Nat
  BY <1>2, ElementOfSeq
<1> QED
  BY <1>1, <1>3, <1>4

\* A poll's indices are positive.
LEMMA Numbers ==
  ASSUME PollsShaped, NEW p \in Polls
  PROVE  /\ poll[p].request.keySeq \in Nat /\ Len(poll[p].request.keys) \in Nat /\ Len(poll[p].fresh) \in Nat
         /\ Len(poll[p].request.keys) <= poll[p].request.keySeq
         /\ \A k \in 1..Len(poll[p].fresh) : poll[p].fresh[k].index \in 1..MaxKeys /\ poll[p].fresh[k].key \in 1..MaxKeys
         /\ poll[p].fresh # <<>> => Len(poll[p].fresh) # 0 /\ Head(poll[p].fresh) = poll[p].fresh[1]
<1> USE KeysAssumption DEF T!TerminalAssumption
<1>1. /\ poll[p].request.keys \in Seq(1..MaxKeys) /\ poll[p].request.keySeq \in 0..MaxKeys
      /\ poll[p].fresh \in ToType /\ Len(poll[p].request.keys) <= poll[p].request.keySeq
  BY DEF PollsShaped, Fits, Numbered, Requests
<1>2. Len(poll[p].request.keys) \in Nat /\ Len(poll[p].fresh) \in Nat /\ (poll[p].fresh # <<>> => Len(poll[p].fresh) # 0)
  BY <1>1, LenProperties, EmptySeq DEF ToType
<1>3. \A k \in 1..Len(poll[p].fresh) : poll[p].fresh[k] \in [index : 1..MaxKeys, key : 1..MaxKeys]
  BY <1>1, ElementOfSeq DEF ToType
<1> QED
  BY <1>1, <1>2, <1>3

LEMMA ReachedIsCounted == KeysInv => Reached \subseteq Nat
<1> SUFFICES ASSUME KeysInv, NEW e \in Reached PROVE e \in Nat
  OBVIOUS
<1> USE KeysAssumption DEF T!TerminalAssumption
<1>1. CASE Typing = {}
  BY <1>1, Counted DEF Reached, KeysInv
<1>2. CASE Typing # {}
  <2>1. PICK p \in Typing : e = poll[p].fresh[1].index
    BY <1>2 DEF Reached
  <2>2. p \in Polls /\ poll[p].fresh # <<>>
    BY <2>1 DEF Typing, KeysInv, PollsShaped
  <2>3. 1 \in 1..Len(poll[p].fresh)
    BY <2>2, Numbers DEF KeysInv
  <2> QED
    BY <2>1, <2>2, <2>3, Numbers DEF KeysInv
<1> QED
  BY <1>1, <1>2

LEMMA OffsetsAreInts ==
  ASSUME Shaped, PollsShaped, Aligned
  PROVE  /\ \A a \in Offsets(request) : a \in Nat /\ a <= Forgotten
         /\ \A p \in Polls : \A a \in PollOffsets(p) : a \in Nat /\ a <= Forgotten
  BY Counted DEF Aligned

(* A step of the bridge, which writes what it has or counts anew. *)
LEMMA BridgeMoves ==
  ASSUME KeysInv, UNCHANGED <<applied, poll, agentRestarts, typed, overlap, order>>, gone \subseteq gone',
         Shaped', \A k \in 1..Len(request'.keys) : request'.keys[k] <= pressed',
         Forgotten <= Forgotten', pressed <= pressed',
         \A b \in Offsets(request') : b = Forgotten \/ b \in Offsets(request),
         \A a, b \in Offsets(request') : a = b,
         bridgeRestarts' = 0 =>
           /\ bridgeRestarts = 0 /\ keySeq' = pressed'
           /\ Done(keySeq - Len(pending), typed \cup gone)' /\ Done(request.keySeq - Len(request.keys), typed \cup gone)'
  PROVE  KeysInv'
<1> USE KeysAssumption DEF T!TerminalAssumption, KeysInv
<1>1. Forgotten \in Nat /\ Forgotten' \in Nat /\ pressed \in Nat /\ pressed' \in Nat
  <2>1. Forgotten \in Nat /\ pressed \in Nat
    BY Counted
  <2>2. Forgotten' \in Nat /\ pressed' \in Nat
    <3>1. keySeq' \in 0..MaxKeys /\ pressed' \in 0..MaxKeys /\ keySeq' <= pressed'
      BY DEF Shaped
    <3>2. Forgotten' = pressed' - keySeq'
      BY DEF Forgotten
    <3> QED
      BY <3>1, <3>2, Differ
  <2> QED
    BY <2>1, <2>2
<1>2. PollsShaped'
  BY DEF PollsShaped
<1>3. \A p \in Polls : PollOffsets(p)' = PollOffsets(p)
  BY DEF PollOffsets
<1>4. WasPressed'
  <2>1. ASSUME NEW p \in Polls
        PROVE  /\ \A k \in 1..Len(poll[p].request.keys) : poll[p].request.keys[k] <= pressed'
               /\ \A k \in 1..Len(poll[p].fresh) : poll[p].fresh[k].key <= pressed'
    <3>1. \A k \in 1..Len(poll[p].request.keys) : poll[p].request.keys[k] \in Nat
      <4>1. poll[p].request.keys \in Seq(1..MaxKeys)
        BY DEF PollsShaped, Fits, Requests
      <4> QED
        BY <4>1, ElementOfSeq
    <3>2. \A k \in 1..Len(poll[p].fresh) : poll[p].fresh[k].key \in Nat
      BY Numbers
    <3> QED
      BY <1>1, <3>1, <3>2 DEF WasPressed
  <2> QED
    BY <2>1 DEF WasPressed
<1>5. Aligned'
  <2>1. Offsets(request') \subseteq 0..Forgotten'
    BY <1>1, OffsetsAreInts
  <2>2. ASSUME NEW p \in Polls
        PROVE  /\ PollOffsets(p) \subseteq 0..Forgotten'
               /\ \A a, b \in PollOffsets(p) : a = b
               /\ \A a \in PollOffsets(p), b \in Offsets(request') : a <= b
    BY <1>1, OffsetsAreInts DEF Aligned
  <2> QED
    BY <1>3, <2>1, <2>2 DEF Aligned
<1>6. OneCall' /\ T!TypedInOrder'
  BY DEF OneCall, T!TypedInOrder
<1>7. Behind'
  <2>1. Reached' = Reached
    BY DEF Reached, Typing
  <2>2. ASSUME NEW n \in 1..Len(order), NEW e \in Reached
        PROVE  /\ order[n] <= pressed' /\ order[n] <= e + Forgotten'
               /\ \A a \in Offsets(request') : order[n] <= e + a
               /\ \A p \in Polls : \A a \in PollOffsets(p) : order[n] <= e + a
    <3>1. order[n] \in Nat /\ e \in Nat
      BY Counted, ReachedIsCounted
    <3>2. order[n] <= pressed /\ order[n] <= e + Forgotten
      BY DEF Behind
    <3>3. order[n] <= pressed' /\ order[n] <= e + Forgotten'
      BY <1>1, <3>1, <3>2
    <3>4. \A a \in Offsets(request') : order[n] <= e + a
      BY <3>2 DEF Behind
    <3> QED
      BY <3>3, <3>4 DEF Behind
  <2> QED
    BY <1>3, <2>1, <2>2 DEF Behind
<1>8. NothingSkipped'
  BY DEF NothingSkipped, Done
<1> QED
  BY <1>2, <1>4, <1>5, <1>6, <1>7, <1>8


(* What the bridge writes is numbered as its own keys are. *)
LEMMA Written ==
  ASSUME NEW r \in Requests, NEW total \in 0..MaxKeys,
         Len(r.keys) <= KeyWindow, Len(r.keys) <= r.keySeq, r.keySeq <= total,
         \A k \in 1..Len(r.keys) : r.keys[k] = total - Len(r.keys) + k
  PROVE  /\ Fits(r)
         /\ \A b \in Offsets(r) : b = total - r.keySeq
         /\ \A k \in 1..Len(r.keys) : r.keys[k] <= total
<1> USE KeysAssumption DEF T!TerminalAssumption
<1>1. Len(r.keys) \in Nat /\ r.keySeq \in 0..MaxKeys
  BY LenProperties DEF Requests
<1>2. ASSUME NEW b \in Offsets(r) PROVE b = total - r.keySeq
  <2>1. PICK k \in 1..Len(r.keys) : b = r.keys[k] - (r.keySeq - Len(r.keys) + k)
    BY DEF Offsets
  <2>2. r.keys[k] = total - Len(r.keys) + k
    OBVIOUS
  <2>3. total \in Int /\ k \in Int /\ Len(r.keys) \in Int /\ r.keySeq \in Int
    BY <1>1
  <2> DEFINE n == Len(r.keys)
             q == r.keySeq
  <2>4. n \in Int /\ q \in Int /\ b = (total - n + k) - (q - n + k)
    BY <2>1, <2>2, <2>3
  <2> HIDE DEF n, q
  <2>5. b = total - q
    BY ONLY <2>3, <2>4
  <2> QED
    BY <2>5 DEF q
<1>3. ASSUME NEW k \in 1..Len(r.keys) PROVE r.keys[k] <= total
  <2>1. r.keys[k] = total - Len(r.keys) + k
    OBVIOUS
  <2>2. total \in Nat
    OBVIOUS
  <2>3. total - Len(r.keys) + k <= total
    BY <1>1, <2>2, AtMost
  <2> QED
    BY <2>1, <2>3
<1>4. Fits(r)
  BY DEF Fits
<1> QED
  BY <1>2, <1>3, <1>4

LEMMA WatchKeeps == KeysInv /\ T!TerminalWatch => KeysInv'
<1> SUFFICES ASSUME KeysInv, T!TerminalWatch PROVE KeysInv'
  OBVIOUS
<1> USE KeysAssumption DEF T!TerminalAssumption, KeysInv
<1>1. /\ request' = [window |-> T!Aimed(aim, T!Follow), live |-> TRUE, keySeq |-> keySeq, keys |-> pending]
      /\ aim' = aim
      /\ UNCHANGED <<keySeq, pending, applied, poll, agentRestarts, bridgeRestarts, pressed, typed, gone, overlap, order>>
  BY DEF T!TerminalWatch, T!restarts, T!Write, T!Resent
<1>2. /\ Fits(request') /\ request'.keys = pending /\ request'.keySeq = keySeq /\ aim' = aim
      /\ \A b \in Offsets(request') : b = pressed - keySeq
      /\ \A k \in 1..Len(pending) : pending[k] <= pressed
  <2>1. /\ keySeq \in 0..MaxKeys /\ pressed \in 0..MaxKeys /\ keySeq <= pressed /\ Len(pending) <= keySeq
        /\ pending \in Seq(1..MaxKeys) /\ Len(pending) <= KeyWindow /\ aim \in T!Window \cup {T!Follow}
        /\ \A k \in 1..Len(pending) : pending[k] = pressed - Len(pending) + k
    BY DEF Shaped, T!NoAim
  <2>2. request' \in Requests /\ request'.keys = pending /\ request'.keySeq = keySeq
    BY <1>1, <2>1 DEF Requests, T!Aimed
  <2> QED
    BY <1>1, <2>1, <2>2, Written
<1>3. Shaped'
  BY <1>1, <1>2 DEF Shaped
<1>4. \A b \in Offsets(request') : b = Forgotten
  BY <1>2 DEF Forgotten
<1>5. Forgotten' = Forgotten /\ Forgotten \in Nat /\ pressed \in Nat
  BY <1>1, Counted DEF Forgotten
<1>6. bridgeRestarts' = 0 =>
        /\ bridgeRestarts = 0 /\ keySeq' = pressed'
        /\ Done(keySeq - Len(pending), typed \cup gone)' /\ Done(request.keySeq - Len(request.keys), typed \cup gone)'
  BY <1>1, <1>2 DEF NothingSkipped, Done
<1>7. \A k \in 1..Len(request'.keys) : request'.keys[k] <= pressed'
  BY <1>1, <1>2
<1>8. Forgotten <= Forgotten' /\ pressed <= pressed'
  BY <1>1, <1>5
<1> HIDE DEF KeysInv
<1> QED
  BY <1>1, <1>3, <1>4, <1>8, <1>6, <1>7, BridgeMoves

LEMMA AimKeeps == KeysInv /\ (T!AimExpires \/ T!WatchLapses) => KeysInv'
<1> SUFFICES ASSUME KeysInv, T!AimExpires \/ T!WatchLapses PROVE KeysInv'
  OBVIOUS
<1> USE KeysAssumption DEF T!TerminalAssumption, KeysInv
<1>1. UNCHANGED <<keySeq, pending, applied, poll, agentRestarts, bridgeRestarts, pressed, typed, gone, overlap, order>>
  BY DEF T!AimExpires, T!WatchLapses, T!restarts, T!bridge
<1>2. aim' \in T!Window \cup {T!NoAim}
  BY DEF T!AimExpires, T!WatchLapses, Shaped, T!bridge
<1>3. Fits(request') /\ request'.keys = request.keys /\ request'.keySeq = request.keySeq
  <2>1. CASE T!AimExpires
    BY <2>1 DEF T!AimExpires, Shaped
  <2>2. CASE T!WatchLapses
    <3>1. request' = [request EXCEPT !.live = FALSE] /\ request \in Requests
      BY <2>2 DEF T!WatchLapses, Shaped, Fits
    <3>2. request' \in Requests /\ request'.keys = request.keys /\ request'.keySeq = request.keySeq
      BY <3>1 DEF Requests
    <3> QED
      BY <3>2 DEF Fits, Shaped
  <2> QED
    BY <2>1, <2>2
<1>4. Shaped'
  BY <1>1, <1>2, <1>3 DEF Shaped
<1>5. Offsets(request') = Offsets(request)
  BY <1>3 DEF Offsets
<1>6. Forgotten' = Forgotten /\ Forgotten \in Nat /\ pressed \in Nat
  BY <1>1, Counted DEF Forgotten
<1>7. \A a, b \in Offsets(request') : a = b
  BY <1>5 DEF Aligned
<1>8. \A k \in 1..Len(request'.keys) : request'.keys[k] <= pressed'
  BY <1>1, <1>3 DEF WasPressed
<1>9. bridgeRestarts' = 0 =>
        /\ bridgeRestarts = 0 /\ keySeq' = pressed'
        /\ Done(keySeq - Len(pending), typed \cup gone)' /\ Done(request.keySeq - Len(request.keys), typed \cup gone)'
  BY <1>1, <1>3 DEF NothingSkipped, Done
<1> QED
  BY <1>1, <1>4, <1>5, <1>6, <1>7, <1>8, <1>9, BridgeMoves

LEMMA BridgeRestartKeeps == KeysInv /\ T!BridgeRestart => KeysInv'
<1> SUFFICES ASSUME KeysInv, T!BridgeRestart PROVE KeysInv'
  OBVIOUS
<1> USE KeysAssumption DEF T!TerminalAssumption, KeysInv
<1>1. /\ agentRestarts + bridgeRestarts < MaxRestarts /\ bridgeRestarts' = bridgeRestarts + 1
      /\ keySeq' = 0 /\ pending' = <<>> /\ aim' = T!NoAim
      /\ UNCHANGED <<request, applied, poll, agentRestarts, pressed, typed, gone, overlap, order>>
  BY DEF T!BridgeRestart
<1>2. Forgotten \in Nat /\ pressed \in Nat /\ keySeq \in Nat /\ bridgeRestarts \in Nat
  BY Counted
<1>3. Shaped'
  <2>1. pending' \in Seq(1..MaxKeys) /\ Len(pending') = 0
    BY <1>1, EmptySeq
  <2>2. bridgeRestarts' \in 0..MaxRestarts
    BY <1>1 DEF Shaped
  <2>3. /\ keySeq' \in 0..MaxKeys /\ pressed' \in 0..MaxKeys /\ applied' \in 0..MaxKeys
        /\ keySeq' <= pressed' /\ Len(pending') <= keySeq' /\ Len(pending') <= KeyWindow
        /\ \A k \in 1..Len(pending') : pending'[k] = pressed' - Len(pending') + k
    BY <1>1, <2>1 DEF Shaped
  <2>4. aim' \in T!Window \cup {T!NoAim} /\ Fits(request') /\ agentRestarts' \in 0..MaxRestarts
    BY <1>1 DEF Shaped
  <2>5. overlap' \in BOOLEAN /\ order' \in Seq(Nat)
    BY <1>1 DEF Shaped
  <2> QED
    BY <2>1, <2>2, <2>3, <2>4, <2>5 DEF Shaped
<1>4. Forgotten <= Forgotten' /\ pressed <= pressed'
  BY <1>1, <1>2 DEF Forgotten
<1>5. \A a, b \in Offsets(request') : a = b
  BY <1>1 DEF Aligned
<1>6. \A k \in 1..Len(request'.keys) : request'.keys[k] <= pressed'
  BY <1>1 DEF WasPressed
<1>7. bridgeRestarts' # 0
  BY <1>1, <1>2
<1> QED
  BY <1>1, <1>3, <1>4, <1>5, <1>6, <1>7, BridgeMoves

LEMMA PressKeeps ==
  ASSUME KeysInv, NEW asked \in T!Window \cup {T!Follow}, NEW n \in Nat, T!TerminalKeys(asked, n)
  PROVE  KeysInv'
<1> USE KeysAssumption DEF T!TerminalAssumption, KeysInv
<1> DEFINE keys == pending \o [k \in 1..n |-> pressed + k]
           first == keySeq - Len(pending) + 1
           lost == Len(keys) - Len(T!Slide(keys))
           a == IF asked = T!Follow THEN aim ELSE asked
<1>1. /\ pressed + n <= MaxKeys /\ pressed' = pressed + n /\ keySeq' = keySeq + n
      /\ pending' = T!Slide(keys)
      /\ gone' = gone \cup {keys[k] : k \in {k \in 1..lost : first + k - 1 > applied}}
      /\ request' = [window |-> T!Aimed(a, asked), live |-> TRUE, keySeq |-> keySeq', keys |-> pending'] /\ aim' = a
      /\ UNCHANGED <<applied, poll, agentRestarts, bridgeRestarts, typed, overlap, order>>
  BY DEF T!TerminalKeys, T!restarts, T!Write, T!Resent
<1>2. /\ Forgotten \in Nat /\ pressed \in Nat /\ keySeq \in Nat /\ Len(pending) \in Nat
      /\ pressed \in 0..MaxKeys /\ keySeq <= pressed /\ Len(pending) <= keySeq /\ applied \in Nat
  BY Counted DEF Shaped
<1>3. /\ keys \in Seq(1..MaxKeys) /\ Len(keys) = Len(pending) + n
      /\ \A k \in 1..Len(keys) : keys[k] = pressed - Len(pending) + k
  BY <1>1, PressedOn
<1>4. a \in T!Window \cup {T!Follow} /\ asked \in T!Window \cup {T!Follow}
  BY DEF Shaped, T!NoAim
<1> HIDE DEF keys, a
<1>5. /\ pending' \in Seq(1..MaxKeys)
      /\ Len(pending') = IF Len(keys) > KeyWindow THEN KeyWindow ELSE Len(keys)
      /\ \A k \in 1..Len(pending') : pending'[k] = keys[Len(keys) - Len(pending') + k]
  BY <1>1, <1>3, Slid
<1>6. Len(pending') \in Nat /\ Len(pending') <= Len(keys) /\ Len(pending') <= KeyWindow
  BY <1>2, <1>3, <1>5
<1>7. \A k \in 1..Len(pending') : pending'[k] = pressed' - Len(pending') + k
  <2> SUFFICES ASSUME NEW k \in 1..Len(pending')
               PROVE  pending'[k] = pressed' - Len(pending') + k
    OBVIOUS
  <2>1. Len(keys) - Len(pending') + k \in 1..Len(keys)
    BY <1>2, <1>3, <1>6
  <2>2. pending'[k] = pressed - Len(pending) + (Len(keys) - Len(pending') + k)
    BY <1>3, <1>5, <2>1
  <2> QED
    BY <1>1, <1>2, <1>3, <1>6, <2>2
<1>8. keySeq' \in 0..MaxKeys /\ pressed' \in 0..MaxKeys /\ Len(pending') <= keySeq' /\ keySeq' <= pressed'
  BY <1>1, <1>2, <1>3, <1>6
<1>9. /\ Fits(request') /\ request'.keys = pending' /\ request'.keySeq = keySeq' /\ aim' = a
      /\ \A b \in Offsets(request') : b = pressed' - keySeq'
      /\ \A k \in 1..Len(pending') : pending'[k] <= pressed'
  <2>1. request' \in Requests /\ request'.keys = pending' /\ request'.keySeq = keySeq'
    BY <1>1, <1>4, <1>5, <1>8 DEF Requests, T!Aimed
  <2> QED
    BY <1>1, <1>6, <1>7, <1>8, <2>1, Written
<1>10. Shaped'
  BY <1>1, <1>4, <1>5, <1>6, <1>7, <1>8, <1>9 DEF Shaped, T!NoAim
<1>11. Forgotten' = Forgotten
  BY <1>1, <1>2 DEF Forgotten
<1>12. \A b \in Offsets(request') : b = Forgotten
  BY <1>9, <1>11 DEF Forgotten
<1>13. bridgeRestarts' = 0 =>
        /\ bridgeRestarts = 0 /\ keySeq' = pressed'
        /\ Done(keySeq - Len(pending), typed \cup gone)' /\ Done(request.keySeq - Len(request.keys), typed \cup gone)'
  <2> SUFFICES ASSUME bridgeRestarts = 0
               PROVE  keySeq' = pressed' /\ Done(keySeq - Len(pending), typed \cup gone)'
    BY <1>1, <1>9 DEF Done
  <2>1. keySeq = pressed /\ Done(applied, typed \cup gone) /\ Done(keySeq - Len(pending), typed \cup gone)
    BY DEF NothingSkipped
  <2>2. ASSUME NEW id \in 1..(keySeq' - Len(pending')) PROVE id \in (typed \cup gone)'
    <3>1. CASE id <= keySeq - Len(pending)
      BY <1>1, <1>2, <2>1, <3>1 DEF Done
    <3>2. CASE id <= applied
      BY <1>1, <1>2, <2>1, <3>2 DEF Done
    <3>3. CASE id > keySeq - Len(pending) /\ id > applied
      <4> DEFINE k == id - (keySeq - Len(pending))
      <4>1. k \in 1..lost /\ first + k - 1 > applied /\ k \in 1..Len(keys)
        BY <1>1, <1>2, <1>3, <1>6, <3>3
      <4>2. keys[k] = id
        BY <1>2, <1>3, <2>1, <4>1
      <4> QED
        BY <1>1, <4>1, <4>2
    <3> QED
      BY <1>2, <3>1, <3>2, <3>3
  <2> QED
    BY <1>1, <2>1, <2>2 DEF Done
<1>14. Forgotten <= Forgotten' /\ pressed <= pressed'
  BY <1>1, <1>2, <1>11
<1> QED
  BY <1>1, <1>9, <1>10, <1>12, <1>13, <1>14, BridgeMoves


----------------------------------------------------------------------------
LEMMA NoPollIsEmpty ==
  /\ T!NoPoll \in CallsOf /\ T!NoPoll.phase = "idle" /\ T!NoPoll.request = T!NoRequest /\ T!NoPoll.fresh = <<>>
  /\ Fits(T!NoRequest) /\ Numbered(<<>>) /\ Offsets(T!NoRequest) = {} /\ FreshOffsets(<<>>) = {}
  /\ T!NoRequest.keySeq = 0 /\ Len(T!NoRequest.keys) = 0 /\ Len(<<>>) = 0
<1> USE KeysAssumption DEF T!TerminalAssumption
<1>1. <<>> \in Seq(1..MaxKeys) /\ Len(<<>>) = 0
  BY EmptySeq
<1>2. <<>> \in ToType
  BY EmptySeq DEF ToType
<1>3. Fits(T!NoRequest) /\ Offsets(T!NoRequest) = {} /\ T!NoRequest \in Requests /\ T!NoRequest.keys = <<>> /\ T!NoRequest.keySeq = 0
  BY <1>1 DEF Fits, Requests, Offsets, T!NoRequest, T!Follow
<1>4. T!NoPoll \in CallsOf
  BY <1>2, <1>3 DEF CallsOf, T!NoPoll, T!Window
<1>5. Numbered(<<>>) /\ FreshOffsets(<<>>) = {}
  BY <1>1, <1>2 DEF Numbered, FreshOffsets
<1> QED
  BY <1>1, <1>3, <1>4, <1>5 DEF T!NoPoll

(* Without an overlap the call that is awaiting a key is the only one under way. *)
LEMMA Alone ==
  ASSUME KeysInv, ~overlap, NEW p \in Polls, poll[p].phase # "idle"
  PROVE  /\ \A q \in Polls \ {p} : poll[q].phase = "idle" /\ PollOffsets(q) = {}
         /\ Reached = IF poll[p].phase = "awaiting" THEN {poll[p].fresh[1].index} ELSE {applied}
<1> USE DEF KeysInv
<1>1. \A q \in Polls \ {p} : poll[q].phase = "idle"
  BY DEF OneCall
<1>2. \A q \in Polls \ {p} : poll[q].request = T!NoRequest /\ poll[q].fresh = <<>>
  BY <1>1 DEF PollsShaped
<1>3. \A q \in Polls \ {p} : PollOffsets(q) = {}
  BY <1>2, NoPollIsEmpty DEF PollOffsets
<1>4. Typing = IF poll[p].phase = "awaiting" THEN {p} ELSE {}
  BY <1>1 DEF Typing
<1> QED
  BY <1>1, <1>3, <1>4 DEF Reached

(* A call moves: what is left of the invariant is about that call. *)
LEMMA CallMoves ==
  ASSUME KeysInv, NEW p \in Polls, NEW c \in CallsOf, poll' = [poll EXCEPT ![p] = c],
         UNCHANGED <<keySeq, pending, aim, request, agentRestarts, bridgeRestarts, pressed>>,
         typed \subseteq typed', gone \subseteq gone', Shaped',
         Fits(c.request), Numbered(c.fresh),
         c.phase = "awaiting" => c.fresh # <<>>,
         c.phase # "listing" => c.request = T!NoRequest,
         c.phase \notin {"typing", "awaiting"} => c.fresh = <<>>,
         \A k \in 1..Len(c.request.keys) : c.request.keys[k] <= pressed,
         \A k \in 1..Len(c.fresh) : c.fresh[k].key <= pressed,
         Offsets(c.request) \cup FreshOffsets(c.fresh) \subseteq PollOffsets(p) \cup Offsets(request),
         \A a, b \in Offsets(c.request) \cup FreshOffsets(c.fresh) : a = b,
         bridgeRestarts = 0 =>
           /\ Done(applied', typed' \cup gone') /\ Done(c.request.keySeq - Len(c.request.keys), typed' \cup gone')
           /\ c.fresh # <<>> => Done(c.fresh[1].index - 1, typed' \cup gone')
           /\ c.phase = "awaiting" => c.fresh[1].key \in typed' \cup gone'
  PROVE  /\ PollsShaped' /\ WasPressed' /\ Aligned' /\ NothingSkipped'
         /\ \A q \in Polls : PollOffsets(q)' = IF q = p THEN Offsets(c.request) \cup FreshOffsets(c.fresh) ELSE PollOffsets(q)
<1> USE DEF KeysInv
<1>1. poll' \in [Polls -> CallsOf] /\ poll'[p] = c /\ \A q \in Polls \ {p} : poll'[q] = poll[q]
  BY DEF PollsShaped
<1>2. PollsShaped'
  BY <1>1 DEF PollsShaped
<1>3. WasPressed'
  BY <1>1 DEF WasPressed
<1>4. \A q \in Polls : PollOffsets(q)' = IF q = p THEN Offsets(c.request) \cup FreshOffsets(c.fresh) ELSE PollOffsets(q)
  BY <1>1 DEF PollOffsets
<1>5. Aligned'
  <2>1. Forgotten' = Forgotten /\ Forgotten \in Nat
    BY Counted DEF Forgotten
  <2>2. /\ Offsets(request) \subseteq 0..Forgotten /\ \A a, b \in Offsets(request) : a = b
        /\ \A q \in Polls :
             /\ PollOffsets(q) \subseteq 0..Forgotten
             /\ \A a, b \in PollOffsets(q) : a = b
             /\ \A a \in PollOffsets(q), b \in Offsets(request) : a <= b
    BY DEF Aligned
  <2>3. ASSUME NEW a \in Offsets(c.request) \cup FreshOffsets(c.fresh), NEW b \in Offsets(request) PROVE a <= b
    <3>1. CASE a \in PollOffsets(p)
      BY <2>2, <3>1
    <3>2. CASE a \in Offsets(request)
      BY <2>1, <2>2, <3>2
    <3> QED
      BY <3>1, <3>2
  <2>4. Offsets(c.request) \cup FreshOffsets(c.fresh) \subseteq 0..Forgotten
    BY <2>2
  <2> QED
    BY <1>4, <2>1, <2>2, <2>3, <2>4 DEF Aligned
<1>6. NothingSkipped'
  <2> SUFFICES ASSUME bridgeRestarts = 0 PROVE NothingSkipped'
    BY DEF NothingSkipped
  <2>1. \A n : Done(n, typed \cup gone) => Done(n, typed' \cup gone')
    BY DEF Done
  <2>2. ASSUME NEW q \in Polls
        PROVE  /\ Done(poll'[q].request.keySeq - Len(poll'[q].request.keys), typed' \cup gone')
               /\ poll'[q].fresh # <<>> => Done(poll'[q].fresh[1].index - 1, typed' \cup gone')
               /\ poll'[q].phase = "awaiting" => poll'[q].fresh[1].key \in typed' \cup gone'
    <3>1. CASE q = p
      BY <1>1, <3>1
    <3>2. CASE q # p
      BY <1>1, <2>1, <3>2 DEF NothingSkipped
    <3> QED
      BY <3>1, <3>2
  <2> QED
    BY <2>1, <2>2 DEF NothingSkipped, Done
<1> QED
  BY <1>2, <1>3, <1>4, <1>5, <1>6


LEMMA ReadKeeps == ASSUME KeysInv, NEW p \in Polls, T!ReadRequest(p) PROVE KeysInv'
<1> USE DEF KeysInv
<1> DEFINE c == [poll[p] EXCEPT !.phase = "listing", !.request = request]
<1>1. /\ poll[p].phase = "idle" /\ poll' = [poll EXCEPT ![p] = c]
      /\ overlap' = (overlap \/ \E q \in Polls : poll[q].phase # "idle")
      /\ order' = IF overlap' THEN <<>> ELSE order
      /\ UNCHANGED <<keySeq, pending, aim, request, applied, agentRestarts, bridgeRestarts, pressed, typed, gone>>
  BY DEF T!ReadRequest, T!bridge, T!restarts
<1>2. c \in CallsOf /\ c.phase = "listing" /\ c.request = request /\ c.fresh = <<>> /\ request \in Requests /\ Fits(request)
  <2>1. poll[p] \in CallsOf /\ poll[p].fresh = <<>> /\ request \in Requests /\ Fits(request)
    BY <1>1 DEF PollsShaped, Shaped, Fits
  <2> QED
    BY <2>1 DEF CallsOf
<1>3. Shaped'
  <2>1. overlap' \in BOOLEAN
    BY <1>1
  <2>2. order' \in Seq(Nat)
    BY <1>1, EmptySeq DEF Shaped
  <2> QED
    BY <1>1, <2>1, <2>2 DEF Shaped
<1> HIDE DEF c
<1>4. Offsets(c.request) \cup FreshOffsets(c.fresh) = Offsets(request)
  BY <1>2, NoPollIsEmpty
<1>5. /\ \A k \in 1..Len(c.request.keys) : c.request.keys[k] <= pressed
      /\ \A k \in 1..Len(c.fresh) : c.fresh[k].key <= pressed
  BY <1>2, NoPollIsEmpty DEF WasPressed
<1>6. \A a, b \in Offsets(request) : a = b
  BY DEF Aligned
<1>7. bridgeRestarts = 0 =>
        Done(applied', typed' \cup gone') /\ Done(c.request.keySeq - Len(c.request.keys), typed' \cup gone')
  BY <1>1, <1>2 DEF NothingSkipped, Done
<1>8. /\ PollsShaped' /\ WasPressed' /\ Aligned' /\ NothingSkipped'
      /\ \A q \in Polls : PollOffsets(q)' = IF q = p THEN Offsets(request) ELSE PollOffsets(q)
  <2>1. Numbered(c.fresh) /\ Fits(c.request)
    BY <1>2, NoPollIsEmpty
  <2>2. /\ Offsets(c.request) \cup FreshOffsets(c.fresh) \subseteq PollOffsets(p) \cup Offsets(request)
        /\ \A a, b \in Offsets(c.request) \cup FreshOffsets(c.fresh) : a = b
    BY <1>4, <1>6
  <2> HIDE DEF KeysInv
  <2> QED
    BY <1>1, <1>2, <1>3, <1>4, <1>5, <1>7, <2>1, <2>2, CallMoves
<1>9. poll' \in [Polls -> CallsOf] /\ poll'[p].phase = "listing" /\ \A q \in Polls \ {p} : poll'[q] = poll[q]
  BY <1>1, <1>2 DEF PollsShaped
<1>10. OneCall' /\ Behind' /\ T!TypedInOrder'
  <2>1. CASE overlap'
    <3>1. Len(order') = 0
      BY <1>1, <2>1, NoPollIsEmpty
    <3> QED
      BY <1>1, <2>1, <3>1 DEF OneCall, Behind, T!TypedInOrder
  <2>2. CASE ~overlap'
    <3>1. ~overlap /\ order' = order /\ \A q \in Polls : poll[q].phase = "idle"
      BY <1>1, <2>2
    <3>2. OneCall' /\ T!TypedInOrder'
      BY <1>1, <1>9, <2>2, <3>1 DEF OneCall, T!TypedInOrder
    <3>3. Typing = {} /\ Typing' = {}
      BY <1>9, <3>1 DEF Typing
    <3>4. Reached = {applied} /\ Reached' = {applied}
      BY <1>1, <3>3 DEF Reached
    <3>5. Forgotten' = Forgotten
      BY <1>1 DEF Forgotten
    <3>6. Behind'
      BY <1>1, <1>8, <3>1, <3>4, <3>5 DEF Behind
    <3> QED
      BY <3>2, <3>6
  <2> QED
    BY <2>1, <2>2
<1> QED
  BY <1>3, <1>8, <1>10

LEMMA ListKeeps == ASSUME KeysInv, NEW p \in Polls, T!ListWindows(p) PROVE KeysInv'
<1> USE DEF KeysInv
<1>1. PICK w \in T!Window :
        /\ poll[p].phase = "listing"
        /\ poll' = [poll EXCEPT ![p] = [T!NoPoll EXCEPT !.phase = "typing", !.window = w,
                                                       !.fresh = T!KeysToApply(poll[p].request, applied)]]
        /\ UNCHANGED <<keySeq, pending, aim, request, applied, agentRestarts, bridgeRestarts, pressed, typed, gone, overlap, order>>
  BY DEF T!ListWindows, T!bridge, T!restarts, T!ResolveWindow, T!Window
<1> DEFINE r == poll[p].request
           fresh == T!KeysToApply(r, applied)
           c == [T!NoPoll EXCEPT !.phase = "typing", !.window = w, !.fresh = fresh]
<1>2. Fits(r) /\ applied \in Nat /\ poll[p].fresh = <<>>
  BY <1>1, Counted DEF PollsShaped
<1>3. /\ Numbered(fresh) /\ FreshOffsets(fresh) \subseteq Offsets(r)
      /\ \A k \in 1..Len(fresh) : \E j \in 1..Len(r.keys) : fresh[k].key = r.keys[j]
      /\ fresh # <<>> => applied < fresh[1].index
      /\ fresh # <<>> => fresh[1].index = applied + 1 \/ fresh[1].index = r.keySeq - Len(r.keys) + 1
  <2>1. fresh = T!KeysToApply(r, applied)
    OBVIOUS
  <2> HIDE DEF fresh, r
  <2> QED
    BY ONLY <1>2, <2>1, ToApply
<1> HIDE DEF fresh
<1>4. c \in CallsOf /\ c.phase = "typing" /\ c.request = T!NoRequest /\ c.fresh = fresh
  <2>2. fresh \in ToType
    BY <1>3 DEF Numbered
  <2> QED
    BY <2>2, NoPollIsEmpty DEF CallsOf
<1>5. poll' = [poll EXCEPT ![p] = c]
  BY <1>1 DEF fresh
<1> HIDE DEF c
<1>6. Shaped'
  BY <1>1 DEF Shaped
<1>7. PollOffsets(p) = Offsets(r) /\ Offsets(c.request) \cup FreshOffsets(c.fresh) = FreshOffsets(fresh)
  BY <1>2, <1>4, NoPollIsEmpty DEF PollOffsets
<1>8. /\ Offsets(c.request) \cup FreshOffsets(c.fresh) \subseteq PollOffsets(p) \cup Offsets(request)
      /\ \A a, b \in Offsets(c.request) \cup FreshOffsets(c.fresh) : a = b
  BY <1>3, <1>7 DEF Aligned
<1>9. /\ \A k \in 1..Len(c.request.keys) : c.request.keys[k] <= pressed
      /\ \A k \in 1..Len(c.fresh) : c.fresh[k].key <= pressed
  <2>1. \A j \in 1..Len(r.keys) : r.keys[j] <= pressed
    BY DEF WasPressed
  <2>2. \A k \in 1..Len(fresh) : fresh[k].key <= pressed
    BY ONLY <1>3, <2>1
  <2>3. \A k \in 1..Len(c.request.keys) : c.request.keys[k] <= pressed
    BY <1>4, NoPollIsEmpty
  <2> QED
    BY <1>4, <2>2, <2>3
<1>10. bridgeRestarts = 0 =>
         /\ Done(applied', typed' \cup gone') /\ Done(c.request.keySeq - Len(c.request.keys), typed' \cup gone')
         /\ c.fresh # <<>> => Done(c.fresh[1].index - 1, typed' \cup gone')
  <2> SUFFICES ASSUME bridgeRestarts = 0
               PROVE  /\ Done(applied, typed \cup gone) /\ Done(0 - 0, typed \cup gone)
                      /\ fresh # <<>> => Done(fresh[1].index - 1, typed \cup gone)
    BY <1>1, <1>4, NoPollIsEmpty
  <2>1. Done(applied, typed \cup gone) /\ Done(r.keySeq - Len(r.keys), typed \cup gone)
    BY DEF NothingSkipped
  <2>2. Done(0 - 0, typed \cup gone)
    BY DEF Done
  <2>3. ASSUME fresh # <<>> PROVE Done(fresh[1].index - 1, typed \cup gone)
    <3>1. r.keySeq \in Nat /\ Len(r.keys) \in Nat
      BY Numbers
    <3>2. \A i, j, k \in Int : (i = j + 1 \/ i = k + 1) => (i - 1 = j \/ i - 1 = k)
      OBVIOUS
    <3>3. fresh[1].index = applied + 1 \/ fresh[1].index = (r.keySeq - Len(r.keys)) + 1
      BY <1>3, <2>3
    <3>4. r.keySeq - Len(r.keys) \in Int /\ applied \in Int /\ fresh[1].index \in Int
      BY <1>2, <3>1, <3>3
    <3>5. fresh[1].index - 1 = applied \/ fresh[1].index - 1 = r.keySeq - Len(r.keys)
      BY <3>2, <3>3, <3>4
    <3> QED
      BY <2>1, <3>5
  <2> QED
    BY <2>1, <2>2, <2>3
<1>11. /\ PollsShaped' /\ WasPressed' /\ Aligned' /\ NothingSkipped'
       /\ \A q \in Polls : PollOffsets(q)' = IF q = p THEN FreshOffsets(fresh) ELSE PollOffsets(q)
  <2>1. Numbered(c.fresh) /\ Fits(c.request)
    BY <1>3, <1>4, NoPollIsEmpty
  <2> HIDE DEF KeysInv
  <2> QED
    BY <1>1, <1>4, <1>5, <1>6, <1>7, <1>8, <1>9, <1>10, <2>1, CallMoves
<1>12. poll'[p] = c /\ \A q \in Polls \ {p} : poll'[q] = poll[q]
  BY <1>5 DEF PollsShaped
<1>15. /\ poll'[p].phase = "typing" /\ poll'[p].fresh = fresh /\ poll[p].phase = "listing"
       /\ applied' = applied /\ order' = order /\ overlap' = overlap
  BY <1>1, <1>4, <1>12
<1>13. OneCall' /\ T!TypedInOrder'
  <2>1. T!TypedInOrder'
    BY <1>15 DEF T!TypedInOrder
  <2>2. overlap => order = <<>>
    BY DEF OneCall
  <2>3. ASSUME ~overlap
        PROVE  /\ \A q, s \in Polls : poll'[q].phase # "idle" /\ poll'[s].phase # "idle" => q = s
               /\ \A q \in Polls : poll'[q].phase = "typing" /\ poll'[q].fresh # <<>> => applied < poll'[q].fresh[1].index
    <3>1. \A q \in Polls \ {p} : poll[q].phase = "idle"
      BY <1>15, <2>3 DEF OneCall
    <3>2. \A q \in Polls \ {p} : poll'[q].phase = "idle"
      BY <1>12, <3>1
    <3>3. fresh # <<>> => applied < fresh[1].index
      BY <1>3
    <3> QED
      BY <1>15, <3>2, <3>3
  <2> QED
    BY <1>15, <2>1, <2>2, <2>3 DEF OneCall
<1>14. Behind'
  <2>1. Typing' = Typing /\ \A q \in Typing : poll'[q] = poll[q]
    BY <1>12, <1>15 DEF Typing
  <2>2. Reached' = Reached
    <3>1. {poll'[q].fresh[1].index : q \in Typing} = {poll[q].fresh[1].index : q \in Typing}
      BY ONLY <2>1
    <3>2. Reached' = IF Typing' = {} THEN {applied'} ELSE {poll'[q].fresh[1].index : q \in Typing'}
      BY DEF Reached
    <3> QED
      BY ONLY <1>15, <2>1, <3>1, <3>2 DEF Reached
  <2>3. Forgotten' = Forgotten
    BY <1>1 DEF Forgotten
  <2>4. \A q \in Polls : PollOffsets(q)' \subseteq PollOffsets(q)
    BY <1>3, <1>7, <1>11
  <2> QED
    BY <1>1, <2>2, <2>3, <2>4 DEF Behind
<1> QED
  BY <1>6, <1>11, <1>13, <1>14


LEMMA TypeKeeps == ASSUME KeysInv, NEW p \in Polls, T!TypeKey(p) PROVE KeysInv'
<1> USE DEF KeysInv
<1> DEFINE fresh == poll[p].fresh
           k == Head(fresh).key
           c == [poll[p] EXCEPT !.phase = "awaiting"]
<1>1. /\ poll[p].phase = "typing" /\ fresh # <<>>
      /\ \/ typed' = typed \cup {k} /\ gone' = gone /\ order' = IF overlap THEN order ELSE Append(order, k)
         \/ typed' = typed /\ gone' = gone \cup {k} /\ order' = order
      /\ poll' = [poll EXCEPT ![p] = c]
      /\ UNCHANGED <<keySeq, pending, aim, request, applied, agentRestarts, bridgeRestarts, pressed, overlap>>
  BY DEF T!TypeKey, T!bridge, T!restarts
<1>2. c \in CallsOf /\ c.phase = "awaiting" /\ c.request = poll[p].request /\ c.fresh = fresh
  BY DEF PollsShaped, CallsOf
<1>3. /\ fresh[1] = Head(fresh) /\ 1 \in 1..Len(fresh) /\ fresh[1].index \in Nat /\ k \in Nat
      /\ k = fresh[1].key /\ k \in 1..pressed
  <2>1. /\ Len(fresh) \in Nat /\ Len(fresh) # 0 /\ Head(fresh) = fresh[1]
        /\ \A j \in 1..Len(fresh) : fresh[j].index \in 1..MaxKeys /\ fresh[j].key \in 1..MaxKeys
    BY <1>1, Numbers
  <2>2. 1 \in 1..Len(fresh)
    BY <2>1
  <2>3. fresh[1].key <= pressed
    BY <2>2 DEF WasPressed
  <2>4. pressed \in Nat
    BY Counted
  <2>5. k = fresh[1].key /\ fresh[1].index \in Nat /\ fresh[1].key \in Nat \ {0}
    BY <2>1, <2>2, KeysAssumption DEF T!TerminalAssumption
  <2>6. fresh[1].key \in 1..pressed
    BY ONLY <2>3, <2>4, <2>5
  <2> QED
    BY <2>1, <2>2, <2>5, <2>6
<1>4. k - fresh[1].index \in FreshOffsets(fresh)
  BY <1>3 DEF FreshOffsets
<1>5. poll'[p] = c /\ \A q \in Polls \ {p} : poll'[q] = poll[q]
  BY <1>1 DEF PollsShaped
<1> HIDE DEF c, k, fresh
<1>6. Shaped'
  <2>2. order \in Seq(Nat)
    BY DEF Shaped
  <2>3. Append(order, k) \in Seq(Nat)
    BY ONLY <1>3, <2>2, AppendProperties
  <2>1. order' \in Seq(Nat)
    BY ONLY <1>1, <2>2, <2>3
  <2> QED
    BY <1>1, <2>1 DEF Shaped
<1>7. Offsets(c.request) \cup FreshOffsets(c.fresh) = PollOffsets(p)
  BY <1>2 DEF PollOffsets, fresh
<1>8. /\ PollsShaped' /\ WasPressed' /\ Aligned' /\ NothingSkipped'
      /\ \A q \in Polls : PollOffsets(q)' = PollOffsets(q)
  <2>1. Numbered(c.fresh) /\ Fits(c.request) /\ (c.phase # "listing" => c.request = T!NoRequest)
    BY <1>1, <1>2 DEF PollsShaped, fresh
  <2>2. /\ Offsets(c.request) \cup FreshOffsets(c.fresh) \subseteq PollOffsets(p) \cup Offsets(request)
        /\ \A a, b \in Offsets(c.request) \cup FreshOffsets(c.fresh) : a = b
    BY <1>7 DEF Aligned
  <2>3. /\ \A j \in 1..Len(c.request.keys) : c.request.keys[j] <= pressed
        /\ \A j \in 1..Len(c.fresh) : c.fresh[j].key <= pressed
    BY <1>2 DEF WasPressed, fresh
  <2>4. typed \subseteq typed' /\ gone \subseteq gone' /\ k \in typed' \cup gone'
    BY <1>1
  <2>5. bridgeRestarts = 0 =>
           /\ Done(applied', typed' \cup gone') /\ Done(c.request.keySeq - Len(c.request.keys), typed' \cup gone')
           /\ c.fresh # <<>> => Done(c.fresh[1].index - 1, typed' \cup gone')
           /\ c.phase = "awaiting" => c.fresh[1].key \in typed' \cup gone'
    <3> SUFFICES ASSUME bridgeRestarts = 0
                 PROVE  /\ Done(applied, typed' \cup gone')
                        /\ Done(poll[p].request.keySeq - Len(poll[p].request.keys), typed' \cup gone')
                        /\ Done(fresh[1].index - 1, typed' \cup gone')
      BY <1>1, <1>2, <1>3, <2>4
    <3>1. /\ Done(applied, typed \cup gone)
          /\ Done(poll[p].request.keySeq - Len(poll[p].request.keys), typed \cup gone)
          /\ Done(fresh[1].index - 1, typed \cup gone)
      BY <1>1 DEF NothingSkipped, fresh
    <3> QED
      BY <2>4, <3>1 DEF Done
  <2>6. c.fresh # <<>>
    BY <1>1, <1>2
  <2> HIDE DEF KeysInv
  <2>7. /\ PollsShaped' /\ WasPressed' /\ Aligned' /\ NothingSkipped'
        /\ \A q \in Polls : PollOffsets(q)' = IF q = p THEN Offsets(c.request) \cup FreshOffsets(c.fresh) ELSE PollOffsets(q)
    BY <1>1, <1>2, <1>6, <2>1, <2>2, <2>3, <2>4, <2>5, <2>6, CallMoves
  <2> QED
    BY <1>7, <2>7
<1>9. OneCall' /\ Behind' /\ T!TypedInOrder'
  <2>1. CASE overlap
    <3>1. order' = <<>> /\ Len(order') = 0
      BY <1>1, <2>1, NoPollIsEmpty DEF OneCall
    <3> QED
      BY <1>1, <2>1, <3>1 DEF OneCall, Behind, T!TypedInOrder
  <2>2. CASE ~overlap
    <3>1. /\ \A q \in Polls \ {p} : poll[q].phase = "idle" /\ PollOffsets(q) = {}
          /\ Reached = {applied} /\ applied < fresh[1].index
      BY <1>1, <2>2, Alone DEF OneCall, fresh
    <3>2. \A q \in Polls \ {p} : poll'[q].phase = "idle"
      BY <1>5, <3>1
    <3>3. poll'[p].phase = "awaiting" /\ poll'[p].fresh = fresh
      BY <1>2, <1>5
    <3>4. OneCall'
      BY <1>1, <2>2, <3>2, <3>3 DEF OneCall
    <3>5. Reached' = {fresh[1].index}
      <4>1. Typing' = {p}
        BY <3>2, <3>3 DEF Typing
      <4>2. Reached' = {poll'[q].fresh[1].index : q \in {p}}
        BY <4>1 DEF Reached
      <4> QED
        BY <3>3, <4>2
    <3>6. /\ applied \in Nat /\ Forgotten \in Nat /\ pressed \in Nat /\ Len(order) \in Nat /\ \A n \in 1..Len(order) : order[n] \in Nat
          /\ order \in Seq(Nat) /\ Forgotten' = Forgotten /\ pressed' = pressed
      BY <1>1, Counted DEF Shaped, Forgotten
    <3> DEFINE top == {Forgotten} \cup Offsets(request) \cup PollOffsets(p)
               off == k - fresh[1].index
    <3>7. \A a \in top : a \in Nat /\ off <= a
      <4>1. off \in PollOffsets(p)
        BY <1>4 DEF PollOffsets, fresh
      <4>2. \A a \in PollOffsets(p) : a = off /\ a <= Forgotten /\ a \in Nat
        BY <4>1, OffsetsAreInts DEF Aligned
      <4>3. \A b \in Offsets(request) : off <= b /\ b \in Nat
        BY <4>1, OffsetsAreInts DEF Aligned
      <4> QED
        BY <3>6, <4>1, <4>2, <4>3
    <3>8. \A n \in 1..Len(order) : order[n] <= pressed /\ order[n] < k /\ \A a \in top : order[n] <= fresh[1].index + a
      <4> SUFFICES ASSUME NEW n \in 1..Len(order)
                   PROVE  order[n] <= pressed /\ order[n] < k /\ \A a \in top : order[n] <= fresh[1].index + a
        OBVIOUS
      <4>1. order[n] <= pressed /\ \A a \in top : order[n] <= applied + a
        BY <3>1 DEF Behind
      <4>2. off \in top
        BY <1>4 DEF PollOffsets, fresh
      <4>3. order[n] <= applied + off
        BY <4>1, <4>2
      <4> HIDE DEF top
      <4>4. order[n] < k
        <5>1. applied \in Nat /\ fresh[1].index \in Nat /\ k \in Nat /\ order[n] \in Nat
          BY <1>3, <3>6
        <5>2. order[n] <= applied + (k - fresh[1].index) /\ applied < fresh[1].index
          BY <3>1, <4>3
        <5> QED
          BY ONLY <5>1, <5>2
      <4>5. \A a \in top : order[n] <= fresh[1].index + a
        BY <1>3, <3>1, <3>6, <3>7, <4>1
      <4> QED
        BY <4>1, <4>4, <4>5
    <3>9. k <= pressed /\ \A a \in top : k <= fresh[1].index + a
      <4> HIDE DEF top
      <4> QED
        BY <1>3, <3>6, <3>7
    <3>10. \A n \in 1..Len(order') :
             (order'[n] = k /\ n = Len(order) + 1) \/ (n \in 1..Len(order) /\ order'[n] = order[n])
      <4>1. CASE order' = order
        BY <4>1
      <4>2. CASE order' = Append(order, k)
        BY <1>3, <3>6, <4>2, AppendProperties
      <4> QED
        BY <1>1, <2>2, <4>1, <4>2
    <3>11. \A n \in 1..Len(order') : order'[n] <= pressed /\ \A a \in top : order'[n] <= fresh[1].index + a
      BY <3>8, <3>9, <3>10
    <3>12. Behind'
      <4>1. Offsets(request)' = Offsets(request)
        BY <1>1
      <4>2. \A q \in Polls : \A a \in PollOffsets(q)' : a \in top
        BY <1>8, <3>1
      <4>3. Forgotten \in top /\ \A a \in Offsets(request) : a \in top
        OBVIOUS
      <4> HIDE DEF top
      <4> QED
        BY <3>5, <3>6, <3>11, <4>1, <4>2, <4>3 DEF Behind
    <3>13. T!TypedInOrder'
      <4> SUFFICES ASSUME NEW m \in 1..Len(order'), NEW n \in 1..Len(order'), m < n
                   PROVE  order'[m] < order'[n]
        BY DEF T!TypedInOrder
      <4>1. m \in 1..Len(order) /\ order'[m] = order[m]
        BY <3>6, <3>10
      <4> QED
        BY <3>8, <3>10, <4>1 DEF T!TypedInOrder
    <3> QED
      BY <3>4, <3>12, <3>13
  <2> QED
    BY <2>1, <2>2
<1> QED
  BY <1>6, <1>8, <1>9


LEMMA TypedKeeps == ASSUME KeysInv, NEW p \in Polls, T!KeyTyped(p) PROVE KeysInv'
<1> USE DEF KeysInv
<1> DEFINE fresh == poll[p].fresh
           c == [poll[p] EXCEPT !.phase = "typing", !.fresh = Tail(fresh)]
<1>1. /\ poll[p].phase = "awaiting" /\ applied' = Head(fresh).index
      /\ poll' = [poll EXCEPT ![p] = c]
      /\ UNCHANGED <<keySeq, pending, aim, request, agentRestarts, bridgeRestarts, pressed, typed, gone, overlap, order>>
  BY DEF T!KeyTyped, T!bridge, T!restarts
<1>2. poll[p] \in CallsOf /\ fresh \in ToType /\ fresh # <<>> /\ poll[p].request = T!NoRequest
  BY <1>1 DEF PollsShaped, CallsOf
<1>3. /\ Tail(fresh) \in ToType /\ Len(Tail(fresh)) = Len(fresh) - 1
      /\ \A k \in 1..Len(Tail(fresh)) : Tail(fresh)[k] = fresh[k + 1]
  BY <1>2, HeadTailProperties DEF ToType
<1>4. /\ Len(fresh) \in Nat \ {0} /\ Head(fresh) = fresh[1] /\ fresh[1].index \in 1..MaxKeys /\ fresh[1].key \in 1..MaxKeys
      /\ \A k \in 1..Len(fresh) : fresh[k].index = fresh[1].index + k - 1
  BY <1>2, Numbers DEF PollsShaped, Numbered
<1>5. c \in CallsOf /\ c.phase = "typing" /\ c.request = T!NoRequest /\ c.fresh = Tail(fresh)
  BY <1>2, <1>3 DEF CallsOf
<1>6. poll'[p] = c /\ \A q \in Polls \ {p} : poll'[q] = poll[q]
  BY <1>1 DEF PollsShaped
<1>7. \A k \in 1..Len(Tail(fresh)) : k + 1 \in 1..Len(fresh)
  BY <1>3, <1>4
<1>8. Numbered(Tail(fresh))
  <2>1. Len(fresh) <= KeyWindow
    BY DEF PollsShaped, Numbered
  <2>2. Len(Tail(fresh)) <= KeyWindow
    BY <1>3, <1>4, <2>1, KeysAssumption DEF T!TerminalAssumption
  <2>3. ASSUME NEW k \in 1..Len(Tail(fresh)) PROVE Tail(fresh)[k].index = Tail(fresh)[1].index + k - 1
    <3>1. 1 \in 1..Len(Tail(fresh)) /\ k \in Nat
      BY <1>3, <1>4
    <3>2. Tail(fresh)[k].index = fresh[1].index + (k + 1) - 1 /\ Tail(fresh)[1].index = fresh[1].index + (1 + 1) - 1
      BY <1>3, <1>4, <1>7, <3>1
    <3> QED
      BY <1>4, <3>1, <3>2
  <2> QED
    BY <1>3, <2>2, <2>3 DEF Numbered
<1>9. FreshOffsets(Tail(fresh)) \subseteq PollOffsets(p)
  BY <1>3, <1>7 DEF FreshOffsets, PollOffsets
<1>10. Tail(fresh) # <<>> => Tail(fresh)[1].index = fresh[1].index + 1
  <2> SUFFICES ASSUME Tail(fresh) # <<>> PROVE Tail(fresh)[1].index = fresh[1].index + 1
    OBVIOUS
  <2>1. 1 \in 1..Len(Tail(fresh)) /\ 2 \in 1..Len(fresh)
    BY <1>3, <1>4, EmptySeq DEF ToType
  <2>2. Tail(fresh)[1] = fresh[2]
    BY <1>3, <2>1
  <2> QED
    BY <1>4, <2>1, <2>2
<1> HIDE DEF c, fresh
<1>11. Shaped'
  <2>1. applied' \in 0..MaxKeys
    BY <1>1, <1>4, KeysAssumption DEF T!TerminalAssumption
  <2> QED
    BY <1>1, <2>1 DEF Shaped
<1>12. Offsets(c.request) \cup FreshOffsets(c.fresh) = FreshOffsets(Tail(fresh))
  BY <1>5, NoPollIsEmpty
<1>13. /\ PollsShaped' /\ WasPressed' /\ Aligned' /\ NothingSkipped'
       /\ \A q \in Polls : PollOffsets(q)' \subseteq PollOffsets(q)
  <2>1. Numbered(c.fresh) /\ Fits(c.request)
    BY <1>5, <1>8, NoPollIsEmpty
  <2>2. /\ Offsets(c.request) \cup FreshOffsets(c.fresh) \subseteq PollOffsets(p) \cup Offsets(request)
        /\ \A a, b \in Offsets(c.request) \cup FreshOffsets(c.fresh) : a = b
    BY <1>9, <1>12 DEF Aligned
  <2>3. /\ \A j \in 1..Len(c.request.keys) : c.request.keys[j] <= pressed
        /\ \A j \in 1..Len(c.fresh) : c.fresh[j].key <= pressed
    BY <1>3, <1>5, <1>7, NoPollIsEmpty DEF WasPressed, fresh
  <2>4. bridgeRestarts = 0 =>
           /\ Done(applied', typed' \cup gone') /\ Done(c.request.keySeq - Len(c.request.keys), typed' \cup gone')
           /\ c.fresh # <<>> => Done(c.fresh[1].index - 1, typed' \cup gone')
    <3> SUFFICES ASSUME bridgeRestarts = 0
                 PROVE  /\ Done(fresh[1].index, typed \cup gone) /\ Done(0 - 0, typed \cup gone)
                        /\ Tail(fresh) # <<>> => Done(Tail(fresh)[1].index - 1, typed \cup gone)
      BY <1>1, <1>4, <1>5, NoPollIsEmpty
    <3>1. keySeq = pressed /\ Done(fresh[1].index - 1, typed \cup gone) /\ fresh[1].key \in typed \cup gone
      BY <1>1, <1>2 DEF NothingSkipped, fresh
    <3>2. fresh[1].key = fresh[1].index
      <4>1. fresh[1].key - fresh[1].index \in PollOffsets(p)
        BY <1>4 DEF PollOffsets, FreshOffsets, fresh
      <4>2. Forgotten = 0
        BY <3>1, Counted DEF Forgotten
      <4>3. fresh[1].key - fresh[1].index = 0
        BY <4>1, <4>2, OffsetsAreInts
      <4> QED
        BY <1>4, <4>3
    <3>3. Done(fresh[1].index, typed \cup gone)
      <4> SUFFICES ASSUME NEW id \in 1..fresh[1].index PROVE id \in typed \cup gone
        BY DEF Done
      <4>1. id \in 1..(fresh[1].index - 1) \/ id = fresh[1].index
        BY <1>4
      <4> QED
        BY <3>1, <3>2, <4>1 DEF Done
    <3>4. Done(0 - 0, typed \cup gone)
      BY DEF Done
    <3>5. Tail(fresh) # <<>> => Tail(fresh)[1].index - 1 = fresh[1].index
      BY <1>4, <1>10
    <3> QED
      BY <3>3, <3>4, <3>5
  <2>5. Shaped' /\ c.phase # "awaiting" /\ c.phase # "listing" /\ c.phase \in {"typing", "awaiting"}
    BY <1>5, <1>11
  <2> HIDE DEF KeysInv
  <2>6. /\ PollsShaped' /\ WasPressed' /\ Aligned' /\ NothingSkipped'
        /\ \A q \in Polls : PollOffsets(q)' = IF q = p THEN Offsets(c.request) \cup FreshOffsets(c.fresh) ELSE PollOffsets(q)
    BY <1>1, <1>5, <2>1, <2>2, <2>3, <2>4, <2>5, CallMoves
  <2> QED
    BY <1>9, <1>12, <2>6
<1>14. OneCall' /\ Behind' /\ T!TypedInOrder'
  <2>1. T!TypedInOrder'
    BY <1>1 DEF T!TypedInOrder
  <2>2. CASE overlap
    <3>1. order' = <<>> /\ Len(order') = 0
      BY <1>1, <2>2, NoPollIsEmpty DEF OneCall
    <3> QED
      BY <1>1, <2>1, <2>2, <3>1 DEF OneCall, Behind
  <2>3. CASE ~overlap
    <3>1. /\ \A q \in Polls \ {p} : poll[q].phase = "idle"
          /\ Reached = {fresh[1].index}
      BY <1>1, <2>3, Alone DEF fresh
    <3>2. \A q \in Polls \ {p} : poll'[q].phase = "idle"
      BY <1>6, <3>1
    <3>3. poll'[p].phase = "typing" /\ poll'[p].fresh = Tail(fresh)
      BY <1>5, <1>6
    <3>4. OneCall'
      <4>1. Tail(fresh) # <<>> => applied' < Tail(fresh)[1].index
        BY <1>1, <1>4, <1>10
      <4> QED
        BY <1>1, <2>3, <3>2, <3>3, <4>1 DEF OneCall
    <3>5. Typing' = {}
      BY <3>2, <3>3 DEF Typing
    <3>6. Reached' = Reached
      BY <1>1, <1>4, <3>1, <3>5 DEF Reached
    <3>7. Forgotten' = Forgotten
      BY <1>1 DEF Forgotten
    <3>8. Behind'
      BY <1>1, <1>13, <3>6, <3>7 DEF Behind
    <3> QED
      BY <2>1, <3>4, <3>8
  <2> QED
    BY <2>2, <2>3
<1> QED
  BY <1>11, <1>13, <1>14

LEMMA EndKeeps == ASSUME KeysInv, NEW p \in Polls, T!EndPoll(p) PROVE KeysInv'
<1> USE DEF KeysInv
<1>1. /\ poll[p].phase = "typing" /\ poll' = [poll EXCEPT ![p] = T!NoPoll]
      /\ UNCHANGED <<keySeq, pending, aim, request, applied, agentRestarts, bridgeRestarts, pressed, typed, gone, overlap, order>>
  BY DEF T!EndPoll, T!bridge, T!restarts
<1>2. Shaped'
  BY <1>1 DEF Shaped
<1>3. Offsets(T!NoPoll.request) \cup FreshOffsets(T!NoPoll.fresh) = {}
  BY NoPollIsEmpty
<1>4. /\ PollsShaped' /\ WasPressed' /\ Aligned' /\ NothingSkipped'
      /\ \A q \in Polls : PollOffsets(q)' \subseteq PollOffsets(q)
  <2>1. bridgeRestarts = 0 =>
           Done(applied', typed' \cup gone') /\ Done(T!NoPoll.request.keySeq - Len(T!NoPoll.request.keys), typed' \cup gone')
    BY <1>1, NoPollIsEmpty DEF NothingSkipped, Done
  <2>2. /\ \A j \in 1..Len(T!NoPoll.request.keys) : T!NoPoll.request.keys[j] <= pressed
        /\ \A j \in 1..Len(T!NoPoll.fresh) : T!NoPoll.fresh[j].key <= pressed
    BY NoPollIsEmpty
  <2>3. /\ Offsets(T!NoPoll.request) \cup FreshOffsets(T!NoPoll.fresh) \subseteq PollOffsets(p) \cup Offsets(request)
        /\ \A a, b \in Offsets(T!NoPoll.request) \cup FreshOffsets(T!NoPoll.fresh) : a = b
    BY <1>3
  <2>4. /\ T!NoPoll \in CallsOf /\ Fits(T!NoPoll.request) /\ Numbered(T!NoPoll.fresh)
        /\ T!NoPoll.phase = "idle" /\ T!NoPoll.request = T!NoRequest /\ T!NoPoll.fresh = <<>>
    BY NoPollIsEmpty
  <2> HIDE DEF KeysInv
  <2>5. /\ PollsShaped' /\ WasPressed' /\ Aligned' /\ NothingSkipped'
        /\ \A q \in Polls : PollOffsets(q)' = IF q = p THEN Offsets(T!NoPoll.request) \cup FreshOffsets(T!NoPoll.fresh) ELSE PollOffsets(q)
    BY <1>1, <1>2, <2>1, <2>2, <2>3, <2>4, CallMoves
  <2> QED
    BY <1>3, <2>5
<1>5. poll'[p].phase = "idle" /\ \A q \in Polls \ {p} : poll'[q] = poll[q]
  BY <1>1, NoPollIsEmpty DEF PollsShaped
<1>6. OneCall' /\ T!TypedInOrder'
  <2>1. \A q \in Polls : poll'[q].phase # "idle" => q # p /\ poll'[q] = poll[q]
    BY <1>5
  <2> QED
    BY <1>1, <2>1 DEF OneCall, T!TypedInOrder
<1>7. Behind'
  <2>1. Typing' = Typing /\ \A q \in Typing : poll'[q] = poll[q]
    BY <1>1, <1>5 DEF Typing
  <2>2. Reached' = Reached
    <3>1. {poll'[q].fresh[1].index : q \in Typing} = {poll[q].fresh[1].index : q \in Typing}
      BY ONLY <2>1
    <3>2. Reached' = IF Typing' = {} THEN {applied'} ELSE {poll'[q].fresh[1].index : q \in Typing'}
      BY DEF Reached
    <3> QED
      BY ONLY <1>1, <2>1, <3>1, <3>2 DEF Reached
  <2>3. Forgotten' = Forgotten
    BY <1>1 DEF Forgotten
  <2> QED
    BY <1>1, <1>4, <2>2, <2>3 DEF Behind
<1> QED
  BY <1>2, <1>4, <1>6, <1>7

LEMMA AgentRestartKeeps == KeysInv /\ T!AgentRestart => KeysInv'
<1> SUFFICES ASSUME KeysInv, T!AgentRestart PROVE KeysInv'
  OBVIOUS
<1> USE DEF KeysInv
<1>1. /\ agentRestarts + bridgeRestarts < MaxRestarts /\ agentRestarts' = agentRestarts + 1
      /\ applied' = 0 /\ poll' = [q \in Polls |-> T!NoPoll] /\ overlap' = FALSE /\ order' = <<>>
      /\ UNCHANGED <<keySeq, pending, aim, request, bridgeRestarts, pressed, typed, gone>>
  BY DEF T!AgentRestart, T!bridge
<1>2. \A q \in Polls : poll'[q] = T!NoPoll
  BY <1>1
<1>3. order' \in Seq(Nat) /\ Len(order') = 0
  BY <1>1, EmptySeq
<1>4. Shaped'
  <2>1. agentRestarts' \in 0..MaxRestarts /\ applied' \in 0..MaxKeys
    BY <1>1, KeysAssumption DEF Shaped, T!TerminalAssumption
  <2> QED
    BY <1>1, <1>3, <2>1 DEF Shaped
<1>5. PollsShaped'
  BY <1>1, <1>2, NoPollIsEmpty DEF PollsShaped
<1>6. WasPressed'
  BY <1>1, <1>2, NoPollIsEmpty DEF WasPressed
<1>7. \A q \in Polls : PollOffsets(q)' = {}
  BY <1>2, NoPollIsEmpty DEF PollOffsets
<1>8. Aligned'
  BY <1>1, <1>7 DEF Aligned, Forgotten
<1>9. OneCall' /\ Behind' /\ T!TypedInOrder'
  BY <1>1, <1>2, <1>3, NoPollIsEmpty DEF OneCall, Behind, T!TypedInOrder
<1>10. NothingSkipped'
  BY <1>1, <1>2, NoPollIsEmpty DEF NothingSkipped, Done
<1> QED
  BY <1>4, <1>5, <1>6, <1>8, <1>9, <1>10

LEMMA KeysStep == KeysInv /\ [T!Next]_TVars => KeysInv'
<1> SUFFICES ASSUME KeysInv, [T!Next]_TVars PROVE KeysInv'
  OBVIOUS
<1>1. ASSUME UNCHANGED TVars PROVE KeysInv'
  <2> USE <1>1 DEF TVars, KeysInv
  <2>1. Forgotten' = Forgotten /\ \A q : PollOffsets(q)' = PollOffsets(q)
    BY DEF Forgotten, PollOffsets
  <2>2. Reached' = Reached
    BY DEF Reached, Typing
  <2>3. Shaped'
    BY DEF Shaped
  <2>4. PollsShaped'
    BY DEF PollsShaped
  <2>5. WasPressed'
    BY DEF WasPressed
  <2>6. Aligned'
    BY <2>1 DEF Aligned
  <2>7. OneCall' /\ T!TypedInOrder'
    BY DEF OneCall, T!TypedInOrder
  <2>8. Behind'
    BY <2>1, <2>2 DEF Behind
  <2>9. NothingSkipped'
    BY DEF NothingSkipped
  <2> QED
    BY <2>3, <2>4, <2>5, <2>6, <2>7, <2>8, <2>9
<1>2. ASSUME NEW p \in Polls, T!Step(p) PROVE KeysInv'
  BY <1>2, ReadKeeps, ListKeeps, TypeKeeps, TypedKeeps, EndKeeps DEF T!Step
<1>3. ASSUME T!Press \/ T!SendToChat PROVE KeysInv'
  <2>1. T!Follow \in T!Window \cup {T!Follow} /\ "main" \in T!Window \cup {T!Follow} /\ 1 \in Nat /\ 2 \in Nat
    BY DEF T!Window
  <2> QED
    BY <1>3, <2>1, PressKeeps DEF T!Press, T!SendToChat
<1> QED
  BY <1>1, <1>2, <1>3, WatchKeeps, AimKeeps, BridgeRestartKeeps, AgentRestartKeeps DEF T!Next

LEMMA KeysPromise == KeysInv => T!TypeOK /\ T!TypedInOrder /\ T!SkippedMeansTyped
<1> SUFFICES ASSUME KeysInv PROVE T!TypeOK /\ T!SkippedMeansTyped
  BY DEF KeysInv
<1> USE DEF KeysInv
<1>1. T!TypeOK
  <2>1. ASSUME NEW p \in Polls
        PROVE  /\ poll[p].phase \in {"idle", "listing", "typing", "awaiting"}
               /\ poll[p].window \in T!Window /\ Len(poll[p].fresh) <= KeyWindow
               /\ poll[p].phase = "awaiting" => poll[p].fresh # <<>>
    <3>1. poll[p] \in CallsOf
      BY DEF PollsShaped
    <3> QED
      BY <3>1 DEF PollsShaped, Numbered, CallsOf
  <2>2. T!KeysOf(request.keys) /\ Len(request.keys) <= KeyWindow /\ request.keySeq \in 0..MaxKeys
    BY DEF Shaped, Fits, Requests, T!KeysOf
  <2> QED
    BY <2>1, <2>2 DEF Shaped, T!TypeOK, T!KeysOf
<1>2. T!SkippedMeansTyped
  <2> SUFFICES ASSUME NEW k \in 1..Len(pending), keySeq - Len(pending) + k <= applied, bridgeRestarts = 0
               PROVE  pending[k] \in typed \cup gone
    BY Counted DEF T!SkippedMeansTyped, T!Settled
  <2>1. pending[k] = pressed - Len(pending) + k /\ keySeq = pressed /\ Done(applied, typed \cup gone) /\ Len(pending) <= keySeq
    BY DEF Shaped, NothingSkipped
  <2>2. pending[k] \in 1..applied
    BY <2>1, Counted
  <2> QED
    BY <2>1, <2>2 DEF Done
<1> QED
  BY <1>1, <1>2

----------------------------------------------------------------------------
(* The parts together: a behaviour is one of a single part, and the other stays as
   it began. *)

allVars == <<which, vars, TVars>>

LEMMA Behaviours ==
  Sum => Spec /\ T!Init /\ [][T!Next]_TVars
<1>1. Start => Init /\ T!Init
  BY DEF Start
<1>2. [Step]_allVars => [Next]_vars /\ [T!Next]_TVars
  BY DEF Step, allVars
<1> QED
  BY <1>1, <1>2, PTL DEF Sum, Spec, allVars

(* A key held anywhere is settled or still to be typed, and whoever reads a request
   reads no number that was written later: the inductive invariant of Terminal. *)
THEOREM KeysInvariant == Sum => []KeysInv
<1> QED
  BY KeysStart, KeysStep, Behaviours, PTL

(* For any window of keys, any number of calls and any restarts: within a life of the
   agent keys are typed in the order they were pressed and once each unless calls
   overlapped, and what the agent will skip was typed, or is lost for a known reason
   (terminalKeys of panel-api.ts, serveTerminal of supervisor.ts). *)
THEOREM TypedInOrderAlways == Sum => []TypedInOrder
<1>1. KeysInv => TypedInOrder
  BY KeysPromise DEF TypedInOrder
<1> QED
  BY <1>1, KeysInvariant, PTL

(* The state of both parts has its shape. *)
THEOREM TypesAlways == Sum => []Types
<1>1. TypeOK /\ KeysInv => Types
  BY KeysPromise DEF Types
<1> QED
  BY <1>1, TypesHold, KeysInvariant, Behaviours, PTL

=============================================================================
