---------------------------- MODULE LimitsProofs ----------------------------
(***************************************************************************)
(* Theorems about Limits, for every set of chats, every allowance, every   *)
(* length of an hour and of a day, and any number of restarts and crashes. *)
(***************************************************************************)
EXTENDS Limits, FiniteSetTheorems, TLAPS

----------------------------------------------------------------------------
(* The inductive invariant.  Of each record of the limiter it says what the
   history holds of that chat: s are the records, l the history as they know it
   and b the chats whose clock ran backwards, for the limiter in memory and for
   the file alike, since a crash puts the one in the place of the other. *)

Admission == [c : Chats, t : Time, done : Time, first : BOOLEAN, spent : Nat]
TurnEntry == [c : Chats, t : Time]
SentEntry == [c : Chats, t : Time, done : Time]
Log == [admitted : Seq(Admission), turns : Seq(TurnEntry), sent : Seq(SentEntry)]

LetInFrom(l, c, i, j) == {k \in i..j : l.admitted[k].c = c}
TurnsOf(l, c, d) == {i \in DOMAIN l.turns : l.turns[i].c = c /\ Day(l.turns[i].t) = d}
SentOf(l, c, h) == {i \in DOMAIN l.sent : l.sent[i].c = c /\ HourOf(l.sent[i].t) = h}
FirstIn(l, t) ==
  {i \in DOMAIN l.admitted :
     /\ l.admitted[i].first /\ l.admitted[i].done = l.admitted[i].t
     /\ l.admitted[i].t \in t..(t + Hour - 1)}

(* A chat something was done for has a record. *)
Remembered(s, l) ==
  /\ \A i \in DOMAIN l.admitted : s[l.admitted[i].c] # None
  /\ \A i \in DOMAIN l.turns : s[l.turns[i].c] # None
  /\ \A i \in DOMAIN l.sent : s[l.sent[i].c] # None

(* A record is of the day and the hour it was last refilled in, and nothing was
   done for its chat later. *)
Clocked(s, l, b) ==
  \A c \in Chats : s[c] # None =>
    /\ s[c].day = Day(s[c].at) /\ s[c].hour = HourOf(s[c].at)
    /\ c \notin b =>
         /\ \A i \in DOMAIN l.turns : l.turns[i].c = c => l.turns[i].t <= s[c].at
         /\ \A i \in DOMAIN l.sent : l.sent[i].c = c => l.sent[i].t <= s[c].at

(* A record counts the turns of its day and the messages sent in its hour. *)
Tallied(s, l, b) ==
  \A c \in Chats \ b : s[c] # None =>
    /\ Cardinality(TurnsOf(l, c, s[c].day)) = s[c].turns
    /\ Cardinality(SentOf(l, c, s[c].hour)) = s[c].sent

(* What was let in since any message and what the bucket still holds are no more
   than a burst and what was restored. *)
Metered(s, l, b) ==
  \A i \in DOMAIN l.admitted :
    LET c == l.admitted[i].c IN
    c \notin b =>
      Cardinality(LetInFrom(l, c, i, Len(l.admitted))) * Hour + s[c].tokens
        <= Full + (s[c].at - l.admitted[i].t) * PerHour

(* The properties, of the history in memory and of the one on disk. *)
RateIn(l, b) ==
  \A i, j \in DOMAIN l.admitted :
    i <= j /\ l.admitted[i].c = l.admitted[j].c /\ l.admitted[i].c \notin b =>
      Cardinality(LetInFrom(l, l.admitted[i].c, i, j)) * Hour
        <= Full + (l.admitted[j].done - l.admitted[i].t) * PerHour
BudgetIn(l, b) ==
  \A i \in DOMAIN l.admitted : l.admitted[i].c \notin b => l.admitted[i].spent < TurnsPerDay
HourlyIn(l, b) == \A c \in Chats \ b, h \in Nat : Cardinality(SentOf(l, c, h)) <= OutPerHour
NewcomersIn(l) == \A t \in Time : Cardinality(FirstIn(l, t)) <= NewPerHour

Agree(s, l, b) ==
  /\ s \in [Chats -> SenderRecord \cup {None}] /\ l \in Log
  /\ Remembered(s, l) /\ Clocked(s, l, b) /\ Tallied(s, l, b) /\ Metered(s, l, b)
  /\ RateIn(l, b) /\ BudgetIn(l, b) /\ HourlyIn(l, b)

(* The window of strangers holds every newcomer of the last hour, and a chat is a
   newcomer once. *)
Windowed(n, l, clock) ==
  /\ IsFiniteSet(n) /\ n \subseteq Chats \X Time
  /\ \A i \in DOMAIN l.admitted :
       LET e == l.admitted[i] IN
       e.first /\ e.done = e.t => <<e.c, e.t>> \in n \/ e.t + Hour <= clock
  /\ \A i, j \in DOMAIN l.admitted :
       l.admitted[i].first /\ l.admitted[j].first /\ l.admitted[i].c = l.admitted[j].c => i = j
  /\ NewcomersIn(l)

(* The ledger in memory counts the paid uses of its day that no restart forgot, the
   last on which there were any, and the one on disk those it was last written with;
   a process that has not asked for its ledger yet has forgotten the others. *)
Counts(book, uses) ==
  book # None =>
    /\ book.day <= Day(now) /\ Cardinality((PaidOn(book.day) \ lost) \cap uses) = book.used
    /\ \A i \in uses : Day(paid[i]) <= book.day

Audited ==
  /\ paid \in Seq(Time) /\ (\A i \in DOMAIN paid : paid[i] <= now)
  /\ filed \in 0..Len(paid) /\ lost \subseteq DOMAIN paid
  /\ Counts(ledger, DOMAIN paid) /\ Counts(spendFile, 1..filed)
  /\ ledger = None => (filed + 1)..Len(paid) \subseteq lost
  /\ spendFile = None => filed = 0
  /\ ledger # None /\ spendFile # None => spendFile.day <= ledger.day
  /\ \A d \in Nat : Cardinality(PaidOn(d) \ lost) <= PaidPerDay

(* No call passes a time that is still to come. *)
ReadBefore ==
  /\ \A c \in Chats : heard[c] # None => heard[c] <= now
  /\ taken # None => taken.t <= now
  /\ sweep # None => sweep <= now

CallsOK ==
  /\ now \in Time /\ dirty \in BOOLEAN
  /\ heard \in [Chats -> Time \cup {None}] /\ waiting \in [Chats -> Nat]
  /\ taken \in Batch \cup {None} /\ sweep \in Time \cup {None}
  /\ {ledger, spendFile} \subseteq Ledger \cup {None}

IInv ==
  /\ CallsOK /\ ReadBefore /\ Audited
  /\ Agree(senders, log, back) /\ Windowed(newSenders, log, now)
  /\ Agree(disk.senders, disk.log, back) /\ Windowed(disk.newSenders, disk.log, now)

----------------------------------------------------------------------------
(* Arithmetic and counting. *)

(* Division by a positive number does not reverse an order. *)
LEMMA QuotientsInOrder ==
  ASSUME NEW n \in Nat \ {0}, NEW a \in Nat, NEW b \in Nat, a <= b
  PROVE  a \div n \in Nat /\ b \div n \in Nat /\ a \div n <= b \div n
<1> DEFINE p == a \div n
           q == b \div n
<1>1. p \in Nat /\ q \in Nat
  OBVIOUS
<1>2. n * p <= a /\ b < n * (q + 1)
  OBVIOUS
<1>3. ASSUME q < p PROVE FALSE
  <2>1. q + 1 <= p
    BY <1>1, <1>3
  <2>2. n * (q + 1) <= n * p
    BY <1>1, <2>1
  <2> HIDE DEF p, q
  <2> QED
    BY <1>1, <1>2, <2>2
<1> QED
  BY <1>1, <1>3

(* Days and hours follow the clock. *)
LEMMA Calendar ==
  ASSUME NEW a \in Time, NEW b \in Time, a <= b
  PROVE  /\ Day(a) \in Nat /\ Day(b) \in Nat /\ Day(a) <= Day(b)
         /\ HourOf(a) \in Nat /\ HourOf(b) \in Nat /\ HourOf(a) <= HourOf(b)
<1>1. Hour \in Nat \ {0} /\ Hour * HoursPerDay \in Nat \ {0}
  BY LimitsAssumption
<1>2. a \in Nat /\ b \in Nat
  BY DEF Time
<1> QED
  BY <1>1, <1>2, QuotientsInOrder DEF Day, HourOf

LEMMA DayAndHour ==
  ASSUME NEW a \in Time
  PROVE  Day(a) \in Nat /\ HourOf(a) \in Nat
<1>1. a <= a
  BY DEF Time
<1> QED
  BY <1>1, Calendar

(* A larger factor makes no smaller product. *)
LEMMA ProductsInOrder ==
  ASSUME NEW a \in Int, NEW b \in Int, a <= b, NEW n \in Nat
  PROVE  a * n <= b * n
OBVIOUS

(* What is charged for one more message, and what is restored meanwhile. *)
LEMMA Charges ==
  ASSUME NEW n \in Nat, NEW p \in Nat
  PROVE  n * p \in Nat /\ (n + 1) * p = n * p + p
OBVIOUS

LEMMA Restored ==
  ASSUME NEW a \in Nat, NEW b \in Nat, NEW t \in Nat, NEW p \in Nat
  PROVE  /\ (a - t) * p \in Int /\ (b - t) * p \in Int
         /\ (a - t) * p + (b - a) * p = (b - t) * p
         /\ a <= b => (a - t) * p <= (b - t) * p
<1>1. (a - t) * p \in Int /\ (b - t) * p \in Int /\ (b - a) * p \in Int
  OBVIOUS
<1>2. (a - t) * p + (b - a) * p = (b - t) * p
  OBVIOUS
<1>3. a <= b => (b - a) * p >= 0
  OBVIOUS
<1> QED
  BY <1>1, <1>2, <1>3

LEMMA FullBucket == Full \in Nat /\ Hour \in Nat \ {0} /\ PerHour \in Nat \ {0}
BY LimitsAssumption DEF Full

LEMMA Allowances == {OutPerHour, PaidPerDay, NewPerHour, TurnsPerDay} \subseteq Nat
BY LimitsAssumption

LEMMA Segments == \A n \in Nat : IsFiniteSet(1..n)
BY FS_Interval

(* The sets that are counted are finite. *)
LEMMA Counted ==
  ASSUME NEW l \in Log
  PROVE  /\ \A c, d : IsFiniteSet(TurnsOf(l, c, d)) /\ Cardinality(TurnsOf(l, c, d)) \in Nat
         /\ \A c, h : IsFiniteSet(SentOf(l, c, h)) /\ Cardinality(SentOf(l, c, h)) \in Nat
         /\ \A t : IsFiniteSet(FirstIn(l, t)) /\ Cardinality(FirstIn(l, t)) \in Nat
         /\ \A c, i, j : i \in Int /\ j \in Int =>
              IsFiniteSet(LetInFrom(l, c, i, j)) /\ Cardinality(LetInFrom(l, c, i, j)) \in Nat
<1>1. /\ l.turns \in Seq(TurnEntry) /\ l.sent \in Seq(SentEntry) /\ l.admitted \in Seq(Admission)
  BY DEF Log
<1>2. /\ IsFiniteSet(DOMAIN l.turns) /\ IsFiniteSet(DOMAIN l.sent) /\ IsFiniteSet(DOMAIN l.admitted)
  <2>1. /\ DOMAIN l.turns = 1..Len(l.turns) /\ DOMAIN l.sent = 1..Len(l.sent)
        /\ DOMAIN l.admitted = 1..Len(l.admitted)
        /\ Len(l.turns) \in Nat /\ Len(l.sent) \in Nat /\ Len(l.admitted) \in Nat
    BY <1>1
  <2> QED
    BY <2>1, Segments
<1>3. ASSUME NEW c, NEW d PROVE IsFiniteSet(TurnsOf(l, c, d)) /\ Cardinality(TurnsOf(l, c, d)) \in Nat
  BY <1>2, FS_Subset, FS_CardinalityType DEF TurnsOf
<1>4. ASSUME NEW c, NEW h PROVE IsFiniteSet(SentOf(l, c, h)) /\ Cardinality(SentOf(l, c, h)) \in Nat
  BY <1>2, FS_Subset, FS_CardinalityType DEF SentOf
<1>5. ASSUME NEW t PROVE IsFiniteSet(FirstIn(l, t)) /\ Cardinality(FirstIn(l, t)) \in Nat
  BY <1>2, FS_Subset, FS_CardinalityType DEF FirstIn
<1>6. ASSUME NEW c, NEW i \in Int, NEW j \in Int
      PROVE  IsFiniteSet(LetInFrom(l, c, i, j)) /\ Cardinality(LetInFrom(l, c, i, j)) \in Nat
  <2>1. IsFiniteSet(i..j)
    BY FS_Interval
  <2> QED
    BY <2>1, FS_Subset, FS_CardinalityType DEF LetInFrom
<1> QED
  BY <1>3, <1>4, <1>5, <1>6

----------------------------------------------------------------------------
(* A record is refilled, and made first if there is none. *)

Refilled(c, t) == refill(Seen(c, t), t)
BackOnce(c, t) == IF senders[c] # None /\ t < senders[c].at THEN back \cup {c} ELSE back

(* What refill leaves: the day and the hour of the time, and of a chat whose clock
   goes on no more than was there and what the time between restores. *)
LEMMA RefilledRecord ==
  ASSUME NEW c \in Chats, NEW t \in Time, Agree(senders, log, back)
  PROVE  LET r == Refilled(c, t) IN
         /\ r \in SenderRecord /\ r.at = t /\ r.day = Day(t) /\ r.hour = HourOf(t)
         /\ senders[c] = None => r.turns = 0 /\ r.sent = 0
         /\ senders[c] # None =>
              /\ r.turns = (IF senders[c].day = Day(t) THEN senders[c].turns ELSE 0)
              /\ r.sent = (IF senders[c].hour = HourOf(t) THEN senders[c].sent ELSE 0)
              /\ senders[c].at <= t => r.tokens <= senders[c].tokens + (t - senders[c].at) * PerHour
<1> DEFINE q == Seen(c, t)
<1> USE LimitsAssumption
<1>1. t \in Nat /\ Day(t) \in Nat /\ HourOf(t) \in Nat
  BY Calendar DEF Time
<1>2. Full \in Nat
  BY FullBucket
<1>3. q \in SenderRecord
  BY <1>1, <1>2 DEF Agree, Seen, Fresh, SenderRecord
<1> HIDE DEF q
<1>4. Gained(q, t) \in Nat
  <2>1. q.at \in Nat
    BY <1>3 DEF SenderRecord, Time
  <2>2. t > q.at => (t - q.at) * PerHour \in Nat
    BY <1>1, <2>1, ProductsInOrder
  <2> QED
    BY <2>1, <2>2 DEF Gained
<1> DEFINE full == Least(Full, q.tokens + Gained(q, t))
<1>5. full \in 0..Full /\ full <= q.tokens + Gained(q, t)
  BY <1>2, <1>3, <1>4 DEF Least, SenderRecord
<1>6. Refilled(c, t) =
        [tokens |-> full, at |-> t, day |-> Day(t), hour |-> HourOf(t),
         turns |-> IF q.day = Day(t) THEN q.turns ELSE 0,
         sent |-> IF q.hour = HourOf(t) THEN q.sent ELSE 0]
  BY DEF Refilled, refill, RolledOver, q
<1> HIDE DEF full
<1>7. Refilled(c, t) \in SenderRecord
  BY <1>1, <1>3, <1>5, <1>6 DEF SenderRecord
<1>8. senders[c] = None => Refilled(c, t).turns = 0 /\ Refilled(c, t).sent = 0
  BY <1>6 DEF q, Seen, Fresh
<1>9. senders[c] # None /\ senders[c].at <= t
        => full <= senders[c].tokens + (t - senders[c].at) * PerHour
  <2>1. SUFFICES ASSUME senders[c] # None, senders[c].at <= t
                 PROVE  full <= senders[c].tokens + (t - senders[c].at) * PerHour
    OBVIOUS
  <2>2. q = senders[c]
    BY <2>1 DEF q, Seen
  <2>3. q.at \in Nat
    BY <1>3 DEF SenderRecord, Time
  <2>4. Gained(q, t) = (t - q.at) * PerHour
    BY <1>1, <2>1, <2>2, <2>3 DEF Gained
  <2> QED
    BY <1>5, <2>2, <2>4
<1>10. senders[c] # None => q = senders[c]
  BY DEF q, Seen
<1> QED
  BY <1>6, <1>7, <1>8, <1>9, <1>10

(* Refilling a record changes nothing of what was done for its chat. *)
LEMMA RefillAgrees ==
  ASSUME NEW c \in Chats, NEW t \in Time, Agree(senders, log, back),
         NEW s, s = [senders EXCEPT ![c] = Refilled(c, t)]
  PROVE  Agree(s, log, BackOnce(c, t)) /\ s[c] = Refilled(c, t)
<1> DEFINE r == Refilled(c, t)
           b == BackOnce(c, t)
<1>0. /\ senders \in [Chats -> SenderRecord \cup {None}] /\ log \in Log
      /\ log.admitted \in Seq(Admission) /\ log.turns \in Seq(TurnEntry) /\ log.sent \in Seq(SentEntry)
  BY DEF Agree, Log
<1>1. /\ r \in SenderRecord /\ r.at = t /\ r.day = Day(t) /\ r.hour = HourOf(t)
      /\ senders[c] = None => r.turns = 0 /\ r.sent = 0
      /\ senders[c] # None =>
           /\ r.turns = (IF senders[c].day = Day(t) THEN senders[c].turns ELSE 0)
           /\ r.sent = (IF senders[c].hour = HourOf(t) THEN senders[c].sent ELSE 0)
           /\ senders[c].at <= t => r.tokens <= senders[c].tokens + (t - senders[c].at) * PerHour
  BY RefilledRecord
<1>2. back \subseteq b /\ (c \notin b => c \notin back /\ ~(senders[c] # None /\ t < senders[c].at))
  BY DEF BackOnce
<1> HIDE DEF r, b
<1>3. /\ s \in [Chats -> SenderRecord \cup {None}] /\ s[c] = r /\ r # None
      /\ \A d \in Chats \ {c} : s[d] = senders[d]
  BY <1>0, <1>1, LimitsAssumption DEF r
<1>4. /\ \A i \in DOMAIN log.turns : log.turns[i] \in TurnEntry
      /\ \A i \in DOMAIN log.sent : log.sent[i] \in SentEntry
      /\ \A i \in DOMAIN log.admitted : log.admitted[i] \in Admission
      /\ Len(log.admitted) \in Nat /\ DOMAIN log.admitted = 1..Len(log.admitted)
  BY <1>0
<1>5. Remembered(s, log)
  BY <1>3, <1>4 DEF Agree, Remembered, TurnEntry, SentEntry, Admission
<1>6. senders[c] # None => senders[c] \in SenderRecord /\ senders[c].at \in Nat
  BY <1>0 DEF SenderRecord, Time
<1>7. c \notin b =>
        /\ \A i \in DOMAIN log.turns : log.turns[i].c = c => senders[c] # None /\ log.turns[i].t <= senders[c].at
        /\ \A i \in DOMAIN log.sent : log.sent[i].c = c => senders[c] # None /\ log.sent[i].t <= senders[c].at
  BY <1>2 DEF Agree, Remembered, Clocked
<1>8. c \notin b /\ senders[c] # None => senders[c].at <= t
  BY <1>2, <1>6 DEF Time
<1>9. Clocked(s, log, b)
  <2>1. SUFFICES ASSUME NEW d \in Chats, s[d] # None
                 PROVE  /\ s[d].day = Day(s[d].at) /\ s[d].hour = HourOf(s[d].at)
                        /\ d \notin b =>
                             /\ \A i \in DOMAIN log.turns : log.turns[i].c = d => log.turns[i].t <= s[d].at
                             /\ \A i \in DOMAIN log.sent : log.sent[i].c = d => log.sent[i].t <= s[d].at
    BY DEF Clocked
  <2>2. CASE d = c
    <3>1. \A i \in DOMAIN log.turns : log.turns[i].t \in Nat
      BY <1>4 DEF TurnEntry, Time
    <3>2. \A i \in DOMAIN log.sent : log.sent[i].t \in Nat
      BY <1>4 DEF SentEntry, Time
    <3>3. t \in Nat
      BY DEF Time
    <3> QED
      BY <1>1, <1>3, <1>6, <1>7, <1>8, <2>2, <3>1, <3>2, <3>3
  <2>3. CASE d # c
    BY <1>2, <1>3, <2>1, <2>3 DEF Agree, Clocked
  <2> QED
    BY <2>2, <2>3
<1>10. Tallied(s, log, b)
  <2>1. SUFFICES ASSUME NEW d \in Chats \ b, s[d] # None
                 PROVE  /\ Cardinality(TurnsOf(log, d, s[d].day)) = s[d].turns
                        /\ Cardinality(SentOf(log, d, s[d].hour)) = s[d].sent
    BY DEF Tallied
  <2>2. CASE d # c
    BY <1>2, <1>3, <2>1, <2>2 DEF Agree, Tallied
  <2>3. CASE d = c /\ senders[c] = None
    <3>1. TurnsOf(log, c, Day(t)) = {} /\ SentOf(log, c, HourOf(t)) = {}
      BY <1>7, <2>1, <2>3 DEF TurnsOf, SentOf
    <3> QED
      BY <1>1, <1>3, <2>3, <3>1, FS_EmptySet
  <2>4. CASE d = c /\ senders[c] # None
    <3>1. /\ senders[c].day = Day(senders[c].at) /\ senders[c].hour = HourOf(senders[c].at)
          /\ Cardinality(TurnsOf(log, c, senders[c].day)) = senders[c].turns
          /\ Cardinality(SentOf(log, c, senders[c].hour)) = senders[c].sent
      BY <1>2, <2>1, <2>4 DEF Agree, Clocked, Tallied
    <3>2. senders[c].at \in Time /\ senders[c].at <= t
      BY <1>6, <1>8, <2>1, <2>4 DEF SenderRecord
    <3>3. /\ Day(senders[c].at) \in Nat /\ Day(t) \in Nat /\ Day(senders[c].at) <= Day(t)
          /\ HourOf(senders[c].at) \in Nat /\ HourOf(t) \in Nat /\ HourOf(senders[c].at) <= HourOf(t)
      BY <3>2, Calendar
    <3>4. ASSUME senders[c].day # Day(t) PROVE TurnsOf(log, c, Day(t)) = {}
      <4>1. ASSUME NEW i \in DOMAIN log.turns, log.turns[i].c = c PROVE Day(log.turns[i].t) # Day(t)
        <5>1. log.turns[i].t \in Time /\ log.turns[i].t <= senders[c].at
          BY <1>4, <1>7, <2>1, <2>4, <4>1 DEF TurnEntry
        <5>2. Day(log.turns[i].t) \in Nat /\ Day(log.turns[i].t) <= Day(senders[c].at)
          BY <3>2, <5>1, Calendar
        <5> QED
          BY <3>1, <3>3, <3>4, <5>2
      <4> QED
        BY <4>1 DEF TurnsOf
    <3>5. ASSUME senders[c].hour # HourOf(t) PROVE SentOf(log, c, HourOf(t)) = {}
      <4>1. ASSUME NEW i \in DOMAIN log.sent, log.sent[i].c = c PROVE HourOf(log.sent[i].t) # HourOf(t)
        <5>1. log.sent[i].t \in Time /\ log.sent[i].t <= senders[c].at
          BY <1>4, <1>7, <2>1, <2>4, <4>1 DEF SentEntry
        <5>2. HourOf(log.sent[i].t) \in Nat /\ HourOf(log.sent[i].t) <= HourOf(senders[c].at)
          BY <3>2, <5>1, Calendar
        <5> QED
          BY <3>1, <3>3, <3>5, <5>2
      <4> QED
        BY <4>1 DEF SentOf
    <3> QED
      BY <1>1, <1>3, <2>4, <3>1, <3>4, <3>5, FS_EmptySet
  <2> QED
    BY <2>2, <2>3, <2>4
<1>11. Metered(s, log, b)
  <2>1. SUFFICES ASSUME NEW i \in DOMAIN log.admitted, log.admitted[i].c \notin b
                 PROVE  Cardinality(LetInFrom(log, log.admitted[i].c, i, Len(log.admitted))) * Hour + s[log.admitted[i].c].tokens
                          <= Full + (s[log.admitted[i].c].at - log.admitted[i].t) * PerHour
    BY DEF Metered
  <2> DEFINE d == log.admitted[i].c
             n == Cardinality(LetInFrom(log, d, i, Len(log.admitted)))
             ti == log.admitted[i].t
  <2>2. d \in Chats /\ ti \in Nat /\ n \in Nat /\ senders[d] # None
    <3>1. d \in Chats /\ ti \in Nat
      BY <1>4 DEF Admission, Time
    <3>2. n \in Nat
      BY <1>0, <1>4, Counted
    <3>3. senders[d] # None
      BY DEF Agree, Remembered
    <3> QED
      BY <3>1, <3>2, <3>3
  <2>3. n * Hour + senders[d].tokens <= Full + (senders[d].at - ti) * PerHour
    BY <1>2, <2>1 DEF Agree, Metered
  <2>4. senders[d] \in SenderRecord
    BY <1>0, <2>2
  <2> HIDE DEF d, n, ti
  <2>5. CASE d # c
    BY <1>3, <2>2, <2>3, <2>5 DEF d, n, ti
  <2>6. CASE d = c
    <3>1. senders[c].at <= t /\ r.tokens <= senders[c].tokens + (t - senders[c].at) * PerHour
      BY <1>1, <1>8, <2>1, <2>2, <2>6 DEF d
    <3>2. /\ senders[c].at \in Nat /\ senders[c].tokens \in Nat /\ r.tokens \in Nat /\ t \in Nat
          /\ n * Hour \in Nat /\ Full \in Nat /\ PerHour \in Nat
      BY <1>1, <2>2, <2>4, <2>6, FullBucket DEF SenderRecord, Time
    <3>3. (senders[c].at - ti) * PerHour + (t - senders[c].at) * PerHour = (t - ti) * PerHour
      BY <2>2, <3>2
    <3>4. /\ (senders[c].at - ti) * PerHour \in Int /\ (t - senders[c].at) * PerHour \in Int
          /\ (t - ti) * PerHour \in Int
      BY <2>2, <3>2
    <3>5. n * Hour + r.tokens <= Full + (t - ti) * PerHour
      BY <2>3, <2>6, <3>1, <3>2, <3>3, <3>4
    <3> QED
      BY <1>1, <1>3, <2>6, <3>5 DEF d, n, ti
  <2> QED
    BY <2>5, <2>6
<1>12. RateIn(log, b) /\ BudgetIn(log, b) /\ HourlyIn(log, b)
  BY <1>2 DEF Agree, RateIn, BudgetIn, HourlyIn
<1> QED
  BY <1>0, <1>3, <1>5, <1>9, <1>10, <1>11, <1>12 DEF Agree, r, b

(* A message let in costs its chat what is then charged to the history. *)
LEMMA LetInAgrees ==
  ASSUME NEW s, NEW l, NEW b, Agree(s, l, b), NEW c \in Chats, s[c] # None, Hour <= s[c].tokens,
         NEW e \in Admission, e.c = c, e.t = s[c].at, e.t <= e.done, c \notin b => e.spent < TurnsPerDay,
         NEW s1, s1 = [s EXCEPT ![c] = [s[c] EXCEPT !.tokens = s[c].tokens - Hour]],
         NEW l1, l1 = [l EXCEPT !.admitted = Append(l.admitted, e)]
  PROVE  Agree(s1, l1, b)
<1> DEFINE N == Len(l.admitted)
<1>0. /\ s \in [Chats -> SenderRecord \cup {None}] /\ l \in Log
      /\ l.admitted \in Seq(Admission) /\ l.turns \in Seq(TurnEntry) /\ l.sent \in Seq(SentEntry)
  BY DEF Agree, Log
<1>1. s[c] \in SenderRecord
  BY <1>0
<1>2. /\ s1 \in [Chats -> SenderRecord \cup {None}] /\ \A d \in Chats \ {c} : s1[d] = s[d]
      /\ s1[c] \in SenderRecord /\ s1[c] # None /\ s1[c].tokens = s[c].tokens - Hour
      /\ s1[c].at = s[c].at /\ s1[c].day = s[c].day /\ s1[c].hour = s[c].hour
      /\ s1[c].turns = s[c].turns /\ s1[c].sent = s[c].sent
  <2>1. [s[c] EXCEPT !.tokens = s[c].tokens - Hour] \in SenderRecord
    <3>1. s[c].tokens - Hour \in 0..Full
      BY <1>1, FullBucket DEF SenderRecord
    <3> QED
      BY <1>1, <3>1 DEF SenderRecord
  <2>2. s1[c] = [s[c] EXCEPT !.tokens = s[c].tokens - Hour] /\ \A d \in Chats \ {c} : s1[d] = s[d]
    BY <1>0
  <2> QED
    BY <1>0, <1>1, <2>1, <2>2, LimitsAssumption DEF SenderRecord
<1>3. /\ l1 \in Log /\ l1.admitted = Append(l.admitted, e) /\ l1.turns = l.turns /\ l1.sent = l.sent
  <2>1. Append(l.admitted, e) \in Seq(Admission)
    BY <1>0
  <2> QED
    BY <1>0, <2>1 DEF Log
<1>4. /\ N \in Nat /\ DOMAIN l.admitted = 1..N /\ DOMAIN l1.admitted = 1..N+1 /\ Len(l1.admitted) = N + 1
      /\ \A i \in 1..N : l1.admitted[i] = l.admitted[i] /\ l.admitted[i] \in Admission
      /\ l1.admitted[N + 1] = e
  BY <1>0, <1>3
<1> HIDE DEF N
<1>5. \A d, k : TurnsOf(l1, d, k) = TurnsOf(l, d, k) /\ SentOf(l1, d, k) = SentOf(l, d, k)
  BY <1>3 DEF TurnsOf, SentOf
<1>6. Remembered(s1, l1)
  <2>1. \A i \in DOMAIN l.turns : l.turns[i] \in TurnEntry
    BY <1>0
  <2>2. \A i \in DOMAIN l.sent : l.sent[i] \in SentEntry
    BY <1>0
  <2>3. \A i \in DOMAIN l1.admitted : s1[l1.admitted[i].c] # None
    BY <1>2, <1>4 DEF Agree, Remembered, Admission
  <2> QED
    BY <1>2, <1>3, <2>1, <2>2, <2>3 DEF Agree, Remembered, TurnEntry, SentEntry
<1>7. Clocked(s1, l1, b)
  BY <1>2, <1>3 DEF Agree, Clocked
<1>8. Tallied(s1, l1, b)
  <2>1. SUFFICES ASSUME NEW d \in Chats \ b, s1[d] # None
                 PROVE  /\ Cardinality(TurnsOf(l1, d, s1[d].day)) = s1[d].turns
                        /\ Cardinality(SentOf(l1, d, s1[d].hour)) = s1[d].sent
    BY DEF Tallied
  <2>2. s[d] # None /\ s1[d].day = s[d].day /\ s1[d].hour = s[d].hour
        /\ s1[d].turns = s[d].turns /\ s1[d].sent = s[d].sent
    BY <1>2, <2>1
  <2>3. Cardinality(TurnsOf(l, d, s[d].day)) = s[d].turns /\ Cardinality(SentOf(l, d, s[d].hour)) = s[d].sent
    BY <2>1, <2>2 DEF Agree, Tallied
  <2> QED
    BY <1>5, <2>2, <2>3
<1>9. ASSUME NEW d, NEW i \in 1..N+1
      PROVE  /\ \A j \in 1..N : LetInFrom(l1, d, i, j) = LetInFrom(l, d, i, j)
             /\ d = c => LetInFrom(l1, d, i, N + 1) = LetInFrom(l, d, i, N) \cup {N + 1}
             /\ d # c => LetInFrom(l1, d, i, N + 1) = LetInFrom(l, d, i, N)
  <2>1. \A j \in 1..N : LetInFrom(l1, d, i, j) = LetInFrom(l, d, i, j)
    BY <1>4 DEF LetInFrom
  <2>2. d = c => LetInFrom(l1, d, i, N + 1) = LetInFrom(l, d, i, N) \cup {N + 1}
    BY <1>4 DEF LetInFrom
  <2>3. d # c => LetInFrom(l1, d, i, N + 1) = LetInFrom(l, d, i, N)
    BY <1>4 DEF LetInFrom
  <2> QED
    BY <2>1, <2>2, <2>3
<1>10. ASSUME NEW i \in 1..N
       PROVE  /\ Cardinality(LetInFrom(l, c, i, N)) \in Nat
              /\ Cardinality(LetInFrom(l1, c, i, N + 1)) = Cardinality(LetInFrom(l, c, i, N)) + 1
  <2>1. IsFiniteSet(LetInFrom(l, c, i, N)) /\ Cardinality(LetInFrom(l, c, i, N)) \in Nat
    BY <1>0, <1>4, Counted
  <2>2. N + 1 \notin LetInFrom(l, c, i, N)
    BY <1>4 DEF LetInFrom
  <2>3. LetInFrom(l1, c, i, N + 1) = LetInFrom(l, c, i, N) \cup {N + 1}
    <3>1. i \in 1..N+1
      BY <1>4
    <3> QED
      BY <3>1, <1>9
  <2> QED
    BY <2>1, <2>2, <2>3, FS_AddElement, SMTT(30)
<1>11. Cardinality(LetInFrom(l1, c, N + 1, N + 1)) = 1
  <2>1. LetInFrom(l1, c, N + 1, N + 1) = {N + 1}
    BY <1>4 DEF LetInFrom
  <2> QED
    BY <2>1, FS_Singleton
<1>12. /\ Hour \in Nat /\ PerHour \in Nat /\ Full \in Nat /\ s[c].tokens \in Nat /\ s[c].at \in Nat
       /\ s[c].tokens <= Full /\ e.done \in Nat /\ e.t \in Nat
  BY <1>1, FullBucket DEF SenderRecord, Admission, Time
<1>13. ASSUME NEW i \in 1..N+1, l1.admitted[i].c = c, c \notin b
       PROVE  Cardinality(LetInFrom(l1, c, i, N + 1)) * Hour + s1[c].tokens
                <= Full + (s1[c].at - l1.admitted[i].t) * PerHour
  <2>1. CASE i = N + 1
    <3>1. (s1[c].at - l1.admitted[i].t) * PerHour = 0
      BY <1>2, <1>4, <1>12, <2>1
    <3>2. Cardinality(LetInFrom(l1, c, i, N + 1)) = 1
      BY <1>11, <2>1
    <3>3. 1 * Hour + (s[c].tokens - Hour) <= Full + 0
      BY <1>12
    <3> QED
      BY <1>2, <3>1, <3>2, <3>3
  <2>2. CASE i # N + 1
    <3>1. i \in 1..N /\ l1.admitted[i] = l.admitted[i]
      BY <1>4, <2>2
    <3> DEFINE n == Cardinality(LetInFrom(l, c, i, N))
               gain == (s[c].at - l.admitted[i].t) * PerHour
    <3>2. n * Hour + s[c].tokens <= Full + gain
      BY <1>4, <1>13, <3>1 DEF Agree, Metered, N
    <3>3. n \in Nat /\ Cardinality(LetInFrom(l1, c, i, N + 1)) = n + 1
      BY <1>10, <3>1
    <3>4. gain \in Int
      <4>1. l.admitted[i].t \in Nat
        BY <1>4, <3>1 DEF Admission, Time
      <4> QED
        BY <1>12, <4>1, Restored
    <3> HIDE DEF n, gain
    <3>5. (n + 1) * Hour = n * Hour + Hour /\ n * Hour \in Nat
      BY <1>12, <3>3, Charges
    <3>6. (n + 1) * Hour + (s[c].tokens - Hour) <= Full + gain
      BY <1>12, <3>2, <3>4, <3>5
    <3> QED
      BY <1>2, <3>1, <3>3, <3>6 DEF gain
  <2> QED
    BY <2>1, <2>2
<1>14. Metered(s1, l1, b)
  <2>1. SUFFICES ASSUME NEW i \in 1..N+1, l1.admitted[i].c \notin b, l1.admitted[i].c # c
                 PROVE  Cardinality(LetInFrom(l1, l1.admitted[i].c, i, N + 1)) * Hour + s1[l1.admitted[i].c].tokens
                          <= Full + (s1[l1.admitted[i].c].at - l1.admitted[i].t) * PerHour
    BY <1>4, <1>13 DEF Metered
  <2>2. i \in 1..N /\ l1.admitted[i] = l.admitted[i] /\ l.admitted[i].c \in Chats
    BY <1>4, <2>1 DEF Admission
  <2>3. LetInFrom(l1, l.admitted[i].c, i, N + 1) = LetInFrom(l, l.admitted[i].c, i, N)
    BY <1>9, <2>1, <2>2
  <2>4. s1[l.admitted[i].c] = s[l.admitted[i].c]
    BY <1>2, <2>1, <2>2
  <2> QED
    BY <1>4, <2>1, <2>2, <2>3, <2>4 DEF Agree, Metered, N
<1>15. RateIn(l1, b)
  <2>1. SUFFICES ASSUME NEW i \in 1..N+1, NEW j \in 1..N+1, i <= j,
                        l1.admitted[i].c = l1.admitted[j].c, l1.admitted[i].c \notin b
                 PROVE  Cardinality(LetInFrom(l1, l1.admitted[i].c, i, j)) * Hour
                          <= Full + (l1.admitted[j].done - l1.admitted[i].t) * PerHour
    BY <1>4 DEF RateIn
  <2>2. CASE j \in 1..N
    <3>1. i \in 1..N /\ l1.admitted[i] = l.admitted[i] /\ l1.admitted[j] = l.admitted[j]
      BY <1>4, <2>1, <2>2
    <3> QED
      <4>1. LetInFrom(l1, l.admitted[i].c, i, j) = LetInFrom(l, l.admitted[i].c, i, j)
        BY <1>9, <2>1, <2>2, ZenonT(40)
      <4> QED
        BY <1>4, <2>1, <2>2, <3>1, <4>1 DEF Agree, RateIn
  <2>3. CASE j = N + 1
    <3> DEFINE n == Cardinality(LetInFrom(l1, c, i, N + 1))
               ti == l1.admitted[i].t
    <3>1. l1.admitted[i].c = c /\ l1.admitted[j] = e
      BY <1>4, <2>1, <2>3
    <3>2. n * Hour + s1[c].tokens <= Full + (s1[c].at - ti) * PerHour
      BY <1>13, <2>1, <3>1
    <3>3. n \in Nat
      BY <1>3, <1>4, Counted
    <3>4. ti \in Nat
      BY <1>4 DEF Admission, Time
    <3> HIDE DEF n, ti
    <3>5. s1[c].tokens \in Nat /\ s1[c].at = e.t
      BY <1>2 DEF SenderRecord
    <3>6. /\ (e.t - ti) * PerHour \in Int /\ (e.done - ti) * PerHour \in Int
          /\ (e.t - ti) * PerHour <= (e.done - ti) * PerHour
      BY <1>12, <3>4, Restored
    <3>7. n * Hour \in Nat
      BY <1>12, <3>3, Charges
    <3>8. LetInFrom(l1, l1.admitted[i].c, i, j) = LetInFrom(l1, c, i, N + 1) /\ l1.admitted[j].done = e.done
      BY <2>3, <3>1
    <3>9. n * Hour <= Full + (e.done - ti) * PerHour
      <4> DEFINE x == n * Hour
                 y == (e.t - ti) * PerHour
                 z == (e.done - ti) * PerHour
      <4>1. x + s1[c].tokens <= Full + y
        BY <3>2, <3>5
      <4>2. x \in Nat /\ y \in Int /\ z \in Int /\ y <= z
        BY <3>6, <3>7
      <4> HIDE DEF x, y, z
      <4>3. x <= Full + z
        BY <1>12, <3>5, <4>1, <4>2, SMTT(30)
      <4> QED
        BY <4>3 DEF x, z
    <3> QED
      BY <3>8, <3>9 DEF n, ti
  <2> QED
    BY <1>4, <2>2, <2>3
<1>16. BudgetIn(l1, b)
  BY <1>4 DEF Agree, BudgetIn
<1>17. HourlyIn(l1, b)
  BY <1>5 DEF Agree, HourlyIn
<1> QED
  BY <1>2, <1>3, <1>6, <1>7, <1>8, <1>14, <1>15, <1>16, <1>17 DEF Agree

(* What does not touch a bucket leaves what is said of it. *)
LEMMA BucketStays ==
  ASSUME NEW s, NEW l, NEW b, Agree(s, l, b), NEW s1, NEW l1, l1.admitted = l.admitted,
         \A d \in Chats : s[d] # None => s1[d].tokens = s[d].tokens /\ s1[d].at = s[d].at
  PROVE  Metered(s1, l1, b) /\ RateIn(l1, b) /\ BudgetIn(l1, b)
<1>1. l.admitted \in Seq(Admission)
  BY DEF Agree, Log
<1>2. \A c, i, j : LetInFrom(l1, c, i, j) = LetInFrom(l, c, i, j)
  BY DEF LetInFrom
<1>3. RateIn(l1, b)
  BY <1>2 DEF Agree, RateIn
<1>4. BudgetIn(l1, b)
  BY DEF Agree, BudgetIn
<1>5. Metered(s1, l1, b)
  <2>1. SUFFICES ASSUME NEW i \in DOMAIN l.admitted, l.admitted[i].c \notin b
                 PROVE  Cardinality(LetInFrom(l, l.admitted[i].c, i, Len(l.admitted))) * Hour + s1[l.admitted[i].c].tokens
                          <= Full + (s1[l.admitted[i].c].at - l.admitted[i].t) * PerHour
    BY <1>2 DEF Metered
  <2>2. l.admitted[i].c \in Chats
    <3>1. l.admitted[i] \in Admission
      BY <1>1
    <3> QED
      BY <3>1 DEF Admission
  <2>3. /\ s1[l.admitted[i].c].tokens = s[l.admitted[i].c].tokens
        /\ s1[l.admitted[i].c].at = s[l.admitted[i].c].at
    BY <2>2 DEF Agree, Remembered
  <2> QED
    BY <2>1, <2>3 DEF Agree, Metered
<1> QED
  BY <1>3, <1>4, <1>5

(* A turn is charged to the day its chat's record is of. *)
LEMMA TurnAgrees ==
  ASSUME NEW s, NEW l, NEW b, Agree(s, l, b), NEW c \in Chats, s[c] # None,
         NEW e \in TurnEntry, e.c = c, e.t = s[c].at,
         NEW s1, s1 = [s EXCEPT ![c] = [s[c] EXCEPT !.turns = s[c].turns + 1]],
         NEW l1, l1 = [l EXCEPT !.turns = Append(l.turns, e)]
  PROVE  Agree(s1, l1, b)
<1> DEFINE N == Len(l.turns)
<1>0. /\ s \in [Chats -> SenderRecord \cup {None}] /\ l \in Log
      /\ l.admitted \in Seq(Admission) /\ l.turns \in Seq(TurnEntry) /\ l.sent \in Seq(SentEntry)
  BY DEF Agree, Log
<1>1. s[c] \in SenderRecord
  BY <1>0
<1>2. /\ s1 \in [Chats -> SenderRecord \cup {None}] /\ \A d \in Chats \ {c} : s1[d] = s[d]
      /\ s1[c] \in SenderRecord /\ s1[c] # None /\ s1[c].tokens = s[c].tokens
      /\ s1[c].at = s[c].at /\ s1[c].day = s[c].day /\ s1[c].hour = s[c].hour
      /\ s1[c].turns = s[c].turns + 1 /\ s1[c].sent = s[c].sent
  <2>1. [s[c] EXCEPT !.turns = s[c].turns + 1] \in SenderRecord
    BY <1>1 DEF SenderRecord
  <2>2. s1[c] = [s[c] EXCEPT !.turns = s[c].turns + 1] /\ \A d \in Chats \ {c} : s1[d] = s[d]
    BY <1>0
  <2> QED
    BY <1>0, <1>1, <2>1, <2>2, LimitsAssumption DEF SenderRecord
<1>3. /\ l1 \in Log /\ l1.turns = Append(l.turns, e) /\ l1.admitted = l.admitted /\ l1.sent = l.sent
  <2>1. Append(l.turns, e) \in Seq(TurnEntry)
    BY <1>0
  <2> QED
    BY <1>0, <2>1 DEF Log
<1>4. /\ N \in Nat /\ DOMAIN l.turns = 1..N /\ DOMAIN l1.turns = 1..N+1
      /\ \A i \in 1..N : l1.turns[i] = l.turns[i] /\ l.turns[i] \in TurnEntry
      /\ l1.turns[N + 1] = e
  BY <1>0, <1>3
<1> HIDE DEF N
<1>5. /\ \A d, h : SentOf(l1, d, h) = SentOf(l, d, h)
      /\ \A d, k : ~(d = c /\ k = Day(e.t)) => TurnsOf(l1, d, k) = TurnsOf(l, d, k)
      /\ TurnsOf(l1, c, Day(e.t)) = TurnsOf(l, c, Day(e.t)) \cup {N + 1}
      /\ N + 1 \notin TurnsOf(l, c, Day(e.t))
  <2>1. \A d, h : SentOf(l1, d, h) = SentOf(l, d, h)
    BY <1>3 DEF SentOf
  <2>2. ASSUME NEW d, NEW k, ~(d = c /\ k = Day(e.t)) PROVE TurnsOf(l1, d, k) = TurnsOf(l, d, k)
    BY <1>4, <2>2 DEF TurnsOf
  <2>3. TurnsOf(l1, c, Day(e.t)) = TurnsOf(l, c, Day(e.t)) \cup {N + 1} /\ N + 1 \notin TurnsOf(l, c, Day(e.t))
    BY <1>4 DEF TurnsOf
  <2> QED
    BY <2>1, <2>2, <2>3
<1>6. Remembered(s1, l1)
  <2>1. \A i \in DOMAIN l.admitted : l.admitted[i] \in Admission
    BY <1>0
  <2>2. \A i \in DOMAIN l.sent : l.sent[i] \in SentEntry
    BY <1>0
  <2>3. \A i \in DOMAIN l1.turns : s1[l1.turns[i].c] # None
    BY <1>2, <1>4 DEF Agree, Remembered, TurnEntry
  <2> QED
    BY <1>2, <1>3, <2>1, <2>2, <2>3 DEF Agree, Remembered, Admission, SentEntry
<1>7. Clocked(s1, l1, b)
  <2>1. SUFFICES ASSUME NEW d \in Chats, s1[d] # None
                 PROVE  /\ s1[d].day = Day(s1[d].at) /\ s1[d].hour = HourOf(s1[d].at)
                        /\ d \notin b =>
                             /\ \A i \in DOMAIN l1.turns : l1.turns[i].c = d => l1.turns[i].t <= s1[d].at
                             /\ \A i \in DOMAIN l1.sent : l1.sent[i].c = d => l1.sent[i].t <= s1[d].at
    BY DEF Clocked
  <2>2. s[d] # None /\ s1[d].at = s[d].at /\ s1[d].day = s[d].day /\ s1[d].hour = s[d].hour
    BY <1>2, <2>1
  <2>3. s[c].at \in Nat
    BY <1>1 DEF SenderRecord, Time
  <2>4. d \notin b => \A i \in DOMAIN l1.turns : l1.turns[i].c = d => l1.turns[i].t <= s1[d].at
    BY <1>4, <2>2, <2>3 DEF Agree, Clocked
  <2> QED
    BY <1>3, <2>2, <2>4 DEF Agree, Clocked
<1>8. Tallied(s1, l1, b)
  <2>1. SUFFICES ASSUME NEW d \in Chats \ b, s1[d] # None
                 PROVE  /\ Cardinality(TurnsOf(l1, d, s1[d].day)) = s1[d].turns
                        /\ Cardinality(SentOf(l1, d, s1[d].hour)) = s1[d].sent
    BY DEF Tallied
  <2>2. s[d] # None /\ s1[d].day = s[d].day /\ s1[d].hour = s[d].hour /\ s1[d].sent = s[d].sent
    BY <1>2, <2>1
  <2>3. Cardinality(TurnsOf(l, d, s[d].day)) = s[d].turns /\ Cardinality(SentOf(l, d, s[d].hour)) = s[d].sent
    BY <2>1, <2>2 DEF Agree, Tallied
  <2>4. CASE d = c
    <3>1. s[c].day = Day(e.t)
      BY <2>2, <2>4 DEF Agree, Clocked
    <3>2. IsFiniteSet(TurnsOf(l, c, Day(e.t)))
      BY <1>0, Counted
    <3>3. Cardinality(TurnsOf(l1, c, Day(e.t))) = Cardinality(TurnsOf(l, c, Day(e.t))) + 1
      BY <1>5, <3>2, FS_AddElement, ZenonT(40)
    <3>4. SentOf(l1, c, s1[c].hour) = SentOf(l, c, s[c].hour)
      <4>1. SentOf(l1, c, s[c].hour) = SentOf(l, c, s[c].hour)
        BY <1>5, Zenon
      <4> QED
        BY <1>2, <4>1
    <3> QED
      BY <1>2, <2>3, <2>4, <3>1, <3>3, <3>4
  <2>5. CASE d # c
    <3>1. s1[d] = s[d]
      BY <1>2, <2>5
    <3>2. TurnsOf(l1, d, s[d].day) = TurnsOf(l, d, s[d].day) /\ SentOf(l1, d, s[d].hour) = SentOf(l, d, s[d].hour)
      BY <1>5, <2>5, Zenon
    <3> QED
      BY <2>3, <3>1, <3>2
  <2> QED
    BY <2>4, <2>5
<1>9. HourlyIn(l1, b)
  BY <1>5 DEF Agree, HourlyIn
<1>10. Metered(s1, l1, b) /\ RateIn(l1, b) /\ BudgetIn(l1, b)
  <2>1. \A d \in Chats : s[d] # None => s1[d].tokens = s[d].tokens /\ s1[d].at = s[d].at
    BY <1>2
  <2> QED
    <3>1. l1.admitted = l.admitted
      BY <1>3
    <3> HIDE DEF Agree, Metered, RateIn, BudgetIn
    <3> QED
      BY <2>1, <3>1, BucketStays, ZenonT(40)
<1> QED
  BY <1>2, <1>3, <1>6, <1>7, <1>8, <1>9, <1>10 DEF Agree

(* A message is sent within what is left of the hour its chat's record is of. *)
LEMMA SentAgrees ==
  ASSUME NEW s, NEW l, NEW b, Agree(s, l, b), NEW c \in Chats, s[c] # None,
         s[c].sent < OutPerHour,
         NEW e \in SentEntry, e.c = c, e.t = s[c].at,
         NEW s1, s1 = [s EXCEPT ![c] = [s[c] EXCEPT !.sent = s[c].sent + 1]],
         NEW l1, l1 = [l EXCEPT !.sent = Append(l.sent, e)]
  PROVE  Agree(s1, l1, b)
<1> DEFINE N == Len(l.sent)
<1>0. /\ s \in [Chats -> SenderRecord \cup {None}] /\ l \in Log
      /\ l.admitted \in Seq(Admission) /\ l.sent \in Seq(SentEntry) /\ l.turns \in Seq(TurnEntry)
  BY DEF Agree, Log
<1>1. s[c] \in SenderRecord
  BY <1>0
<1>2. /\ s1 \in [Chats -> SenderRecord \cup {None}] /\ \A d \in Chats \ {c} : s1[d] = s[d]
      /\ s1[c] \in SenderRecord /\ s1[c] # None /\ s1[c].tokens = s[c].tokens
      /\ s1[c].at = s[c].at /\ s1[c].hour = s[c].hour /\ s1[c].day = s[c].day
      /\ s1[c].sent = s[c].sent + 1 /\ s1[c].turns = s[c].turns
  <2>1. [s[c] EXCEPT !.sent = s[c].sent + 1] \in SenderRecord
    <3>1. s[c].sent + 1 \in 0..OutPerHour
      BY <1>1, Allowances DEF SenderRecord
    <3> QED
      BY <1>1, <3>1 DEF SenderRecord
  <2>2. s1[c] = [s[c] EXCEPT !.sent = s[c].sent + 1] /\ \A d \in Chats \ {c} : s1[d] = s[d]
    BY <1>0
  <2> QED
    BY <1>0, <1>1, <2>1, <2>2, LimitsAssumption DEF SenderRecord
<1>3. /\ l1 \in Log /\ l1.sent = Append(l.sent, e) /\ l1.admitted = l.admitted /\ l1.turns = l.turns
  <2>1. Append(l.sent, e) \in Seq(SentEntry)
    BY <1>0
  <2> QED
    BY <1>0, <2>1 DEF Log
<1>4. /\ N \in Nat /\ DOMAIN l.sent = 1..N /\ DOMAIN l1.sent = 1..N+1
      /\ \A i \in 1..N : l1.sent[i] = l.sent[i] /\ l.sent[i] \in SentEntry
      /\ l1.sent[N + 1] = e
  BY <1>0, <1>3
<1> HIDE DEF N
<1>5. /\ \A d, h : TurnsOf(l1, d, h) = TurnsOf(l, d, h)
      /\ \A d, k : ~(d = c /\ k = HourOf(e.t)) => SentOf(l1, d, k) = SentOf(l, d, k)
      /\ SentOf(l1, c, HourOf(e.t)) = SentOf(l, c, HourOf(e.t)) \cup {N + 1}
      /\ N + 1 \notin SentOf(l, c, HourOf(e.t))
  <2>1. \A d, h : TurnsOf(l1, d, h) = TurnsOf(l, d, h)
    BY <1>3 DEF TurnsOf
  <2>2. ASSUME NEW d, NEW k, ~(d = c /\ k = HourOf(e.t)) PROVE SentOf(l1, d, k) = SentOf(l, d, k)
    BY <1>4, <2>2 DEF SentOf
  <2>3. SentOf(l1, c, HourOf(e.t)) = SentOf(l, c, HourOf(e.t)) \cup {N + 1} /\ N + 1 \notin SentOf(l, c, HourOf(e.t))
    BY <1>4 DEF SentOf
  <2> QED
    BY <2>1, <2>2, <2>3
<1>6. Remembered(s1, l1)
  <2>1. \A i \in DOMAIN l.admitted : l.admitted[i] \in Admission
    BY <1>0
  <2>2. \A i \in DOMAIN l.turns : l.turns[i] \in TurnEntry
    BY <1>0
  <2>3. \A i \in DOMAIN l1.sent : s1[l1.sent[i].c] # None
    BY <1>2, <1>4 DEF Agree, Remembered, SentEntry
  <2> QED
    BY <1>2, <1>3, <2>1, <2>2, <2>3 DEF Agree, Remembered, Admission, TurnEntry
<1>7. Clocked(s1, l1, b)
  <2>1. SUFFICES ASSUME NEW d \in Chats, s1[d] # None
                 PROVE  /\ s1[d].hour = HourOf(s1[d].at) /\ s1[d].day = Day(s1[d].at)
                        /\ d \notin b =>
                             /\ \A i \in DOMAIN l1.sent : l1.sent[i].c = d => l1.sent[i].t <= s1[d].at
                             /\ \A i \in DOMAIN l1.turns : l1.turns[i].c = d => l1.turns[i].t <= s1[d].at
    BY DEF Clocked
  <2>2. s[d] # None /\ s1[d].at = s[d].at /\ s1[d].hour = s[d].hour /\ s1[d].day = s[d].day
    BY <1>2, <2>1
  <2>3. s[c].at \in Nat
    BY <1>1 DEF SenderRecord, Time
  <2>4. d \notin b => \A i \in DOMAIN l1.sent : l1.sent[i].c = d => l1.sent[i].t <= s1[d].at
    BY <1>4, <2>2, <2>3 DEF Agree, Clocked
  <2> QED
    BY <1>3, <2>2, <2>4 DEF Agree, Clocked
<1>8. Tallied(s1, l1, b)
  <2>1. SUFFICES ASSUME NEW d \in Chats \ b, s1[d] # None
                 PROVE  /\ Cardinality(SentOf(l1, d, s1[d].hour)) = s1[d].sent
                        /\ Cardinality(TurnsOf(l1, d, s1[d].day)) = s1[d].turns
    BY DEF Tallied
  <2>2. s[d] # None /\ s1[d].hour = s[d].hour /\ s1[d].day = s[d].day /\ s1[d].turns = s[d].turns
    BY <1>2, <2>1
  <2>3. Cardinality(SentOf(l, d, s[d].hour)) = s[d].sent /\ Cardinality(TurnsOf(l, d, s[d].day)) = s[d].turns
    BY <2>1, <2>2 DEF Agree, Tallied
  <2>4. CASE d = c
    <3>1. s[c].hour = HourOf(e.t)
      BY <2>2, <2>4 DEF Agree, Clocked
    <3>2. IsFiniteSet(SentOf(l, c, HourOf(e.t)))
      BY <1>0, Counted
    <3>3. Cardinality(SentOf(l1, c, HourOf(e.t))) = Cardinality(SentOf(l, c, HourOf(e.t))) + 1
      BY <1>5, <3>2, FS_AddElement, ZenonT(40)
    <3>4. TurnsOf(l1, c, s1[c].day) = TurnsOf(l, c, s[c].day)
      <4>1. TurnsOf(l1, c, s[c].day) = TurnsOf(l, c, s[c].day)
        BY <1>5, Zenon
      <4> QED
        BY <1>2, <4>1
    <3> QED
      BY <1>2, <2>3, <2>4, <3>1, <3>3, <3>4
  <2>5. CASE d # c
    <3>1. s1[d] = s[d]
      BY <1>2, <2>5
    <3>2. SentOf(l1, d, s[d].hour) = SentOf(l, d, s[d].hour) /\ TurnsOf(l1, d, s[d].day) = TurnsOf(l, d, s[d].day)
      BY <1>5, <2>5, Zenon
    <3> QED
      BY <2>3, <3>1, <3>2
  <2> QED
    BY <2>4, <2>5
<1>9. HourlyIn(l1, b)
  <2>1. SUFFICES ASSUME NEW d \in Chats \ b, NEW h \in Nat PROVE Cardinality(SentOf(l1, d, h)) <= OutPerHour
    BY DEF HourlyIn
  <2>2. CASE d = c /\ h = HourOf(e.t)
    <3>1. s1[c].hour = HourOf(e.t) /\ s1[c].sent <= OutPerHour
      BY <1>1, <1>2 DEF Agree, Clocked, SenderRecord
    <3>2. Cardinality(SentOf(l1, c, s1[c].hour)) = s1[c].sent
      BY <1>2, <1>8, <2>1, <2>2 DEF Tallied
    <3> QED
      BY <2>2, <3>1, <3>2
  <2>3. CASE ~(d = c /\ h = HourOf(e.t))
    <3>1. SentOf(l1, d, h) = SentOf(l, d, h)
      BY <1>5, <2>3, Zenon
    <3> QED
      BY <3>1 DEF Agree, HourlyIn
  <2> QED
    BY <2>2, <2>3
<1>10. Metered(s1, l1, b) /\ RateIn(l1, b) /\ BudgetIn(l1, b)
  <2>1. \A d \in Chats : s[d] # None => s1[d].tokens = s[d].tokens /\ s1[d].at = s[d].at
    BY <1>2
  <2> QED
    <3>1. l1.admitted = l.admitted
      BY <1>3
    <3> HIDE DEF Agree, Metered, RateIn, BudgetIn
    <3> QED
      BY <2>1, <3>1, BucketStays, ZenonT(60)
<1> QED
  BY <1>2, <1>3, <1>6, <1>7, <1>8, <1>9, <1>10 DEF Agree

----------------------------------------------------------------------------
(* The window of strangers. *)

LastHour(n, t) == {f \in n : f[2] > t - Hour}

(* The window may forget what is an hour old, and meet one chat more. *)
LEMMA WindowMoves ==
  ASSUME NEW n, NEW l \in Log, NEW clock \in Nat, Windowed(n, l, clock),
         NEW c \in Chats, NEW t \in Time, t <= clock
  PROVE  /\ Windowed(LastHour(n, t), l, clock)
         /\ Windowed(n \cup {<<c, t>>}, l, clock)
<1>1. \A i \in DOMAIN l.admitted : l.admitted[i].t \in Nat
  <2>1. l.admitted \in Seq(Admission)
    BY DEF Log
  <2>2. \A i \in DOMAIN l.admitted : l.admitted[i] \in Admission
    BY <2>1
  <2> QED
    BY <2>2 DEF Admission, Time
<1>2. t \in Nat /\ Hour \in Nat
  BY FullBucket DEF Time
<1>3. /\ IsFiniteSet(LastHour(n, t)) /\ LastHour(n, t) \subseteq n
      /\ IsFiniteSet(n \cup {<<c, t>>}) /\ n \cup {<<c, t>>} \subseteq Chats \X Time
  BY FS_Subset, FS_AddElement DEF Windowed, LastHour
<1>4. Windowed(LastHour(n, t), l, clock)
  <2>1. ASSUME NEW i \in DOMAIN l.admitted, l.admitted[i].first, l.admitted[i].done = l.admitted[i].t
        PROVE  <<l.admitted[i].c, l.admitted[i].t>> \in LastHour(n, t) \/ l.admitted[i].t + Hour <= clock
    <3>1. <<l.admitted[i].c, l.admitted[i].t>> \in n \/ l.admitted[i].t + Hour <= clock
      BY <2>1 DEF Windowed
    <3>2. l.admitted[i].t > t - Hour \/ l.admitted[i].t + Hour <= clock
      BY <1>1, <1>2
    <3> QED
      BY <3>1, <3>2 DEF LastHour
  <2> QED
    BY <1>3, <2>1 DEF Windowed
<1>5. Windowed(n \cup {<<c, t>>}, l, clock)
  BY <1>3 DEF Windowed
<1> QED
  BY <1>4, <1>5

LEMMA ClockGoesOn ==
  ASSUME NEW n, NEW l \in Log, NEW clock \in Nat, Windowed(n, l, clock)
  PROVE  Windowed(n, l, clock + 1)
<1>1. \A i \in DOMAIN l.admitted : l.admitted[i].t \in Nat
  <2>1. l.admitted \in Seq(Admission)
    BY DEF Log
  <2>2. \A i \in DOMAIN l.admitted : l.admitted[i] \in Admission
    BY <2>1
  <2> QED
    BY <2>2 DEF Admission, Time
<1> QED
  BY <1>1, FullBucket DEF Windowed

(* A newcomer is let in only with room in the window, where every newcomer of the
   hour is found again. *)
LEMMA NewcomerFits ==
  ASSUME NEW n, NEW l \in Log, NEW clock \in Time, Windowed(n, l, clock),
         NEW e \in Admission, e.done = clock, e.t <= clock,
         e.first => Cardinality(LastHour(n, e.t)) < NewPerHour
                    /\ \A i \in DOMAIN l.admitted : l.admitted[i].c # e.c,
         NEW n1, n1 = (IF e.first THEN LastHour(n, e.t) \cup {<<e.c, e.t>>} ELSE n),
         NEW l1, l1 = [l EXCEPT !.admitted = Append(l.admitted, e)]
  PROVE  Windowed(n1, l1, clock)
<1> DEFINE N == Len(l.admitted)
<1>0. l.admitted \in Seq(Admission)
  BY DEF Log
<1>1. l1.admitted = Append(l.admitted, e)
  BY DEF Log
<1>2. /\ N \in Nat /\ DOMAIN l.admitted = 1..N /\ DOMAIN l1.admitted = 1..N+1
      /\ \A i \in 1..N : l1.admitted[i] = l.admitted[i] /\ l.admitted[i] \in Admission
      /\ l1.admitted[N + 1] = e
  BY <1>0, <1>1
<1> HIDE DEF N
<1>3. e.c \in Chats /\ e.t \in Time /\ e.t \in Nat /\ clock \in Nat /\ Hour \in Nat
  BY FullBucket DEF Admission, Time
<1>4. Windowed(n1, l, clock)
  <2>1. Windowed(LastHour(n, e.t), l, clock)
    BY <1>3, WindowMoves
  <2>2. Windowed(LastHour(n, e.t) \cup {<<e.c, e.t>>}, l, clock)
    BY <1>3, <2>1, WindowMoves
  <2> QED
    BY <2>2
<1>5. ASSUME NEW i \in 1..N+1, l1.admitted[i].first, l1.admitted[i].done = l1.admitted[i].t
      PROVE  <<l1.admitted[i].c, l1.admitted[i].t>> \in n1 \/ l1.admitted[i].t + Hour <= clock
  <2>1. CASE i = N + 1
    BY <1>2, <1>5, <2>1
  <2>2. CASE i # N + 1
    BY <1>2, <1>4, <1>5, <2>2 DEF Windowed
  <2> QED
    BY <2>1, <2>2
<1>6. ASSUME NEW i \in 1..N+1, NEW j \in 1..N+1, l1.admitted[i].first, l1.admitted[j].first,
             l1.admitted[i].c = l1.admitted[j].c
      PROVE  i = j
  BY <1>2, <1>6 DEF Windowed
<1>7. ASSUME NEW t \in Time PROVE Cardinality(FirstIn(l1, t)) <= NewPerHour
  <2>0. /\ IsFiniteSet(FirstIn(l, t)) /\ Cardinality(FirstIn(l, t)) \in Nat
        /\ Cardinality(FirstIn(l, t)) <= NewPerHour /\ FirstIn(l, t) \subseteq 1..N
    BY <1>2, Counted DEF Windowed, NewcomersIn, FirstIn
  <2>1. CASE ~(e.first /\ e.done = e.t /\ e.t \in t..(t + Hour - 1))
    <3>1. FirstIn(l1, t) = FirstIn(l, t)
      BY <1>2, <2>1 DEF FirstIn
    <3> QED
      BY <2>0, <3>1
  <2>2. CASE e.first /\ e.done = e.t /\ e.t \in t..(t + Hour - 1)
    <3>1. FirstIn(l1, t) = FirstIn(l, t) \cup {N + 1} /\ N + 1 \notin FirstIn(l, t)
      BY <1>2, <2>2 DEF FirstIn
    <3>2. Cardinality(FirstIn(l1, t)) = Cardinality(FirstIn(l, t)) + 1
      BY <2>0, <3>1, FS_AddElement
    <3> DEFINE where == [i \in FirstIn(l, t) |-> <<l.admitted[i].c, l.admitted[i].t>>]
    <3>3. ASSUME NEW i \in FirstIn(l, t) PROVE where[i] \in LastHour(n, e.t)
      <4>1. /\ i \in 1..N /\ l.admitted[i].first /\ l.admitted[i].done = l.admitted[i].t
            /\ l.admitted[i].t \in t..(t + Hour - 1) /\ t \in Nat
        BY <1>2, <3>3 DEF FirstIn, Time
      <4>2. l.admitted[i].t > e.t - Hour /\ ~(l.admitted[i].t + Hour <= clock)
        BY <1>3, <2>2, <4>1, SMTT(30)
      <4>3. <<l.admitted[i].c, l.admitted[i].t>> \in n
        BY <1>2, <4>1, <4>2 DEF Windowed
      <4> QED
        BY <4>2, <4>3 DEF LastHour
    <3>4. ASSUME NEW i \in FirstIn(l, t), NEW j \in FirstIn(l, t), where[i] = where[j] PROVE i = j
      <4>1. l.admitted[i].c = l.admitted[j].c
        BY <3>4
      <4>2. /\ i \in DOMAIN l.admitted /\ l.admitted[i].first
            /\ j \in DOMAIN l.admitted /\ l.admitted[j].first
        BY DEF FirstIn
      <4> QED
        BY <4>1, <4>2 DEF Windowed
    <3>5. where \in Injection(FirstIn(l, t), LastHour(n, e.t))
      BY <3>3, <3>4 DEF Injection, IsInjective
    <3>6. IsFiniteSet(LastHour(n, e.t)) /\ Cardinality(LastHour(n, e.t)) \in Nat
      BY FS_Subset, FS_CardinalityType DEF Windowed, LastHour
    <3>7. Cardinality(FirstIn(l, t)) <= Cardinality(LastHour(n, e.t))
      BY <3>5, <3>6, FS_Injection
    <3>8. Cardinality(LastHour(n, e.t)) < NewPerHour /\ NewPerHour \in Nat
      BY <2>2, LimitsAssumption
    <3> QED
      BY <2>0, <3>2, <3>6, <3>7, <3>8
  <2> QED
    BY <2>1, <2>2
<1> QED
  BY <1>2, <1>4, <1>5, <1>6, <1>7 DEF Windowed, NewcomersIn

----------------------------------------------------------------------------
(* The ledger. *)

(* A use is claimed only while the ledger of the day has room, which counts every use
   of that day no restart forgot; and the file, if it is written, says the same. *)
LEMMA ClaimAudited ==
  ASSUME now \in Time, {ledger, spendFile} \subseteq Ledger \cup {None}, Audited,
         NEW written \in BOOLEAN, claim(written)
  PROVE  Audited' /\ {ledger', spendFile'} \subseteq Ledger \cup {None}
<1> DEFINE book == load(now)
           N == Len(paid)
           today == Day(now)
           Live(d) == PaidOn(d) \ lost
<1>0. /\ paid \in Seq(Time) /\ N \in Nat /\ DOMAIN paid = 1..N /\ now' = now /\ now \in Nat
      /\ today \in Nat /\ PaidPerDay \in Nat
      /\ filed \in 0..N /\ lost \subseteq 1..N /\ lost' = lost
  BY DayAndHour, Allowances DEF Audited, claim, Time
<1>1. /\ ledger' = [book EXCEPT !.used = @ + 1] /\ book.used < PaidPerDay /\ paid' = Append(paid, now)
      /\ IF written THEN spendFile' = ledger' /\ filed' = Len(paid') ELSE UNCHANGED <<spendFile, filed>>
  BY DEF claim, persist
<1>2. \A i \in 1..N : paid[i] \in Time /\ paid[i] <= now /\ Day(paid[i]) \in Nat /\ Day(paid[i]) <= today
  <2> SUFFICES ASSUME NEW i \in 1..N
               PROVE  paid[i] \in Time /\ paid[i] <= now /\ Day(paid[i]) \in Nat /\ Day(paid[i]) <= today
    OBVIOUS
  <2>1. paid[i] \in Time /\ paid[i] <= now
    BY <1>0 DEF Audited
  <2> QED
    BY <2>1, Calendar
<1>3. /\ ledger # None => ledger \in Ledger /\ ledger.day \in Nat /\ ledger.used \in 0..PaidPerDay
      /\ spendFile # None => spendFile \in Ledger /\ spendFile.day \in Nat /\ spendFile.used \in 0..PaidPerDay
  BY DEF Ledger
<1>4. book \in Ledger /\ book.day = today /\ Cardinality(Live(today)) = book.used
  <2>1. CASE ledger # None /\ ledger.day = today
    <3>1. book = ledger
      BY <2>1 DEF load, IsOf
    <3>2. Live(today) \cap DOMAIN paid = Live(today)
      BY DEF PaidOn
    <3> QED
      BY <1>3, <2>1, <3>1, <3>2 DEF Audited, Counts
  <2>2. CASE ~(ledger # None /\ ledger.day = today) /\ spendFile # None /\ spendFile.day = today
    <3>1. book = spendFile
      BY <2>2 DEF load, IsOf
    <3>2. ledger = None
      BY <1>0, <1>3, <2>2 DEF Audited, Counts
    <3>3. Live(today) \cap 1..filed = Live(today)
      BY <1>0, <3>2 DEF PaidOn, Audited
    <3> QED
      BY <1>3, <2>2, <3>1, <3>3 DEF Audited, Counts
  <2>3. CASE ~(ledger # None /\ ledger.day = today) /\ ~(spendFile # None /\ spendFile.day = today)
    <3>1. book = [day |-> today, used |-> 0]
      BY <2>3 DEF load, IsOf
    <3>2. ASSUME NEW i \in 1..N, Day(paid[i]) = today, i \notin lost PROVE FALSE
      <4>1. CASE ledger # None
        BY <1>0, <1>3, <2>3, <3>2, <4>1 DEF Audited, Counts
      <4>2. CASE ledger = None
        <5>1. i \in 1..filed
          BY <1>0, <3>2, <4>2 DEF Audited
        <5>2. spendFile # None
          BY <5>1 DEF Audited
        <5> QED
          BY <1>0, <1>3, <2>3, <3>2, <5>1, <5>2 DEF Audited, Counts
      <4> QED
        BY <4>1, <4>2
    <3>3. Live(today) = {}
      BY <1>0, <3>2 DEF PaidOn
    <3> QED
      <4>1. Cardinality(Live(today)) = 0
        BY <3>3, FS_EmptySet
      <4>2. [day |-> today, used |-> 0] \in Ledger
        BY <1>0 DEF Ledger
      <4> QED
        BY <3>1, <4>1, <4>2
  <2> QED
    BY <2>1, <2>2, <2>3
<1> HIDE DEF book
<1>5. ledger' \in Ledger /\ ledger'.day = today /\ ledger'.used = book.used + 1 /\ ledger' # None
  <2>1. ledger' \in Ledger /\ ledger'.day = today /\ ledger'.used = book.used + 1
    BY <1>0, <1>1, <1>4 DEF Ledger
  <2> QED
    BY <2>1, LimitsAssumption
<1>6. /\ DOMAIN paid' = 1..(N + 1) /\ paid' \in Seq(Time) /\ Len(paid') = N + 1
      /\ \A i \in 1..N : paid'[i] = paid[i]
      /\ paid'[N + 1] = now
  BY <1>0, <1>1
<1> HIDE DEF N
<1>7. PaidOn(today)' = PaidOn(today) \cup {N + 1} /\ N + 1 \notin Live(today) /\ N + 1 \notin lost
  BY <1>0, <1>6 DEF PaidOn
<1>8. ASSUME NEW d \in Nat, d # today PROVE PaidOn(d)' = PaidOn(d)
  BY <1>0, <1>6, <1>8 DEF PaidOn
<1>9. Cardinality((PaidOn(today)' \ lost')) = book.used + 1
  <2>1. IsFiniteSet(1..N)
    BY <1>0, Segments
  <2>2. IsFiniteSet(Live(today))
    BY <1>0, <2>1, FS_Subset DEF PaidOn
  <2>3. PaidOn(today)' \ lost' = Live(today) \cup {N + 1}
    BY <1>0, <1>7
  <2> QED
    BY <1>4, <1>7, <2>2, <2>3, FS_AddElement
<1>10. \A i \in DOMAIN paid' : paid'[i] <= now' /\ Day(paid'[i]) <= today
  BY <1>0, <1>2, <1>6
<1>11. Counts(ledger, DOMAIN paid)'
  <2>1. (PaidOn(today)' \ lost') \cap DOMAIN paid' = PaidOn(today)' \ lost'
    BY DEF PaidOn
  <2>2. Day(now)' = today
    BY <1>0 DEF Day
  <2>3. Cardinality((PaidOn(today)' \ lost') \cap DOMAIN paid') = ledger'.used
    BY <1>5, <1>9, <2>1
  <2> QED
    BY <1>0, <1>5, <1>10, <2>2, <2>3 DEF Counts
<1>12. Counts(spendFile, 1..filed)'
  <2>1. CASE written
    <3>1. spendFile' = ledger' /\ 1..filed' = DOMAIN paid'
      BY <1>1, <1>6, <2>1
    <3> QED
      BY <1>11, <3>1 DEF Counts
  <2>2. CASE ~written
    <3>1. UNCHANGED <<spendFile, filed>>
      BY <1>1, <2>2
    <3>2. ASSUME NEW d \in Nat PROVE (PaidOn(d)' \ lost') \cap 1..filed = Live(d) \cap 1..filed
      BY <1>0, <1>6 DEF PaidOn
    <3>3. \A i \in 1..filed : i \in 1..N /\ paid'[i] = paid[i]
      BY <1>0, <1>6
    <3> QED
      BY <1>0, <1>3, <3>1, <3>2, <3>3 DEF Audited, Counts
  <2> QED
    BY <2>1, <2>2
<1>13. ASSUME NEW d \in Nat PROVE Cardinality(PaidOn(d)' \ lost') <= PaidPerDay
  <2>1. CASE d = today
    BY <1>0, <1>1, <1>4, <1>9, <2>1 DEF Ledger
  <2>2. CASE d # today
    BY <1>0, <1>8, <2>2 DEF Audited
  <2> QED
    BY <2>1, <2>2
<1>14. /\ filed' \in 0..Len(paid') /\ lost' \subseteq DOMAIN paid'
       /\ spendFile' = None => filed' = 0
       /\ spendFile' # None => spendFile' \in Ledger /\ spendFile'.day <= ledger'.day
  <2>1. CASE written
    <3>1. spendFile' = ledger' /\ filed' = N + 1 /\ Len(paid') = N + 1
      BY <1>1, <1>6, <2>1
    <3>2. lost' \subseteq DOMAIN paid' /\ N + 1 \in 0..(N + 1)
      BY <1>0, <1>6
    <3> QED
      BY <1>0, <1>5, <3>1, <3>2
  <2>2. CASE ~written
    BY <1>0, <1>1, <1>3, <1>5, <1>6, <2>2 DEF Audited, Counts
  <2> QED
    BY <2>1, <2>2
<1>15. Audited'
  BY <1>5, <1>6, <1>10, <1>11, <1>12, <1>13, <1>14 DEF Audited
<1> QED
  BY <1>5, <1>14, <1>15

----------------------------------------------------------------------------
(* The steps. *)

LEMMA InitHolds == Init => IInv
<1> SUFFICES ASSUME Init PROVE IInv
  OBVIOUS
<1> USE DEF Init
<1>1. 0 \in Time /\ now = 0
  BY LimitsAssumption DEF Time
<1>2. CallsOK
  BY <1>1 DEF CallsOK
<1>3. ReadBefore
  BY DEF ReadBefore
<1>4. Audited
  <2>1. \A d : Cardinality(PaidOn(d) \ lost) = 0
    BY FS_EmptySet DEF PaidOn
  <2>2. 0 <= PaidPerDay
    BY Allowances
  <2>3. paid \in Seq(Time)
    OBVIOUS
  <2> QED
    BY <2>1, <2>2, <2>3 DEF Audited, Counts
<1>5. /\ NoLog \in Log /\ DOMAIN NoLog.admitted = {} /\ DOMAIN NoLog.turns = {} /\ DOMAIN NoLog.sent = {}
  BY DEF NoLog, Log
<1>6. Agree(senders, log, back)
  <2>1. \A c, h : SentOf(NoLog, c, h) = {}
    BY <1>5 DEF SentOf
  <2>2. 0 <= OutPerHour
    BY Allowances
  <2>3. HourlyIn(log, back)
    BY <2>1, <2>2, FS_EmptySet DEF HourlyIn
  <2> QED
    BY <1>5, <2>3 DEF Agree, Remembered, Clocked, Tallied, Metered, RateIn, BudgetIn
<1>7. Windowed(newSenders, log, now)
  <2>1. \A t : FirstIn(NoLog, t) = {}
    BY <1>5 DEF FirstIn
  <2>2. 0 <= NewPerHour
    BY Allowances
  <2> QED
    BY <1>5, <2>1, <2>2, FS_EmptySet DEF Windowed, NewcomersIn
<1> QED
  BY <1>2, <1>3, <1>4, <1>6, <1>7 DEF IInv

(* What leaves the limiter, the history and the clock alone. *)
LEMMA Apart ==
  ASSUME IInv, UNCHANGED <<now, limiter, disk, history>>
  PROVE  /\ Agree(senders, log, back)' /\ Windowed(newSenders, log, now)'
         /\ Agree(disk.senders, disk.log, back)' /\ Windowed(disk.newSenders, disk.log, now)'
BY DEF IInv, limiter, history

LEMMA BooksApart ==
  ASSUME Audited, UNCHANGED <<now, books>>
  PROVE  Audited'
BY DEF Audited, Counts, PaidOn, books

(* The file is left alone, and fewer chats are spoken of. *)
LEMMA FileApart ==
  ASSUME IInv, UNCHANGED <<now, disk>>, back \subseteq back'
  PROVE  Agree(disk.senders, disk.log, back)' /\ Windowed(disk.newSenders, disk.log, now)'
<1> DEFINE s == disk.senders
           l == disk.log
<1>1. Agree(s, l, back) /\ Windowed(disk.newSenders, l, now)
  BY DEF IInv
<1> HIDE DEF s, l
<1>2. Agree(s, l, back')
  BY <1>1 DEF Agree, Clocked, Tallied, Metered, RateIn, BudgetIn, HourlyIn
<1> QED
  BY <1>1, <1>2 DEF s, l

LEMMA HearHolds == ASSUME IInv, NEW c \in Chats, Hear(c) PROVE IInv'
<1> USE DEF Hear, calls
<1>1. CallsOK'
  BY DEF IInv, CallsOK, limiter, books
<1>2. ReadBefore'
  BY DEF IInv, CallsOK, ReadBefore, Time
<1> QED
  BY <1>1, <1>2, Apart, BooksApart DEF IInv

(* A call that touches no record: a batch is taken or put back, a sweep begins or
   ends. *)
LEMMA QuietStepsHold ==
  ASSUME IInv, \/ \E c \in Chats : Take(c)
               \/ PutBack \/ StartSweep \/ EndSweep
  PROVE  IInv'
<1>1. UNCHANGED <<now, limiter, disk, books, history, heard>>
  BY DEF Take, PutBack, StartSweep, EndSweep, limiter, books, history
<1>2. CallsOK'
  <2>1. ASSUME NEW c \in Chats, Take(c) PROVE CallsOK'
    <3> DEFINE n == Least(waiting[c], MaxBatch)
    <3>1. n \in 1..MaxBatch /\ waiting[c] - n \in Nat
      BY <2>1, LimitsAssumption DEF IInv, CallsOK, Take, Least
    <3>2. taken' = [c |-> c, n |-> n, t |-> now] /\ waiting' = [waiting EXCEPT ![c] = @ - n] /\ sweep' = sweep
      BY <2>1 DEF Take
    <3> HIDE DEF n
    <3> QED
      BY <1>1, <3>1, <3>2 DEF IInv, CallsOK, Batch, limiter, books
  <2>2. CASE PutBack
    <3>1. taken.c \in Chats /\ taken.n \in Nat
      BY <2>2 DEF IInv, CallsOK, PutBack, Batch
    <3> QED
      BY <1>1, <2>2, <3>1 DEF IInv, CallsOK, PutBack, limiter, books
  <2>3. CASE StartSweep
    BY <1>1, <2>3 DEF IInv, CallsOK, StartSweep, limiter, books
  <2>4. CASE EndSweep
    BY <1>1, <2>4 DEF IInv, CallsOK, EndSweep, limiter, books
  <2> QED
    BY <2>1, <2>2, <2>3, <2>4
<1>3. ReadBefore'
  BY <1>1, LimitsAssumption DEF IInv, CallsOK, ReadBefore, Take, PutBack, StartSweep, EndSweep, Batch, Time
<1> QED
  BY <1>1, <1>2, <1>3, Apart, BooksApart DEF IInv

LEMMA RefuseNewcomerHolds == ASSUME IInv, NEW c \in Chats, RefuseNewcomer(c) PROVE IInv'
<1> USE DEF RefuseNewcomer
<1>1. CallsOK' /\ ReadBefore'
  BY DEF IInv, CallsOK, ReadBefore, books
<1>2. Audited'
  BY BooksApart DEF IInv
<1>3. heard[c] \in Time /\ heard[c] <= now /\ now \in Nat
  BY DEF IInv, CallsOK, ReadBefore, Time
<1>4. log \in Log /\ Windowed(newSenders, log, now)
  BY DEF IInv, Agree
<1>5. Windowed(LastHour(newSenders, heard[c]), log, now)
  BY <1>3, <1>4, WindowMoves
<1>6. Windowed(newSenders, log, now)'
  BY <1>5 DEF Recent, LastHour, history
<1>7. Agree(senders, log, back)'
  BY DEF IInv, history
<1>8. Agree(disk.senders, disk.log, back)' /\ Windowed(disk.newSenders, disk.log, now)'
  BY FileApart DEF history
<1> QED
  BY <1>1, <1>2, <1>6, <1>7, <1>8 DEF IInv

(* A record is refilled, and its chat met if it is new. *)
LEMMA Kept ==
  ASSUME IInv, NEW c \in Chats, NEW t \in Time, t <= now, NEW seen, NEW r, Keep(c, seen, t, r),
         senders[c] = None => seen = newSenders \/ seen = LastHour(newSenders, t),
         senders[c] # None => seen = newSenders
  PROVE  /\ senders' = [senders EXCEPT ![c] = r] /\ dirty' \in BOOLEAN
         /\ back' = BackOnce(c, t) /\ back \subseteq back'
         /\ Windowed(newSenders', log, now)
<1>1. log \in Log /\ now \in Nat /\ Windowed(newSenders, log, now)
  BY DEF IInv, Agree, CallsOK, Time
<1>2. Windowed(seen, log, now) /\ Windowed(seen \cup {<<c, t>>}, log, now)
  <2>1. Windowed(seen, log, now)
    BY <1>1, WindowMoves
  <2> QED
    BY <1>1, <2>1, WindowMoves
<1> QED
  BY <1>2 DEF Keep, BackOnce

LEMMA RefuseHolds == ASSUME IInv, NEW c \in Chats, Refuse(c) PROVE IInv'
<1> DEFINE t == heard[c]
<1>1. t \in Time /\ t <= now
  BY DEF Refuse, IInv, CallsOK, ReadBefore
<1>2. Keep(c, Past(c, t), t, Refilled(c, t))
  BY DEF Refuse, Refilled
<1>3. UNCHANGED <<now, disk, log, waiting, taken, sweep, books>> /\ heard' = [heard EXCEPT ![c] = None]
  BY DEF Refuse
<1> HIDE DEF t
<1>4. /\ senders' = [senders EXCEPT ![c] = Refilled(c, t)] /\ dirty' \in BOOLEAN
      /\ back' = BackOnce(c, t) /\ back \subseteq back'
      /\ Windowed(newSenders', log, now)
  BY <1>1, <1>2, Kept DEF Past, Recent, LastHour
<1>5. Agree(senders', log, back')
  BY <1>1, <1>4, RefillAgrees DEF IInv
<1>6. CallsOK' /\ ReadBefore'
  BY <1>3, <1>4 DEF IInv, CallsOK, ReadBefore, books
<1>7. Audited'
  BY <1>3, BooksApart DEF IInv
<1>8. Agree(senders, log, back)' /\ Windowed(newSenders, log, now)'
  BY <1>3, <1>4, <1>5
<1>9. Agree(disk.senders, disk.log, back)' /\ Windowed(disk.newSenders, disk.log, now)'
  BY <1>3, <1>4, FileApart
<1> QED
  BY <1>6, <1>7, <1>8, <1>9 DEF IInv

(* A message is let in with a full message's worth in the bucket and a turn left of
   the day, and by the window if its chat is new. *)
LEMMA AdmitHolds == ASSUME IInv, NEW c \in Chats, Admit(c) PROVE IInv'
<1> DEFINE t == heard[c]
           r == Refilled(c, t)
           e == [c |-> c, t |-> t, done |-> now, first |-> senders[c] = None, spent |-> TurnsOn(c, Day(t))]
           met == [senders EXCEPT ![c] = r]
<1>1. t \in Time /\ t <= now /\ now \in Time
  BY DEF Admit, IInv, CallsOK, ReadBefore
<1>2. /\ Keep(c, Past(c, t), t, [r EXCEPT !.tokens = @ - Hour]) /\ ~TurnedAwayAt(r) /\ ~Crowded(c, t)
      /\ log' = [log EXCEPT !.admitted = Append(log.admitted, e)]
  BY DEF Admit, Refilled
<1>3. /\ UNCHANGED <<now, disk, taken, sweep, books>> /\ heard' = [heard EXCEPT ![c] = None]
      /\ waiting' = [waiting EXCEPT ![c] = @ + 1]
  BY DEF Admit
<1>4. /\ senders \in [Chats -> SenderRecord \cup {None}] /\ log \in Log
      /\ Agree(senders, log, back) /\ Windowed(newSenders, log, now)
  BY DEF IInv, Agree
<1>5. /\ e \in Admission /\ e.c = c /\ e.t = t /\ e.done = now /\ (e.first <=> senders[c] = None)
      /\ e.spent = Cardinality(TurnsOf(log, c, Day(t)))
  <2>1. TurnsOn(c, Day(t)) = Cardinality(TurnsOf(log, c, Day(t)))
    BY DEF TurnsOn, Count, TurnsOf
  <2>2. TurnsOn(c, Day(t)) \in Nat
    BY <1>4, <2>1, Counted
  <2> QED
    BY <1>1, <2>1, <2>2 DEF Admission
<1> HIDE DEF t, e, r
<1>6. /\ senders' = [senders EXCEPT ![c] = [r EXCEPT !.tokens = @ - Hour]] /\ dirty' \in BOOLEAN
      /\ back' = BackOnce(c, t) /\ back \subseteq back'
  BY <1>1, <1>2, Kept DEF Past, Recent, LastHour
<1>7. /\ Agree(met, log, back') /\ met[c] = r
      /\ r \in SenderRecord /\ r.at = t /\ r.day = Day(t)
  BY <1>1, <1>4, <1>6, RefillAgrees, RefilledRecord DEF r
<1>8. met[c] # None /\ Hour <= r.tokens /\ r.turns < TurnsPerDay
  <2>1. r # None
    BY <1>7, LimitsAssumption
  <2>2. r.tokens \in Nat /\ r.turns \in Nat
    BY <1>7 DEF SenderRecord
  <2> QED
    BY <1>2, <1>7, <2>1, <2>2, FullBucket, Allowances DEF TurnedAwayAt
<1>9. c \notin back' => e.spent < TurnsPerDay
  BY <1>5, <1>7, <1>8 DEF Agree, Tallied
<1>10. senders' = [met EXCEPT ![c] = [met[c] EXCEPT !.tokens = met[c].tokens - Hour]]
  BY <1>4, <1>6, <1>7
<1>11. Agree(senders', log', back')
  <2> HIDE DEF met
  <2>1. e.t = met[c].at /\ Hour <= met[c].tokens /\ e.t <= e.done
    BY <1>1, <1>5, <1>7, <1>8
  <2> QED
    BY <1>2, <1>5, <1>7, <1>8, <1>9, <1>10, <2>1, LetInAgrees
<1>12. Windowed(newSenders', log', now)
  <2>1. newSenders' = (IF e.first THEN LastHour(newSenders, e.t) \cup {<<e.c, e.t>>} ELSE newSenders)
    BY <1>2, <1>5 DEF Keep, Past, Recent, LastHour
  <2>2. e.first => Cardinality(LastHour(newSenders, e.t)) < NewPerHour
    <3>1. IsFiniteSet(LastHour(newSenders, e.t))
      BY <1>4, FS_Subset DEF Windowed, LastHour
    <3>2. Cardinality(LastHour(newSenders, e.t)) \in Nat
      BY <3>1, FS_CardinalityType
    <3> QED
      BY <1>2, <1>5, <3>2, Allowances DEF Crowded, Recent, LastHour
  <2>3. e.first => \A i \in DOMAIN log.admitted : log.admitted[i].c # e.c
    BY <1>4, <1>5 DEF Agree, Remembered
  <2> QED
    BY <1>1, <1>2, <1>4, <1>5, <2>1, <2>2, <2>3, NewcomerFits
<1>13. CallsOK' /\ ReadBefore'
  BY <1>3, <1>6 DEF IInv, CallsOK, ReadBefore, books
<1>14. Audited'
  BY <1>3, BooksApart DEF IInv
<1>15. Agree(disk.senders, disk.log, back)' /\ Windowed(disk.newSenders, disk.log, now)'
  BY <1>3, <1>6, FileApart
<1> QED
  BY <1>3, <1>11, <1>12, <1>13, <1>14, <1>15 DEF IInv

(* The window knows of the history only who was let in. *)
LEMMA WindowStays ==
  ASSUME NEW n, NEW l, NEW l1, NEW clock, l1.admitted = l.admitted, Windowed(n, l, clock)
  PROVE  Windowed(n, l1, clock)
BY DEF Windowed, NewcomersIn, FirstIn

(* A turn is charged when it begins, at the time it was taken. *)
LEMMA BeginHolds == ASSUME IInv, Begin PROVE IInv'
<1> DEFINE c == taken.c
           t == taken.t
           r == Refilled(c, t)
           e == [c |-> c, t |-> t]
           met == [senders EXCEPT ![c] = r]
<1>1. c \in Chats /\ t \in Time /\ t <= now
  BY DEF Begin, IInv, CallsOK, ReadBefore, Batch
<1>2. /\ Keep(c, newSenders, t, [r EXCEPT !.turns = @ + 1])
      /\ log' = [log EXCEPT !.turns = Append(log.turns, e)]
      /\ UNCHANGED <<now, disk, heard, waiting, sweep, books>> /\ taken' = None
  BY DEF Begin, Refilled
<1>3. /\ senders \in [Chats -> SenderRecord \cup {None}] /\ log \in Log
      /\ Agree(senders, log, back) /\ Windowed(newSenders, log, now)
  BY DEF IInv, Agree
<1>4. e \in TurnEntry /\ e.c = c /\ e.t = t
  BY <1>1 DEF TurnEntry
<1> HIDE DEF c, t, e, r
<1>5. /\ senders' = [senders EXCEPT ![c] = [r EXCEPT !.turns = @ + 1]] /\ dirty' \in BOOLEAN
      /\ back' = BackOnce(c, t) /\ back \subseteq back' /\ Windowed(newSenders', log, now)
  BY <1>1, <1>2, Kept
<1>6. Agree(met, log, back') /\ met[c] = r /\ r \in SenderRecord /\ r.at = t
  BY <1>1, <1>3, <1>5, RefillAgrees, RefilledRecord DEF r
<1>7. met[c] # None
  BY <1>6, LimitsAssumption
<1>8. senders' = [met EXCEPT ![c] = [met[c] EXCEPT !.turns = met[c].turns + 1]]
  BY <1>1, <1>3, <1>5, <1>6
<1>9. Agree(senders', log', back')
  <2> HIDE DEF met
  <2> QED
    BY <1>1, <1>2, <1>4, <1>6, <1>7, <1>8, TurnAgrees
<1>10. Windowed(newSenders', log', now)
  <2>1. log'.admitted = log.admitted
    BY <1>2, <1>3 DEF Log
  <2> QED
    BY <1>5, <2>1, WindowStays
<1>11. CallsOK' /\ ReadBefore'
  BY <1>2, <1>5 DEF IInv, CallsOK, ReadBefore, books
<1>12. Audited'
  BY <1>2, BooksApart DEF IInv
<1>13. Agree(disk.senders, disk.log, back)' /\ Windowed(disk.newSenders, disk.log, now)'
  BY <1>2, <1>5, FileApart
<1> QED
  BY <1>2, <1>9, <1>10, <1>11, <1>12, <1>13 DEF IInv

(* A message goes out at the time the caller passes, if the hour has room. *)
LEMMA OutboundHolds ==
  ASSUME IInv, NEW c \in Chats, NEW t \in Time, t <= now, admitOutbound(c, t),
         UNCHANGED <<now, disk, calls, books>>
  PROVE  IInv'
<1> DEFINE r == Refilled(c, t)
           e == [c |-> c, t |-> t, done |-> now]
           met == [senders EXCEPT ![c] = r]
<1>1. /\ senders \in [Chats -> SenderRecord \cup {None}] /\ log \in Log
      /\ Agree(senders, log, back) /\ Windowed(newSenders, log, now) /\ now \in Time
  BY DEF IInv, Agree, CallsOK
<1>2. e \in SentEntry /\ e.c = c /\ e.t = t
  BY <1>1 DEF SentEntry
<1>3. /\ r.sent >= OutPerHour => Keep(c, newSenders, t, r) /\ log' = log
      /\ ~(r.sent >= OutPerHour) =>
           /\ Keep(c, newSenders, t, [r EXCEPT !.sent = @ + 1])
           /\ log' = [log EXCEPT !.sent = Append(log.sent, e)]
  BY DEF admitOutbound, Refilled
<1> HIDE DEF e, r
<1>4. /\ back' = BackOnce(c, t) /\ back \subseteq back' /\ Windowed(newSenders', log, now) /\ dirty' \in BOOLEAN
      /\ r.sent >= OutPerHour => senders' = met
      /\ ~(r.sent >= OutPerHour) => senders' = [senders EXCEPT ![c] = [r EXCEPT !.sent = @ + 1]]
  BY <1>3, Kept
<1>5. Agree(met, log, back') /\ met[c] = r /\ r \in SenderRecord /\ r.at = t
  BY <1>1, <1>4, RefillAgrees, RefilledRecord DEF r
<1>6. Agree(senders', log', back') /\ Windowed(newSenders', log', now)
  <2>1. CASE r.sent >= OutPerHour
    BY <1>3, <1>4, <1>5, <2>1
  <2>2. CASE ~(r.sent >= OutPerHour)
    <3>1. met[c] # None
      BY <1>5, LimitsAssumption
    <3>2. senders' = [met EXCEPT ![c] = [met[c] EXCEPT !.sent = met[c].sent + 1]]
      BY <1>1, <1>4, <1>5, <2>2
    <3>3. met[c].sent < OutPerHour
      BY <1>5, <2>2, Allowances DEF SenderRecord
    <3>4. log' = [log EXCEPT !.sent = Append(log.sent, e)] /\ e.t = met[c].at
      BY <1>2, <1>3, <1>5, <2>2
    <3> HIDE DEF met
    <3>5. Agree(senders', log', back')
      BY <1>2, <1>5, <3>1, <3>2, <3>3, <3>4, SentAgrees
    <3>6. log'.admitted = log.admitted
      BY <1>1, <3>4 DEF Log
    <3> QED
      BY <1>4, <3>5, <3>6, WindowStays
  <2> QED
    BY <2>1, <2>2
<1>7. CallsOK' /\ ReadBefore'
  BY <1>4 DEF IInv, CallsOK, ReadBefore, books, calls
<1>8. Audited'
  BY BooksApart DEF IInv
<1>9. Agree(disk.senders, disk.log, back)' /\ Windowed(disk.newSenders, disk.log, now)'
  BY <1>4, FileApart
<1> QED
  BY <1>6, <1>7, <1>8, <1>9 DEF IInv

LEMMA SendHolds == ASSUME IInv, NEW c \in Chats, Send(c) PROVE IInv'
<1>1. now \in Time /\ now <= now
  BY DEF IInv, CallsOK, Time
<1> QED
  BY <1>1, OutboundHolds DEF Send

LEMMA FireHolds == ASSUME IInv, NEW c \in Chats, Fire(c) PROVE IInv'
<1>1. sweep \in Time /\ sweep <= now
  BY DEF IInv, CallsOK, ReadBefore, Fire
<1> QED
  BY <1>1, OutboundHolds DEF Fire

LEMMA ClaimHolds == ASSUME IInv, NEW written \in BOOLEAN, claim(written) PROVE IInv'
<1>1. Audited' /\ {ledger', spendFile'} \subseteq Ledger \cup {None}
  BY ClaimAudited DEF IInv, CallsOK
<1>2. UNCHANGED <<now, limiter, disk, calls, history>>
  BY DEF claim
<1>3. CallsOK' /\ ReadBefore'
  BY <1>1, <1>2 DEF IInv, CallsOK, ReadBefore, limiter, calls
<1> QED
  BY <1>1, <1>2, <1>3, Apart DEF IInv

(* The file is written: what holds in memory holds of it. *)
LEMMA FlushHolds == ASSUME IInv, Flush PROVE IInv'
<1>1. disk'.senders = senders /\ disk'.newSenders = newSenders /\ disk'.log = log
  BY DEF Flush, OnFile
<1>2. UNCHANGED <<now, senders, newSenders, log, back, calls, books>> /\ dirty' = FALSE
  BY DEF Flush, history
<1>3. CallsOK' /\ ReadBefore'
  BY <1>2 DEF IInv, CallsOK, ReadBefore, calls, books
<1>4. Audited'
  BY <1>2, BooksApart DEF IInv
<1> QED
  BY <1>1, <1>2, <1>3, <1>4 DEF IInv

(* A process begins from a file that agrees with the history it holds; what was let
   in waits on disk. *)
LEMMA ReloadHolds ==
  ASSUME IInv, NEW file, Reload(file),
         Agree(file.senders, file.log, back), Windowed(file.newSenders, file.log, now)
  PROVE  IInv'
<1>1. /\ senders' = file.senders /\ newSenders' = file.newSenders /\ log' = file.log /\ disk' = file
      /\ back' = back /\ now' = now
  BY DEF Reload
<1>2. /\ Agree(senders, log, back)' /\ Windowed(newSenders, log, now)'
      /\ Agree(disk.senders, disk.log, back)' /\ Windowed(disk.newSenders, disk.log, now)'
  BY <1>1
<1>3. waiting' \in [Chats -> Nat]
  BY DEF Reload, IInv, CallsOK, Batch
<1>4. CallsOK' /\ ReadBefore'
  BY <1>3 DEF Reload, IInv, CallsOK, ReadBefore
<1>5. Audited'
  <2>1. /\ UNCHANGED <<now, spendFile, paid, filed>> /\ ledger' = None
        /\ lost' = lost \cup (filed + 1)..Len(paid)
        /\ Audited
    BY DEF Reload, IInv
  <2>2. ASSUME NEW d PROVE /\ (PaidOn(d)' \ lost') \cap 1..filed = (PaidOn(d) \ lost) \cap 1..filed
                           /\ (PaidOn(d)' \ lost') \subseteq (PaidOn(d) \ lost)
    BY <2>1 DEF PaidOn, Audited
  <2>3. ASSUME NEW d \in Nat PROVE Cardinality(PaidOn(d)' \ lost') <= PaidPerDay
    <3>1. IsFiniteSet(PaidOn(d) \ lost)
      <4>1. IsFiniteSet(1..Len(paid)) /\ PaidOn(d) \ lost \subseteq 1..Len(paid)
        BY <2>1, Segments DEF PaidOn, Audited
      <4> QED
        BY <4>1, FS_Subset
    <3>2. /\ IsFiniteSet(PaidOn(d)' \ lost')
          /\ Cardinality(PaidOn(d)' \ lost') <= Cardinality(PaidOn(d) \ lost)
      BY <2>2, <3>1, FS_Subset
    <3>3. Cardinality(PaidOn(d) \ lost) <= PaidPerDay
      BY <2>1 DEF Audited
    <3>4. Cardinality(PaidOn(d)' \ lost') \in Nat /\ Cardinality(PaidOn(d) \ lost) \in Nat /\ PaidPerDay \in Nat
      BY <3>1, <3>2, FS_CardinalityType, Allowances
    <3> QED
      BY <3>2, <3>3, <3>4
  <2>4. Counts(spendFile, 1..filed)'
    BY <2>1, <2>2 DEF Audited, Counts
  <2> QED
    BY <2>1, <2>3, <2>4 DEF Audited, Counts
<1> QED
  BY <1>2, <1>4, <1>5 DEF IInv

LEMMA RestartHolds == ASSUME IInv, Shutdown \/ Crash PROVE IInv'
<1>1. CASE Shutdown
  <2>1. OnFile.senders = senders /\ OnFile.newSenders = newSenders /\ OnFile.log = log
    BY DEF OnFile
  <2>2. Reload(OnFile)
    BY <1>1 DEF Shutdown, AtShutdown
  <2> QED
    BY <2>1, <2>2, ReloadHolds DEF IInv
<1>2. CASE Crash
  BY <1>2, ReloadHolds DEF Crash, IInv
<1> QED
  BY <1>1, <1>2

LEMMA TickHolds == ASSUME IInv, Tick PROVE IInv'
<1>1. now \in Nat /\ now' = now + 1 /\ now' \in Time /\ now \in Time /\ now' \in Nat
  BY LimitsAssumption DEF Tick, IInv, CallsOK, Time
<1>2. UNCHANGED <<limiter, disk, calls, books, history>>
  BY DEF Tick
<1>3. CallsOK' /\ ReadBefore'
  BY <1>1, <1>2 DEF IInv, CallsOK, ReadBefore, limiter, calls, books, Batch, Time
<1>4. Day(now) <= Day(now') /\ Day(now) \in Nat /\ Day(now') \in Nat
  BY <1>1, Calendar
<1>5. Audited'
  <2>1. /\ spendFile # None => spendFile.day \in Nat
        /\ ledger # None => ledger.day \in Nat
        /\ \A i \in DOMAIN paid : paid[i] \in Nat
    <3>1. {ledger, spendFile} \subseteq Ledger \cup {None} /\ paid \in Seq(Time)
      BY DEF IInv, CallsOK, Audited
    <3>2. \A i \in DOMAIN paid : paid[i] \in Time
      BY <3>1
    <3> QED
      BY <3>1, <3>2 DEF Ledger, Time
  <2>2. UNCHANGED <<ledger, spendFile, paid, filed, lost>> /\ Audited
    BY <1>2 DEF IInv, books
  <2>3. Counts(ledger, DOMAIN paid)' /\ Counts(spendFile, 1..filed)'
    BY <1>4, <2>1, <2>2 DEF Audited, Counts, PaidOn
  <2>4. \A i \in DOMAIN paid' : paid'[i] <= now'
    BY <1>1, <2>1, <2>2 DEF Audited
  <2> QED
    BY <2>2, <2>3, <2>4 DEF Audited, PaidOn
<1>6. Agree(senders, log, back)' /\ Agree(disk.senders, disk.log, back)'
  BY <1>2 DEF IInv, limiter, history
<1>7. /\ log \in Log /\ Windowed(newSenders, log, now)
      /\ disk.log \in Log /\ Windowed(disk.newSenders, disk.log, now)
  BY DEF IInv, Agree
<1>8. Windowed(newSenders, log, now + 1) /\ Windowed(disk.newSenders, disk.log, now + 1)
  BY <1>1, <1>7, ClockGoesOn
<1>9. Windowed(newSenders, log, now)' /\ Windowed(disk.newSenders, disk.log, now)'
  BY <1>1, <1>2, <1>8 DEF limiter, history
<1> QED
  BY <1>3, <1>5, <1>6, <1>9 DEF IInv

(* Every step of the limiter, the ledger, their callers and the process. *)
LEMMA StepHolds == ASSUME IInv, [Next]_vars PROVE IInv'
<1>1. CASE UNCHANGED vars
  <2>1. UNCHANGED <<now, limiter, disk, calls, books, history>>
    BY <1>1 DEF vars
  <2>2. CallsOK' /\ ReadBefore'
    BY <2>1 DEF IInv, CallsOK, ReadBefore, limiter, calls, books
  <2>3. Audited'
    BY <2>1, BooksApart DEF IInv
  <2>4. /\ Agree(senders, log, back)' /\ Windowed(newSenders, log, now)'
        /\ Agree(disk.senders, disk.log, back)' /\ Windowed(disk.newSenders, disk.log, now)'
    BY <2>1, Apart
  <2> QED
    BY <2>2, <2>3, <2>4 DEF IInv
<1>2. CASE \E c \in Chats : Hear(c) \/ RefuseNewcomer(c) \/ Refuse(c) \/ Admit(c)
  BY <1>2, HearHolds, RefuseNewcomerHolds, RefuseHolds, AdmitHolds
<1>3. CASE \E c \in Chats : Take(c) \/ Send(c) \/ Fire(c)
  BY <1>3, QuietStepsHold, SendHolds, FireHolds
<1>4. CASE Begin \/ PutBack \/ StartSweep \/ EndSweep
  BY <1>4, BeginHolds, QuietStepsHold
<1>5. CASE (\E written \in BOOLEAN : claim(written)) \/ Flush
  BY <1>5, ClaimHolds, FlushHolds
<1>6. CASE Shutdown \/ Crash \/ Tick
  BY <1>6, RestartHolds, TickHolds
<1> QED
  BY <1>1, <1>2, <1>3, <1>4, <1>5, <1>6 DEF Next

----------------------------------------------------------------------------
(* What the invariant says of the properties. *)

LEMMA Typed == ASSUME IInv PROVE TypeOK
<1>1. senders \in [Chats -> SenderRecord \cup {None}] /\ disk.senders \in [Chats -> SenderRecord \cup {None}]
  BY DEF IInv, Agree
<1>2. newSenders \subseteq Chats \X Time
  BY DEF IInv, Windowed
<1> QED
  BY <1>1, <1>2 DEF IInv, CallsOK, Audited, TypeOK

LEMMA Limited == ASSUME IInv PROVE LimitsHold
<1>1. SustainedRate
  BY DEF IInv, Agree, RateIn, LetInFrom, SustainedRate
<1>2. BudgetEndsTheDay
  BY DEF IInv, Agree, BudgetIn, BudgetEndsTheDay
<1>3. NewcomersAreBounded
  BY DEF IInv, Windowed, NewcomersIn, FirstIn, NewcomersAreBounded, Count
<1>4. Horizon \in Time
  BY LimitsAssumption DEF Time
<1>5. HourlyCeiling
  <2>1. \A h \in 0..HourOf(Horizon) : h \in Nat
    BY <1>4, DayAndHour
  <2> QED
    BY <2>1 DEF IInv, Agree, HourlyIn, SentOf, HourlyCeiling, Count
<1>6. PaidCeiling
  <2>1. \A d \in 0..Day(Horizon) : d \in Nat
    BY <1>4, DayAndHour
  <2> QED
    BY <2>1 DEF IInv, Audited, PaidCeiling
<1> QED
  BY <1>1, <1>2, <1>3, <1>5, <1>6 DEF LimitsHold, CeilingsHold

----------------------------------------------------------------------------
(* The theorems. *)

(* The records of the limiter, in memory and on file, always agree with the
   history they stand for; so do the window of strangers and the ledger. *)
THEOREM RecordsAgree == Spec => []IInv
<1>1. Init => IInv
  BY InitHolds
<1>2. IInv /\ [Next]_vars => IInv'
  BY StepHolds
<1> QED
  BY <1>1, <1>2, PTL DEF Spec

(* The type invariant: a bucket never holds more than a burst, nor less than
   nothing (refill, admitMessage). *)
THEOREM TypesHold == Spec => []TypeOK
<1>1. IInv => TypeOK
  BY Typed
<1> QED
  BY <1>1, RecordsAgree, PTL

(* The sustained rate, the day's budget, the window of strangers and the two
   ceilings hold, over any number of restarts and crashes (ratelimit.ts,
   spend.ts). *)
THEOREM LimitsAlwaysHold == Spec => []LimitsHold
<1>1. IInv => LimitsHold
  BY Limited
<1> QED
  BY <1>1, RecordsAgree, PTL

=============================================================================
