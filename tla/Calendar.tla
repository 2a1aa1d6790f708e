------------------------------- MODULE Calendar -------------------------------
(***************************************************************************)
(* When a thing should happen (shared/src/schedule.ts): expressions of     *)
(* five fields, the clocks of a zone that are put forward or back once,    *)
(* the search for the next occurrence one step at a time, and times said   *)
(* in words.  A day, an hour and a minute are short; months have two       *)
(* lengths, so that a day of the month may not come every month.           *)
(***************************************************************************)
EXTENDS Integers, FiniteSets

CONSTANTS
  TICKS, MINUTES, HOURS,  \* ticks of a minute, minutes of an hour, hours of a day
  ShortMonth, LongMonth,  \* days of the first and of the second month of a year
  WEEK,                   \* days of a week; WEEK and 0 are both its first
  Zones,                  \* [before, after, at]: offsets in ticks, and the instant it changes
  Expressions,            \* what may be written, one set of items per field
  Said,                   \* times said in words
  Starts,                 \* instants a search starts from
  MAX_SCAN_DAYS, MaxInstant

CalendarAssumption ==
  /\ {TICKS, MINUTES, HOURS, ShortMonth, LongMonth, WEEK} \subseteq Nat \ {0}
  /\ {MAX_SCAN_DAYS, MaxInstant} \subseteq Nat /\ Starts \subseteq Nat
  /\ \A z \in Zones :  \* offsets of whole minutes, and no clock before its epoch
       /\ {z.before, z.after, z.at} \subseteq Int
       /\ z.before % TICKS = 0 /\ z.after % TICKS = 0
       /\ \A i \in Starts : i + z.before >= 0 /\ i + z.after >= 0
  /\ \A s \in Said :
       /\ s.form \in {"in", "date", "day", "clock"} /\ s.n \in Nat
       /\ s.clock \in [hour: 0..HOURS - 1, minute: 0..MINUTES - 1]

VARIABLES
  zone, spec,
  from,     \* `after` of the search under way, or the last one
  wall,     \* its candidate
  found     \* Searching, Never, or the instant it returned

calendarVars == <<zone, spec, from, wall, found>>

Searching == -1
Never == -2
Day == HOURS * MINUTES * TICKS

----------------------------------------------------------------------------
(* Clocks.  An operator whose name begins with Mutant is a plausible wrong
   version of the one after it. *)

zoneOffset(z, i) == IF i < z.at THEN z.before ELSE z.after

wallClockAt(z, i) ==
  LET m == (i + zoneOffset(z, i)) \div TICKS
  IN [date |-> m \div (HOURS * MINUTES), hour |-> (m \div MINUTES) % HOURS, minute |-> m % MINUTES]

asIfUtc(w) == ((w.date * HOURS + w.hour) * MINUTES + w.minute) * TICKS

\* The offset is guessed from the wall clock and corrected once.
MutantInstant(z, w) == asIfUtc(w) - zoneOffset(z, asIfUtc(w))
wallClockToInstant(z, w) ==
  LET firstGuess == asIfUtc(w) - zoneOffset(z, asIfUtc(w))
  IN asIfUtc(w) - zoneOffset(z, firstGuess)

Year == ShortMonth + LongMonth
MonthOf(date) == IF date % Year < ShortMonth THEN 1 ELSE 2
DayOf(date) ==
  IF date % Year < ShortMonth THEN (date % Year) + 1 ELSE (date % Year) - ShortMonth + 1

----------------------------------------------------------------------------
(* Expressions *)

Fields == {"minute", "hour", "dom", "month", "dow"}
Lowest == [minute |-> 0, hour |-> 0, dom |-> 1, month |-> 1, dow |-> 0]
Highest == [minute |-> MINUTES - 1, hour |-> HOURS - 1, dom |-> LongMonth, month |-> 2, dow |-> WEEK]

\* An item: from, to and step; "every one" has neither end.
Star == [whole |-> TRUE, from |-> 0, to |-> 0, step |-> 1]

\* parseItem: no values where it is an error.
parseItem(item, f) ==
  LET first == IF item.whole THEN Lowest[f] ELSE item.from
      last == IF item.whole THEN Highest[f] ELSE item.to
  IN IF item.step < 1 \/ ~({first, last} \subseteq Lowest[f]..Highest[f]) THEN {}
     ELSE {v \in first..last : (v - first) % item.step = 0}

parseField(items, f) ==
  LET values == UNION {parseItem(i, f) : i \in items}
  IN IF f = "dow" THEN {v % WEEK : v \in values} ELSE values

parses(e) == \A f \in Fields : e[f] # {} /\ \A i \in e[f] : parseItem(i, f) # {}

parseCron(e) ==
  [kind |-> "cron", values |-> [f \in Fields |-> parseField(e[f], f)],
   restricted |-> {f \in {"dom", "dow"} : e[f] # {Star}}]

\* When both day fields are narrowed, a day of either fires.
dayMatches(s, date) ==
  LET dom == DayOf(date) \in s.values["dom"]
      dow == date % WEEK \in s.values["dow"]
  IN IF s.restricted = {"dom", "dow"} THEN dom \/ dow ELSE dom /\ dow

----------------------------------------------------------------------------
(* Times said in words *)

Clock == [hour: 0..HOURS - 1, minute: 0..MINUTES - 1]
On(date, clock) == [date |-> date, hour |-> clock.hour, minute |-> clock.minute]

\* parseWhen: in so long, on a date, today or tomorrow, or a bare time, which
\* is the next time it comes round.
ComesRound(sameDay, nextDay, now) == IF sameDay > now THEN sameDay ELSE nextDay

parseWhen(said, z, now) ==
  LET today == wallClockAt(z, now).date
      at(date) == wallClockToInstant(z, On(date, said.clock))
  IN CASE said.form = "in" -> now + said.n * TICKS
       [] said.form = "date" -> at(said.n)
       [] said.form = "day" -> at(today + said.n)
       [] said.form = "clock" -> ComesRound(at(today), at(today + 1), now)

----------------------------------------------------------------------------
(* nextOccurrence *)

\* The next whole minute after `after`.
StartOf(z, i) == wallClockAt(z, (i \div TICKS) * TICKS + TICKS)

startOfNextDay(w) == [date |-> w.date + 1, hour |-> 0, minute |-> 0]
startOfNextMonth(w) ==
  LET days == IF MonthOf(w.date) = 1 THEN ShortMonth ELSE LongMonth
  IN [date |-> w.date - DayOf(w.date) + 1 + days, hour |-> 0, minute |-> 0]
nextHour(w) ==
  IF w.hour >= HOURS - 1 THEN startOfNextDay(w) ELSE [w EXCEPT !.hour = @ + 1, !.minute = 0]
nextMinute(w) ==
  IF w.minute >= MINUTES - 1 THEN nextHour(w) ELSE [w EXCEPT !.minute = @ + 1]

Init ==
  /\ zone \in Zones /\ from \in Starts
  /\ spec \in {parseCron(e) : e \in {x \in Expressions : parses(x)}}
              \cup {[kind |-> "once", said |-> s, at |-> parseWhen(s, zone, from)] : s \in Said}
  /\ wall = StartOf(zone, from) /\ found = Searching

Limit == wallClockAt(zone, from + MAX_SCAN_DAYS * Day).date

\* One turn of the loop.
Matches(w) ==
  /\ MonthOf(w.date) \in spec.values["month"] /\ dayMatches(spec, w.date)
  /\ w.hour \in spec.values["hour"] /\ w.minute \in spec.values["minute"]

Skipped(w) ==
  IF MonthOf(w.date) \notin spec.values["month"] THEN startOfNextMonth(w)
  ELSE IF ~dayMatches(spec, w.date) THEN startOfNextDay(w)
  ELSE IF w.hour \notin spec.values["hour"] THEN nextHour(w)
  ELSE nextMinute(w)

Step ==
  /\ found = Searching /\ spec.kind = "cron"
  /\ LET instant == wallClockToInstant(zone, wall) IN
       IF wall.date > Limit THEN found' = Never /\ UNCHANGED wall
       ELSE IF Matches(wall) /\ instant > from THEN found' = instant /\ UNCHANGED wall
       ELSE wall' = Skipped(wall) /\ UNCHANGED found
  /\ UNCHANGED <<zone, spec, from>>

Once ==
  /\ found = Searching /\ spec.kind = "once"
  /\ found' = IF spec.at > from THEN spec.at ELSE Never
  /\ UNCHANGED <<zone, spec, from, wall>>

\* Scheduler.advance: the next search starts where this one ended, or when the
\* pass that fired it was late.
Again(late) ==
  /\ found >= 0 /\ found + late <= MaxInstant /\ spec.kind = "cron"
  /\ from' = found + late /\ found' = Searching
  /\ wall' = StartOf(zone, from')
  /\ UNCHANGED <<zone, spec>>

Next == Step \/ Once \/ \E late \in {0, TICKS + 1} : Again(late)

Progress == Step \/ Once
Fairness == WF_calendarVars(Progress)
Spec == Init /\ [][Next]_calendarVars

----------------------------------------------------------------------------
(* Properties *)

\* The search and what it is about have their shapes.
TypeOK ==
  /\ zone \in Zones /\ from \in Nat /\ spec.kind \in {"cron", "once"}
  /\ wall.date \in Nat /\ wall.hour \in 0..HOURS - 1 /\ wall.minute \in 0..MINUTES - 1
  /\ found \in {Searching, Never} \cup Nat

\* The instants at which the clocks read w: one, two when they are put back
\* over it, none when they are put forward past it.
Instants(w) ==
  {i \in {asIfUtc(w) - zone.before, asIfUtc(w) - zone.after} : wallClockAt(zone, i) = w}
Plain(w) == Cardinality(Instants(w)) = 1

\* Every wall time that comes exactly once is fired at the instant the clocks
\* show it, in any zone and across a change of its clocks.
FiresOnTheClock ==
  found >= 0 /\ spec.kind = "cron" /\ Plain(wall) => found \in Instants(wall)

\* The clocks most places keep: put forward or back by one hour, on the hour, and
\* forward neither from the west of Greenwich to the east of it nor, in the west, at
\* midnight.
OneHour(z) ==
  LET moves == z.at + z.before IN
  /\ z.after - z.before \in {-MINUTES * TICKS, 0, MINUTES * TICKS}
  /\ moves % (MINUTES * TICKS) = 0
  /\ z.before < z.after /\ z.before < 0 => z.after <= 0 /\ moves % Day # 0

\* Where they keep others, a wall time that the clocks are put forward past is
\* resolved to an instant after the change, past minutes that follow the change
\* by less than it.
Overtaken(i) == ~OneHour(zone) /\ zone.at <= i /\ i < zone.at + zone.after - zone.before

\* Nothing due is passed over: between the last occurrence and the one found the
\* clocks showed no time of the rule, save those they show twice and those that
\* are overtaken; a rule found to have none has none; and a bare time is the next
\* time it comes round, found unless tomorrow has it twice or not at all in a
\* place that keeps other clocks.
Minutes(a, b) == {i \in a + 1..b : i % TICKS = 0}
NothingPassedOver ==
  /\ spec.kind = "cron" /\ found # Searching =>
       \A i \in Minutes(from, IF found = Never THEN from + MAX_SCAN_DAYS * Day ELSE found - 1) :
         LET w == wallClockAt(zone, i) IN Matches(w) => ~Plain(w) \/ (found # Never /\ Overtaken(i))
  /\ spec.kind = "once" /\ spec.said.form = "clock" =>
       /\ found = Never =>
            ~OneHour(zone) /\ ~Plain(On(wallClockAt(zone, from).date + 1, spec.said.clock))
       /\ \A i \in Minutes(from, spec.at - 1) :
            LET w == wallClockAt(zone, i)
            IN On(w.date, spec.said.clock) = w => ~Plain(w) \/ Overtaken(i)

\* Every search ends, also one for a date that never comes.
Idle == found # Searching
EverySearchEnds == []<>Idle

\* A wall time the clocks are put forward past is fired after the change, and
\* one they show twice the second time.
ResolvesPastTheJump ==
  found >= 0 /\ spec.kind = "cron" /\ ~Plain(wall) => found >= zone.at

=============================================================================
