-------------------------------- MODULE Limits --------------------------------
(***************************************************************************)
(* The limiter (bridge/src/ratelimit.ts), the ledger of paid uses          *)
(* (spend.ts) and the calls the rest of the bridge makes of them.  Every   *)
(* method of the limiter takes the time as a parameter, and its callers    *)
(* read the clock before they await: handle before it downloads what came  *)
(* with a message, deliver before it transcribes, tick before it sends.    *)
(*                                                                         *)
(* Time is counted in ticks, longer than FLUSH_MS.  A bucket is counted in *)
(* units of which a message costs Hour and a tick restores PerHour.        *)
(***************************************************************************)
EXTENDS Integers, Sequences, FiniteSets

CONSTANTS
  Chats, None,
  Hour, HoursPerDay,      \* in ticks, in hours
  PerHour, Burst,         \* messagesPerHour, burst
  TurnsPerDay, NewPerHour, OutPerHour,  \* turnsPerDay, newSendersPerHour, outboundPerChatPerHour
  PaidPerDay,             \* imagesPerDay, or another meter's
  MaxBatch,
  Lag,                    \* how old the time a call passes may be
  Horizon, MaxCalls, MaxFaults  \* bounds of the model

Full == Burst * Hour  \* a full bucket
Time == 0..Horizon
Ledger == [day : Nat, used : 0..PaidPerDay]
Batch == [c : Chats, n : 1..MaxBatch, t : Time]

\* What is remembered of a chat; at is when its bucket was last refilled.
SenderRecord ==
  [tokens : 0..Full, at : Time, turns : Nat, day : Nat, sent : 0..OutPerHour, hour : Nat]

\* What is assumed of the constants.
ASSUME LimitsAssumption ==
  /\ {Hour, HoursPerDay, PerHour, Burst, TurnsPerDay, NewPerHour, OutPerHour, MaxBatch} \subseteq Nat \ {0}
  /\ {PaidPerDay, Lag, Horizon, MaxCalls, MaxFaults} \subseteq Nat
  /\ None \notin Nat \cup SenderRecord \cup Ledger \cup Batch

VARIABLES
  now,
  senders, dirty,  \* the limiter: a record for each chat it has seen
  newSenders,      \* its first contacts of late, here with whose they were
  disk,       \* senders.json, and the history as it was when it was written
  heard,      \* per chat, when handle read the clock for the message it is parsing
  waiting,    \* per chat, messages let in and not yet taken for a turn
  taken,      \* the batch being delivered and when deliver read the clock
  sweep,      \* when tick read the clock
  ledger, spendFile,  \* spend.ts, in memory and on disk
  log,        \* history: what was let in, begun and sent, by the time the call
              \* passed, but for what a crash forgot
  paid,       \* history: when each paid use was allowed,
  filed,      \* how many of them the file was last written with,
  lost,       \* and those a restart forgot: the write had failed
  back,       \* history: chats whose record met a time earlier than its own
  faults,
  asked       \* how often the limiter and the ledger were asked

limiter == <<senders, newSenders, dirty>>
calls == <<heard, waiting, taken, sweep>>
books == <<ledger, spendFile, paid, filed, lost>>
history == <<log, back>>
vars == <<now, limiter, disk, calls, books, history, faults, asked>>

Day(t) == t \div (Hour * HoursPerDay)
HourOf(t) == t \div Hour
Least(a, b) == IF a < b THEN a ELSE b

NoLog == [admitted |-> <<>>, turns |-> <<>>, sent |-> <<>>]

Init ==
  /\ now = 0
  /\ senders = [c \in Chats |-> None] /\ newSenders = {} /\ dirty = FALSE
  /\ disk = [senders |-> senders, newSenders |-> {}, log |-> NoLog]
  /\ heard = [c \in Chats |-> None] /\ waiting = [c \in Chats |-> 0]
  /\ taken = None /\ sweep = None
  /\ ledger = None /\ spendFile = None /\ paid = <<>> /\ filed = 0 /\ lost = {}
  /\ log = NoLog /\ back = {}
  /\ faults = 0 /\ asked = 0

----------------------------------------------------------------------------
(* The limiter.  An operator whose name begins with Mutant is a plausible
   wrong version of the one after it. *)

\* How many of the entries P holds of.
Count(entries, P(_)) == Cardinality({i \in DOMAIN entries : P(entries[i])})

TurnsOn(c, d) == Count(log.turns, LAMBDA e : e.c = c /\ Day(e.t) = d)

Fresh(t) == [tokens |-> Full, at |-> t, turns |-> 0, day |-> Day(t), sent |-> 0, hour |-> HourOf(t)]

\* The record of c, made if there was none.
Seen(c, t) == IF senders[c] = None THEN Fresh(t) ELSE senders[c]

\* What the bucket gains, and the record without it.
Gained(r, t) == IF t > r.at THEN (t - r.at) * PerHour ELSE 0
RolledOver(r, t) ==
  [tokens |-> r.tokens, at |-> t, day |-> Day(t), hour |-> HourOf(t),
   turns |-> IF r.day = Day(t) THEN r.turns ELSE 0,
   sent |-> IF r.hour = HourOf(t) THEN r.sent ELSE 0]

MutantUncapped(r, t) == [RolledOver(r, t) EXCEPT !.tokens = @ + Gained(r, t)]
refill(r, t) ==
  [RolledOver(r, t) EXCEPT !.tokens = Least(Full, @ + Gained(r, t))]

\* The record of c is now r, the contacts in seen are on file.
Keep(c, seen, t, r) ==
  /\ senders' = [senders EXCEPT ![c] = r]
  /\ newSenders' = IF senders[c] = None THEN seen \cup {<<c, t>>} ELSE seen
  /\ dirty' = TRUE
  /\ back' = IF senders[c] # None /\ t < senders[c].at THEN back \cup {c} ELSE back

Ask == asked < MaxCalls /\ asked' = asked + 1

\* First contacts of the hour before t.
Recent(t) == {f \in newSenders : f[2] > t - Hour}
Crowded(c, t) == senders[c] = None /\ Cardinality(Recent(t)) >= NewPerHour

\* What is left of the window when c is let past it.
Past(c, t) == IF senders[c] = None THEN Recent(t) ELSE newSenders

TurnedAwayAt(r) == r.turns >= TurnsPerDay \/ r.tokens < Hour

----------------------------------------------------------------------------
(* A message comes in: handle reads the clock, parses, asks the limiter. *)

Hear(c) ==
  /\ heard[c] = None /\ Ask
  /\ heard' = [heard EXCEPT ![c] = now]
  /\ UNCHANGED <<now, limiter, disk, waiting, taken, sweep, books, history, faults>>

\* Too many strangers this hour, and c is one more.
RefuseNewcomer(c) ==
  /\ heard[c] # None /\ Crowded(c, heard[c])
  /\ newSenders' = Recent(heard[c]) /\ dirty' = TRUE
  /\ heard' = [heard EXCEPT ![c] = None]
  /\ UNCHANGED <<now, senders, disk, waiting, taken, sweep, books, history, faults, asked>>

\* Past its budget for the day, or too quick.
Refuse(c) ==
  /\ heard[c] # None /\ ~Crowded(c, heard[c])
  /\ LET t == heard[c]
         r == refill(Seen(c, t), t)
     IN  TurnedAwayAt(r) /\ Keep(c, Past(c, t), t, r)
  /\ heard' = [heard EXCEPT ![c] = None]
  /\ UNCHANGED <<now, disk, waiting, taken, sweep, books, log, faults, asked>>

Admit(c) ==
  /\ heard[c] # None /\ ~Crowded(c, heard[c])
  /\ LET t == heard[c]
         r == refill(Seen(c, t), t)
     IN  ~TurnedAwayAt(r) /\ Keep(c, Past(c, t), t, [r EXCEPT !.tokens = @ - Hour])
  /\ heard' = [heard EXCEPT ![c] = None]
  /\ waiting' = [waiting EXCEPT ![c] = @ + 1]
  /\ log' = [log EXCEPT !.admitted = Append(@,
               [c |-> c, t |-> heard[c], done |-> now, first |-> senders[c] = None,
                spent |-> TurnsOn(c, Day(heard[c]))])]
  /\ UNCHANGED <<now, disk, taken, sweep, books, faults, asked>>

----------------------------------------------------------------------------
(* A turn: pump takes a batch and leaves the rest, deliver reads the clock,
   transcribes, publishes, and charges the turn. *)

Take(c) ==
  /\ taken = None /\ waiting[c] > 0
  /\ LET n == Least(waiting[c], MaxBatch)
     IN  /\ taken' = [c |-> c, n |-> n, t |-> now]
         /\ waiting' = [waiting EXCEPT ![c] = @ - n]
  /\ UNCHANGED <<now, limiter, disk, heard, sweep, books, history, faults, asked>>

Begin ==
  /\ taken # None
  /\ LET c == taken.c
         r == refill(Seen(c, taken.t), taken.t)
     IN  /\ Keep(c, newSenders, taken.t, [r EXCEPT !.turns = @ + 1])
         /\ log' = [log EXCEPT !.turns = Append(@, [c |-> c, t |-> taken.t])]
  /\ taken' = None
  /\ UNCHANGED <<now, disk, heard, waiting, sweep, books, faults, asked>>

\* deliver throws: the batch is put back.
PutBack ==
  /\ taken # None /\ faults < MaxFaults
  /\ waiting' = [waiting EXCEPT ![taken.c] = @ + taken.n] /\ taken' = None /\ faults' = faults + 1
  /\ UNCHANGED <<now, limiter, disk, heard, sweep, books, history, asked>>

----------------------------------------------------------------------------
(* A message goes out, from the outbox or the panel with the time of the
   moment, from the schedule with the time tick began. *)

admitOutbound(c, t) ==
  LET r == refill(Seen(c, t), t)
  IN  IF r.sent >= OutPerHour
      THEN Keep(c, newSenders, t, r) /\ UNCHANGED log
      ELSE /\ Keep(c, newSenders, t, [r EXCEPT !.sent = @ + 1])
           /\ log' = [log EXCEPT !.sent = Append(@, [c |-> c, t |-> t, done |-> now])]

Send(c) ==
  /\ Ask /\ admitOutbound(c, now)
  /\ UNCHANGED <<now, disk, calls, books, faults>>

StartSweep ==
  /\ sweep = None /\ asked < MaxCalls
  /\ sweep' = now
  /\ UNCHANGED <<now, limiter, disk, heard, waiting, taken, books, history, faults, asked>>

Fire(c) ==
  /\ sweep # None /\ Ask /\ admitOutbound(c, sweep)
  /\ UNCHANGED <<now, disk, calls, books, faults>>

EndSweep ==
  /\ sweep # None /\ sweep' = None
  /\ UNCHANGED <<now, limiter, disk, heard, waiting, taken, books, history, faults, asked>>

----------------------------------------------------------------------------
(* The ledger of paid uses, counted across everybody. *)

\* The ledger of the day of t: in memory, else on disk, else a new one.
IsOf(book, t) == book # None /\ book.day = Day(t)
load(t) ==
  IF IsOf(ledger, t) THEN ledger ELSE IF IsOf(spendFile, t) THEN spendFile
  ELSE [day |-> Day(t), used |-> 0]

\* A write that fails is swallowed: the ledger stays in memory until one that works.
persist(written) ==
  IF written THEN spendFile' = ledger' /\ filed' = Len(paid')
  ELSE UNCHANGED <<spendFile, filed>>

\* A use is allowed whether or not it could be written.
claim(written) ==
  /\ Ask /\ load(now).used < PaidPerDay
  /\ ledger' = [load(now) EXCEPT !.used = @ + 1]
  /\ paid' = Append(paid, now)
  /\ persist(written)
  /\ UNCHANGED lost
  /\ UNCHANGED <<now, limiter, disk, calls, history, faults>>

----------------------------------------------------------------------------
(* The file and the process. *)

OnFile == [senders |-> senders, newSenders |-> newSenders, log |-> log]

\* What a process that is told to stop leaves behind: shutdown flushes first.
MutantNotFlushed == [disk EXCEPT !.log = log]
AtShutdown == OnFile

Flush ==
  /\ dirty
  /\ disk' = OnFile /\ dirty' = FALSE
  /\ UNCHANGED <<now, senders, newSenders, calls, books, history, faults, asked>>

\* The next process reads the file, and finds in the queue on disk what waits.
Reload(file) ==
  /\ senders' = file.senders /\ newSenders' = file.newSenders /\ log' = file.log
  /\ dirty' = FALSE /\ disk' = file
  /\ heard' = [c \in Chats |-> None] /\ sweep' = None /\ taken' = None
  /\ waiting' = IF taken = None THEN waiting ELSE [waiting EXCEPT ![taken.c] = @ + taken.n]
  /\ ledger' = None /\ lost' = lost \cup (filed + 1)..Len(paid)
  /\ faults < MaxFaults /\ faults' = faults + 1
  /\ UNCHANGED <<now, spendFile, paid, filed, back, asked>>

Shutdown == Reload(AtShutdown)
Crash == Reload(disk)

\* No call is older than Lag.  The timer's flush may come any time later, or fail.
Tick ==
  /\ now < Horizon
  /\ \A c \in Chats : heard[c] # None => now - heard[c] < Lag
  /\ taken # None => now - taken.t < Lag
  /\ sweep # None => now - sweep < Lag
  /\ now' = now + 1
  /\ UNCHANGED <<limiter, disk, calls, books, history, faults, asked>>

Next ==
  \/ \E c \in Chats : \/ Hear(c) \/ RefuseNewcomer(c) \/ Refuse(c) \/ Admit(c)
                      \/ Take(c) \/ Send(c) \/ Fire(c)
  \/ Begin \/ PutBack \/ StartSweep \/ EndSweep
  \/ \E written \in BOOLEAN : claim(written)
  \/ Flush \/ Shutdown \/ Crash \/ Tick

Spec == Init /\ [][Next]_vars

----------------------------------------------------------------------------
(* Properties. *)

\* The type invariant (SenderRecord, Ledger): a bucket holds no more than a
\* burst and never less than nothing.
TypeOK ==
  /\ now \in Time
  /\ \A s \in {senders, disk.senders} : s \in [Chats -> SenderRecord \cup {None}]
  /\ newSenders \subseteq Chats \X Time /\ dirty \in BOOLEAN
  /\ heard \in [Chats -> Time \cup {None}] /\ waiting \in [Chats -> Nat]
  /\ taken \in Batch \cup {None}
  /\ sweep \in Time \cup {None}
  /\ {ledger, spendFile} \subseteq Ledger \cup {None}
  /\ filed \in 0..Len(paid) /\ lost \subseteq 1..Len(paid)

\* Of a chat whose record met no time earlier than its own: from the arrival
\* of one message let in to the next such there are no more than a burst and
\* what the time between restored, restarts or not (refill, admitMessage;
\* config.ts, "Sustained rate per sender").
SustainedRate ==
  \A i, j \in DOMAIN log.admitted :
    LET first == log.admitted[i]
        last == log.admitted[j]
    IN  i <= j /\ first.c = last.c /\ first.c \notin back =>
          Cardinality({k \in i..j : log.admitted[k].c = first.c}) * Hour
            <= Full + (last.done - first.t) * PerHour

\* Once such a chat has had its turns for the day nothing more of it is let
\* in before midnight, restarts or not (admitMessage, spendTurn).
BudgetEndsTheDay ==
  \A i \in DOMAIN log.admitted :
    log.admitted[i].c \notin back => log.admitted[i].spent < TurnsPerDay

\* No more strangers are let in within any hour, of those whose parsing does
\* not outlast a tick, than the window allows (admitMessage, newSenders).
NewcomersAreBounded ==
  \A t \in Time :
    Count(log.admitted, LAMBDA e : e.first /\ e.done = e.t /\ e.t \in t..(t + Hour - 1)) <= NewPerHour

\* Such a chat is sent no more within an hour of the clock than its
\* allowance, whoever sends (admitOutbound; what tick sends in the hour after
\* it read the clock counts to the hour it read).
HourlyCeiling ==
  \A c \in Chats \ back, h \in 0..HourOf(Horizon) :
    Count(log.sent, LAMBDA e : e.c = c /\ HourOf(e.t) = h) <= OutPerHour

\* No more paid uses are allowed on a day than its allowance and, for each use a
\* restart forgot because the file had not been written since, one more (claim,
\* persist): a write that succeeds makes good those that failed before it.
PaidOn(d) == {i \in DOMAIN paid : Day(paid[i]) = d}
PaidCeiling == \A d \in 0..Day(Horizon) : Cardinality(PaidOn(d) \ lost) <= PaidPerDay

\* Both ceilings hold over restarts, crashes and failed writes.
CeilingsHold == HourlyCeiling /\ PaidCeiling

\* The sustained rate, the day's budget, the window of strangers and the two
\* ceilings hold.
LimitsHold ==
  SustainedRate /\ BudgetEndsTheDay /\ NewcomersAreBounded /\ CeilingsHold

=============================================================================
