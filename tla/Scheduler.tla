------------------------------ MODULE Scheduler ------------------------------
(***************************************************************************)
(* The reminder store and the ticker that keeps its promises               *)
(* (bridge/src/schedule.ts).  createSchedule and cancelSchedule read and   *)
(* write the file in one go; a pass of the ticker reads it once, awaits a  *)
(* send for each due entry, and writes back what it read.  Everything else *)
(* in the bridge may run at each of those awaits.                          *)
(*                                                                         *)
(* Whether agent.schedule is on, whether a chat is blocked and whether the *)
(* hourly allowance is spent may change at any moment and is read once for *)
(* each entry: each is a free choice at that read.                         *)
(* KEEP_FINISHED is larger than the entries there are, so none is pruned.  *)
(***************************************************************************)
EXTENDS Integers, FiniteSets

CONSTANTS
  Ids,              \* the entries that may be created
  Chats,
  PerChat, Total,   \* scheduledPerChat, scheduledTotal
  MinLead, Horizon, \* scheduleMinLeadMs, scheduleMaxHorizonDays
  Grace,            \* scheduleGraceMs
  Period,           \* a repeating rule comes round at every multiple of this
  MaxTime,          \* bound on the clock
  Passes,           \* how many ticks could be running at once, were they not guarded
  MaxFaults         \* bound on crashes and failed writes

\* What is assumed of the constants.
ASSUME SchedulerAssumption ==
  /\ PerChat \in Nat /\ Total \in Nat /\ MinLead \in Nat /\ Horizon \in Nat /\ Grace \in Nat
  /\ Period \in Nat \ {0} /\ Passes \in Nat \ {0} /\ MaxTime \in Nat
  /\ MaxFaults \in Nat

VARIABLES
  store,     \* the file: entries by id
  now,
  pass,      \* what each running tick holds
  faults,    \* crashes and failed writes so far
  promised,  \* history: ids whose creation was reported
  calledOff, \* history: ids whose cancellation was reported
  during,    \* history: ids created or cancelled while a pass was under way
  sent,      \* history: how often each occurrence of each entry was sent
  told       \* history: feed events, as the entry and why

history == <<promised, calledOff, during, sent, told>>
vars == <<store, now, pass, faults, history>>

Never == -1
Time == 0..MaxTime
Occurrence == 0..(MaxTime + Period + Horizon)
Entry == [chat : Chats, kind : {"once", "cron"}, by : {"agent", "operator"},
          nextAt : Occurrence \cup {Never},
          state : {"active", "done", "cancelled", "missed", "failed"}]

NoEntries == [i \in {} |-> 0]
NoPass == [phase |-> "idle", at |-> 0, entries |-> NoEntries, todo |-> {}, out |-> {}, changed |-> FALSE]

Active(entries) == {i \in DOMAIN entries : entries[i].state = "active"}
Due(entries, t) == {i \in Active(entries) : entries[i].nextAt <= t}

Init ==
  /\ store = NoEntries /\ now = 0
  /\ pass = [p \in 1..Passes |-> NoPass]
  /\ faults = 0
  /\ promised = {} /\ calledOff = {} /\ during = {} /\ told = {}
  /\ sent = [i \in Ids |-> [t \in Time |-> 0]]

Idle == \A p \in 1..Passes : pass[p].phase = "idle"

\* One thread: a request or a timer gets its turn only where a pass awaits a send.
Yields == \A p \in 1..Passes : pass[p].phase # "picking"

----------------------------------------------------------------------------
(* Asking.  A refusal changes nothing.  An operator whose name begins with
   Mutant is a plausible wrong version of the one after it. *)

\* nextOccurrence of a rule: strictly after t.
NextOf(t) == (t \div Period + 1) * Period

Room(c) ==
  /\ Cardinality({i \in Active(store) : store[i].chat = c}) < PerChat
  /\ Cardinality(Active(store)) < Total

\* History: what is asked now, a pass under way does not know of.
Overlaps(i) == during' = IF Idle THEN during ELSE during \cup {i}

Create(i, c, kind, by, at) ==
  /\ Yields
  /\ i \notin promised
  /\ kind = "cron" => at = NextOf(now)
  /\ at - now >= MinLead /\ at - now \in 1..Horizon
  /\ Room(c)
  /\ store' = [j \in DOMAIN store \cup {i} |->
                 IF j = i THEN [chat |-> c, kind |-> kind, by |-> by, nextAt |-> at, state |-> "active"]
                          ELSE store[j]]
  /\ promised' = promised \cup {i}
  /\ Overlaps(i)
  /\ UNCHANGED <<now, pass, faults, calledOff, sent, told>>

Cancel(i) ==
  /\ Yields
  /\ i \in Active(store)
  /\ store' = [store EXCEPT ![i].state = "cancelled", ![i].nextAt = Never]
  /\ calledOff' = calledOff \cup {i}
  /\ Overlaps(i)
  /\ UNCHANGED <<now, pass, faults, promised, sent, told>>

----------------------------------------------------------------------------
(* The ticker *)

\* tick() returns at once while another is running.
MutantAnyTick == TRUE
NotTicking == Idle

Tick(p) ==
  /\ pass[p].phase = "idle" /\ \A q \in 1..(p - 1) : pass[q].phase # "idle"
  /\ NotTicking /\ Yields
  /\ Due(store, now) # {}
  /\ pass' = [pass EXCEPT ![p] = [phase |-> "picking", at |-> now, entries |-> store,
                                  todo |-> Due(store, now), out |-> {}, changed |-> FALSE]]
  /\ UNCHANGED <<store, now, faults, history>>

Advance(e, from) ==
  IF e.kind = "once" THEN [e EXCEPT !.state = "done", !.nextAt = Never]
                     ELSE [e EXCEPT !.nextAt = NextOf(from)]

\* fire() is over with the entry, which it changed to e or left as it was.
Left(p, i) == pass' = [pass EXCEPT ![p].todo = @ \ {i}]
Changed(p, i, e) ==
  pass' = [pass EXCEPT ![p] = [phase |-> "picking", at |-> @.at,
                               entries |-> [@.entries EXCEPT ![i] = e],
                               todo |-> @.todo \ {i}, out |-> {}, changed |-> TRUE]]

Picks(p, i) == pass[p].phase = "picking" /\ i \in pass[p].todo
TooLate(p, e) == pass[p].at - e.nextAt > Grace

\* What the agent asked for waits while agent.schedule is off.
HoldBack(p, i) ==
  /\ Picks(p, i)
  /\ pass[p].entries[i].by = "agent"
  /\ Left(p, i)
  /\ UNCHANGED <<store, now, faults, history>>

Missed(e, at) == IF e.kind = "cron" THEN Advance(e, at)
                 ELSE [e EXCEPT !.state = "missed", !.nextAt = Never]

Miss(p, i) ==
  LET e == pass[p].entries[i] IN
  /\ Picks(p, i)
  /\ TooLate(p, e)
  /\ Changed(p, i, Missed(e, pass[p].at))
  /\ told' = told \cup {<<i, "missed">>}
  /\ UNCHANGED <<store, now, faults, promised, calledOff, during, sent>>

MutantFailed(e) == [e EXCEPT !.state = "failed"]
Failed(e) == [e EXCEPT !.state = "failed", !.nextAt = Never]

MaySend(p, i) == Picks(p, i) /\ ~TooLate(p, pass[p].entries[i])

\* The chat has been blocked, or is not known any more.
NoDestination(p, i) ==
  /\ MaySend(p, i)
  /\ Changed(p, i, Failed(pass[p].entries[i]))
  /\ told' = told \cup {<<i, "blocked">>}
  /\ UNCHANGED <<store, now, faults, promised, calledOff, during, sent>>

\* admitOutbound says no; the entry stays due.
Throttle(p, i) ==
  /\ MaySend(p, i)
  /\ Left(p, i)
  /\ UNCHANGED <<store, now, faults, history>>

\* admitOutbound says yes, and sendText is awaited.
BeginSend(p, i) ==
  /\ MaySend(p, i)
  /\ pass' = [pass EXCEPT ![p].phase = "sending", ![p].out = {i}]
  /\ UNCHANGED <<store, now, faults, history>>

SendOk(p, i) ==
  LET e == pass[p].entries[i] IN
  /\ i \in pass[p].out
  /\ sent' = [sent EXCEPT ![i][e.nextAt] = @ + 1]
  /\ Changed(p, i, Advance(e, pass[p].at))
  /\ UNCHANGED <<store, now, faults, promised, calledOff, during, told>>

\* The tick's catch: the entry has failed, whatever its kind.
SendThrows(p, i) ==
  /\ i \in pass[p].out
  /\ Changed(p, i, Failed(pass[p].entries[i]))
  /\ told' = told \cup {<<i, "threw">>}
  /\ UNCHANGED <<store, now, faults, promised, calledOff, during, sent>>

\* The end of a pass: what it read is written back if it changed any of it, and
\* the finally lets the next one in whether or not the write went well.
MutantStaysBusy(p) == IF pass[p].changed THEN NoPass ELSE pass[p]
After(p) == NoPass

EndPass(p) ==
  /\ pass[p].phase = "picking" /\ pass[p].todo = {}
  /\ \/ /\ store' = IF pass[p].changed THEN pass[p].entries ELSE store
        /\ UNCHANGED faults
     \/ /\ pass[p].changed /\ faults < MaxFaults
        /\ faults' = faults + 1
        /\ UNCHANGED store
  /\ pass' = [pass EXCEPT ![p] = After(p)]
  /\ UNCHANGED <<now, history>>

----------------------------------------------------------------------------
(* What goes on around it *)

TimePasses ==
  /\ now < MaxTime
  /\ now' = now + 1
  /\ UNCHANGED <<store, pass, faults, history>>

\* The process stops and starts; only the file is left.
Crash ==
  /\ faults < MaxFaults
  /\ faults' = faults + 1
  /\ pass' = [p \in 1..Passes |-> NoPass]
  /\ UNCHANGED <<store, now, history>>

Ask ==
  \/ \E i \in Ids, c \in Chats, kind \in {"once", "cron"}, by \in {"agent", "operator"}, at \in Occurrence :
       Create(i, c, kind, by, at)
  \/ \E i \in Ids : Cancel(i)

Fire(p, i) ==
  \/ HoldBack(p, i) \/ Miss(p, i) \/ NoDestination(p, i) \/ Throttle(p, i) \/ BeginSend(p, i)

Next ==
  \/ Ask
  \/ \E p \in 1..Passes : Tick(p) \/ EndPass(p)
  \/ \E p \in 1..Passes, i \in Ids : Fire(p, i) \/ SendOk(p, i) \/ SendThrows(p, i)
  \/ TimePasses \/ Crash

Spec == Init /\ [][Next]_vars

\* The interval timer goes on, an await of a send comes back, and the hourly
\* allowance does not say no for ever.
Fairness ==
  /\ WF_vars(\E p \in 1..Passes : Tick(p) \/ EndPass(p))
  /\ WF_vars(\E p \in 1..Passes, i \in Ids : Fire(p, i) \/ SendOk(p, i) \/ SendThrows(p, i))
  /\ \A i \in Ids : SF_vars(\E p \in 1..Passes : BeginSend(p, i))

FairSpec == Spec /\ Fairness

----------------------------------------------------------------------------
(* Properties *)

\* The store and every running tick's copy of it hold entries of the schema,
\* active ones with a next time and no other; a send is out for one due entry.
EntriesOK(entries) ==
  /\ DOMAIN entries \subseteq Ids
  /\ \A i \in DOMAIN entries :
       entries[i] \in Entry /\ (entries[i].state = "active" <=> entries[i].nextAt # Never)

TypeOK ==
  /\ EntriesOK(store)
  /\ now \in Time /\ faults \in 0..MaxFaults
  /\ promised \subseteq Ids /\ calledOff \subseteq promised /\ during \subseteq promised
  /\ told \subseteq Ids \X {"missed", "blocked", "threw"}
  /\ \A p \in 1..Passes :
       /\ pass[p].phase \in {"idle", "picking", "sending"}
       /\ EntriesOK(pass[p].entries)
       /\ pass[p].todo \subseteq Due(pass[p].entries, pass[p].at)
       /\ pass[p].out \subseteq pass[p].todo
       /\ Cardinality(pass[p].out) = (IF pass[p].phase = "sending" THEN 1 ELSE 0)

\* An occurrence is sent once, whatever is asked or cancelled while a send is
\* awaited; every crash and every write that fails may repeat it once.
SentOnce == \A i \in Ids, t \in Time : sent[i][t] <= 1 + faults

\* Rule 4, nothing is ever silently dropped: an entry that was promised is in the
\* store, and one that is over was sent, cancelled, or reported in the feed.
Accounted(i) ==
  /\ i \in DOMAIN store
  /\ store[i].state = "done" => \E t \in Time : sent[i][t] > 0
  /\ store[i].state = "cancelled" => i \in calledOff
  /\ store[i].state = "missed" => <<i, "missed">> \in told
  /\ store[i].state = "failed" => \E why \in {"blocked", "threw"} : <<i, why>> \in told

EveryPromiseIsAccountedFor == \A i \in promised : Accounted(i)

\* What is asked between two passes stands, and what was asked during one does it no
\* harm: whatever a crash or a failed write does to the file, such a promise is kept
\* or reported and such a cancellation is not undone.
AskedBetweenPassesHolds ==
  /\ \A i \in promised \ during : Accounted(i)
  /\ \A i \in calledOff \ during : store[i].state = "cancelled"

\* An occurrence is sent once, and what is asked between passes holds.
RemindersHold == SentOnce /\ AskedBetweenPassesHolds

\* What is due does not stay due: it is sent, missed or failed, through throttling,
\* crashes and lost writes (but what the agent asked for waits while it is switched off).
IsDue(i) == i \in Due(store, now) /\ store[i].by = "operator"
WhatIsDueIsSettled == \A i \in Ids : []<>~IsDue(i)

=============================================================================
