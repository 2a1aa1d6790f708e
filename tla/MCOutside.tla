------------------------------ MODULE MCOutside ------------------------------
(*****************************************************************************)
(* One instance for TLC of each part through which the bridge reaches what   *)
(* is outside: the egress proxy (Egress), the browser (Browse), plugins as   *)
(* they are called (Calls) and as they call (Plugins), the WhatsApp          *)
(* connection (Connection), the clocks of the world (Calendar) and the paid  *)
(* services (Providers). A behaviour is one of a single part, which Init     *)
(* chooses.                                                                  *)
(*****************************************************************************)
EXTENDS Egress, Integers

CONSTANTS
  Asks, Look, TEXT_TIMEOUT, LOOK_TIMEOUT, STALE, HEARTBEAT_STALE, ORPHAN, MaxFaults,
  Calls, Foreign, MaxCallCrashes, Names, Ids, MAX_ATTEMPTS, MAX_PER_TICK, PerHour,
  MaxWritten, MaxFlips, MaxSendFails, MaxUnclean, Pids, Messages, Stale, SEEN,
  Deliveries, MaxSockets, MaxTroubles, MaxRestarts, TICKS, MINUTES, HOURS, ShortMonth,
  LongMonth, WEEK, Zones, Expressions, Said, Starts, MAX_SCAN_DAYS, MaxInstant, Jobs,
  PerDay, Keys, VMAX_ATTEMPTS, MaxPolls, MaxThrows, MaxCrashes

VARIABLES
  which, call, outcome, reply, tail, age, says, up, beatAge, seen, page, step, found,
  opened, faults, asked, verdict, callFiles, answerFile, takenUp, answering,
  callCrashes, box, failed, receipts, tries, recent, setting, granted, pass, sending,
  handed, excused, written, flips, sendFails, unclean, proc, pid, lock, predecessor,
  socket, generation, connecting, reconnectTimer, connected, alive, WSeen, WHanded,
  emptied, troubles, restarts, zone, spec, from, wall, CFound, kind, at, key, polls,
  VTries, spent, bought, said, came, throws, crashes

B == INSTANCE Browse
K == INSTANCE Calls
G == INSTANCE Plugins
W == INSTANCE Connection
  WITH seen <- WSeen, handed <- WHanded
C == INSTANCE Calendar
  WITH found <- CFound
V == INSTANCE Providers
  WITH MAX_ATTEMPTS <- VMAX_ATTEMPTS, tries <- VTries

BVars == <<call, outcome, reply, tail, age, says, up, beatAge, seen, page, step, found, opened,
  faults>>
KVars == <<asked, verdict, callFiles, answerFile, takenUp, answering, callCrashes>>
GVars == <<box, failed, receipts, tries, recent, setting, granted, pass, sending, handed,
  excused, written, flips, sendFails, unclean>>
WVars == <<proc, pid, lock, predecessor, socket, generation, connecting, reconnectTimer,
  connected, alive, WSeen, WHanded, emptied, troubles, restarts>>
CVars == <<zone, spec, from, wall, CFound>>
VVars == <<kind, at, key, polls, VTries, spent, bought, said, came, throws, crashes>>

TwoFiles == <<"f1", "f2">>

OneADay == [m \in {"images", "voice", "voicePreview", "transcriptions"} |-> 1]

ASSUME OutsideAssumption ==
  /\ B!BrowseAssumption /\ K!CallsAssumption /\ G!PluginsAssumption
  /\ W!ConnectionAssumption /\ V!ProvidersAssumption /\ C!CalendarAssumption

\* A small calendar and the clocks of its places.
ADay == HOURS * MINUTES * TICKS
Whole == [whole |-> TRUE, from |-> 0, to |-> 0, step |-> 1]
AnyClock == [hour: 0..HOURS - 1, minute: 0..MINUTES - 1]

Change(b, a, t) == [before |-> b, after |-> a, at |-> t - b]

\* Clocks that meet OneHour: an hour forward east of Greenwich, on it and west of
\* it, and back. Others: half an hour either way, two hours forward, and a whole day
\* that is left out, from the west of Greenwich to the east of it.
ClockZones ==
  {Change(b, b + 4, 2 * ADay + 4) : b \in {8, 0, -8}}
    \cup {Change(b, b - 4, 2 * ADay + 8) : b \in {12, -4}}
    \cup {Change(8, 10, 2 * ADay + 4), Change(8, 6, 2 * ADay + 8), Change(0, 8, 2 * ADay + 4),
          Change(-10, 6, 2 * ADay)}

Item(first, last, n) == [whole |-> FALSE, from |-> first, to |-> last, step |-> n]
ClockExpressions ==
  [minute: {{Item(0, 0, 1)}, {Item(1, 1, 1)}, {Whole}},
   hour: {{Item(1, 1, 1)}, {Item(0, 2, 2)}, {Whole}},
   dom: {{Whole}, {Item(3, 3, 1)}}, month: {{Whole}, {Item(1, 1, 1)}},
   dow: {{Whole}, {Item(2, 3, 1)}, {Item(1, 0, 1)}}]

LateClock == {[hour |-> 1, minute |-> 1]}
ClockSaid ==
  [form: {"in"}, n: {1, 5}, clock: LateClock] \cup [form: {"clock"}, n: {0}, clock: AnyClock]
    \cup [form: {"day"}, n: {0, 1}, clock: LateClock] \cup [form: {"date"}, n: {2}, clock: LateClock]

Components == {"egress", "browse", "calls", "plugins", "connection", "calendar", "providers"}
Start ==
  /\ which \in Components
  /\ Init /\ B!Init /\ K!Init /\ G!Init /\ W!Init /\ C!Init /\ V!Init
  /\ which # "connection" => predecessor = W!NoLock
  /\ which # "calendar" => zone = Change(0, 4, 2 * ADay + 4) /\ spec.kind = "once" /\ spec.said = [form |-> "in", n |-> 1, clock |-> [hour |-> 1, minute |-> 1]] /\ from = 20

Step ==
  \/ which = "egress" /\ Next /\ UNCHANGED <<which, BVars, KVars, GVars, WVars, CVars, VVars>>
  \/ which = "browse" /\ B!Next /\ UNCHANGED <<which, egressVars, KVars, GVars, WVars, CVars, VVars>>
  \/ which = "calls" /\ K!Next /\ UNCHANGED <<which, egressVars, BVars, GVars, WVars, CVars, VVars>>
  \/ which = "plugins" /\ G!Next /\ UNCHANGED <<which, egressVars, BVars, KVars, WVars, CVars, VVars>>
  \/ which = "connection" /\ W!Next /\ UNCHANGED <<which, egressVars, BVars, KVars, GVars, CVars, VVars>>
  \/ which = "calendar" /\ C!Next /\ UNCHANGED <<which, egressVars, BVars, KVars, GVars, WVars, VVars>>
  \/ which = "providers" /\ V!Next /\ UNCHANGED <<which, egressVars, BVars, KVars, GVars, WVars, CVars>>

\* What goes on by itself, whichever the part.
Onward ==
  \/ which = "egress" /\ Progress /\ UNCHANGED <<which, BVars, KVars, GVars, WVars, CVars, VVars>>
  \/ which = "browse" /\ B!Progress /\ UNCHANGED <<which, egressVars, KVars, GVars, WVars, CVars, VVars>>
  \/ which = "calls" /\ K!Progress /\ UNCHANGED <<which, egressVars, BVars, GVars, WVars, CVars, VVars>>
  \/ which = "connection" /\ W!Progress /\ UNCHANGED <<which, egressVars, BVars, KVars, GVars, CVars, VVars>>
  \/ which = "calendar" /\ C!Progress /\ UNCHANGED <<which, egressVars, BVars, KVars, GVars, WVars, VVars>>
  \/ which = "providers" /\ V!Progress /\ UNCHANGED <<which, egressVars, BVars, KVars, GVars, WVars, CVars>>

Sum ==
  /\ Start /\ [][Step]_<<which, egressVars, BVars, KVars, GVars, WVars, CVars, VVars>>
  /\ WF_<<which, egressVars, BVars, KVars, GVars, WVars, CVars, VVars>>(Onward)
  /\ G!Fairness

----------------------------------------------------------------------------
\* The state of each part has its shape.
Types ==
  CASE which = "egress" -> TypeOK
    [] which = "browse" -> B!TypeOK
    [] which = "calls" -> K!TypeOK /\ K!TakenWhileHeard
    [] which = "plugins" -> G!TypeOK
    [] which = "connection" -> W!TypeOK
    [] which = "calendar" -> C!TypeOK
    [] OTHER -> V!TypeOK

\* Providers: no more is bought than the day's allowance, and whatever becomes of a
\* use the words of it arrive.
PaidUsesHold == which = "providers" => V!BoughtWithinTheAllowance /\ V!WordsAlwaysArrive

\* Browse: an answer that speaks of a picture is found with the picture.
AnswerMeansReady == which = "browse" => B!AnswerMeansReady

\* Browse and Calls: what readPage and callPlugin say of a question is true for good.
ToldTheTruth ==
  /\ which = "browse" => B!Contract!Init
  /\ which = "calls" => K!Contract!Init
  /\ [][/\ which = "browse" => B!Contract!Next \/ UNCHANGED B!Contract!contractVars
        /\ which = "calls" => K!Contract!Next \/ UNCHANGED K!Contract!contractVars]_<<BVars, KVars>>

\* Plugins: once for each externalId, but for one more after a crash or a failed write.
OncePerReceipt == which = "plugins" => G!OncePerReceipt

\* Connection: no message is handed on twice unless the set of those seen was
\* emptied or the bridge restarted.
HandedOnAgainOnlyWhenForgotten == W!HandedOnAgainOnlyWhenForgotten

\* Calendar: a wall time that comes once is fired when the clocks show it, and
\* nothing due is passed over.
ClockIsKept == which = "calendar" => C!FiresOnTheClock /\ C!NothingPassedOver

\* Every tunnel, page and call ends, every action leaves its drop box, the
\* connection comes back, every search for an occurrence ends and so does every
\* paid use.
NothingHangs ==
  []<>(/\ Idle /\ B!Idle /\ K!Idle /\ (G!Idle \/ setting = "off")
       /\ W!Settled /\ V!Idle /\ (which = "calendar" => C!Idle))

=============================================================================
