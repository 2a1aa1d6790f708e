------------------------------ MODULE Dispatcher ------------------------------
(***************************************************************************)
(* Delivery, on the bridge's side: dispatcher.ts, with the disk queue      *)
(* (queue.ts), the handoff files it writes and reads (handoff.ts), the     *)
(* operator's switches (state.ts, control.ts, panel-api.ts) and the        *)
(* watchdog that kicks it (index.ts).                                      *)
(*                                                                         *)
(* The bridge is one JavaScript thread: a handler runs until it awaits.    *)
(* Every action below is one such stretch, except the publication of a     *)
(* turn, which writes several files; there a crash can strike between two  *)
(* writes and nothing else of the bridge runs.                             *)
(*                                                                         *)
(* Time is left out: a timeout may expire at any moment its loop is        *)
(* waiting.  The agent is its status file, which may say anything.         *)
(***************************************************************************)
EXTENDS Integers, Sequences, SequencesExt, FiniteSets

CONSTANTS
  Msg,          \* inbound messages
  Chat,         \* chat keys
  ChatOf,       \* ChatOf[m]: what chats.keyFor makes of m's sender
  Stamp,        \* Stamp[m]: the order of queue file names, <ts>-<id>.json
  MaxBatch,     \* delivery.maxBatch
  MaxFailures,  \* bound on deliver() throwing
  MaxRestarts   \* bound on bridge restarts

ASSUME DispatcherAssumption ==
  /\ ChatOf \in [Msg -> Chat]
  /\ Stamp \in [Msg -> Nat] /\ IsInjective(Stamp)
  /\ IsFiniteSet(Msg) /\ IsFiniteSet(Chat) /\ Chat # {}
  /\ MaxBatch \in Nat \ {0}
  /\ MaxFailures \in Nat /\ MaxRestarts \in Nat

VARIABLES
  seen,       \* messages the transport has given to handle()
  parsing,    \* of those, the ones whose handle() is awaiting parse()
  queue,      \* state/queue: one file per message accepted and not handed over
  pending,    \* pending[c]: the same, in memory, in the order to deliver
  debounces,  \* chats whose debounce timer is running
  ready,      \* chats waiting for a turn, round-robin
  held,       \* state.hold.active, on disk
  stopped,    \* state.stopped, on disk
  pump,       \* where pump() is
  target,     \* chat of the batch in hand
  batch,      \* the batch in hand, from ready.shift() to the end of deliver()
  opened,     \* turns opened; also the id of the last one
  inFlight,   \* inFlight.turnId
  batches,    \* inbound/batches: batches[t] is the file of turn t, if it exists
  current,    \* inbound/current.json
  failures,   \* deliveries that threw
  restarts,   \* bridge restarts
  admitted,   \* history: messages in the order accepted, with the lifetime
  handed      \* history: messages in the order current.json reached them

input == <<seen, parsing>>
lists == <<pending, debounces, ready>>
switches == <<held, stopped>>
work == <<pump, target, batch, opened>>
volume == <<batches, current>>
counters == <<failures, restarts>>
vars == <<input, queue, lists, switches, work, inFlight, volume, counters,
          admitted, handed>>

NoTurn == 0        \* null

(* Where pump() is:
     idle          pumping is false
     waiting       in awaitTurnEnd, between two polls
     taking        past awaitTurnEnd, before ready.shift()
     preparing     in deliver, awaiting the transcriptions
     wroteBatch    in publishTurn, between its two writes
     wrotePointer  in deliver, publishTurn done and inFlight not yet set
     starting      in awaitTurnStart
     backoff       asleep after an error, pumping still true *)
PumpState ==
  {"idle", "waiting", "taking", "preparing", "wroteBatch", "wrotePointer", "starting", "backoff"}

\* Where other handlers of the bridge run: not inside the synchronous part of
\* deliver, nor between the end of awaitTurnEnd and the code that resumes on it.
Yielded == pump \notin {"taking", "wroteBatch", "wrotePointer"}

\* The messages of the turn being delivered that current.json has not reached.
InHand == IF pump \in {"preparing", "wroteBatch"} THEN batch ELSE <<>>

----------------------------------------------------------------------------
(* An operator whose name begins with Mutant is a plausible wrong version of the
   one after it; nothing uses it except a run that shows a property would notice.

   The loop of pump().  It is entered by every kick that finds it idle, and
   re-entered after each turn. *)

\* while (ready.length > 0 || inFlight !== null) { if (isHeld()) return; ... }
\* awaitTurnEnd comes back at once when no turn is in flight.
LoopTop(r, f, h) ==
  CASE h \/ (r = <<>> /\ f = NoTurn) -> "idle"
    [] ~h /\ f # NoTurn -> "waiting"
    [] OTHER -> "taking"

\* void this.pump(): ignored when one is running.
Kick(r, f, h) == IF pump = "idle" THEN LoopTop(r, f, h) ELSE pump

\* if (!ready.includes(chatKey)) ready.push(chatKey)
MakeReady(r, c) == IF Contains(r, c) THEN r ELSE Append(r, c)

\* What finishTurn leaves of the inbound volume: retireBatch removes one file.
Retired(t) == [batches EXCEPT ![t] = <<>>]

FinishTurn ==
  /\ batches' = Retired(inFlight)
  /\ inFlight' = NoTurn

----------------------------------------------------------------------------
(* Messages coming in *)

\* handle(), up to its await of parse().
Arrive(m) ==
  /\ Yielded
  /\ m \notin seen
  /\ seen' = seen \cup {m}
  /\ parsing' = parsing \cup {m}
  /\ UNCHANGED <<queue, lists, switches, work, inFlight, volume, counters, admitted, handed>>

\* handle(), from its await: no socket, nothing a person sent, blocked, refused
\* by the gate or over a limit.  All of these leave delivery alone, and the
\* message is never looked at again.
Refuse(m) ==
  /\ Yielded
  /\ m \in parsing
  /\ parsing' = parsing \ {m}
  /\ UNCHANGED <<seen, queue, lists, switches, work, inFlight, volume, counters, admitted, handed>>

\* handle(), from its await: accepted, queued on disk, debounced.
MutantNotSaved(m) == queue
Saved(m) == queue \cup {m}

Admit(m) ==
  /\ Yielded
  /\ m \in parsing
  /\ ChatOf[m] \notin stopped
  /\ parsing' = parsing \ {m}
  /\ pending' = [pending EXCEPT ![ChatOf[m]] = Append(@, m)]
  /\ queue' = Saved(m)
  /\ debounces' = debounces \cup {ChatOf[m]}
  /\ admitted' = Append(admitted, [msg |-> m, life |-> restarts])
  /\ UNCHANGED <<seen, ready, switches, work, inFlight, volume, counters, handed>>

\* The debounce timer of a chat: ready, and a kick.
Debounced(c) ==
  /\ Yielded
  /\ c \in debounces
  /\ debounces' = debounces \ {c}
  /\ ready' = MakeReady(ready, c)
  /\ pump' = Kick(ready', inFlight, held)
  /\ UNCHANGED <<input, queue, pending, switches, target, batch, opened, inFlight, volume, counters, admitted, handed>>

----------------------------------------------------------------------------
(* pump() and deliver() *)

\* awaitTurnEnd: the agent's status names another turn or none, or turnTimeoutMs
\* has passed.  The status is whatever the agent's file says at this poll.
TurnEnds ==
  /\ pump = "waiting"
  /\ inFlight # NoTurn
  /\ FinishTurn
  /\ pump' = "taking"
  /\ UNCHANGED <<input, queue, lists, switches, target, batch, opened, current, counters,
                 admitted, handed>>

\* all.slice(0, maxBatch), the remainder, and its place in the rotation.
Taken(c) == SubSeq(pending[c], 1, IF Len(pending[c]) < MaxBatch THEN Len(pending[c]) ELSE MaxBatch)
MutantRestOverlaps(c) == SubSeq(pending[c], Len(Taken(c)), Len(pending[c]))
Rest(c) == SubSeq(pending[c], Len(Taken(c)) + 1, Len(pending[c]))

Rotated(c) == IF Rest(c) = <<>> THEN Tail(ready) ELSE Append(Tail(ready), c)

\* pump, once no turn is in flight: the next chat, if it has anything, and
\* deliver as far as its first await.  turns.open() has drawn the turn's id.  A
\* turn stopped while awaitTurnEnd slept is found to be over at its next poll.
MutantTakeAnyway == pump \in {"waiting", "taking"}
TurnOver == pump = "taking" \/ (pump = "waiting" /\ inFlight = NoTurn)

Take ==
  /\ TurnOver
  /\ ready # <<>>
  /\ LET c == Head(ready) IN
       /\ pending[c] # <<>>
       /\ target' = c
       /\ batch' = Taken(c)
       /\ pending' = [pending EXCEPT ![c] = Rest(c)]
       /\ ready' = Rotated(c)
  /\ opened' = opened + 1
  /\ batches' = Append(batches, <<>>)
  /\ pump' = "preparing"
  /\ UNCHANGED <<input, queue, debounces, switches, inFlight, current, counters, admitted, handed>>

\* pump, once no turn is in flight: nobody is ready, or the chat has nothing.
SkipTurn ==
  /\ TurnOver
  /\ ready # <<>> => pending[Head(ready)] = <<>>
  /\ ready' = IF ready = <<>> THEN ready ELSE Tail(ready)
  /\ pump' = LoopTop(ready', inFlight, held)
  /\ UNCHANGED <<input, queue, pending, debounces, switches, target, batch, opened, inFlight,
                 volume, counters, admitted, handed>>

\* deliver() throws: before publishTurn wrote anything, or between its writes.
\* The batch goes back to the front.
Requeued(c) == batch \o pending[c]

DeliverFails ==
  /\ pump \in {"preparing", "wroteBatch"}
  /\ failures < MaxFailures
  /\ failures' = failures + 1
  /\ pending' = [pending EXCEPT ![target] = Requeued(target)]
  /\ ready' = MakeReady(ready, target)
  /\ batch' = <<>>
  /\ pump' = "backoff"
  /\ UNCHANGED <<input, queue, debounces, switches, target, opened, inFlight, volume,
                 restarts, admitted, handed>>

MutantPumpingStays == pump = "backoff" /\ pump' = pump /\ UNCHANGED vars

\* sleep(5000) and return: nothing is pumping until the next kick.
BackoffOver ==
  /\ pump = "backoff"
  /\ pump' = "idle"
  /\ UNCHANGED <<input, queue, lists, switches, target, batch, opened, inFlight, volume,
                 counters, admitted, handed>>

\* publishTurn, first write: the batch file.
WriteBatch ==
  /\ pump = "preparing"
  /\ batches' = [batches EXCEPT ![opened] = batch]
  /\ pump' = "wroteBatch"
  /\ UNCHANGED <<input, queue, lists, switches, target, batch, opened, inFlight, current,
                 counters, admitted, handed>>

\* publishTurn, second write: current.json.  From here the agent may read it.
WritePointer ==
  /\ pump = "wroteBatch"
  /\ current' = opened
  /\ handed' = handed \o [i \in DOMAIN batch |-> [msg |-> batch[i], life |-> restarts]]
  /\ pump' = "wrotePointer"
  /\ UNCHANGED <<input, queue, lists, switches, target, batch, opened, inFlight, batches,
                 counters, admitted>>

\* The rest of deliver up to awaitTurnStart: inFlight, and queue.remove(batch).
Settle ==
  /\ pump = "wrotePointer"
  /\ inFlight' = opened
  /\ queue' = queue \ ToSet(batch)
  /\ batch' = <<>>
  /\ pump' = "starting"
  /\ UNCHANGED <<input, lists, switches, target, opened, volume, counters, admitted, handed>>

\* awaitTurnStart: the agent reports the turn, or thirty seconds pass.  Either
\* way deliver returns and the loop goes round.
Started ==
  /\ pump = "starting"
  /\ pump' = LoopTop(ready, inFlight, held)
  /\ UNCHANGED <<input, queue, lists, switches, target, batch, opened, inFlight, volume,
                 counters, admitted, handed>>

----------------------------------------------------------------------------
(* Kicks, switches, the agent, and the process itself *)

\* The watchdog; also the reconnection of the transport, which asks nothing.
Watchdog ==
  /\ pump = "idle"
  /\ queue # {} \/ inFlight # NoTurn
  /\ pump' = LoopTop(ready, inFlight, held)
  /\ UNCHANGED <<input, queue, lists, switches, target, batch, opened, inFlight, volume,
                 counters, admitted, handed>>

\* !hold
Hold ==
  /\ Yielded
  /\ held' = TRUE
  /\ UNCHANGED <<input, queue, lists, stopped, work, inFlight, volume, counters, admitted, handed>>

\* !release: the flag, and a kick.
Release ==
  /\ Yielded
  /\ held' = FALSE
  /\ pump' = Kick(ready, inFlight, held')
  /\ UNCHANGED <<input, queue, lists, stopped, target, batch, opened, inFlight, volume,
                 counters, admitted, handed>>

\* stopNow: the hold first, then abandonInFlight.
StopNow ==
  /\ Yielded
  /\ held' = TRUE
  /\ IF inFlight # NoTurn THEN FinishTurn ELSE UNCHANGED <<batches, inFlight>>
  /\ UNCHANGED <<input, queue, lists, stopped, work, current, counters, admitted, handed>>

\* stopChat: the flag, then abandonInFlight when the turn is this chat's.
StopChat(c) ==
  /\ Yielded
  /\ stopped' = stopped \cup {c}
  /\ IF inFlight # NoTurn /\ target = c THEN FinishTurn ELSE UNCHANGED <<batches, inFlight>>
  /\ UNCHANGED <<input, queue, lists, held, work, current, counters, admitted, handed>>

StartChat(c) ==
  /\ Yielded
  /\ stopped' = stopped \ {c}
  /\ UNCHANGED <<input, queue, lists, held, work, inFlight, volume, counters, admitted, handed>>

\* The elements of S in the order of their keys, as all() sorts the file names.
InOrderOf(key, S) ==
  CHOOSE s \in SetToSeqs(S) : \A i, j \in DOMAIN s : i < j => key[s[i]] < key[s[j]]

\* What restore() makes of the queue directory: each chat's messages by file name,
\* and the chats by their first.
Restored(c) == InOrderOf(Stamp, {m \in queue' : ChatOf[m] = c})
RestoredChats ==
  LET chats == {ChatOf[m] : m \in queue'} IN
  InOrderOf([c \in chats |-> Stamp[Head(Restored(c))]], chats)

\* The process dies at any moment and is started again: memory is gone, the
\* files are not.  A crash inside queue.remove leaves part of the batch behind.
\* Two seconds later restore() kicks the pump, as the watchdog would.
Restart ==
  /\ restarts < MaxRestarts
  /\ restarts' = restarts + 1
  /\ \/ queue' = queue
     \/ /\ pump = "wrotePointer"
        /\ \E n \in 1..Len(batch) : queue' = queue \ ToSet(SubSeq(batch, 1, n))
  /\ parsing' = {}
  /\ pending' = [c \in Chat |-> Restored(c)]
  /\ ready' = RestoredChats
  /\ debounces' = {}
  /\ batch' = <<>>
  /\ pump' = "idle"
  /\ inFlight' = NoTurn
  /\ UNCHANGED <<seen, switches, target, opened, volume, failures, admitted, handed>>

Next ==
  \/ \E m \in Msg : Arrive(m) \/ Refuse(m) \/ Admit(m)
  \/ \E c \in Chat : Debounced(c) \/ StopChat(c) \/ StartChat(c)
  \/ TurnEnds \/ Take \/ SkipTurn
  \/ DeliverFails \/ BackoffOver \/ WriteBatch \/ WritePointer \/ Settle \/ Started
  \/ Watchdog \/ Hold \/ Release \/ StopNow \/ Restart

Init ==
  /\ seen = {} /\ parsing = {}
  /\ queue = {}
  /\ pending = [c \in Chat |-> <<>>] /\ debounces = {} /\ ready = <<>>
  /\ held = FALSE /\ stopped = {}
  /\ pump = "idle"
  /\ target = (CHOOSE c \in Chat : TRUE)
  /\ batch = <<>> /\ opened = 0
  /\ inFlight = NoTurn
  /\ batches = <<>> /\ current = NoTurn
  /\ failures = 0 /\ restarts = 0
  /\ admitted = <<>> /\ handed = <<>>

Spec == Init /\ [][Next]_vars

\* The code's timers fire and its awaits return.  Nothing is assumed of the
\* agent, of the operator's switches or of the transport.
Fairness ==
  /\ WF_vars(TurnEnds) /\ WF_vars(Take) /\ WF_vars(SkipTurn)
  /\ WF_vars(BackoffOver) /\ WF_vars(WriteBatch) /\ WF_vars(WritePointer)
  /\ WF_vars(Settle) /\ WF_vars(Started) /\ WF_vars(Watchdog)
  /\ \A c \in Chat : WF_vars(Debounced(c))

FairSpec == Spec /\ Fairness

----------------------------------------------------------------------------
(* Properties *)

MsgAt == [msg: Msg, life: 0..MaxRestarts]

\* Every list, flag and file has the shape the code gives it; a chat's list
\* holds messages of that chat, each once.
TypeOK ==
  /\ seen \subseteq Msg /\ parsing \subseteq seen
  /\ queue \subseteq Msg
  /\ pending \in [Chat -> Seq(Msg)] /\ debounces \subseteq Chat /\ ready \in Seq(Chat)
  /\ \A c \in Chat : IsInjective(pending[c]) /\ \A m \in ToSet(pending[c]) : ChatOf[m] = c
  /\ held \in BOOLEAN /\ stopped \subseteq Chat
  /\ pump \in PumpState /\ target \in Chat /\ batch \in Seq(Msg)
  /\ opened \in Nat /\ inFlight \in 0..opened
  /\ batches \in Seq(Seq(Msg)) /\ Len(batches) = opened
  /\ current \in 0..opened
  /\ failures \in 0..MaxFailures /\ restarts \in 0..MaxRestarts
  /\ admitted \in Seq(MsgAt) /\ handed \in Seq(MsgAt)

WasHanded(m) == \E i \in DOMAIN handed : handed[i].msg = m

\* A chat's messages still to be handed over, in the order they will be.
WaitingIn(c) == IF target = c THEN InHand \o pending[c] ELSE pending[c]

\* An accepted message that current.json has not reached yet is in the queue
\* directory, for the next process, and in the lists of this one, for the next
\* turn: across failed deliveries, holds, stops and restarts.
NoMessageForgotten ==
  \A i \in DOMAIN admitted :
    LET m == admitted[i].msg IN
    ~WasHanded(m) => m \in queue /\ m \in ToSet(WaitingIn(ChatOf[m]))

\* A chat with something to deliver is in the rotation or will be put there by
\* its timer, and it holds one place in the rotation, so that no chat is served
\* twice while another waits.
NoStrandedChat ==
  /\ \A c \in Chat : pending[c] # <<>> => c \in ToSet(ready) \cup debounces
  /\ IsInjective(ready)

\* The order of a chat's messages in one process lifetime: what was restored
\* from disk by file name, then what that process accepted, as it did.
IndexOf(m) == CHOOSE i \in DOMAIN admitted : admitted[i].msg = m
QueuedBefore(m, n, life) ==
  LET i == IndexOf(m)
      j == IndexOf(n) IN
  IF admitted[i].life < life /\ admitted[j].life < life THEN Stamp[m] < Stamp[n] ELSE i < j

\* Within one process lifetime a chat's messages reach the agent in order and
\* once each, however its batches were split, failed and put back.
HandedInOrder ==
  \A i, j \in DOMAIN handed :
    i < j /\ handed[i].life = handed[j].life /\ ChatOf[handed[i].msg] = ChatOf[handed[j].msg]
      => QueuedBefore(handed[i].msg, handed[j].msg, handed[i].life)

\* current.json never names a batch file that is not there, from the write of
\* the pointer to the end of its turn, and the turn in flight is the one it names.
PointerHasItsBatch ==
  /\ pump = "wrotePointer" => current = opened
  /\ inFlight # NoTurn => current = inFlight
  /\ pump = "wrotePointer" \/ inFlight # NoTurn => batches[current] # <<>>

\* What waits has its place: no message is forgotten, no chat with a message is
\* left out of the rotation, current.json names a batch that is there, and what is
\* handed over comes in the order of arrival, but for what a crash handed over twice.
QueueIsSound ==
  NoMessageForgotten /\ NoStrandedChat /\ PointerHasItsBatch /\ HandedInOrder

\* What the bridge promises of delivery, whatever happens in between.
Contract == INSTANCE DeliveryContract WITH
  waiting <- [c \in Chat |-> WaitingIn(c)],
  busy <- inFlight # NoTurn \/ pump = "wrotePointer"
KeepsContract == Contract!ContractSpec

WasAdmitted(m) == \E i \in DOMAIN admitted : admitted[i].msg = m

\* Unless delivery is held for ever, every accepted message reaches the agent,
\* though the agent may never report and deliveries may fail.
EveryMessageHandedOver ==
  <>[]~held => \A m \in Msg : WasAdmitted(m) ~> WasHanded(m)

\* Unless delivery is held for ever, every turn ends, so its batch is retired.
EveryTurnEnds ==
  <>[]~held => (inFlight # NoTurn ~> inFlight = NoTurn)

\* control.ts, of !hold: "the agent sees none until `!release`".  No turn is
\* opened for a batch while delivery is held.
HoldStopsDelivery == [][held => opened' = opened]_vars

=============================================================================
