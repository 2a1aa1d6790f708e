# Tulip, in TLA+

Tulip puts one Claude Code session behind a WhatsApp (or Teams) number. These
modules model the parts of it where something can go wrong between two steps:
turns, delivery, the handover to the agent, what the agent sends back, reminders,
limits, the registry of chats, the operator's panel and terminal, and everything
the bridge waits for outside. TLC checks them on small instances; TLAPS proves,
for every instance, each invariant and action property the passing runs check.

Every module parses with SANY alone. `tlc -config X.cfg M` runs a model, the pairs
of M and X are in `PROJECT.json` and in the table of runs; `tlapm M.tla` checks the proofs of a `...Proofs` module.

## The system

Four processes in containers of their own:

- the **bridge** (`bridge/src`): the only one with a WhatsApp socket. One
  JavaScript thread, so a handler runs alone until it awaits, and anything may
  run at an await;
- the **agent** (`agent/src`): a supervisor, a tmux server, one Claude Code
  session that answers every chat, two hooks and the command line `tulip-wa`;
- the **browser** (`browser/src`), which opens pages for the agent;
- the **egress** proxies (`egress/src`), the only way out of the other two.

The bridge and the agent share two directories and nothing else. The bridge
writes `inbound` (`current.json`, `batches/`, `terminal.json`), the agent writes
`outbound` (`actions/`, `status.json`, `screen.json`). Each file is written
atomically by one side and polled by the other. There is no message, no
acknowledgement and no lock. The browser and the plugins are asked in the same way.

    WhatsApp -> handle -> queue -> pump -> publishTurn -> current.json
                                                             |
               finishTurn <- status.json <- supervisor <-----+
                                               | prompt
    WhatsApp <- Outbox.perform <- actions/ <- session, hooks, tulip-wa

## Inventory

| Component | State | Operations | What is hard | Module |
|---|---|---|---|---|
| Turn registry, `turns.ts` | live turns in memory; `current.json` | open, adopt, close, resolve, countSend, countTool, evict | a restart adopts what the pointer names; actions come after their turn closed; eviction | Turns |
| Dispatcher, `dispatcher.ts`, `queue.ts`, `handoff.ts` | pending lists, debounces, rotation, the turn in flight; queue and batches on disk | handle, debounce, pump, deliver, finishTurn, abandonInFlight, restore | awaits in the middle of all of them, crashes between two files, hold and stop read early | Dispatcher |
| Supervisor and hooks, `supervisor.ts`, `hooks/`, `workspace.ts` | `lastTurnId`, `busyTurn`, `.turn`, `.markers` | runTurn, sendPrompt, waitForTurnEnd, abandonTurn; the two hooks | two sides that time each other out by files; one session for every chat | Handover |
| Verbs, `wa-cli.ts`, `outbox.ts` | actions and answers of one turn, the marker that it spoke, the switches | queue, await an answer, perform, relay | answers that are lost or late; verbs that say nothing and mark the turn | Verbs |
| Outbox, `outbox.ts`, `sent.ts` | `actions/`, attempts and calls in memory, `sent.json` | drain, perform, answer, refuse; record, nth, retracted | retries, budgets, random order, positions that move, crashes after the send | Outbox, Operator |
| Schedule, `schedule.ts` | `schedule.json` | create, cancel, tick, fire, advance | the whole file is read, awaited over, and written back | Scheduler |
| Calendar, `shared/src/schedule.ts` | none | nextOccurrence, cron, times in words | clocks put forward and back; dates that never come | Calendar |
| Limiter and ledger, `ratelimit.ts`, `spend.ts` | a record per chat, first contacts, flushed; the ledger | admitMessage, spendTurn, admitOutbound, refill, flush; claim | callers pass a time they read before they awaited; midnight, the hour, restarts | Limits |
| Registry of chats, `chats.ts`, `contacts.ts` | a record per identifier, in memory and flushed | keyFor, canonical, syncContacts, setBlocked | one person under several identifiers, in any order | Chats |
| Operator terminal, `panel-api.ts`, `terminal.ts`, `supervisor.ts` | a journal of keys, an aim, the number of the last key typed | terminalKeys, terminalWatch, stopNow, sendToChat, serveTerminal | a poll that overlaps itself, two restarts, a window that closes | Terminal, Rooms |
| Commands and gate, `control.ts`, `gate.ts`, `state.ts` | hold, stopped chats, generation | handleControl, gate, the panel's switches | who may do what in which chat; writes that fail | Control, Dispatcher |
| Session pool, `sessions.ts`, `claude-config.ts` | the live sessions, tmux windows | acquire, reset, makeRoom, reap | a timer beside an await; windows that die | Sessions |
| Memory and persona, `memory.ts`, `memory-delta.ts`, `persona.ts` | notes, the marker, versions | remember, forget, brief, prompt hook | what a session was told, through resets and notes that age out | Memory, Sessions |
| Plugins, `plugins.ts`, `pluginCalls.ts` | drop boxes, receipts; calls and answers | the pass, callPlugin, awaitAnswer | receipts that cannot be written; late answers | Plugins, Calls |
| Page reading, `browse.ts`, `browser/src` | request and answer files, one page open | readPage, the worker, sweeps | a deadline on each side, pictures before words | Browse |
| Egress, `egress/src` | tunnels open | CONNECT, resolve, dial, release | a limit read before a wait and counted after it; four ends of a tunnel | Egress |
| Connection, `whatsapp.ts`, `transport.ts` | lock, socket, ids seen, reconnect timer | connect, scheduleReconnect, upsert | redelivery, two sockets, a lock left behind | Connection |
| Teams, `teams/` | keys, ids seen, reference, token | post, verify, emit, send | keys that rotate while requests wait for them | Teams |
| Pages and apps, `pages.ts`, `apps.ts` | page directories, markers, settings twice; a listing | page verbs, panel requests, visits; list, label | settings in memory and on disk; a listing in flight when a label changes | Pages, Apps |
| Panel, `panel.ts`, `access.ts`, `privacy.ts` | keys, failed attempts, privacy rules | authenticate, throttle, serve | rules and keys that change under a waiting request | Panel |
| Paid providers, `minimax.ts`, `apimart.ts`, `exa.ts`, `voice.ts`, `transcribe.ts` | uses in hand, the ledger | claim, ask, retry, fall back | charged before the answer, several keys, retries | Providers |
| Configuration, boot, watchdog, `config.ts`, `index.ts` | the settings | boot, the timers, shutdown | what a boot restores, in which order | parts of Turns, Dispatcher, Limits, Pages |
| Shared contracts, `shared/src` | none | the shapes of the files | none of its own | Handover, Verbs |
| Feed, history, transcript | append-only files | append, read | no state a later step depends on | none |
| Command line, MCP and document tools of the agent | none | translation into the same actions | none of its own | none |

## The modules

An operator whose name begins with `Mutant` is a plausible wrong version of the
operator after it. No specification uses one; substituting it for its
neighbour breaks the property the pair is listed for.

### Turns

A turn is the agent's only way to reach a chat. `live` is the Map of
`TurnRegistry`, `turn` the records in it, `published` is `current.json`; `Open`,
`Publish`, `Close`, `Send`, `UseTool` and `Restart` are the code's operations,
`Restart` with the adoption in `index.ts`. `history` records what was done to each
turn over all the processes. A turn keeps to its allowance within the process
that opened it, the newest turn is not evicted while its TTL runs, no turn speaks
later than its TTL, and a turn this process closed is silent after its grace.

### DeliveryContract, Dispatcher

`DeliveryContract` is what is promised to a message that was accepted: it is
handed over in its chat's order, in batches of at most `maxBatch`, one turn at a
time over all chats, and a restart may repeat and loses nothing that waits.
`Dispatcher` is the code: `pump` is where the one pump stands, each await of
`deliver` and `publishTurn` is a state of its own, and a crash may strike between
any two. `KeepsContract` is the refinement: `waiting` is what `pending` holds and what
is in hand before the pointer names it, and a turn is busy from the write of
`current.json`. `QueueIsSound` is the part a test hardly reaches: a message not yet handed
over is on disk and in its chat's list, its chat has one place in the rotation or a
timer, `current.json` names a batch that is there, and one process hands a chat's
messages over in the order of their stamps.

### Handover

One turn seen from both sides: the bridge publishes and decides that it is over;
the supervisor receives, prompts, watches, abandons; the session accepts prompts,
speaks and runs its hooks; `.turn` and the markers are all that binds them. Time
counts in units of the bridge's wait for a start; `Tick` happens only when
nothing shorter is left to do, so the order of the code's timeouts is kept. The
session is free: it may accept a prompt late, never finish, and (with
`Stragglers`) leave a process that speaks later. `HandoverIsSafe` joins

- `RepliesAreStampedWithTheirTurn`: every answer bears the turn it answers, unless
  it is a straggler's or the container restarted;
- `RelayIsSafe`: unsent words are relayed only into a direct message, and until a
  restart of the container only into the one they were meant for;
- `GivenUpOnlyBehindAnother`: the bridge ends a turn nobody read, and deletes its
  batch, only if the supervisor was held by an earlier turn for the whole wait
  (`held`). That this happens at all is a limit named below.

`SupervisorComesBack` holds whatever the session does.

### Verbs, AskContract

`AskContract` is what is promised of a question put to another process through a
directory: it ends once; as answered only if the other side took it; and when the
words are that nothing was asked, the other side never takes it. Verbs, Browse and
Calls are refinements of it. `Verbs` is one turn of the agent's command line, every kind of
action, with the operator's switches flipped at any moment, actions lost and retried,
and answers the agent stopped waiting for. A turn may be a peer agent's answer (`closed`): its
exchange is over and a text in it is refused (`ExchangeClosed`). Apart from the contract, it says when a
direct message that ends in prose may stay in silence.

### Outbox

One turn in one chat, within one hour. The agent asks for actions under names in
any order (they are random UUIDs), `Drain` reads the directory, `Perform` takes
an action to its first await, and `Done` or `Throws` is how the transport comes back.
`store` is what `sent.ts` remembers and `view` what the agent counts back
through when it says "edit 2". `DoneOnceOrReported` says that a message is delivered
once, and once more only for a crash between the transport and the removal; that
nothing leaves the directory unaccounted for; and that a correction reaches what was
meant (`meant`) if nothing was asked or said since the agent listed (`sure`), through
retries and crashes. A send may throw every time; `TriedInVain` says that in one life
of the process nothing is tried again once it has thrown `MaxAttempts` times.
`EveryActionLeaves` is the liveness: a message that fails for ever does not keep the
others from leaving.

### Operator

What the operator says, rewords and retracts from the panel in one conversation, beside
the agent's own corrections, each awaiting the network. The record of a message
agrees with the phones once nothing is under way for it, unless two corrections of
it overlapped or the connection was lost during one.

### Scheduler, Calendar

`createSchedule` and `cancelSchedule` read and write the file in one go; a pass
(`Tick`, `Fire`, `BeginSend`, `SendOk`, `SendThrows`, `EndPass`) awaits a send for
each due entry and writes back what it read. `Yields` keeps to the one thread:
whoever else runs does so only while a send is awaited. `during` remembers which
entries were asked for or called off while a pass was awaiting. An occurrence is sent
once, and once more for each fault; what was asked between passes is kept, or
reported as missed or failed; a cancelled reminder stays silent.

`Calendar` is the search for the next occurrence as functions on a small calendar with
short hours, days and months and zones whose clocks change once, by any step, checked against
a search of every instant: a wall time that comes once is fired when the clocks show
it (`FiresOnTheClock`), nothing due is passed over (`NothingPassedOver`), and the search for
a date that never comes ends. Both hold in every zone. The second names what the code's
correction of an offset makes of a change that is not by one hour on the hour
(`OneHour`): a time skipped is resolved past minutes that follow the change
by less than it, and an occurrence in those may be passed over (`Overtaken`).

### Limits

The limiter and the ledger, with the calls made of them. The methods take the time
as a parameter, and the callers read it before they await, so a call carries its
own time (`heard`, `taken.t`, `sweep`), at most `Lag` old. `LimitsHold` says that the
rate, the end of the day's budget, the window of strangers, the hour's allowance
and the paid uses hold. A crash forgets what was not flushed, and the history
forgets it with it. A use is paid for whether or not the ledger could be written; the
ceiling is one more for each use a restart forgot because no write has gone
through since (`lost`). `back` is the set of chats whose record met a time earlier than
its own: its clock runs backwards and the same minutes are restored twice, so the
rate, the budget and the hour are claimed of the other chats only, and without that
exception TLC finds each of them broken.

### Chats

Messages come under a number, a linked id, or both; `keyFor` decides which record
they land on and merges two records when it learns they are one person. `handle`
takes the key (`TakeKey`), awaits the parse, and files the message under the key it took
(`File`), unless that leads to a blocked record; other messages, blocks and contact
lists come in the wait. `Forms` is what the network may send: a linked id with either of
two numbers, or without. A flush may fail, and a crash then goes back to what
was written last. No chain of merged records forms, in memory or on disk. A message is
filed under a superseded record only if its linked id was given a number while
it was parsed (`overtaken`), or has had two. Once every identifier of a person is known and
each record they lead to is barred (`shut`), none of their messages is let in by any
identifier until an operator unblocks one (`heard` stays empty). `barred` is what the operator
last said, `written` what the file has of it: a crash forgets a block whose write failed.

### Terminal, Rooms

The bridge keeps the last `KEY_WINDOW` keys and a count, the supervisor types what is
above the number it remembers. `screen.json` and `AIM_HOLD_MS` are abstracted to
one action, `AimExpires`: either may let go of an aim at any moment. Two calls of
`serveTerminal` may overlap, and either side restarts once. Until they do overlap
(`overlap`) keys are typed in order and once each in a life of the agent; what the agent
skips was typed, crowded out, sent to a window that was not there, or pressed after the
bridge forgot its count; and with a page open every key is settled in one of these ways.

`Rooms` is what the panel does on the strength of a record: leaving a group and typing
into the conversation the agent is on, with the room and the turn going on
meanwhile. A room on record as left is one he is out of, while the connection holds.

### Sessions, Memory

`Sessions` has the pool, the windows of tmux, `acquire` and `reap` with each wait for
tmux a state. The pool loses no window, `reap` takes none from under a turn unless
it was already closing it (`raced`, `cut`), and a turn is answered in the context and
under the persona asked for. `Memory` says of the marker that divides the notes: what is
before it the session knows, what is after it has yet to be told, through
forgetting, ageing and resumed sessions. A start reads the notes twice, to move the marker
(`markMemorySeen`) and then to write the brief (`writeBrief`); a note kept between
(`between`) is in the brief and told again by the next prompt, and none is skipped.

### Pages, Apps, Panel, Control

`Pages` has the settings twice, in the bridge and in the file, and every verb, visit and
panel request. The directory is the agent's to write: `AgentWrites` puts there whatever a
shell can, adding, emptying or removing it with the marker in it. A page taken down is shown to
nobody until an operator restores it or the shell takes the marker away; a page opens only to
the last word that was saved for it; and a restart changes nothing that was not edited by
hand. `Apps` is the shared listing of the boxes. `Panel` is authentication, with keys that are
fetched and rotated, and the privacy rules, which may change while a request awaits
its body: what a judged route serves is allowed by a rule that was in force, and nobody genuine is
refused but for keys that could not be fetched. The routes the code does not judge (`Unjudged`)
are requests like the others, of which nothing is said. `Control` is the operator's commands
and switches: anybody may silence a chat, only an operator undoes it.

### Plugins, Calls, Browse, Egress, Connection, Teams, Providers

What the bridge does with the world outside, each beside failures of the other side:
a plugin's message goes out once for each receipt; a call and a page request keep
`AskContract`, and a page that promises a picture has one; the count of tunnels is true and
the limit is overrun by no more than what was waiting; a message is handed on twice
only when the set of those seen was emptied or the bridge restarted; a Teams
reply goes where a signed token vouched for, under a token that lives; no more
is bought than the day's allowance, and the words of a voice note arrive.

## The runs

Six runs check several parts at once. Their module (`MCTurn`, `MCAgent`, `MCPasses`, `MCTimers`,
`MCOutside`, `MCDesk`) extends one part and instances the others; `which` is chosen
by `Init` and never changes, the next-state relation is that part's, and all the others
stand still. A behaviour is one of a single part: nothing is claimed of two
parts together, and the states of a run are the sum, not the product, of its parts'. Each
property of a run says of which part it speaks. `Types` joins the type invariants.

| Run | Model | Parts | Properties |
|---|---|---|---|
| `dispatcher` | MCDispatcher | Dispatcher against DeliveryContract: three messages of two chats | QueueIsSound, KeepsContract |
| `turn` | MCTurn | Turns, Verbs, Teams | Types, AllowanceIsPerTurn, ClosedTurnFallsSilent, VoiceExpires; SilenceHasAReason, ToldTheTruth (Verbs keeps AskContract); TeamsIsSound |
| `agent` | MCAgent | Handover, Sessions, Memory, Apps, Operator, Rooms | Types, HandoverIsSafe, PoolKeepsTrack, MarkerDividesMemory, RecordsAreTrue; AgentComesBack |
| `passes` | MCPasses | Outbox, Dispatcher | Types, DoneOnceOrReported; EveryPassEnds, EveryMessageHandedOver (liveness of both) |
| `timers` | MCTimers | Scheduler, Terminal | Types, RemindersHold, TypedInOrder; TimersCatchUp |
| `limits` | MCLimits | Limits | TypeOK, LimitsHold |
| `outside` | MCOutside | Egress, Browse, Calls, Plugins, Connection, Calendar, Providers | Types, TunnelsHold, PaidUsesHold, AnswerMeansReady, OncePerReceipt, ClockIsKept; ToldTheTruth (Browse and Calls keep AskContract), HandedOnAgainOnlyWhenForgotten; NothingHangs |
| `desk` | MCDesk | Chats, Panel, Pages, Control | Types, BlockHoldsOnceMerged, MessagesGoToTheSurvivor, PanelIsFair; PagesAreAsSaid, SilenceIsTheOperatorsToLift |

## Where the code and its comments disagree

Four runs end in a violation, each of a sentence of the repository:

| Run | Model | What the text says | What happens |
|---|---|---|---|
| `delivery_hold` | MCDispatcher, HoldStopsDelivery | after `!hold` the agent sees nothing until `!release` | a hold set while the pump is in `awaitTurnEnd` lets it open one more turn, and `stopNow` ends that wait itself |
| `reminder_lost` | MCScheduler, EveryPromiseIsAccountedFor | nothing is ever silently dropped | a reminder created while a send is awaited is overwritten |
| `verb_silence` | MCVerbs, NeverQuietByAccident | a conversation can never go quiet by accident | a turn whose only verb asks for something marks itself as one that spoke, and its prose is not relayed |
| `typed_elsewhere` | MCRooms, TypedIntoItsTurn | you may only type into the conversation the agent is actually on | a line accepted for one turn is typed at the agent's next poll, into the next turn |

Disagreements met on the way that no run shows, because a model of them would state
nothing more than the line itself:

- a linked id that comes with a new, unknown number is filed under its own superseded
  record (`chats.ts:177-183`), and so is a message whose record is superseded while it is parsed
  (`dispatcher.ts:238`, `:376`), against `chats.ts:66-71` and `:225-226`; the property about survivors
  names both;
- the brief and the marker are two reads of the notes (`workspace.ts:180`, `:193`), against
  the comment that they are written together so that they cannot disagree (`:175-179`); a note
  kept between is told twice, none is skipped;
- once a peer has answered, only a text is refused: a file, a voice note, a picture or a
  `sendTo` still goes into that chat (`outbox.ts:715` is in `case 'text'` alone), against
  `peers.ts:125-128` and `outbox.ts:712-714`, and a turn that a restart adopts is no
  longer known to be an answer, against `peers.ts:121-123`;
- the panel's routes that take their conversation from the body (`panel.ts:621`, `:657`, `:705`)
  and its streams of the feed (`:1009`, `:1119`) are not judged by the privacy rules, against
  `panel.ts:460-465` and the comment on another route at `:638-641`; and anybody with a name may claim
  privacy over its owner, against `:882-887`. `PanelIsFair` is about the routes that are judged;
- the agent is told "Password set" when the save failed and the word before is still in force
  (`outbox.ts:1043-1055`), and `page publish` never refuses for a limit of pages: it changes nothing;
- west of Greenwich a wall time the clocks skip is fired an hour early
  (`shared/src/schedule.ts:27-35`, `:176-181`); where they are put forward at midnight (Havana,
  Santiago, Asunción) a bare time said within the hour before, such as 00:30, so resolves to the
  past and never fires; and where they move by half an hour or by two (Lord Howe, Troll) or
  across Greenwich, an occurrence may be passed over. `NothingPassedOver` names these cases;
- a verb that reads another conversation goes through the switch for writing into it, and
  is dropped unanswered while that is off (`outbox.ts:675`, against `config.ts:342`);
- a leave refused on a dropped connection marks the room as left (`panel-api.ts:1445`, since
  `isInGroup` is false on any error, against `membership.ts:36-38`); the property of Rooms
  is claimed while the connection holds;
- a stopped chat's waiting messages are still answered (`dispatcher.ts:315`, against
  `control.ts:204`); and a stop is said to be global (`control.ts:112-115`) while `stopChat`
  is of one chat.

The properties that hold name their exceptions. These are limits of the code too:

- a restart adopts the turn `current.json` names even if it was closed, and with a
  full allowance (`index.ts:96`, `turns.ts:148`);
- the bridge ends a turn after `noAck` while the supervisor is still busy with the one
  before, bringing its session up or watching a marker an Escape left behind
  (`dispatcher.ts:492`, `supervisor.ts:342`);
- a tool process of an abandoned turn that sends after the next `setTurn` is stamped
  with the next turn (`wa-cli.ts:156`); after a restart of the container the old marker of
  the turn being run again confirms a prompt nobody accepted (`supervisor.ts:306`);
- actions are performed in the order of random names, so a correction among others may
  reach another message than was meant (the condition `sure`);
- a reminder cancelled while a send is awaited comes back, and one failed send ends a
  repeating rule (`schedule.ts:460`, `:452`);
- a turn's time or a sweep's, read before an await, turns a record's clock back
  (`ratelimit.ts:156`); what was let in before the day's budget was spent is answered
  past it (`:222`); chats the bridge wrote to first take places in the window of
  strangers (`:135`);
- two ids of one second that share 24 characters share a file of the queue (`queue.ts:31`);
- a linked id without its number gets a record of its own, under which a blocked
  person is heard until the two are merged or it is blocked too (`chats.ts:205`);
- a block whose flush fails is in force until a crash and forgotten by it (`chats.ts:130-138`),
  and an unreadable `chats.json` starts empty (`:116-128`): nobody is blocked;
- requests of the panel keep the rule they were admitted under: a stream or a terminal
  that is open goes on when the rule changes (`panel.ts:428`);
- the agent's shell can put a page back that was taken down (`pages.ts:156-162`);
- two calls of `serveTerminal` that overlap type the same key twice, and a restarted
  bridge counts from zero, so that its next keys are skipped (`supervisor.ts:590`,
  `panel-api.ts:2424`); the Escape of a stop is typed later than it was checked;
- a send is charged before the transport is asked and again at each retry, a voice note or
  picture is bought again at each retry, and a plugin call whose turn has fallen
  silent gets no answer (`outbox.ts:690`, `:657`);
- `tulip-wa call` says NOT DONE also when it stopped waiting; `leaveGroup` says goodbye
  before it finds that it cannot leave; an unsend or a leave may run again after a crash;
- `page publish` answers ok for a page that is taken down, `pageDelete` leaves the password
  and the grants, and a grant edited by hand is dropped by a later save;
- the listing of apps is empty after a label and a failing box; `workspace.ts` marks the notes
  as seen before it finds that it keeps the old brief;
- the bridge's lock is taken over by process id alone, which another process may bear;
- a ledger of paid uses that cannot be written is kept in memory and forgotten by a restart
  (`spend.ts:57-64`), one that cannot be read starts from zero, an unreadable `state.json` from its
  defaults, that is, nothing held.

## Bounds

Every number of the code is a constant of a module. TLC's values keep the
order between them and are the smallest at which the case a property is about
happens: two turns so that one may follow the other, three messages so that one
chat has two and another one, batches of one so that a remainder goes back into the
rotation, a key window of two so that the two keys of a line are held together (none falls out
of it in TLC's instance; the theorem covers those that do), a record of two messages a chat
so that the third pushes the first out, an hour of two ticks and a day of two hours so
that both roll over within four, three connections for one tunnel, three messages seen for a
set of one, two attempts for a message, which may throw for ever, a calendar of two months of two and
three days and zones that move by an hour, half of one, two, and a day. `desk` has one person of
two numbers and a linked id, with two messages at once; the theorems are of any number. Faults (crashes, failed writes,
failed sends, restarts, flipped switches, rotated keys) are bounded by one or two: each
property is about what one of them does to the state the other steps left. Names that begin
with `Max`, and the `Horizon` of Limits, bound the instance and mean nothing in the code, except
`MaxBatch`, `MaxSends`, `MaxTools` and `MaxAttempts`, which are limits of the code, as those in
capitals are; the theorems hold for every value of both kinds. `timers` takes two reminders and one chat; the violation
`reminder_lost` needs no more. Deadlock is not checked where these bounds end every
behaviour, or where the system may rest: nobody writes, nothing is due. Symmetry is used over
turns, chats and people that nothing tells apart, in runs whose temporal properties are action
properties only.

## Fairness

Weak fairness of the timers and polling loops of the code (`setInterval`, the
`for (;;)` of the supervisor, the pump, the watchdog, the outbox's drain, the browser's worker)
and of the awaits that have a timeout. Strong fairness only where a step competes for the one
pass or poll in turn with others (`BeginSend`, `ReadRequest`). Nothing is assumed of a person,
an operator, the network or the session: those may stay silent for ever. In `outside` the
parts but Plugins, which has conditions of its own, have one condition of progress between
them: `Onward` is the progress of the part the behaviour is of.

## Proofs

TLAPS proves, for every value of the constants that the named assumptions of the modules
allow, every invariant and every action property the passing runs check: type correctness,
safety, and the four refinements (Dispatcher of `DeliveryContract`; Verbs, Browse and Calls of
`AskContract`). Each proof has an inductive invariant, a lemma for each action under it, and
combines them by PTL. TLC's runs check the properties, the provers the invariant that makes
them hold; most of the work is in finding it.

| Module | Inductive invariants | Theorems |
|---|---|---|
| TurnProofs | RegistryInv (Turns), VerbsInv, TeamsInv | RegistryInvariant, TypeCorrect, AllowanceHolds, AuthorityDies, VoiceExpiresHolds, ClosedTurnFallsSilentHolds, NewestTurnIsKeptAlways; VerbsInvariant, SilenceHasAReasonAlways, ToldTheTruthAlways; TeamsInvariant, TeamsIsSoundAlways; TypesAlways |
| AgentProofs | IInv (Handover), PoolInv (Sessions), MemoryInv, AppsInv, RoomsInv, OperatorInv | HandoverInvariant, HandoverIsSafeAlways; PoolInvariant, PoolKeepsTrackAlways; MemoryInvariant, MarkerDividesMemoryAlways; RecordsAreTrueAlways; TypesAlways |
| DispatcherProofs | IInv | QueueInvariant, QueueIsSoundAlways, KeepsContractAlways |
| PassesProofs | IInv (Outbox), and that of DispatcherProofs | TypesHold, DoneOnceOrReportedAlways; TypesAlways |
| TimersProofs | IInv (Scheduler), KeysInv (Terminal) | ReminderInvariant, TypesHold, RemindersHoldAlways; KeysInvariant, TypedInOrderAlways; TypesAlways |
| LimitsProofs | IInv | RecordsAgree, TypesHold, LimitsAlwaysHold |
| DeskProofs | RegistryInv and SurvivorInv (Chats), PanelInv, PagesInv, ControlInv | RegistryInvariant, TypesHold, NoChainForms, BlockHoldsAfterMerging, SurvivorGetsTheMessage; PanelInvariant, PanelIsFairAlways; PagesInvariant, PagesAreAsSaidAlways; ControlInvariant, SilenceIsTheOperatorsAlways; TypesAlways |
| OutsideProofs | IInv (Egress), BrowseInv, CallsInv, PluginsInv, ConnectionInv, CalendarInv, ProvidersInv | ProxyInvariant, TunnelsHoldAlways; BrowseInvariant, AnswerMeansReadyAlways; CallsInvariant, ToldTheTruthAlways; PluginsInvariant, OncePerReceiptAlways; ConnectionInvariant, HandedOnAgainAlways; CalendarInvariant, FiresOnTheClockAlways, ClockIsKeptAlways; ProvidersInvariant, PaidUsesHoldAlways; TypesAlways |

A theorem about the module a run's model extends is of its `Spec`; one about another part, or
about several, is of the model's `Sum`. The lemma `Behaviours` of such a proof module shows that
a behaviour of the sum is, of each part, one of that part's `Init /\ [][Next]` while it is the one
chosen, and stands still otherwise; so an invariant of a part is one of the sum. `PassesProofs`
instantiates `DispatcherProofs` rather than repeat it.

What each invariant adds to the properties, and why it is needed:

- **Turns.** The properties are about what happened to a turn over all the processes, which
  the registry does not remember; so the invariant ties each live record to its history,
  says that turns were issued in the order of the processes that issued them, and that
  the pointer names a turn that was really published with the time it was published. That the
  newest turn is kept needs the order in which the Map inserts to be that of issue.
- **Verbs.** `Consistent`: action, answer, effect and report of a verb agree. `PlainIsHeard` and
  `SpokeWithReason` say what an action that left, and the marker that the turn spoke, are
  evidence of: a plain verb that left was heard, dropped for a reason or refused because its
  exchange is closed; `ProseRelayed`, that prose at the end is relayed unless something spoke.
- **Teams.** `ForcedAccounted`: if a fetch of keys was forced, it is under way, or failed, or the
  newest keys came, or a later change excuses it; a post that waits has no key older than its own
  (`PostsAreSound`). `TokenIsSound`: a token in hand is dated no later than it lasts, so none
  expires between the look at the clock and the send.
- **Handover.** `InOrder`: turns are received in the order of their publication. `Grounds`: what
  the bridge concludes from a status was so, which is why a turn is given up only behind another.
  `OneTurnAtATime`: until a restart nothing is in the prompt box or at work but the turn the
  supervisor runs, for each step of the supervisor; from it the stamps are right. That the
  marker of the fallback only ever names a direct message (in `InOrder`) keeps a
  relay out of every group, through restarts too.
- **Sessions.** `OneWindow`: unless `reap` came back after `acquire` had gone on (`late`), the
  only window is that of the session on record. `Answering`: the session in hand has the context
  asked for and a brief that was in force since the turn began. `Uncut`: a session under a turn
  is closed only if `reap` had chosen it first.
- **Memory.** Notes ascend in their numbers, and `Divided`: those up to the marker were in the
  brief, told or skipped; those above were not told, and are in the brief only if kept between the
  two reads. `KeptSince` says of the time between them that what is above the marker was kept in
  it, or was never told. The proof rests on lemmas about
  removal from, and selection within, an ascending sequence.
- **Apps, Rooms.** A listing in flight is counted; a room recorded as left is one he is out of, and a
  line waiting to be typed was accepted for a turn that was open (`PromptSound`).
- **Operator.** A correction awaits the network while others run, so the invariant says what is
  half-way: only a message that was said is on record (`KnownIsSaid`), one that has landed and is not yet
  recorded is nobody's to correct (`LandedIsNew`), one hand at a time corrects a
  message unless two crossed (`OneCorrects`), and when none does, record and phone
  agree (`SettledAgrees`).
- **Dispatcher.** Beside `QueueIsSound`: what the pump has in hand is a batch that may be delivered
  (`HandIsFull`), a message is accepted once, every list is in the order of its stamps, and
  the batch that is in flight was handed over. `restore` sorts what is on disk, so the
  proof rests on a lemma that what it sorts comes out complete and in order. The refinement
  is step by step: each action maps to one of the contract or to none, a restart to
  its `Restart`.
- **Outbox.** `Shape`; `Once`: an action still on disk was taken by the transport no more often
  than there were crashes, except the one it took just now, which is what makes one repetition
  a crash; `NothingVanishes`; and `Aimed`: a correction the agent is sure of is alone in
  the outbox, and its position still resolves to what was meant, so that a retry and a
  restart find the same message.
- **Scheduler.** The copy a running pass reads is as good as the file, and until the pass has
  something to write the file is. Of both: what is still to come of an entry was sent only
  as often as faults account for (`Fresh`), and what was asked between passes is accounted
  for (`Kept`). An entry the pass has fired and not yet written is the reason for `Unwritten`.
- **Terminal.** Numbers of keys shift against the keys themselves when the bridge forgets its
  count, so the invariant bounds the shift of everything written and read (`Aligned`: no later copy
  has a smaller one than an earlier). `OneCall`: unless two calls overlap there is one, and what
  it types is new. `Behind`: nothing typed is above a key still to be typed. `NothingSkipped`: until the
  bridge restarts, every key before the first one held anywhere is settled.
- **Limits.** Of the records in memory and of those on file alike, since a crash puts one in
  place of the other and the history with it: a record is of the day and hour it was last
  refilled in (`Clocked`), counts the turns and messages of them (`Tallied`), and what was let
  in since any message and what the bucket still holds are no more than a burst and what was
  restored (`Metered`). Add that the window of strangers holds every newcomer of
  the last hour, and that the ledger in memory counts the paid uses of its day, and the one on file
  those it was last written with (`Audited`), both but for what restarts forgot.
- **Chats.** `NoChain` is not inductive: a record on disk must be as sound as the one in memory
  since a crash swaps them, and a merge keeps to one person only if merges already did:
  `Sound` says both. `OnTheirWay`: the key a message took stays on record and its sender's, whatever
  is merged while it is parsed. `Barred`: what an operator barred is blocked in memory, what was
  barred at the last write is on disk, and who is shut out is so by every record. For the
  survivor, `ByNumber`: a record is superseded only by a number its linked id came with.
- **Panel.** A request that awaits its body was let in under a rule that was in force when it
  was judged, and the keys fetched for it are none older than its own (`RequestsSound`);
  one that is not judged is held to nothing (`Given`).
  `TriesLeft`: the failed attempts within a window and the requests still to be judged are together
  fewer than the limit and the requests there can be at once.
- **Pages.** A page said to be down has its marker, whatever the shell did since
  (`TakenDownIsDown`); the word in force is the last that was saved (`WordIsTheWord`); and the file
  has what is running unless a hand edited it (`FileAgrees`), since a restart reads one in place
  of the other.
- **Control.** The file has the switches unless the last write of it failed; none was lifted by
  anybody but an operator; no report is under way in a room.
- **Egress.** A tunnel is released only once it was open, a name was judged before it was
  resolved, and the count is the number of tunnels: so neither of four events that end a
  tunnel counts it twice. `resolveSafely` is shown to return a public address or none.
- **Browse, Calls.** Of each question: its files, its place in the line of calls and the step of
  the worker agree (`LineIsSound`, `BrowserIsSound`, `AskIsSound`); what was asked, taken up and
  concluded of a call agree. The refinements of `AskContract` follow action by action.
- **Plugins, Connection.** A message was handed out no more often than its faults excuse, and once
  more if a receipt is due. At most one of a socket that is alive, one being opened and
  one waited for exists (`SocketInv`); a message handed on is in the set of those seen unless that was
  emptied since (`KnownInv`).
- **Providers.** `WithinTheDay`: what was bought is at most what was claimed, and that at most the
  day's allowance. `WordsArrive`: how a use may end, by its kind and by what the last key said.
- **Calendar.** `Searched`: every wall time the search has been past that matches was due by the
  start. Its step lemmas are about `div` and `%` on a calendar of any size, about what a wall
  time resolves to across one change of the clocks by any step, where it resolves to more than one
  (`OnlyInTheJump`), and about what `parseWhen` makes of a bare time.

Several properties could not be proved as first stated, and the model or the statement was
corrected:

- Providers: with three keys a search could end in an error though the last key had only said "not
  now"; a crash must forget what an earlier key said, as the code's local variable does;
- Panel, Teams: after two changes of keys a request signed with a key since retired is
  refused, which neither can help: the excuse names retired keys;
- Memory, Sessions: `MarkerDividesMemory` and `PoolKeepsTrack` said less than their comments,
  and say it now;
- Calendar: `NothingPassedOver` is false without `Overtaken` in the zones named above;
- Limits: a ledger whose write failed forgets what was paid for, so the ceiling counts it;
- Teams: a token must outlive the moment it takes to use it, now an assumption.

What the theorems assume. The assumptions named in the modules (`TurnsAssumption`,
`DispatcherAssumption`, ...), and those a sum makes of its parts: `PartsAssumption` (MCTurn),
`AgentAssumption`, `PassesAssumption`, `KeysAssumption` (MCTimers), `OutsideAssumption`,
`DeskAssumption`. Numbers are natural, where the code divides or indexes they are positive, sets
that are counted are finite, the value that stands for "none" is none of the others, and of the
code: stamps of messages differ (`Dispatcher`; ids carry a time and a random part), a
linked id and a number it comes with are one person's (`Chats`). TLC evaluates each of them.
Two theorems have a hypothesis of their own, `ToldTheTruthAlways` of OutsideProofs and
`CallsInvariant`: that the bridge may delete in `answers/` (`Foreign = FALSE`).

Only model-checked, and why:

- what must happen in the end (fairness and ENABLED are out of the prover's reach):
  EveryPassEnds, EveryMessageHandedOver, AgentComesBack, TimersCatchUp, NothingHangs;
- the sentences of the four violation runs, which the code refutes;
- what `SelectSeq` selects from every sequence, which takes induction over data: the theorem of
  Outbox shows instead that what it selects from has not changed since the agent listed it.

## What is assumed

- An atomic write (`shared/src/atomic.ts`) is one step, and the queue's writes
  succeed: the code logs a failed one and goes on.
- WhatsApp's client settles each send: `sendText` returns or throws. A send that throws
  delivered nothing in Outbox and Verbs; in Operator a lost connection may leave either.
- Claude Code: Escape clears a prompt that was typed and not accepted and
  interrupts a turn; its Stop hook does not run for an interrupted turn.
- A tmux command that fails is swallowed, as the code does, and changes nothing.
- Chat keys are one-to-one with identifiers (a hash), turn ids are fresh (UUIDs).
- A finished entry of the schedule is not pruned: `KEEP_FINISHED` is larger than the
  instance.
- The record of what was sent is written whenever it changes: a failed write of `sent.json` is
  logged and passed over (`sent.ts:103`), and a crash after it would move the positions the agent counts.
- In Verbs, performing an action is one step with respect to a crash; the crash between
  the transport and the removal is Outbox's.
- How long a reconnection waits is left out; that it is tried again is not.

## Not modelled, and why

- Feed, history and transcript: append-only files, read by nobody who decides anything.
- Parsing and wording: envelopes, manifests, the brief, the prompts, the configuration.
- `mcp-tools.ts`, `doc-read.ts`, `usage.ts`: translation of arguments into the actions modelled.
- Labels and privacy marks of chats, the pairing of peers, the proxied terminal of a browser,
  resizing of images, extraction of a page's text: data the other steps do not look at.
- The panel's own client (`assets/`): it runs in the operator's browser.

## Plan

The parts, their runs and their proofs are as above. What would say more about the system:

1. That a turn is charged for all it sends (Outbox), and that no pass of Scheduler sends
   before an entry is due, as properties and theorems of their own.
2. Composition of Turns with Outbox and Dispatcher, so that a reply is resolved under the
   registry that Dispatcher opens and closes.
3. That the agent is told what became of a page's password, and which requests of the panel a
   change of the rules should end: the code promises neither.
