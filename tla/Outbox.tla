------------------------------- MODULE Outbox -------------------------------
(***************************************************************************)
(* The outbox (bridge/src/outbox.ts, sent.ts): the agent leaves one file   *)
(* per action on the shared volume and a timer drains them, one at a time  *)
(* and in the order of their names, which are random UUIDs.  An action     *)
(* spends its turn's allowance and the destination's hourly rate, awaits   *)
(* the transport, and is retried when that throws.  A correction names a   *)
(* message by its position among the latest said in the chat.              *)
(*                                                                         *)
(* One turn in chat Home, within one hour.  A name is a number: 1 sorts    *)
(* first, and the agent draws them in any order.  A message bears the name *)
(* of the action that sent it; the operator's are numbered apart.          *)
(***************************************************************************)
EXTENDS Naturals, FiniteSets, SequencesExt

CONSTANTS
  Names, OperatorIds,  \* names of actions; messages the operator says
  Home, Other, None,
  Kinds,               \* what the agent asks for
  SendsPerTurn, ToolsPerTurn, SendsPerHour, MaxAttempts, KeepPerChat,
  MaxCrashes

Chats == {Home, Other}
Ids == Names \cup OperatorIds

\* What an action asks for; nth is a position in the chat, or 0.
Action == [kind : Kinds, nth : Nat]

\* What is assumed of the constants.
ASSUME OutboxAssumption ==
  /\ Names \subseteq Nat /\ OperatorIds \subseteq Nat /\ Names \cap OperatorIds = {}
  /\ IsFiniteSet(Ids) /\ None \notin Ids \cup Chats \cup Action /\ Home # Other
  /\ Kinds \subseteq {"text", "sendTo", "sent", "edit", "unsend", "pluginCall"}
  /\ {SendsPerTurn, ToolsPerTurn, SendsPerHour, MaxCrashes} \subseteq Nat
  /\ {MaxAttempts, KeepPerChat} \subseteq Nat \ {0}

VARIABLES
  asked,     \* history: what each name was asked for, None before
  meant,     \* history: the message the agent counted to, for a correction
  files,     \* the names on disk
  pass,      \* what is left of the directory as this pass read it
  current,   \* the action being performed
  stage,     \* of the pass: "idle", "looping", "sending", "took"
  target,    \* the message a correction awaits the transport for
  attempts, calls,
  turn,      \* [open, sends, tools]
  sentHour,  \* messages charged to each chat this hour
  store,     \* sent.json: what was said in each chat, oldest first
  view,      \* the messages the agent counts back through, newest first
  delivered, \* history: how often the transport took each action's message
  refused, gaveUp, answered,  \* history: how actions ended
  corrected, \* history: each correction and what it reached
  sure,      \* history: corrections counted on a list that is still true
  thrown,    \* history: how often each action threw since the process started
  crashes

drain == <<pass, current, stage, target, attempts>>
history == <<meant, refused, gaveUp, answered, delivered, corrected, sure>>
vars == <<asked, files, drain, calls, turn, sentHour, store, view, history, thrown, crashes>>

Init ==
  /\ asked = [n \in Names |-> None] /\ files = {} /\ meant = [n \in Names |-> None]
  /\ pass = {} /\ current = None /\ stage = "idle" /\ target = None
  /\ attempts = [n \in Names |-> 0] /\ calls = {}
  /\ turn = [open |-> TRUE, sends |-> 0, tools |-> 0]
  /\ sentHour = [c \in Chats |-> 0]
  /\ store = [c \in Chats |-> <<>>] /\ view = <<>>
  /\ delivered = [n \in Names |-> 0]
  /\ refused = {} /\ gaveUp = {} /\ answered = {} /\ corrected = {} /\ sure = {}
  /\ thrown = [n \in Names |-> 0] /\ crashes = 0

----------------------------------------------------------------------------
(* Operators.  One whose name begins with Mutant is a plausible wrong version
   of the one after it. *)

kind(n) == asked[n].kind
Delivers == {"text", "sendTo"}
Dest(n) == IF kind(n) = "sendTo" THEN Other ELSE Home

\* TurnRegistry.resolve, with the cost of this kind.
Resolved(n) ==
  /\ turn.open
  /\ IF kind(n) \in Delivers THEN turn.sends < SendsPerTurn ELSE turn.tools < ToolsPerTurn

\* Limiter.admitOutbound: the rate is the destination's.
Payer(n) == Dest(n)
Admitted(n) == kind(n) \in Delivers => sentHour[Payer(n)] < SendsPerHour

Charged(n) ==
  IF kind(n) \in Delivers
  THEN /\ sentHour' = [sentHour EXCEPT ![Payer(n)] = @ + 1]
       /\ turn' = [turn EXCEPT !.sends = @ + 1]
  ELSE /\ turn' = [turn EXCEPT !.tools = @ + 1]
       /\ UNCHANGED sentHour

\* sent.ts: record, recent and nth.
Recorded(chat, id) ==
  LET all == Append(store[chat], [id |-> id, unsent |-> FALSE])
      over == Len(all) - KeepPerChat
  IN  [store EXCEPT ![chat] = IF over > 0 THEN SubSeq(all, over + 1, Len(all)) ELSE all]

Listed(rows) ==
  LET live == SelectSeq(rows, LAMBDA row : ~row.unsent)
  IN  Reverse([i \in 1..Len(live) |-> live[i].id])
Recent(chat) == Listed(store[chat])

Nth(chat, n) == IF n \in 1..Len(Recent(chat)) THEN Recent(chat)[n] ELSE None

Retracted(chat, id) ==
  [store EXCEPT ![chat] =
     [i \in 1..Len(@) |-> IF @[i].id = id THEN [@[i] EXCEPT !.unsent = TRUE] ELSE @[i]]]

\* The file stays while its action is performed.
MutantWhileSending(n) == files \ {n}
WhileSending(n) == files

\* rmSync and attempts.delete, once an action has been dealt with.
Gone(n) ==
  /\ files' = files \ {n}
  /\ attempts' = [attempts EXCEPT ![n] = 0]

\* The last of the attempts a message has.
MutantGivesUp(n) == FALSE
GivesUp(n) == attempts[n] + 1 >= MaxAttempts

----------------------------------------------------------------------------
(* The agent *)

\* History: a correction is sure of what it counted to if the agent asks for it with
\* an empty outbox and the latest list, and until it leaves nothing else is asked or
\* said in the chat.
Sure(n) == IF files = {} /\ stage = "idle" /\ view = Recent(Home) THEN {n} ELSE {}

\* wa-cli queue.  The agent counts a message of its own as soon as it has asked
\* for it.
Ask(n, what, nth) ==
  /\ asked[n] = None /\ what \in Kinds
  /\ IF what \in {"edit", "unsend"} THEN nth \in 1..Len(view) ELSE nth = 0
  /\ asked' = [asked EXCEPT ![n] = [kind |-> what, nth |-> nth]]
  /\ meant' = [meant EXCEPT ![n] = IF nth = 0 THEN None ELSE view[nth]]
  /\ files' = files \cup {n}
  /\ view' = CASE what = "text" -> <<n>> \o view
               [] what = "unsend" -> RemoveAt(view, nth)
               [] OTHER -> view
  /\ sure' = (sure \ files) \cup Sure(n)
  /\ UNCHANGED <<drain, calls, turn, sentHour, store, delivered, refused, gaveUp, answered, corrected,
                 thrown, crashes>>

----------------------------------------------------------------------------
(* The drain *)

\* The timer: one pass at a time, over the directory as it is now.
Drain ==
  /\ stage = "idle" /\ files # {}
  /\ pass' = files /\ stage' = "looping"
  /\ UNCHANGED <<asked, files, current, target, attempts, calls, turn, sentHour, store, view,
                 history, thrown, crashes>>

EndPass ==
  /\ stage = "looping" /\ pass = {}
  /\ stage' = "idle"
  /\ UNCHANGED <<asked, files, pass, current, target, attempts, calls, turn, sentHour, store, view,
                 history, thrown, crashes>>

Taken(n) ==
  /\ stage = "looping" /\ n \in pass /\ \A m \in pass : n <= m
  /\ pass' = pass \ {n}

\* An action whose turn or budget is gone, or whose destination is refused, is
\* dropped: perform returns and the file goes.
Refuse(n) ==
  /\ Taken(n)
  /\ ~Resolved(n) \/ ~Admitted(n) \/ kind(n) = "sendTo"
  /\ refused' = refused \cup {n}
  /\ Gone(n)
  /\ UNCHANGED <<asked, meant, current, stage, target, calls, turn, sentHour, store, view, gaveUp, answered, delivered,
                 corrected, sure, thrown, crashes>>

Perform(n) == Taken(n) /\ Resolved(n) /\ Admitted(n) /\ Charged(n)

\* A send, or a correction whose message is found, awaits the transport.
Send(n) ==
  /\ Perform(n)
  /\ kind(n) \in Delivers \/ (kind(n) \in {"edit", "unsend"} /\ Nth(Home, asked[n].nth) # None)
  /\ stage' = "sending" /\ current' = n
  /\ target' = IF kind(n) \in Delivers THEN None ELSE Nth(Home, asked[n].nth)
  /\ files' = WhileSending(n)
  /\ UNCHANGED <<asked, attempts, calls, store, view, history, thrown, crashes>>

\* A tool that needs no transport is answered at once.
Answer(n) ==
  /\ Perform(n)
  /\ \/ kind(n) = "sent" /\ view' = Recent(Home)
     \/ kind(n) \in {"edit", "unsend"} /\ Nth(Home, asked[n].nth) = None /\ UNCHANGED view
  /\ answered' = answered \cup {n}
  /\ Gone(n)
  /\ UNCHANGED <<asked, meant, current, stage, target, calls, store, refused, gaveUp, delivered, corrected,
                 sure, thrown, crashes>>

\* A plugin is asked without waiting: the file goes before the answer comes.
StartCall(n) ==
  /\ Perform(n) /\ kind(n) = "pluginCall"
  /\ calls' = calls \cup {n}
  /\ Gone(n)
  /\ UNCHANGED <<asked, current, stage, target, store, view, history, thrown, crashes>>

CallReturns(n) ==
  /\ n \in calls
  /\ calls' = calls \ {n} /\ answered' = answered \cup {n}
  /\ UNCHANGED <<asked, meant, files, drain, turn, sentHour, store, view, refused, gaveUp, delivered,
                 corrected, sure, thrown, crashes>>

\* The transport took it ...
Takes ==
  /\ stage = "sending" /\ stage' = "took"
  /\ IF target = None
     THEN delivered' = [delivered EXCEPT ![current] = @ + 1] /\ UNCHANGED corrected
     ELSE corrected' = corrected \cup {<<current, target>>} /\ UNCHANGED delivered
  /\ UNCHANGED <<asked, meant, files, pass, current, target, attempts, calls, turn, sentHour, store, view,
                 refused, gaveUp, answered, sure, thrown, crashes>>

\* ... and the bridge records it and goes on to the next.
Done ==
  /\ stage = "took" /\ stage' = "looping"
  /\ store' = CASE kind(current) \in Delivers -> Recorded(Dest(current), current)
                [] kind(current) = "unsend" -> Retracted(Home, target)
                [] OTHER -> store
  /\ answered' = IF target = None THEN answered ELSE answered \cup {current}
  /\ Gone(current)
  /\ current' = None /\ target' = None
  /\ UNCHANGED <<asked, meant, pass, calls, turn, sentHour, view, refused, gaveUp, delivered, corrected,
                 sure, thrown, crashes>>

\* It threw, as it may every time.  A refused correction is an answer; a failed send
\* ends the pass, and the action after MaxAttempts.
Throws ==
  /\ stage = "sending"
  /\ thrown' = [thrown EXCEPT ![current] = @ + 1]
  /\ current' = None /\ target' = None
  /\ IF target # None
     THEN /\ stage' = "looping" /\ answered' = answered \cup {current}
          /\ Gone(current)
          /\ UNCHANGED <<pass, gaveUp>>
     ELSE /\ stage' = "idle" /\ pass' = {}
          /\ IF GivesUp(current)
             THEN Gone(current) /\ gaveUp' = gaveUp \cup {current}
             ELSE /\ attempts' = [attempts EXCEPT ![current] = @ + 1]
                  /\ UNCHANGED <<files, gaveUp>>
          /\ UNCHANGED answered
  /\ UNCHANGED <<asked, meant, calls, turn, sentHour, store, view, refused, delivered, corrected, sure, crashes>>

----------------------------------------------------------------------------
(* Everyone else *)

\* The panel: sayAsJuan and chatUnsend, by position as well.
Said(id) == \E c \in Chats : \E i \in 1..Len(store[c]) : store[c][i].id = id

OperatorSays(chat, id) ==
  /\ ~Said(id) /\ \A j \in OperatorIds : j < id => Said(j)
  /\ sentHour[chat] < SendsPerHour
  /\ sentHour' = [sentHour EXCEPT ![chat] = @ + 1]
  /\ store' = Recorded(chat, id)
  /\ sure' = IF chat = Home THEN sure \ files ELSE sure
  /\ UNCHANGED <<asked, meant, files, drain, calls, turn, view, delivered, refused, gaveUp, answered,
                 corrected, thrown, crashes>>

OperatorUnsends(nth) ==
  /\ OperatorIds # {} /\ Nth(Home, nth) # None
  /\ store' = Retracted(Home, Nth(Home, nth))
  /\ sure' = sure \ files
  /\ UNCHANGED <<asked, meant, files, drain, calls, turn, sentHour, view, delivered, refused, gaveUp,
                 answered, corrected, thrown, crashes>>

\* The turn is closed and its grace window is over.
TurnFallsSilent ==
  /\ turn.open /\ turn' = [turn EXCEPT !.open = FALSE]
  /\ UNCHANGED <<asked, files, drain, calls, sentHour, store, view, history, thrown, crashes>>

\* What is in memory goes: the pass, the attempts, the plugin calls and what the
\* turn has spent.  The limiter keeps its count or loses what was not flushed.
Crash ==
  /\ crashes < MaxCrashes /\ crashes' = crashes + 1
  /\ pass' = {} /\ current' = None /\ stage' = "idle" /\ target' = None
  /\ attempts' = [n \in Names |-> 0] /\ thrown' = [n \in Names |-> 0] /\ calls' = {}
  /\ turn' = [open |-> turn.open, sends |-> 0, tools |-> 0]
  /\ sentHour' \in {sentHour, [c \in Chats |-> 0]}
  /\ UNCHANGED <<asked, files, store, view, history>>

DrainStep ==
  \/ Drain \/ EndPass \/ Takes \/ Done \/ Throws
  \/ \E n \in Names : Refuse(n) \/ Send(n) \/ Answer(n) \/ StartCall(n)

Next ==
  \/ DrainStep
  \/ \E n \in Names, what \in Kinds, nth \in 0..Cardinality(Ids) : Ask(n, what, nth)
  \/ \E n \in Names : CallReturns(n)
  \/ \E chat \in Chats, id \in OperatorIds : OperatorSays(chat, id)
  \/ \E nth \in 1..Cardinality(Ids) : OperatorUnsends(nth)
  \/ TurnFallsSilent \/ Crash

Spec == Init /\ [][Next]_vars

\* The timer goes on firing and a send settles.
Fairness == WF_vars(DrainStep)
FairSpec == Spec /\ Fairness

----------------------------------------------------------------------------
(* Properties *)

\* The state of the outbox has its shape, the pass agrees with its stage, and what is
\* awaited is a correction when there is a message it is of.
TypeOK ==
  /\ asked \in [Names -> Action \cup {None}] /\ files \subseteq {n \in Names : asked[n] # None}
  /\ pass \subseteq files /\ attempts \in [Names -> 0..MaxAttempts - 1]
  /\ stage \in {"idle", "looping", "sending", "took"}
  /\ current \in Names \cup {None} /\ (current = None <=> stage \in {"idle", "looping"})
  /\ current # None => current \in files \ pass
  /\ current # None => (target = None <=> kind(current) \in Delivers)
  /\ calls \subseteq Names \ files
  /\ turn.sends <= SendsPerTurn /\ turn.tools <= ToolsPerTurn
  /\ \A c \in Chats : sentHour[c] <= SendsPerHour /\ Len(store[c]) <= KeepPerChat

\* A message is delivered at most once, and once more for each crash: a retry
\* never repeats what the transport took.
DeliveredOnce == \A n \in Names : delivered[n] <= 1 + crashes

\* Nothing leaves the outbox unaccounted for: a message whose file is gone was
\* delivered, refused or given up after MaxAttempts, crash or not; a tool request was
\* answered or is about to be, or was refused, or a crash forgot the call.
NothingVanishes ==
  \A n \in Names :
    asked[n] # None /\ n \notin files =>
      \/ n \in refused
      \/ kind(n) \in Delivers /\ (delivered[n] > 0 \/ n \in gaveUp)
      \/ kind(n) \notin Delivers /\ (n \in answered \cup calls \/ crashes > 0)

\* A correction reaches the message the agent counted to.
Reaches(x) == x[2] = meant[x[1]]
ReachesWhatItCounted == \A x \in corrected : Reaches(x)

\* It does whenever nothing was asked or said since the agent listed, through retries
\* and crashes.
ReachesWhileUndisturbed == \A x \in corrected : x[1] \in sure => Reaches(x)

\* What was asked for is still there, was done, or was reported; no message is given
\* to the network twice, but by a crash; and a correction nothing disturbs reaches the
\* message it counted to.
DoneOnceOrReported == DeliveredOnce /\ NothingVanishes /\ ReachesWhileUndisturbed

\* In one life of the process no action is tried again once it has thrown
\* MaxAttempts times, whatever allowance its turn has left.
TriedInVain == \A n \in Names : thrown[n] <= MaxAttempts

\* Every action leaves the outbox, although the network may throw every time and
\* the first of the directory holds the others up: it is given up in time, not when
\* its turn has nothing left to retry with.
EveryActionLeaves == \A n \in Names : n \in files ~> (n \notin files /\ TriedInVain)

=============================================================================
