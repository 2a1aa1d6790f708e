-------------------------------- MODULE Verbs --------------------------------
(***************************************************************************)
(* One turn of the agent as its command line and the bridge see it         *)
(* (agent/src/wa-cli.ts, mcp-tools.ts, hooks/stop.ts; the actions of       *)
(* shared/src/handoff.ts; Outbox.perform).  The agent runs one verb after  *)
(* another: each leaves an action, and some wait for the bridge's answer.  *)
(* The bridge performs the actions when it comes to them, under the        *)
(* switches as they are by then.  When the turn ends in prose the Stop     *)
(* hook relays it, unless a verb has marked the turn as one that spoke.    *)
(***************************************************************************)
EXTENDS Naturals, FiniteSets

CONSTANTS
  Asks,          \* the verbs the agent may run in the turn, and
  Relay,         \* the action of the Stop hook
  Tried,         \* the kinds of action it tries
  MAX_ATTEMPTS,
  MaxOff,        \* bounds on the switches that are off when the turn begins,
  MaxFlips,      \* on the operator's changes of them, and
  MaxMishaps     \* on performs that throw, answers not written and crashes

\* The kinds of action, by what they are about.
Says == {"text", "file", "sendTo"}
Media == {"image", "voice"}
Recalls == {"chats", "history", "sent"}
Reaches == {"contact", "leaveGroup"}
Notes == {"remember", "schedule", "scheduleCancel", "scheduleList"}
Pages == {"page", "pageNew", "pageDelete", "pagePassword", "pageImage"}
Offers == {"peerAsk", "appLabel", "pluginList"}
Corrections == {"edit", "unsend"}

\* The kinds, by what the two sides do with them.
Delivers == Says \cup Media \cup {"react"}
NamesChat == {"sendTo", "history"}
MayNameChat == NamesChat \cup {"file", "image", "voice", "sent"}
Silent == {"typing", "search", "fetch", "schedule", "scheduleCancel", "scheduleList", "leaveGroup",
           "pluginList", "pluginCall"}
Detached == {"fetch", "pluginCall"}
Awaited == Recalls \cup Reaches \cup Notes \cup Pages \cup Offers \cup Corrections \cup Detached
           \cup {"search"}
Kinds == Delivers \cup Awaited \cup {"typing"}

\* What is assumed of the constants: an action is tried once at least.
VerbsAssumption ==
  /\ MAX_ATTEMPTS \in Nat \ {0} /\ {MaxOff, MaxFlips, MaxMishaps} \subseteq Nat
  /\ Relay \notin Asks /\ Tried \subseteq Kinds

Switches == {"voice", "images", "search", "schedule", "recall", "crossChat"}
\* The switch the bridge asks of a kind before anything else.
SwitchOf(k) ==
  CASE k = "voice" -> {"voice"}
    [] k \in {"image", "pageImage"} -> {"images"}
    [] k \in {"search", "fetch"} -> {"search"}
    [] k \in {"schedule", "scheduleCancel", "scheduleList"} -> {"schedule"}
    [] k = "history" -> {"recall"}
    [] k = "chats" -> {"crossChat"}
    [] OTHER -> {}
\* The switches that make a difference to what is tried.
Used == (UNION {SwitchOf(k) : k \in Tried}) \cup {"crossChat"}
\* The kinds whose switch the command line asks too, in current.json.
AskedAtHome == {"voice", "image", "history", "schedule", "scheduleCancel", "scheduleList"}

VARIABLES
  off,        \* switches that are off
  can,        \* switches that were on when the turn began, as current.json says
  direct,     \* the turn is a direct message
  fromOperator,
  closed,     \* it is a peer agent's answer, and the bridge knows: its exchange is over
  verb,       \* of each ask: its kind, whether it names a chat and whether it has words
  action,     \* of each: none, queued, away (performed, answer to come), done, gone
  answered,   \* of each, the result in the inbound volume: nothing, ok, error, unsure
  report,     \* of each, what the agent was told: nothing, waiting, queued, notSent, done, refused, unknown
  effects,    \* the asks that had the effect they ask for
  attempts,
  spoke,      \* the marker
  ended,      \* no, prose or quiet
  heard,      \* history: something reached the person of this turn
  dropped,    \* history: actions the bridge let go without doing anything
  hushed,     \* history: texts it refused because the exchange is over
  flips, mishaps

turnVars == <<can, direct, fromOperator, closed>>
agentVars == <<verb, report, spoke, ended>>
historyVars == <<heard, dropped, hushed>>
verbsVars == <<off, turnVars, agentVars, action, answered, effects, attempts, historyVars, flips, mishaps>>

All == Asks \cup {Relay}
NoVerb == [kind |-> "none", names |-> FALSE, words |-> FALSE]
RelayVerb == [kind |-> "text", names |-> FALSE, words |-> FALSE]

Init ==
  /\ off \in SUBSET Used /\ Cardinality(off) <= MaxOff
  /\ can = Switches \ off /\ direct \in BOOLEAN /\ fromOperator \in BOOLEAN
  /\ closed \in BOOLEAN /\ (closed => direct)
  /\ verb = [a \in All |-> NoVerb] /\ action = [a \in All |-> "none"]
  /\ answered = [a \in All |-> "nothing"] /\ report = [a \in All |-> "nothing"]
  /\ effects = {} /\ attempts = [a \in All |-> 0]
  /\ spoke = FALSE /\ ended = "no" /\ heard = FALSE /\ dropped = {} /\ hushed = {}
  /\ flips = 0 /\ mishaps = 0

----------------------------------------------------------------------------
(* The agent.  An operator whose name begins with Mutant is a plausible wrong
   version of the one after it. *)

Busy == \E a \in Asks : report[a] = "waiting"

\* requireCapability: what current.json says is off is not asked for.
KnownOff(k) == k \in AskedAtHome /\ SwitchOf(k) \cap can = {}

\* queue marks the turn before the bridge has seen the action.
MutantMarks(k) == k # "typing"
Marks(k) == k \notin Silent

\* The turn is the agent's to use, and it has nothing to wait for.
MayAsk(a) == ended = "no" /\ ~Busy /\ verb[a] = NoVerb

queue(a, v) ==
  /\ MayAsk(a)
  /\ verb' = [verb EXCEPT ![a] = v]
  /\ IF KnownOff(v.kind)
       THEN report' = [report EXCEPT ![a] = "notSent"] /\ UNCHANGED <<action, spoke>>
       ELSE /\ action' = [action EXCEPT ![a] = "queued"]
            /\ spoke' = (spoke \/ Marks(v.kind))
            /\ report' = [report EXCEPT ![a] = IF v.kind \in Awaited THEN "waiting" ELSE "queued"]
  /\ UNCHANGED <<off, turnVars, answered, effects, attempts, ended, historyVars, flips, mishaps>>

\* The verbs of the command line: to say something, which waits for no answer,
\* and to look something up, to be reminded, to publish, to reach further.
Tell(a, v) == v.kind \in Delivers \cup {"typing"} /\ queue(a, v)
Look(a, v) == v.kind \in Recalls \cup Corrections \cup {"search", "fetch"} /\ queue(a, v)
Later(a, v) == v.kind \in Notes /\ queue(a, v)
Publish(a, v) == v.kind \in Pages \cup (Offers \ {"pluginList"}) /\ queue(a, v)
ReachOut(a, v) == v.kind \in Reaches \cup {"pluginList", "pluginCall"} /\ queue(a, v)

\* awaitResult finds the answer, or its time is over.
Told(a, r) == report' = [report EXCEPT ![a] = r]
MutantUnderstood(a) == CASE answered[a] = "ok" -> "done" [] OTHER -> "refused"
Understood(a) ==
  CASE answered[a] = "ok" -> "done" [] answered[a] = "error" -> "refused" [] OTHER -> "unknown"

awaitResult(a) ==
  /\ report[a] = "waiting"
  /\ Told(a, Understood(a))
  /\ UNCHANGED <<off, turnVars, verb, spoke, ended, action, answered, effects, attempts, historyVars, flips, mishaps>>

\* The turn ends; the Stop hook relays prose of a direct message that has not
\* spoken.  quiet marks it on purpose.
Relays(prose) == prose /\ direct /\ ~spoke

EndTurn(prose) ==
  /\ ended = "no" /\ ~Busy
  /\ ended' = IF prose THEN "prose" ELSE "quiet"
  /\ spoke' = (spoke \/ ~prose)
  /\ IF Relays(prose)
       THEN /\ verb' = [verb EXCEPT ![Relay] = RelayVerb]
            /\ action' = [action EXCEPT ![Relay] = "queued"]
       ELSE UNCHANGED <<verb, action>>
  /\ UNCHANGED <<off, turnVars, report, answered, effects, attempts, historyVars, flips, mishaps>>

----------------------------------------------------------------------------
(* The bridge *)

kind(a) == verb[a].kind

\* perform has returned: the action is deleted, or its answer is still to come.
Performed(a, answer) ==
  /\ action' = [action EXCEPT ![a] = IF answer = "later" THEN "away" ELSE "done"]
  /\ IF answer \in {"ok", "error", "unsure"}
       THEN \/ answered' = [answered EXCEPT ![a] = answer] /\ UNCHANGED mishaps
            \/ mishaps < MaxMishaps /\ mishaps' = mishaps + 1 /\ UNCHANGED answered
       ELSE UNCHANGED <<answered, mishaps>>
  /\ UNCHANGED <<off, turnVars, agentVars, attempts, flips>>

\* perform returns without an answer: the turn is closed or out of its
\* allowance, or the rate of the chat it goes to is spent.
Drop(a) ==
  /\ action[a] = "queued"
  /\ Performed(a, "none") /\ dropped' = dropped \cup {a}
  /\ UNCHANGED <<effects, heard, hushed>>

\* crossChatTarget: to name a chat it must be one that may be addressed.
Reachable(a) == verb[a].names => "crossChat" \notin off

CrossChatRefused(a) ==
  /\ action[a] = "queued" /\ ~Reachable(a)
  /\ Performed(a, "none")
  /\ UNCHANGED <<effects, historyVars>>

Goes(a) == action[a] = "queued" /\ Reachable(a)
On(a) == SwitchOf(kind(a)) \cap off = {}
Here(a) == ~verb[a].names

\* A verb that delivers: what it asks for, its words instead, or neither.
Deliver(a, how) ==
  /\ Goes(a)
  /\ Performed(a, "none")
  /\ effects' = IF how = "whole" THEN effects \cup {a} ELSE effects
  /\ heard' = (heard \/ (how # "nothing" /\ Here(a)))
  /\ UNCHANGED <<dropped, hushed>>

\* A file that is not there is not sent, and its name is on a platform without
\* files; a reaction finds no message, or a platform without reactions.
Say(a, how) ==
  /\ CASE kind(a) = "text" -> how = "whole" /\ ~closed
       [] kind(a) = "sendTo" -> how = "whole"
       [] kind(a) = "react" -> how \in {"whole", "nothing"}
       [] OTHER -> kind(a) = "file"
  /\ Deliver(a, how)

\* A text to a peer whose answer this turn is is refused, the relayed prose too, and
\* nobody waits for what it is answered.  Only a text is.
ExchangeClosed(a) ==
  /\ Goes(a) /\ kind(a) = "text" /\ closed
  /\ Performed(a, "error") /\ hushed' = hushed \cup {a}
  /\ UNCHANGED <<effects, heard, dropped>>

\* A picture: its caption, when pictures are off; words about why not, when the
\* allowance is spent or what it is to work from is not found; nothing, when the
\* provider fails or there is no caption.
Draw(a, how) ==
  /\ kind(a) = "image"
  /\ CASE how = "whole" -> On(a)
       [] how = "words" -> On(a) \/ verb[a].words
       [] how = "nothing" -> On(a) \/ ~verb[a].words
  /\ Deliver(a, how)

\* A voice note is never lost: what cannot be spoken is written.
Speak(a, how) ==
  /\ kind(a) = "voice" /\ (how = "whole" => On(a)) /\ how # "nothing"
  /\ Deliver(a, how)

\* A verb that is answered: done, if it may be, or refused, by what it is asked of
\* when not by who asks.
Answer(a, may) ==
  /\ Goes(a)
  /\ \/ Performed(a, "error") /\ UNCHANGED effects
     \/ may /\ Performed(a, "ok") /\ effects' = effects \cup {a}
  /\ UNCHANGED <<dropped, hushed>>

Find(a) == kind(a) = "search" /\ Answer(a, On(a)) /\ UNCHANGED heard

Note(a) == kind(a) \in Notes /\ Answer(a, On(a)) /\ UNCHANGED heard

\* A page that is begun is announced first, unless the turn has said something.
ChangePage(a) ==
  /\ kind(a) \in Pages /\ Answer(a, On(a))
  /\ \/ kind(a) = "pageNew" /\ heard' = TRUE
     \/ UNCHANGED heard

\* Conversations are read to an operator, and not into a group.
Recall(a) ==
  /\ kind(a) \in Recalls /\ Answer(a, On(a) /\ (kind(a) = "history" => fromOperator /\ direct))
  /\ UNCHANGED heard

\* A goodbye, when there is one, is said elsewhere and first.
Reach(a) == kind(a) \in Reaches /\ Answer(a, fromOperator) /\ UNCHANGED heard

Offer(a) ==
  /\ kind(a) \in Offers /\ Answer(a, kind(a) = "peerAsk" => fromOperator)
  /\ UNCHANGED heard

Correct(a) == kind(a) \in Corrections /\ Answer(a, TRUE) /\ UNCHANGED heard

\* Left to a call that answers later.
Detach(a) ==
  /\ Goes(a) /\ kind(a) \in Detached
  /\ Performed(a, IF On(a) THEN "later" ELSE "error")
  /\ UNCHANGED <<effects, historyVars>>

\* What was called does it, and answers, or does not.
Called(a) ==
  /\ action[a] = "away" /\ a \notin effects /\ effects' = effects \cup {a}
  /\ UNCHANGED <<off, turnVars, agentVars, action, answered, attempts, historyVars, flips, mishaps>>

Late(a, answer) ==
  /\ action[a] = "away"
  /\ (answer = "ok" => a \in effects) /\ (answer = "error" => a \notin effects)
  /\ Performed(a, answer)
  /\ UNCHANGED <<effects, historyVars>>

Typing(a) ==
  /\ Goes(a) /\ kind(a) = "typing"
  /\ Performed(a, "none") /\ effects' = effects \cup {a} /\ UNCHANGED historyVars

\* perform throws: the action stays for another pass, or is given up.
Throw(a) ==
  /\ Goes(a) /\ mishaps < MaxMishaps /\ mishaps' = mishaps + 1
  /\ IF attempts[a] + 1 >= MAX_ATTEMPTS
       THEN /\ action' = [action EXCEPT ![a] = "gone"] /\ attempts' = [attempts EXCEPT ![a] = 0]
            /\ dropped' = dropped \cup {a}
       ELSE attempts' = [attempts EXCEPT ![a] = @ + 1] /\ UNCHANGED <<action, dropped>>
  /\ UNCHANGED <<off, turnVars, agentVars, answered, effects, heard, hushed, flips>>

\* The bridge restarts: what it had not answered yet it never answers, and that the
\* turn is a peer's answer it forgets.
Restart ==
  /\ mishaps < MaxMishaps /\ mishaps' = mishaps + 1
  /\ action' = [a \in All |-> IF action[a] = "away" THEN "gone" ELSE action[a]]
  /\ attempts' = [a \in All |-> 0] /\ closed' = FALSE
  /\ UNCHANGED <<off, can, direct, fromOperator, agentVars, answered, effects, historyVars, flips>>

Flip(s) ==
  /\ flips < MaxFlips /\ flips' = flips + 1
  /\ off' = IF s \in off THEN off \ {s} ELSE off \cup {s}
  /\ UNCHANGED <<turnVars, agentVars, action, answered, effects, attempts, historyVars, mishaps>>

Verb(k) ==
  [kind: {k}, words: IF k \in {"image", "file"} THEN BOOLEAN ELSE {k = "voice"},
   names: IF k \in NamesChat THEN {TRUE} ELSE IF k \in MayNameChat THEN BOOLEAN ELSE {FALSE}]

Next ==
  \/ \E a \in Asks :
       \/ awaitResult(a)
       \/ MayAsk(a) /\ \E k \in Tried : \E v \in Verb(k) :
            Tell(a, v) \/ Look(a, v) \/ Later(a, v) \/ Publish(a, v) \/ ReachOut(a, v)
  \/ \E prose \in BOOLEAN : EndTurn(prose)
  \/ \E a \in All :
       \/ Drop(a) \/ CrossChatRefused(a) \/ ExchangeClosed(a) \/ Typing(a) \/ Throw(a)
       \/ \E how \in {"whole", "words", "nothing"} : Say(a, how) \/ Draw(a, how) \/ Speak(a, how)
       \/ Find(a) \/ Note(a) \/ ChangePage(a) \/ Recall(a) \/ Reach(a) \/ Offer(a) \/ Correct(a)
       \/ Detach(a) \/ Called(a)
       \/ \E answer \in {"ok", "error", "unsure"} : Late(a, answer)
  \/ Restart \/ \E s \in Used : Flip(s)

Spec == Init /\ [][Next]_verbsVars

----------------------------------------------------------------------------
(* Properties *)

\* The asks, their actions and what is known of them have their shapes.
TypeOK ==
  /\ off \subseteq Switches /\ can \subseteq Switches
  /\ verb \in [All -> {NoVerb} \cup UNION {Verb(k) : k \in Kinds}]
  /\ action \in [All -> {"none", "queued", "away", "done", "gone"}]
  /\ answered \in [All -> {"nothing", "ok", "error", "unsure"}]
  /\ report \in [All -> {"nothing", "waiting", "queued", "notSent", "done", "refused", "unknown"}]
  /\ effects \subseteq All /\ dropped \cup hushed \subseteq All /\ attempts \in [All -> 0..MAX_ATTEMPTS - 1]
  /\ ended \in {"no", "prose", "quiet"}

Contract == INSTANCE AskContract
  WITH Asks <- All, taken <- effects,
       outcome <- [a \in All |->
         CASE report[a] \in {"notSent", "refused"} -> "notAsked"
           [] report[a] = "done" -> "answered"
           [] report[a] = "unknown" -> "unknown"
           [] OTHER -> IF action[a] = "none" THEN "none" ELSE "pending"]

\* What the agent is told of a verb is true for good: done means done, refused
\* means it was not done and never will be, however late the bridge comes to it,
\* whatever switch is flipped meanwhile and whether or not the bridge restarts.
KeepsContract == Contract!Spec

Settled == \A a \in All : action[a] \in {"none", "done", "gone"}

\* A direct message whose turn ends in prose is not left in silence, except by an
\* action that was dropped, a text to a peer whose exchange is over, or a verb that
\* says nothing and marks the turn.
Mute(a) == kind(a) \in (Awaited \ Silent) \cup {"image", "file", "react"} \/ verb[a].names
SilenceHasAReason ==
  direct /\ ended = "prose" /\ Settled /\ ~heard =>
    dropped \cup hushed # {} \/ \E a \in Asks : verb[a] # NoVerb /\ Mute(a)

\* A conversation never goes quiet by accident: when every verb of the turn asks
\* for something, and so says nothing, what the turn ends with is relayed.
NeverQuietByAccident ==
  direct /\ ended = "prose" /\ Settled /\ dropped \cup hushed = {}
    /\ (\A a \in Asks : verb[a] # NoVerb => kind(a) \in Awaited) => heard

=============================================================================
