------------------------------ MODULE Providers ------------------------------
(***************************************************************************)
(* The paid services (apimart.ts, minimax.ts, exa.ts, transcribe.ts) and   *)
(* those who use them: the outbox, one action after another and each again *)
(* when it throws (outbox.ts); a turn being prepared, for the recordings   *)
(* in it, all at once (dispatcher.ts); and the panel's bench of voices     *)
(* (panel-api.ts).  All but the searches take one of the day's allowance   *)
(* first (spend.ts, whose file is Limits' matter).                         *)
(***************************************************************************)
EXTENDS Naturals, FiniteSets

CONSTANTS
  Jobs,           \* the uses, each of one of these kinds
  PerDay,         \* PerDay[m]: the allowance of a meter
  Keys,           \* how many keys the search has, tried in this order
  MAX_ATTEMPTS,
  MaxPolls,       \* polls of an image task within its time limit
  MaxThrows,      \* bounds on sends that throw, and
  MaxCrashes      \* on crashes

Kinds == {"picture", "drawing", "voice", "speech", "preview", "search", "page"}
Meters == {"images", "voice", "voicePreview", "transcriptions"}

\* The first argument of claim; the searches spend a turn's tools instead.
MeterOf(k) ==
  CASE k \in {"picture", "drawing"} -> {"images"}
    [] k = "voice" -> {"voice"}
    [] k = "speech" -> {"transcriptions"}
    [] k = "preview" -> {"voicePreview"}
    [] OTHER -> {}

Searches == {"search", "page"}
Drawn == {"picture", "drawing"}
\* What the pass of the outbox waits for: a page is read beside it.
Awaited == Drawn \cup {"voice", "search"}

ProvidersAssumption ==
  /\ IsFiniteSet(Jobs) /\ PerDay \in [Meters -> Nat]
  /\ {Keys, MAX_ATTEMPTS, MaxPolls} \subseteq Nat \ {0} /\ {MaxThrows, MaxCrashes} \subseteq Nat

VARIABLES
  kind,      \* kind[j], "none" before
  at,        \* how far each has come
  key,       \* the key a search is on
  polls,     \* how often a task was asked after
  tries,     \* how often an action threw, in memory
  spent,     \* the day's ledger
  bought,    \* history: what the services were asked to make
  said,      \* history: what the service answered a search last, since it was begun
  came,      \* history: what came of each use for those who wait for it
  throws, crashes

where == <<kind, at, key, polls, tries>>
mishaps == <<throws, crashes>>
providersVars == <<where, spent, bought, said, came, mishaps>>

(* Where a use is:
     queued     the action's file, the message or the press is there
     asking     a request is out
     making     the service has named a task, which is polled
     fetching   what was made is being downloaded
     sending    it is being sent, as it was asked for
     writing    words are being sent instead
     ended      no one looks at it again *)
Stages == {"none", "queued", "asking", "making", "fetching", "sending", "writing", "ended"}
UnderWay == {j \in Jobs : at[j] \in {"asking", "making", "fetching", "sending", "writing"}}

Init ==
  /\ kind = [j \in Jobs |-> "none"] /\ at = [j \in Jobs |-> "none"]
  /\ key = [j \in Jobs |-> 0] /\ polls = [j \in Jobs |-> 0] /\ tries = [j \in Jobs |-> 0]
  /\ spent = [m \in Meters |-> 0] /\ bought = [m \in Meters |-> 0]
  /\ said = [j \in Jobs |-> "nothing"] /\ came = [j \in Jobs |-> "nothing"]
  /\ throws = 0 /\ crashes = 0

Goto(j, stage) == at' = [at EXCEPT ![j] = stage]
Comes(j, what) == Goto(j, "ended") /\ came' = [came EXCEPT ![j] = what]

\* What is left when there is nothing to send: a script is written out, a picture
\* is only logged, and who waits for an answer is told that it failed.
Instead(j) ==
  CASE kind[j] = "voice" -> Goto(j, "writing") /\ UNCHANGED came
    [] kind[j] \in Drawn -> Comes(j, "nothing")
    [] OTHER -> Comes(j, "error")

\* What is said before a request: not in words, when there is an answer for it.
Declined(j) ==
  IF kind[j] \in Drawn \cup {"voice"} THEN Goto(j, "writing") /\ UNCHANGED came ELSE Comes(j, "error")

----------------------------------------------------------------------------
(* Before the request *)

Use(j, k) ==
  /\ at[j] = "none"
  /\ kind' = [kind EXCEPT ![j] = k] /\ Goto(j, "queued")
  /\ UNCHANGED <<key, polls, tries, spent, bought, said, came, mishaps>>

\* The outbox performs one action at a time.
MayBegin(j) ==
  /\ at[j] = "queued"
  /\ kind[j] \in Awaited => \A i \in UnderWay : kind[i] \notin Awaited

\* claim: one of the day's, if there is one left.
MutantClaim(j) == TRUE
Claim(j) == \A m \in MeterOf(kind[j]) : spent[m] < PerDay[m]
Spent(j) == [m \in Meters |-> IF m \in MeterOf(kind[j]) THEN spent[m] + 1 ELSE spent[m]]

Unasked(j) == UNCHANGED <<kind, key, polls, tries, bought, said, mishaps>>

\* The day's is spent: it is said, written out or answered.
Capped(j) ==
  /\ MayBegin(j) /\ ~Claim(j)
  /\ Declined(j)
  /\ UNCHANGED spent /\ Unasked(j)

\* Before claim: a platform without voice notes, or a language no voice speaks.
NoMouth(j) ==
  /\ MayBegin(j) /\ kind[j] = "voice"
  /\ Goto(j, "writing")
  /\ UNCHANGED <<spent, came>> /\ Unasked(j)

\* Before claim: a language not spoken here, voices off, pressed too often.
NotOnTheBench(j) ==
  /\ MayBegin(j) /\ kind[j] = "preview"
  /\ Comes(j, "error")
  /\ UNCHANGED spent /\ Unasked(j)

\* No key at all, or nothing to look for.
NothingToAsk(j) ==
  /\ MayBegin(j) /\ kind[j] \in Searches
  /\ Comes(j, "error")
  /\ UNCHANGED spent /\ Unasked(j)

\* After claim: none of the pictures named is of this chat, or no service that
\* works from one is configured.
NoReference(j) ==
  /\ MayBegin(j) /\ kind[j] \in Drawn /\ Claim(j)
  /\ spent' = Spent(j)
  /\ Goto(j, "writing")
  /\ UNCHANGED came /\ Unasked(j)

\* After claim: no credential, or pictures that are neither jpeg nor png.
NoCredential(j) ==
  /\ MayBegin(j) /\ kind[j] \in Drawn \cup {"voice"} /\ Claim(j)
  /\ spent' = Spent(j)
  /\ Instead(j)
  /\ Unasked(j)

\* After claim: too long, too large, empty or not to be read.
BadRecording(j) ==
  /\ MayBegin(j) /\ kind[j] = "speech" /\ Claim(j)
  /\ spent' = Spent(j)
  /\ Comes(j, "error")
  /\ Unasked(j)

\* The claim is made before the request, and the request is made.
Request(j) ==
  /\ MayBegin(j) /\ Claim(j)
  /\ spent' = Spent(j)
  /\ bought' = [m \in Meters |-> IF m \in MeterOf(kind[j]) THEN bought[m] + 1 ELSE bought[m]]
  /\ Goto(j, "asking")
  /\ key' = [key EXCEPT ![j] = 1] /\ polls' = [polls EXCEPT ![j] = 0]
  /\ UNCHANGED <<kind, tries, said, came, mishaps>>

----------------------------------------------------------------------------
(* The services *)

\* A search: refused for the moment, or not answered in time.  The next key is
\* tried, if there is one.
NextKey(j) == key[j] < Keys

TryAgain(j) ==
  /\ at[j] = "asking" /\ kind[j] \in Searches
  /\ said' = [said EXCEPT ![j] = "notNow"]
  /\ IF NextKey(j)
       THEN key' = [key EXCEPT ![j] = @ + 1] /\ UNCHANGED <<at, came>>
       ELSE Comes(j, "error") /\ UNCHANGED key
  /\ UNCHANGED <<kind, polls, tries, spent, bought, mishaps>>

\* What a page is when there is nothing of it to read: never "nothing found".
Empty(j) == IF kind[j] = "search" THEN "nothingFound" ELSE "error"

Searched(j, reply) ==
  /\ at[j] = "asking" /\ kind[j] \in Searches
  /\ said' = [said EXCEPT ![j] = reply]
  /\ Comes(j, CASE reply = "text" -> "whole"
                [] reply \in {"none", "refusal"} -> Empty(j)
                [] OTHER -> "error")
  /\ UNCHANGED <<kind, key, polls, tries, spent, bought, mishaps>>

\* A reply that names no task, is an error, cannot be read or does not come in time.
Failed(j) == at[j] = "asking" /\ kind[j] \notin Searches /\ Instead(j)
Kept(j) == UNCHANGED <<kind, key, polls, tries, spent, bought, said, mishaps>>

\* The service has taken the picture on, and named its task.
Submitted(j) ==
  /\ \/ Failed(j) /\ kind[j] = "picture"
     \/ at[j] = "asking" /\ kind[j] = "picture" /\ Goto(j, "making") /\ UNCHANGED came
  /\ Kept(j)

\* A drawing is answered with its address.
Drew(j) ==
  /\ \/ Failed(j) /\ kind[j] = "drawing"
     \/ at[j] = "asking" /\ kind[j] = "drawing" /\ Goto(j, "fetching") /\ UNCHANGED came
  /\ Kept(j)

\* Speech comes in the reply itself, for the outbox and for the bench.
Synthesised(j) ==
  /\ \/ Failed(j) /\ kind[j] \in {"voice", "preview"}
     \/ at[j] = "asking" /\ kind[j] = "voice" /\ Goto(j, "sending") /\ UNCHANGED came
     \/ at[j] = "asking" /\ kind[j] = "preview" /\ Comes(j, "whole")
  /\ Kept(j)

\* So do the words of a recording, if any could be made out.
Transcribed(j) ==
  /\ \/ Failed(j) /\ kind[j] = "speech"
     \/ at[j] = "asking" /\ kind[j] = "speech" /\ Comes(j, "whole")
  /\ Kept(j)

\* One turn of the loop over a task: not finished, finished with an address, or
\* over, because the task failed or the poll itself did.  Past the time limit it
\* is not asked after again.
MutantPolled(j) == 1 - polls[j]
Polled(j) == polls[j] + 1

Poll(j) ==
  /\ at[j] = "making"
  /\ \/ polls[j] < MaxPolls /\ polls' = [polls EXCEPT ![j] = Polled(j)]
        /\ UNCHANGED <<at, came>>
     \/ polls[j] < MaxPolls /\ Goto(j, "fetching") /\ UNCHANGED <<polls, came>>
     \/ Instead(j) /\ UNCHANGED polls
  /\ UNCHANGED <<kind, key, tries, spent, bought, said, mishaps>>

\* The picture itself, from where the service keeps it.
Fetch(j) ==
  /\ at[j] = "fetching"
  /\ \/ Goto(j, "sending") /\ UNCHANGED came
     \/ Instead(j)
  /\ Kept(j)

----------------------------------------------------------------------------
(* Handing it over *)

Sent(j) ==
  /\ at[j] \in {"sending", "writing"}
  /\ Comes(j, IF at[j] = "sending" THEN "whole" ELSE "words")
  /\ Kept(j)

\* The transport throws: the action's file stays for the next pass, which begins
\* it anew, until it has thrown often enough.
SendThrows(j) ==
  /\ at[j] \in {"sending", "writing"} /\ throws < MaxThrows
  /\ throws' = throws + 1
  /\ tries' = [tries EXCEPT ![j] = @ + 1]
  /\ IF tries[j] + 1 >= MAX_ATTEMPTS THEN Comes(j, "givenUp") ELSE Goto(j, "queued") /\ UNCHANGED came
  /\ UNCHANGED <<kind, key, polls, spent, bought, said, crashes>>

\* The process dies.  The file of an awaited action and the message of a turn that
\* was being prepared are there for the next one; a page being read has no file
\* any more, and a press of the bench no one to answer.
Crash ==
  /\ crashes < MaxCrashes
  /\ crashes' = crashes + 1
  /\ LET again == {j \in UnderWay : kind[j] \in Awaited \cup {"speech"}} IN
       /\ at' = [j \in Jobs |-> CASE j \in again -> "queued"
                                  [] j \in UnderWay \ again -> "ended"
                                  [] OTHER -> at[j]]
       /\ came' = [j \in Jobs |-> IF j \in UnderWay \ again THEN "lost" ELSE came[j]]
       /\ said' = [j \in Jobs |-> IF j \in again THEN "nothing" ELSE said[j]]
  /\ tries' = [j \in Jobs |-> 0]
  /\ UNCHANGED <<kind, key, polls, spent, bought, throws>>

Goes(j) ==
  \/ Capped(j) \/ NoMouth(j) \/ NotOnTheBench(j) \/ NothingToAsk(j)
  \/ NoReference(j) \/ NoCredential(j) \/ BadRecording(j) \/ Request(j)
  \/ TryAgain(j) \/ \E reply \in {"text", "none", "refusal", "shape"} : Searched(j, reply)
  \/ Submitted(j) \/ Drew(j) \/ Synthesised(j) \/ Transcribed(j) \/ Poll(j) \/ Fetch(j) \/ Sent(j)

Next ==
  \/ \E j \in Jobs : Goes(j) \/ SendThrows(j) \/ \E k \in Kinds : Use(j, k)
  \/ Crash

Spec == Init /\ [][Next]_providersVars

\* Passes come again, and every request and every wait has a timeout.
Progress == \E j \in Jobs : Goes(j)
Fairness == WF_providersVars(Progress)

FairSpec == Spec /\ Fairness

----------------------------------------------------------------------------
(* Properties *)

\* Every use and both ledgers have their shape.
TypeOK ==
  /\ kind \in [Jobs -> Kinds \cup {"none"}] /\ at \in [Jobs -> Stages]
  /\ key \in [Jobs -> 0..Keys] /\ polls \in [Jobs -> 0..MaxPolls]
  /\ tries \in [Jobs -> 0..MAX_ATTEMPTS]
  /\ spent \in [Meters -> Nat] /\ bought \in [Meters -> Nat]
  /\ said \in [Jobs -> {"nothing", "notNow", "text", "none", "refusal", "shape"}]
  /\ came \in [Jobs -> {"nothing", "whole", "words", "error", "nothingFound", "givenUp", "lost"}]
  /\ throws \in 0..MaxThrows /\ crashes \in 0..MaxCrashes

\* spend.ts, of claim: a slow provider cannot let two requests through the same
\* last unit.  No more is bought in a day than its allowance, whatever is asked at
\* once, thrown and asked again, or cut off by a crash.
BoughtWithinTheAllowance == \A m \in Meters : bought[m] <= spent[m] /\ bought[m] <= PerDay[m]

\* outbox.ts, of a voice note: the words always arrive, unless the transport itself
\* gives up.  And who waits for an answer, a transcript or a page gets one: an
\* error when every key has failed for the moment, never "nothing found" for a
\* page, and never for a search that was not answered.
WordsAlwaysArrive ==
  \A j \in Jobs : at[j] = "ended" =>
    /\ kind[j] = "voice" => came[j] \in {"whole", "words", "givenUp"}
    /\ kind[j] \notin Drawn => came[j] # "nothing"
    /\ came[j] = "nothingFound" => kind[j] = "search" /\ said[j] \in {"none", "refusal"}
    /\ said[j] = "notNow" /\ came[j] = "error" => key[j] = Keys

\* Nothing is asked for that is not over: no wait for a service outlives its time
\* limits, and no use is begun again for ever.
Idle == \A j \in Jobs : at[j] \in {"none", "ended"}
EveryUseEnds == []<>Idle

=============================================================================
