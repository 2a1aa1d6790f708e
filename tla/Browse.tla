-------------------------------- MODULE Browse --------------------------------
(***************************************************************************)
(* Reading a page (bridge/src/browse.ts, browser/src): the bridge writes a *)
(* request into one volume and waits for an answer in another; the browser *)
(* opens one page at a time and knows nothing of who still waits.  When    *)
(* the browser is of no use the search provider is asked instead.          *)
(***************************************************************************)
EXTENDS Naturals, Sequences, FiniteSets, SequencesExt

CONSTANTS
  Asks,              \* the calls of readPage there will be; each request has a fresh id
  Look,              \* those that want a picture
  TEXT_TIMEOUT, LOOK_TIMEOUT, STALE, HEARTBEAT_STALE, ORPHAN,   \* in ticks
  MaxFaults          \* bound on crashes of the bridge and stops of the browser

VARIABLES
  call,     \* of each call: unasked, queued, waiting, falling, done, lost
  outcome,   \* what browse() made of it: none, answered, unknown, notAsked
  reply,     \* what readPage returned: where it came from, and whether with a picture
  tail,      \* the calls behind oneAtATime, first come first served
  age,       \* of each file of the two volumes, or Absent
  says,      \* what each answer says
  up,        \* the browser runs
  beatAge,   \* age of its heartbeat
  seen,      \* ids it has handled, in memory
  page,      \* the request in hand, or NoPage
  step,      \* how far it is: idle, picked, opening, picture, answer
  found,     \* what openPage made of it
  opened,    \* history: requests the browser has opened
  faults     \* crashes and stops there were

bridgeVars == <<call, outcome, reply, tail>>
browserVars == <<up, seen, page, step, found, opened>>
browseVars == <<bridgeVars, age, says, browserVars, beatAge, faults>>

NoPage == "nopage"

\* What is assumed of the constants.
BrowseAssumption == {ORPHAN, HEARTBEAT_STALE, MaxFaults} \subseteq Nat /\ NoPage \notin Asks
Absent == ORPHAN + 1
Request(a) == <<"request", a>>
Result(a) == <<"result", a>>
Picture(a) == <<"picture", a>>
Files == {"request", "result", "picture"} \X Asks
Exists(f) == age[f] # Absent
NoReply == [from |-> "nobody", picture |-> FALSE]

Init ==
  /\ call = [a \in Asks |-> "unasked"] /\ outcome = [a \in Asks |-> "none"]
  /\ reply = [a \in Asks |-> NoReply] /\ tail = <<>>
  /\ age = [f \in Files |-> Absent] /\ says = [a \in Asks |-> "nothing"]
  /\ up = FALSE /\ beatAge = HEARTBEAT_STALE + 1
  /\ seen = {} /\ page = NoPage /\ step = "idle" /\ found = "nothing" /\ opened = {}
  /\ faults = 0

----------------------------------------------------------------------------
(* The bridge.  An operator whose name begins with Mutant is a plausible
   wrong version of the one after it. *)

Waiting == {a \in Asks : call[a] = "waiting"}

Concluded(a, o, s) ==
  /\ outcome' = [outcome EXCEPT ![a] = o]
  /\ call' = [call EXCEPT ![a] = s]

\* readPage: the browser is not deployed, or cannot be sent this address
\* (prepareUrl); or the call takes its place behind the others.
ReadPage(a) ==
  /\ call[a] = "unasked"
  /\ \/ Concluded(a, "notAsked", "falling") /\ UNCHANGED tail
     \/ /\ call' = [call EXCEPT ![a] = "queued"] /\ tail' = Append(tail, a)
        /\ UNCHANGED outcome
  /\ UNCHANGED <<reply, age, says, browserVars, beatAge, faults>>

\* sweepOrphans: what is older than ORPHAN_MS in either volume is deleted.
Swept == [f \in Files |-> IF age[f] >= ORPHAN THEN Absent ELSE age[f]]

Running == beatAge <= HEARTBEAT_STALE

\* browseNow up to its first wait.  The request may fail to be written.
MutantAsked(a) == [Swept EXCEPT ![Request(a)] = 0]
Asked(a) == IF Running THEN [Swept EXCEPT ![Request(a)] = 0] ELSE Swept

Begin(a) ==
  /\ tail # <<>> /\ a = Head(tail) /\ call[a] = "queued" /\ Waiting = {}
  /\ \/ /\ age' = Asked(a)
        /\ IF Running THEN call' = [call EXCEPT ![a] = "waiting"] /\ UNCHANGED <<outcome, tail>>
                      ELSE Concluded(a, "notAsked", "falling") /\ tail' = Tail(tail)
     \/ Running /\ age' = Swept /\ Concluded(a, "notAsked", "falling") /\ tail' = Tail(tail)
  /\ UNCHANGED <<reply, says, browserVars, beatAge, faults>>

\* The finally of browseNow: all three files go, and the next call may begin.
Cleared(a) == [age EXCEPT ![Request(a)] = Absent, ![Result(a)] = Absent, ![Picture(a)] = Absent]
Freed(a) == age' = Cleared(a) /\ says' = [says EXCEPT ![a] = "nothing"] /\ tail' = Tail(tail)

\* A poll finds an answer: a page ends the call, with the picture if there is
\* one and it can be passed on; anything else leaves it to the provider.
Poll(a) ==
  /\ call[a] = "waiting" /\ Exists(Result(a))
  /\ Freed(a)
  /\ CASE says[a] \in {"page", "pictured"} ->
            /\ Concluded(a, "answered", "done")
            /\ \E saved \in BOOLEAN :
                 reply' = [reply EXCEPT ![a] =
                   [from |-> "browser",
                    picture |-> saved /\ a \in Look /\ says[a] = "pictured" /\ Exists(Picture(a))]]
       [] says[a] = "failed" -> Concluded(a, "answered", "falling") /\ UNCHANGED reply
       [] OTHER -> Concluded(a, "unknown", "falling") /\ UNCHANGED reply
  /\ UNCHANGED <<browserVars, beatAge, faults>>

Timeout(a) == IF a \in Look THEN LOOK_TIMEOUT ELSE TEXT_TIMEOUT
PastDeadline(a) == call[a] = "waiting" /\ age[Request(a)] >= Timeout(a)

GiveUp(a) ==
  /\ PastDeadline(a) /\ ~Exists(Result(a))
  /\ Freed(a)
  /\ Concluded(a, "unknown", "falling")
  /\ UNCHANGED <<reply, browserVars, beatAge, faults>>

\* fetchPage returns, with the provider's copy or an error.
Fallback(a) ==
  /\ call[a] = "falling"
  /\ call' = [call EXCEPT ![a] = "done"]
  /\ \E from \in {"provider", "nobody"} : reply' = [reply EXCEPT ![a].from = from]
  /\ UNCHANGED <<outcome, tail, age, says, browserVars, beatAge, faults>>

\* The bridge ends and starts again: no finally has run.
BridgeCrash ==
  /\ faults < MaxFaults /\ faults' = faults + 1
  /\ call' = [a \in Asks |-> IF call[a] \in {"unasked", "done"} THEN call[a] ELSE "lost"]
  /\ tail' = <<>>
  /\ UNCHANGED <<outcome, reply, age, says, browserVars, beatAge>>

----------------------------------------------------------------------------
(* The browser *)

Fresh(a) == Exists(Request(a)) /\ a \notin seen /\ age[Request(a)] <= STALE

\* nextRequest: what has waited too long is marked and left, and the oldest of
\* the others is taken in hand.
Next1(a) == Fresh(a) /\ \A b \in Asks : Fresh(b) => age[Request(b)] <= age[Request(a)]
Pick(a) ==
  /\ up /\ step = "idle" /\ Next1(a)
  /\ seen' = seen \cup {a} \cup {b \in Asks : Exists(Request(b)) /\ age[Request(b)] > STALE}
  /\ page' = a /\ step' = "picked"
  /\ UNCHANGED <<bridgeVars, age, says, up, found, opened, beatAge, faults>>

Answered(a, text) ==
  /\ age' = [age EXCEPT ![Result(a)] = 0]
  /\ says' = [says EXCEPT ![a] = text]
  /\ page' = NoPage /\ step' = "idle" /\ found' = "nothing"

\* The request is read; the bridge may have deleted it meanwhile.
ReadRequest ==
  /\ step = "picked"
  /\ IF Exists(Request(page))
       THEN /\ step' = "opening" /\ opened' = opened \cup {page}
            /\ UNCHANGED <<page, found, age, says>>
       ELSE Answered(page, "badRequest") /\ UNCHANGED opened
  /\ UNCHANGED <<bridgeVars, up, seen, beatAge, faults>>

\* Chromium has run, once or twice, or was killed: openPage and its judge.
OpenPage(kind) ==
  /\ step = "opening"
  /\ kind \in {"page", "failed", "proxyDown"} \cup (IF page \in Look THEN {"pictured"} ELSE {})
  /\ found' = kind
  /\ step' = IF kind = "pictured" THEN "picture" ELSE "answer"
  /\ UNCHANGED <<bridgeVars, age, says, up, seen, page, opened, beatAge, faults>>

\* The picture first, then the answer.
HasPicture == step = "picture"
MutantMayAnswer == step \in {"picture", "answer"}
MayAnswer == step = "answer"

WritePicture ==
  /\ HasPicture
  /\ age' = [age EXCEPT ![Picture(page)] = 0] /\ step' = "answer"
  /\ UNCHANGED <<bridgeVars, says, up, seen, page, found, opened, beatAge, faults>>

WriteAnswer ==
  /\ MayAnswer
  /\ Answered(page, found)
  /\ UNCHANGED <<bridgeVars, up, seen, opened, beatAge, faults>>

\* Something throws in handle: the loop goes on without an answer.
PageError ==
  /\ step \in {"opening", "picture", "answer"}
  /\ page' = NoPage /\ step' = "idle" /\ found' = "nothing"
  /\ UNCHANGED <<bridgeVars, age, says, up, seen, opened, beatAge, faults>>

Start ==
  /\ ~up /\ up' = TRUE /\ beatAge' = 0 /\ seen' = {}
  /\ UNCHANGED <<bridgeVars, age, says, page, step, found, opened, faults>>

Stop ==
  /\ up /\ faults < MaxFaults /\ faults' = faults + 1
  /\ up' = FALSE /\ page' = NoPage /\ step' = "idle" /\ found' = "nothing"
  /\ UNCHANGED <<bridgeVars, age, says, seen, opened, beatAge>>

\* Time: a bridge that waits looks at its deadline in every tick, a browser that
\* runs touches its heartbeat.
Older(n, limit) == IF n < limit THEN n + 1 ELSE n
Tick ==
  /\ \A a \in Asks : ~PastDeadline(a)
  /\ age' = [f \in Files |-> IF age[f] = Absent THEN Absent ELSE Older(age[f], ORPHAN)]
  /\ beatAge' = IF up THEN 0 ELSE Older(beatAge, HEARTBEAT_STALE + 1)
  /\ UNCHANGED <<bridgeVars, says, browserVars, faults>>

Next ==
  \/ \E a \in Asks : ReadPage(a) \/ Begin(a) \/ Poll(a) \/ GiveUp(a) \/ Fallback(a) \/ Pick(a)
  \/ \E kind \in {"page", "pictured", "failed", "proxyDown"} : OpenPage(kind)
  \/ ReadRequest \/ WritePicture \/ WriteAnswer \/ PageError \/ Start \/ Stop
  \/ BridgeCrash \/ Tick

\* Of the browser nothing is assumed, neither that it runs nor that it answers.
Progress ==
  \/ \E a \in Asks : Begin(a) \/ Poll(a) \/ GiveUp(a) \/ Fallback(a)
  \/ Waiting # {} /\ Tick
Fairness == WF_browseVars(Progress)

Spec == Init /\ [][Next]_browseVars

----------------------------------------------------------------------------
(* Properties *)

\* The calls, the files and the page in hand have their shapes; one call waits.
TypeOK ==
  /\ call \in [Asks -> {"unasked", "queued", "waiting", "falling", "done", "lost"}]
  /\ outcome \in [Asks -> {"none", "answered", "unknown", "notAsked"}]
  /\ reply \in [Asks -> [from: {"nobody", "browser", "provider"}, picture: BOOLEAN]]
  /\ tail \in Seq(Asks) /\ IsInjective(tail)
  /\ {a \in Asks : call[a] \in {"queued", "waiting"}} = ToSet(tail)
  /\ Cardinality(Waiting) <= 1 /\ (Waiting # {} => Head(tail) \in Waiting)
  /\ age \in [Files -> 0..Absent] /\ beatAge \in 0..HEARTBEAT_STALE + 1
  /\ (page = NoPage) = (step = "idle") /\ opened \subseteq Asks

\* The arrival of an answer is the moment everything is ready: at no moment can
\* the bridge find one that speaks of a picture and not find the picture.  It
\* holds with the browser stopped between the two writes, with requests opened
\* twice and with files swept.
AnswerMeansReady ==
  \A a \in Waiting : Exists(Result(a)) /\ says[a] = "pictured" => Exists(Picture(a))

Contract == INSTANCE AskContract
  WITH outcome <- [a \in Asks |->
         IF call[a] = "lost" /\ outcome[a] = "none" THEN "lost"
         ELSE IF call[a] \in {"queued", "waiting"} THEN "pending" ELSE outcome[a]],
       taken <- opened

\* A page that answers a call was opened for it, and when readPage says the
\* browser was not asked it never opens the page, however late it comes.
KeepsContract == Contract!Spec

\* Every call is answered, whatever the browser does.
Idle == \A a \in Asks : call[a] \in {"unasked", "done", "lost"}
EveryReadReturns == []<>Idle

=============================================================================
