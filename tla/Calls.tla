-------------------------------- MODULE Calls --------------------------------
(***************************************************************************)
(* Calling a plugin (bridge/src/pluginCalls.ts): the bridge writes a call  *)
(* into the plugin's directory, polls for its answer until a deadline and  *)
(* deletes both files.  The service is a process of the operator's: it     *)
(* takes a call when it likes, answers what it likes, or nothing.          *)
(***************************************************************************)
EXTENDS Naturals

CONSTANTS
  Calls,           \* the calls there will be; each has a fresh id
  Foreign,         \* whether answers/ is a directory the bridge may not delete in
  MaxCallCrashes   \* bound on crashes of the bridge

\* What is assumed of the constants.
CallsAssumption == MaxCallCrashes \in Nat

VARIABLES
  asked,        \* of each call: unasked, waiting, done, lost
  verdict,      \* what callPlugin made of it: none, answered, unknown, notAsked
  callFiles,    \* calls/<id>.json there are
  answerFile,   \* of each call what answers/<id>.json says, if it is there
  takenUp,      \* calls the service has taken, and
  answering,    \* those of them it has still to answer
  callCrashes

callsVars == <<asked, verdict, callFiles, answerFile, takenUp, answering, callCrashes>>

Answers == {"ok", "failed", "bad"}

Init ==
  /\ asked = [c \in Calls |-> "unasked"] /\ verdict = [c \in Calls |-> "none"]
  /\ callFiles = {} /\ answerFile = [c \in Calls |-> "missing"]
  /\ takenUp = {} /\ answering = {} /\ callCrashes = 0

----------------------------------------------------------------------------
(* The bridge.  An operator whose name begins with Mutant is a plausible
   wrong version of the one after it. *)

\* callPlugin refuses: the plugin, the turn, the manifest, the action, an
\* argument or the calls directory is not as it must be, or the write fails.
Refused(c) == UNCHANGED callFiles

Ask(c) ==
  /\ asked[c] = "unasked"
  /\ \/ /\ Refused(c)
        /\ asked' = [asked EXCEPT ![c] = "done"] /\ verdict' = [verdict EXCEPT ![c] = "notAsked"]
     \/ /\ callFiles' = callFiles \cup {c}
        /\ asked' = [asked EXCEPT ![c] = "waiting"] /\ UNCHANGED verdict
  /\ UNCHANGED <<answerFile, takenUp, answering, callCrashes>>

interpret(text) == IF text = "bad" THEN "unknown" ELSE "answered"

\* The finally: both files go.  What throws there is caught by callPlugin, whose
\* words are that nothing was asked.
Ended(c, o) ==
  /\ callFiles' = callFiles \ {c}
  /\ asked' = [asked EXCEPT ![c] = "done"]
  /\ IF Foreign /\ answerFile[c] # "missing"
       THEN verdict' = [verdict EXCEPT ![c] = "notAsked"] /\ UNCHANGED answerFile
       ELSE /\ verdict' = [verdict EXCEPT ![c] = o]
            /\ answerFile' = [answerFile EXCEPT ![c] = "missing"]
  /\ UNCHANGED <<takenUp, answering, callCrashes>>

\* A poll of awaitAnswer: an answer, or the deadline has passed without one.
MutantPolled(c) == answerFile[c] \in {"missing", "ok"}
Polled(c) == answerFile[c] # "missing"
awaitAnswer(c) ==
  /\ asked[c] = "waiting"
  /\ \/ Polled(c) /\ Ended(c, interpret(answerFile[c]))
     \/ answerFile[c] = "missing" /\ Ended(c, "unknown")

\* The bridge ends and starts again: nothing looks for a call left behind.
BridgeRestart ==
  /\ callCrashes < MaxCallCrashes /\ callCrashes' = callCrashes + 1
  /\ asked' = [c \in Calls |-> IF asked[c] = "waiting" THEN "lost" ELSE asked[c]]
  /\ UNCHANGED <<verdict, callFiles, answerFile, takenUp, answering>>

----------------------------------------------------------------------------
(* The service *)

TakeUp(c) ==
  /\ c \in callFiles \ takenUp
  /\ takenUp' = takenUp \cup {c} /\ answering' = answering \cup {c}
  /\ \E deleted \in BOOLEAN : callFiles' = IF deleted THEN callFiles \ {c} ELSE callFiles
  /\ UNCHANGED <<asked, verdict, answerFile, callCrashes>>

Reply(c, text) ==
  /\ c \in answering
  /\ answering' = answering \ {c} /\ answerFile' = [answerFile EXCEPT ![c] = text]
  /\ UNCHANGED <<asked, verdict, callFiles, takenUp, callCrashes>>

Next ==
  \/ \E c \in Calls : Ask(c) \/ awaitAnswer(c) \/ TakeUp(c) \/ \E text \in Answers : Reply(c, text)
  \/ BridgeRestart

\* The deadline comes; of the service nothing is assumed.
Progress == \E c \in Calls : awaitAnswer(c)
Fairness == WF_callsVars(Progress)

Spec == Init /\ [][Next]_callsVars

----------------------------------------------------------------------------
(* Properties *)

\* The calls and their files have their shapes.
TypeOK ==
  /\ asked \in [Calls -> {"unasked", "waiting", "done", "lost"}]
  /\ verdict \in [Calls -> {"none", "answered", "unknown", "notAsked"}]
  /\ callFiles \subseteq Calls /\ takenUp \subseteq Calls /\ answering \subseteq takenUp
  /\ answerFile \in [Calls -> Answers \cup {"missing"}] /\ callCrashes \in 0..MaxCallCrashes

\* A call is there to be taken only while somebody waits for its answer, or
\* because the bridge stopped meanwhile.
TakenWhileHeard == \A c \in callFiles : asked[c] \in {"waiting", "lost"}

Contract == INSTANCE AskContract
  WITH Asks <- Calls, taken <- takenUp,
       outcome <- [c \in Calls |-> IF asked[c] = "lost" THEN "lost"
                                   ELSE IF asked[c] = "waiting" THEN "pending" ELSE verdict[c]]

\* An answer is the service's to a call it took, and where the agent is told
\* that nothing was asked the service never takes the call, however late.
KeepsContract == Contract!Spec

\* What the agent is told when it is told that nothing was asked is true.
NotAskedIsTrue == \A c \in Calls : verdict[c] = "notAsked" => c \notin takenUp

\* Every call returns, whatever the service does.
Idle == \A c \in Calls : asked[c] # "waiting"
EveryCallReturns == []<>Idle

=============================================================================
