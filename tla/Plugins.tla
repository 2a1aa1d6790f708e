------------------------------- MODULE Plugins -------------------------------
(***************************************************************************)
(* The drop box of a plugin (bridge/src/plugins.ts): its service writes    *)
(* one file for each message it wants sent; passes over the directory send *)
(* them, leave a receipt or a .failed, and hold back what is over the      *)
(* plugin's hour.  What was tried and sent before is known from memory     *)
(* and from the receipts, and only the receipts outlive the bridge.        *)
(***************************************************************************)
EXTENDS Naturals, FiniteSets

CONSTANTS
  Names,         \* names of action files, in their order
  Ids,           \* values of externalId
  MAX_ATTEMPTS, MAX_PER_TICK, PerHour,
  MaxWritten,    \* bounds on the actions the service writes,
  MaxFlips,      \* the operator's changes of the plugin's settings,
  MaxSendFails,  \* sends that throw and connections lost, and
  MaxUnclean     \* crashes and receipts that cannot be written

VARIABLES
  box,        \* of each name: its action, or NoFile
  failed,     \* names there is a .failed of
  receipts,   \* what there is a .sent of: an externalId or a file name
  tries,      \* attempts: of each name, failures so far and whether it must wait
  recent,     \* sends of the last hour
  setting,    \* the plugin's entry: off, or its grant covers what it asks or not
  granted,    \* the entry as the pass in progress found it
  pass,       \* names the pass has yet to handle
  sending,    \* the name whose send is awaited, or NoName
  handed,     \* history: of each receipt name, how often it was handed to the network
  excused,    \* history: how often a crash or a failed receipt left no receipt of it
  written, flips, sendFails, unclean

memory == <<tries, recent, pass, sending, granted>>
counts == <<written, flips, sendFails, unclean>>
pluginsVars == <<box, failed, receipts, memory, setting, handed, excused, counts>>

Settings == {"granted", "narrower", "off"}
NoFile == [id |-> "nofile", shape |-> "none"]
NoName == "noname"
NoId == "noid"
Shapes == {"good", "expired", "unreadable", "halfWritten", "badPicture"}
Actions == [id: Ids \cup {NoId}, shape: Shapes]
NameSet == {Names[i] : i \in DOMAIN Names}

\* What is assumed of the constants.
PluginsAssumption == MAX_ATTEMPTS \in Nat \ {0} /\ NoName \notin NameSet
Receipts == Ids \cup NameSet
ReceiptOf(f) == IF box[f].id = NoId THEN f ELSE box[f].id
There(f) == box[f] # NoFile
Before(f, g) == \E i, j \in DOMAIN Names : i < j /\ Names[i] = f /\ Names[j] = g
Untried == [n |-> 0, waits |-> FALSE]

Init ==
  /\ box = [f \in NameSet |-> NoFile] /\ failed = {} /\ receipts = {}
  /\ tries = [f \in NameSet |-> Untried] /\ recent = 0
  /\ setting = "granted" /\ granted = "off" /\ pass = {} /\ sending = NoName
  /\ handed = [r \in Receipts |-> 0] /\ excused = [r \in Receipts |-> 0]
  /\ written = 0 /\ flips = 0 /\ sendFails = 0 /\ unclean = 0

----------------------------------------------------------------------------
(* The service and the operator *)

\* A file is written under a temporary name and renamed, or half written by a
\* service that skips that.  A retry is the same id again, in any file.
Write(f, a) ==
  /\ written < MaxWritten /\ written' = written + 1
  /\ ~There(f) /\ f # sending
  /\ box' = [box EXCEPT ![f] = a]
  /\ UNCHANGED <<failed, receipts, memory, setting, handed, excused, flips, sendFails, unclean>>

Completed(f) ==
  /\ box[f].shape = "halfWritten"
  /\ box' = [box EXCEPT ![f].shape = "good"]
  /\ UNCHANGED <<failed, receipts, memory, setting, handed, excused, counts>>

\* The panel: a switch, a list of recipients, a kind, a block.
SaveSettings(entry) ==
  /\ flips < MaxFlips /\ flips' = flips + 1
  /\ setting' = entry
  /\ UNCHANGED <<box, failed, receipts, memory, handed, excused, written, sendFails, unclean>>

----------------------------------------------------------------------------
(* The pass.  An operator whose name begins with Mutant is a plausible wrong
   version of the one after it. *)

\* drain and drainPlugin: the settings and the names are read once, at its start.
drain ==
  /\ pass = {} /\ sending = NoName /\ setting # "off"
  /\ LET names == {f \in NameSet : There(f)}
     IN pass' = {f \in names : Cardinality({g \in names : Before(g, f)}) < MAX_PER_TICK}
  /\ pass' # {}
  /\ granted' = setting
  /\ UNCHANGED <<box, failed, receipts, tries, recent, sending, setting, handed, excused, counts>>

\* The connection is lost in the middle: the rest waits for the next pass.
Disconnected ==
  /\ pass # {} /\ pass' = {}
  /\ sendFails < MaxSendFails /\ sendFails' = sendFails + 1
  /\ UNCHANGED <<box, failed, receipts, tries, recent, sending, granted, setting, handed, excused, written, flips, unclean>>

Removed(f) == box' = [box EXCEPT ![f] = NoFile]

\* refuse: renamed, or replaced for a plugin marked private.
refuse(f) == failed' = failed \cup {f} /\ Removed(f)

\* failedAttempt
failedAttempt(f) ==
  IF tries[f].n + 1 >= MAX_ATTEMPTS
    THEN tries' = [tries EXCEPT ![f] = Untried] /\ refuse(f)
    ELSE tries' = [tries EXCEPT ![f] = [n |-> @.n + 1, waits |-> TRUE]] /\ UNCHANGED <<box, failed>>

AlreadySent(f) == ReceiptOf(f) \in receipts

withinHour == recent < PerHour

\* What is decided of the settings the pass found, but for a block, which is
\* asked again; a picture is opened only when it may be sent.
Refusable(f) ==
  \/ box[f].shape = "expired" \/ granted = "narrower"
  \/ box[f].shape = "badPicture" /\ withinHour

\* handle of the first name left, up to the send.
handle(f) ==
  /\ f \in pass /\ sending = NoName /\ \A g \in pass : ~Before(g, f)
  /\ pass' = pass \ {f}
  /\ LET skip == tries[f].waits \/ ~There(f)
     IN CASE skip -> UNCHANGED <<box, failed, tries, sending>>
          [] ~skip /\ box[f].shape = "halfWritten" -> failedAttempt(f) /\ UNCHANGED sending
          [] ~skip /\ box[f].shape = "unreadable" -> refuse(f) /\ UNCHANGED <<tries, sending>>
          [] OTHER ->
               /\ UNCHANGED tries
               /\ IF AlreadySent(f) THEN Removed(f) /\ UNCHANGED <<failed, sending>>
                  ELSE IF Refusable(f) THEN refuse(f) /\ UNCHANGED sending
                  ELSE sending' = (IF withinHour THEN f ELSE NoName) /\ UNCHANGED <<box, failed>>
  /\ UNCHANGED <<receipts, recent, granted, setting, handed, excused, counts>>

SendFails ==
  /\ sending # NoName /\ sendFails < MaxSendFails /\ sendFails' = sendFails + 1
  /\ failedAttempt(sending) /\ sending' = NoName
  /\ UNCHANGED <<receipts, recent, pass, granted, setting, handed, excused, written, flips, unclean>>

\* The message is away; the receipt is written, or cannot be, and the action goes.
MutantReceipt(r) == receipts' = receipts
Receipt(r) == receipts' = receipts \cup {r}

Sent(confirmed) ==
  /\ sending # NoName
  /\ LET r == ReceiptOf(sending) IN
       /\ handed' = [handed EXCEPT ![r] = @ + 1]
       /\ IF confirmed
            THEN Receipt(r) /\ UNCHANGED <<excused, unclean>>
            ELSE /\ unclean < MaxUnclean /\ unclean' = unclean + 1
                 /\ excused' = [excused EXCEPT ![r] = @ + 1] /\ UNCHANGED receipts
  /\ tries' = [tries EXCEPT ![sending] = Untried]
  /\ recent' = recent + 1
  /\ Removed(sending) /\ sending' = NoName
  /\ UNCHANGED <<failed, pass, granted, setting, written, flips, sendFails>>

\* The bridge ends and starts again; a send that was awaited may be away.
Crash(away) ==
  /\ unclean < MaxUnclean /\ unclean' = unclean + 1
  /\ tries' = [f \in NameSet |-> Untried] /\ recent' = 0
  /\ pass' = {} /\ sending' = NoName
  /\ away => sending # NoName
  /\ IF away
       THEN LET r == ReceiptOf(sending)
            IN handed' = [handed EXCEPT ![r] = @ + 1] /\ excused' = [excused EXCEPT ![r] = @ + 1]
       ELSE UNCHANGED <<handed, excused>>
  /\ UNCHANGED <<box, failed, receipts, granted, setting, written, flips, sendFails>>

----------------------------------------------------------------------------
(* Time *)

BackoffOver(f) ==
  /\ tries[f].waits /\ tries' = [tries EXCEPT ![f].waits = FALSE]
  /\ UNCHANGED <<box, failed, receipts, recent, pass, sending, granted, setting, handed, excused, counts>>

HourOver ==
  /\ recent > 0 /\ recent' = 0
  /\ UNCHANGED <<box, failed, receipts, tries, pass, sending, granted, setting, handed, excused, counts>>

Next ==
  \/ \E f \in NameSet : Completed(f) \/ handle(f) \/ BackoffOver(f) \/ \E a \in Actions : Write(f, a)
  \/ \E entry \in Settings : SaveSettings(entry)
  \/ drain \/ Disconnected \/ SendFails \/ HourOver
  \/ \E b \in BOOLEAN : Sent(b) \/ Crash(b)

\* The connection comes back, sends end and time passes.
Fairness ==
  /\ WF_pluginsVars(drain \/ (\E f \in NameSet : handle(f)) \/ SendFails \/ Sent(TRUE))
  /\ WF_pluginsVars(HourOver)
  /\ WF_pluginsVars(\E f \in NameSet : BackoffOver(f))

Spec == Init /\ [][Next]_pluginsVars

----------------------------------------------------------------------------
(* Properties *)

\* The directory, the memory of the host and the pass have their shapes.
TypeOK ==
  /\ box \in [NameSet -> Actions \cup {NoFile}]
  /\ failed \subseteq NameSet /\ receipts \subseteq Receipts
  /\ tries \in [NameSet -> [n: 0..MAX_ATTEMPTS - 1, waits: BOOLEAN]]
  /\ sending \in NameSet \cup {NoName} /\ (sending # NoName => There(sending))
  /\ pass \subseteq NameSet /\ handed \in [Receipts -> Nat]

\* A message is handed to the network once for each externalId, whatever files it
\* is asked for in and however often it is retried, but for one more time after
\* each crash or failed write that left no receipt of it.
OncePerReceipt == \A r \in Receipts : handed[r] <= 1 + excused[r]

\* While the plugin is on, every action leaves its directory in the end: sent,
\* refused, given up on, or known to have been sent.
Idle == \A f \in NameSet : ~There(f)
EveryActionLeaves == []<>(Idle \/ setting = "off")

\* A customer is never sent the same message twice.
NeverSentTwice == \A r \in Receipts : handed[r] <= 1

=============================================================================
