-------------------------------- MODULE Chats --------------------------------
(***************************************************************************)
(* The registry of chats (bridge/src/chats.ts) and the way of a message to *)
(* its record (dispatcher.ts, handle): which record it lands on, when two  *)
(* identifiers are one person.  A direct chat arrives under a phone number *)
(* or under a linked id, a linked id with a number or without, as WhatsApp *)
(* chooses.  chatKeyFor is one-to-one, so a key is written as the          *)
(* identifier it is the key of.                                            *)
(*                                                                         *)
(* The key is taken first, the message parsed after, and filed under the   *)
(* key taken; others come meanwhile.  Records are kept in memory and       *)
(* flushed when that works; a crash loses what was not.  Names, contact    *)
(* flags, counts and altJid are left out: nothing here reads them.         *)
(***************************************************************************)
CONSTANTS
  Phones, Lids,    \* identifiers: phone numbers and linked ids
  None,
  Persons, Person(_),  \* whose identifier it is
  Forms,           \* the pairs of identifier and number WhatsApp may send
  Handles          \* messages that may be on their way at once

Ids == Phones \cup Lids

ASSUME ChatsAssumption ==
  /\ Phones \cap Lids = {} /\ None \notin Ids
  /\ Forms \subseteq (Phones \X {None}) \cup (Lids \X (Phones \cup {None}))
  /\ \A i \in Ids : Person(i) \in Persons
  /\ \A f \in Forms : f[2] # None => Person(f[1]) = Person(f[2])

VARIABLES
  byKey,    \* the records in memory
  saved,    \* chats.json
  msg,      \* the messages being parsed: whose, the key taken, and whether overtaken
  numbers,  \* history: the numbers each linked id has come with
  barred,   \* history: the records an operator's last word was to block
  written,  \* history: the same, as it was when the file was last written
  shut,     \* history: who had every record barred, and no word to unblock since
  heard     \* history: who was let in while shut out

operators == <<barred, written, shut, heard>>
vars == <<byKey, saved, msg, numbers, operators>>

Record == [known : BOOLEAN, mergedInto : Ids \cup {None}, blocked : BOOLEAN]
Unknown == [known |-> FALSE, mergedInto |-> None, blocked |-> FALSE]

\* overtaken: the linked id whose key was taken came with a number since.
Nothing == [jid |-> None, key |-> None, overtaken |-> FALSE]

Init ==
  /\ byKey = [i \in Ids |-> Unknown] /\ saved = byKey
  /\ msg = [h \in Handles |-> Nothing]
  /\ numbers = [l \in Lids |-> {}]
  /\ barred = {} /\ written = {} /\ shut = {} /\ heard = {}

----------------------------------------------------------------------------
(* The registry.  An operator whose name begins with Mutant is a plausible
   wrong version of the one after it. *)

Known(key) == byKey[key].known
canonicalIn(records, key) ==
  IF records[key].mergedInto # None THEN records[key].mergedInto ELSE key
canonical(key) == canonicalIn(byKey, key)

\* isBlocked resolves the key, and so does setBlocked.
isBlocked(records, key) == records[canonicalIn(records, key)].blocked

\* keyFor, when a number comes with the linked id and a record has that number.
MutantMerged(jid, alt) == [byKey EXCEPT ![alt].mergedInto = IF Known(jid) THEN jid ELSE @]
Merged(jid, alt) == [byKey EXCEPT ![jid].mergedInto = IF Known(jid) THEN alt ELSE @]

\* keyFor: the key a message is filed under, and what the registry is then.  With a
\* number no record has, the linked id keeps its record if it has one.
MutantKeyFor(jid, alt) == IF alt = None THEN jid ELSE IF Known(alt) \/ ~Known(jid) THEN alt ELSE jid
KeyFor(jid, alt) ==
  IF alt = None THEN canonical(jid)
  ELSE IF Known(alt) \/ ~Known(jid) THEN alt
  ELSE jid

AfterKeyFor(jid, alt) ==
  IF alt = None THEN [byKey EXCEPT ![jid].known = TRUE]
  ELSE IF Known(alt) THEN Merged(jid, alt)
  ELSE IF Known(jid) THEN byKey
  ELSE [byKey EXCEPT ![alt].known = TRUE]

\* Whoever is known by all their identifiers, each leading to a record that is barred.
Shut == {p \in Persons : \A i \in Ids : Person(i) = p => Known(i) /\ canonical(i) \in barred}

----------------------------------------------------------------------------
(* A message (dispatcher.ts, handle) *)

\* The key is taken before the message is parsed.
TakeKey(h, jid, alt) ==
  /\ msg[h] = Nothing /\ <<jid, alt>> \in Forms
  /\ byKey' = AfterKeyFor(jid, alt)
  /\ msg' = [g \in Handles |->
               IF g = h THEN [jid |-> jid, key |-> KeyFor(jid, alt), overtaken |-> FALSE]
               ELSE [msg[g] EXCEPT !.overtaken = @ \/ (alt # None /\ msg[g].key = jid)]]
  /\ numbers' = [l \in Lids |-> IF l = jid /\ alt # None THEN numbers[l] \cup {alt} ELSE numbers[l]]
  /\ UNCHANGED <<saved, barred, written, heard>>
  /\ shut' = shut \cup Shut'

\* Parsed, it is filed under the key taken unless that leads to a blocked record ...
File(h) ==
  /\ msg[h] # Nothing
  /\ msg' = [msg EXCEPT ![h] = Nothing]
  /\ heard' = IF isBlocked(byKey, msg[h].key) THEN heard ELSE heard \cup ({Person(msg[h].jid)} \cap shut)
  /\ UNCHANGED <<byKey, saved, numbers, barred, written, shut>>

\* ... or it goes no further: the socket is away, it is empty, the gate or the limiter
\* refuses it.
Drop(h) ==
  /\ msg[h] # Nothing
  /\ msg' = [msg EXCEPT ![h] = Nothing]
  /\ UNCHANGED <<byKey, saved, numbers, operators>>

----------------------------------------------------------------------------
(* The operator, the disk and the process *)

\* flush: the records are written, or the write fails and they stay in memory, to be
\* written with the next that works.
Flushed == saved' = byKey' /\ written' = barred'
FlushTried == Flushed \/ UNCHANGED <<saved, written>>

\* !block, !unblock and the panel's: the flag is set where the key leads.
MutantBlocked(key, blocked) == [byKey EXCEPT ![key].blocked = blocked]
Blocked(key, blocked) == [byKey EXCEPT ![canonical(key)].blocked = blocked]

SetBlocked(key, blocked) ==
  /\ Known(key)
  /\ byKey' = Blocked(key, blocked)
  /\ barred' = IF blocked THEN barred \cup {canonical(key)} ELSE barred \ {canonical(key)}
  /\ shut' = (shut \ {Person(key)}) \cup Shut'
  /\ FlushTried
  /\ UNCHANGED <<msg, numbers, heard>>

\* The operator's list of contacts, by number.
Reconciled(records, wanted) == [i \in Ids |-> [records[i] EXCEPT !.known = @ \/ i \in wanted]]

SyncContacts(wanted) ==
  /\ byKey' = Reconciled(byKey, wanted)
  /\ UNCHANGED <<msg, numbers, barred, heard>>
  /\ shut' = shut \cup Shut'
  /\ FlushTried

\* The timer's flush; one that fails changes nothing.
Flush ==
  /\ UNCHANGED <<byKey, msg, numbers, barred, shut, heard>>
  /\ Flushed

\* A crash and the next boot, which reconciles the contacts and flushes nothing.  What
\* an operator said is again what the file has.
Crash(wanted) ==
  /\ byKey' = Reconciled(saved, wanted)
  /\ msg' = [h \in Handles |-> Nothing]
  /\ barred' = written /\ shut' = Shut'
  /\ UNCHANGED <<saved, numbers, written, heard>>

Next ==
  \/ \E h \in Handles, jid \in Ids, alt \in Phones \cup {None} : TakeKey(h, jid, alt)
  \/ \E h \in Handles : File(h) \/ Drop(h)
  \/ \E key \in Ids, blocked \in BOOLEAN : SetBlocked(key, blocked)
  \/ \E wanted \in SUBSET Phones : SyncContacts(wanted) \/ Crash(wanted)
  \/ Flush

Spec == Init /\ [][Next]_vars

----------------------------------------------------------------------------
(* Properties *)

\* Records have their shape, and a key a message took is on record.
TypeOK ==
  /\ byKey \in [Ids -> Record] /\ saved \in [Ids -> Record]
  /\ \A h \in Handles : msg[h] # Nothing => msg[h].jid \in Ids /\ msg[h].key \in Ids /\ Known(msg[h].key)
  /\ barred \subseteq Ids /\ written \subseteq Ids /\ shut \subseteq Persons /\ heard \subseteq Persons
  /\ numbers \in [Lids -> SUBSET Phones]

\* One hop is the whole story: a superseded record points at a record that is
\* there and is not superseded itself, in memory and on disk.
HopsOnce(records) ==
  \A i \in Ids :
    records[i].mergedInto # None =>
      /\ records[i].known /\ i \in Lids
      /\ records[i].mergedInto \in Phones
      /\ records[records[i].mergedInto].known
      /\ records[records[i].mergedInto].mergedInto = None

NoChain == HopsOnce(byKey) /\ HopsOnce(saved)

\* Once an operator has blocked every record a person's identifiers lead to, under
\* whichever key, and all of those identifiers are known, nothing of theirs is let in
\* under any of them before an operator unblocks one: not a message whose key was
\* taken before, nor one after a restart if the file was written since the block.
BlockHoldsOnceMerged == heard = {}

\* A message is filed under a key that leads to a record of its sender's, and under a
\* superseded one only if its linked id came with a number while the message was
\* parsed, or has come with two different numbers.
Superseded(key) == byKey[key].mergedInto # None
Renumbered(jid) == jid \in Lids /\ \E n, m \in numbers[jid] : n # m
Survives(m) ==
  /\ Person(canonical(m.key)) = Person(m.jid)
  /\ Superseded(m.key) => m.overtaken \/ Renumbered(m.jid)
MessagesGoToTheSurvivor == \A h \in Handles : msg[h] # Nothing => Survives(msg[h])

=============================================================================
