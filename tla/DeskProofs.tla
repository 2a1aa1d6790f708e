----------------------------- MODULE DeskProofs -----------------------------
(* Proofs about what the desk is made of, for any values of the constants: the
   registry of chats (Chats), the requests of the panel (Panel, as D), the pages
   (Pages, as G) and the operator's commands (Control, as K), and about MCDesk,
   whose behaviours are theirs. *)
EXTENDS MCDesk, Naturals, FiniteSets, TLAPS, FiniteSetTheorems

Records == [Ids -> Record]

\* What a registry is like, in memory and on disk.
Sound(records) ==
  /\ records \in Records
  /\ HopsOnce(records)
  /\ \A i \in Ids : records[i].mergedInto # None => Person(records[i].mergedInto) = Person(i)

\* A message on its way took a key that is on record, and its sender's.
Sent == [jid : Ids, key : Ids, overtaken : BOOLEAN]
Sender(m) == Person(m.key) = Person(m.jid)
OnTheirWay ==
  /\ msg \in [Handles -> {Nothing} \cup Sent]
  /\ \A h \in Handles : msg[h] # Nothing => Known(msg[h].key) /\ Sender(msg[h])

\* Every record that is barred is blocked; whoever is shut out is by every record.
Barred ==
  /\ barred \subseteq Ids /\ written \subseteq Ids /\ shut \subseteq Persons
  /\ \A i \in barred : byKey[i].blocked
  /\ \A i \in written : saved[i].blocked
  /\ shut \subseteq Shut

\* The inductive invariant.
RegistryInv ==
  /\ Sound(byKey) /\ Sound(saved)
  /\ numbers \in [Lids -> SUBSET Phones]
  /\ OnTheirWay
  /\ Barred
  /\ heard = {}

----------------------------------------------------------------------------
LEMMA NothingIsNotSent == Nothing \notin Sent /\ Nothing.key = None /\ Nothing.overtaken = FALSE
BY ChatsAssumption DEF Nothing, Sent

LEMMA NothingStays == [Nothing EXCEPT !.overtaken = FALSE] = Nothing
<1> DEFINE Only == [jid : {None}, key : {None}, overtaken : {FALSE}]
<1>1. Nothing \in Only BY DEF Nothing
<1>2. ASSUME NEW m \in Only PROVE [m EXCEPT !.overtaken = FALSE] \in Only OBVIOUS
<1>3. ASSUME NEW m \in Only PROVE m = Nothing
  <2>1. m = [jid |-> m.jid, key |-> m.key, overtaken |-> m.overtaken] OBVIOUS
  <2> QED BY <2>1 DEF Nothing
<1> QED BY <1>1, <1>2, <1>3

\* Following a reference once, as canonical does, stays with the person.
LEMMA CanonicalKeepsPerson ==
  ASSUME NEW records, Sound(records), NEW i \in Ids
  PROVE  /\ canonicalIn(records, i) \in Ids
         /\ Person(canonicalIn(records, i)) = Person(i)
BY ChatsAssumption DEF Sound, HopsOnce, canonicalIn, Ids

LEMMA InitSound == Init => RegistryInv
<1> SUFFICES ASSUME Init PROVE RegistryInv OBVIOUS
<1>1. Sound(byKey)
  BY ChatsAssumption DEF Init, Sound, HopsOnce, Unknown, Records, Record, Ids
<1>2. OnTheirWay
  BY DEF Init, OnTheirWay
<1>3. Barred
  BY DEF Init, Barred
<1> QED BY <1>1, <1>2, <1>3 DEF Init, RegistryInv

----------------------------------------------------------------------------
\* A record that becomes known changes in nothing else.
MadeKnown(key) == [byKey EXCEPT ![key].known = TRUE]

LEMMA MadeKnownKeeps ==
  ASSUME byKey \in Records, NEW key \in Ids
  PROVE  /\ MadeKnown(key) \in Records
         /\ \A i \in Ids : /\ MadeKnown(key)[i].blocked = byKey[i].blocked
                           /\ MadeKnown(key)[i].mergedInto = byKey[i].mergedInto
                           /\ byKey[i].known => MadeKnown(key)[i].known
<1> DEFINE after == MadeKnown(key)
<1>1. \A i \in Ids : after[i] = IF i = key THEN [byKey[i] EXCEPT !.known = TRUE] ELSE byKey[i]
  BY DEF MadeKnown, Records
<1>2. after = [i \in Ids |-> after[i]]
  BY DEF MadeKnown, Records
<1> HIDE DEF after
<1>3. ASSUME NEW i \in Ids
      PROVE  /\ after[i] \in Record /\ after[i].blocked = byKey[i].blocked
             /\ after[i].mergedInto = byKey[i].mergedInto
             /\ byKey[i].known => after[i].known
  <2>1. byKey[i] \in Record BY DEF Records
  <2> QED BY <1>1, <2>1 DEF Record
<1>4. after \in Records BY <1>2, <1>3 DEF Records
<1> QED BY <1>3, <1>4 DEF after

\* What keyFor does to the records: one of them becomes known, or the linked id's is
\* superseded by the number it came with.
LEMMA KeyForChanges ==
  ASSUME Sound(byKey), NEW jid \in Ids, NEW alt \in Phones \cup {None}, <<jid, alt>> \in Forms
  PROVE  /\ AfterKeyFor(jid, alt) \in Records
         /\ \A i \in Ids : /\ AfterKeyFor(jid, alt)[i].blocked = byKey[i].blocked
                           /\ Known(i) => AfterKeyFor(jid, alt)[i].known
                           /\ \/ AfterKeyFor(jid, alt)[i].mergedInto = byKey[i].mergedInto
                              \/ /\ i = jid /\ alt # None /\ Known(alt) /\ Known(jid)
                                 /\ AfterKeyFor(jid, alt)[i].mergedInto = alt
         /\ alt # None => jid \in Lids /\ alt \in Ids /\ alt # jid /\ Person(alt) = Person(jid)
<1> DEFINE after == AfterKeyFor(jid, alt)
<1>1. byKey \in Records BY DEF Sound
<1>2. alt # None => jid \in Lids /\ alt \in Phones /\ alt \in Ids /\ alt # jid /\ Person(alt) = Person(jid)
  BY ChatsAssumption DEF Ids
<1>3. CASE alt = None
  <2>1. after = MadeKnown(jid)
    BY <1>3 DEF AfterKeyFor, MadeKnown
  <2>2. /\ after \in Records
        /\ \A i \in Ids : /\ after[i].blocked = byKey[i].blocked
                          /\ after[i].mergedInto = byKey[i].mergedInto
                          /\ byKey[i].known => after[i].known
    BY <1>1, <1>3, <2>1, MadeKnownKeeps
  <2> QED BY <1>3, <2>2 DEF Known
<1>4. CASE alt # None /\ Known(alt) /\ Known(jid)
  <2>1. after = [byKey EXCEPT ![jid].mergedInto = alt]
    BY <1>4 DEF AfterKeyFor, Merged
  <2>2. \A i \in Ids : after[i] = IF i = jid THEN [byKey[i] EXCEPT !.mergedInto = alt] ELSE byKey[i]
    BY <1>1, <2>1 DEF Records
  <2>3. after = [i \in Ids |-> after[i]]
    BY <1>1, <2>1 DEF Records
  <2> HIDE DEF after
  <2>4. ASSUME NEW i \in Ids
        PROVE  /\ after[i] \in Record /\ after[i].blocked = byKey[i].blocked /\ after[i].known = byKey[i].known
               /\ after[i].mergedInto = IF i = jid THEN alt ELSE byKey[i].mergedInto
    <3>1. byKey[i] \in Record BY <1>1 DEF Records
    <3> QED BY <1>2, <1>4, <2>2, <3>1 DEF Record
  <2>5. after \in Records BY <2>3, <2>4 DEF Records
  <2> QED BY <1>2, <1>4, <2>4, <2>5 DEF after, Known
<1>5. CASE alt # None /\ ~Known(alt) /\ ~Known(jid)
  <2>1. after = MadeKnown(alt)
    BY <1>5 DEF AfterKeyFor, MadeKnown
  <2>2. /\ after \in Records
        /\ \A i \in Ids : /\ after[i].blocked = byKey[i].blocked
                          /\ after[i].mergedInto = byKey[i].mergedInto
                          /\ byKey[i].known => after[i].known
    BY <1>1, <1>2, <1>5, <2>1, MadeKnownKeeps
  <2> QED BY <1>2, <1>5, <2>2 DEF Known
<1>6. CASE alt # None /\ Known(alt) /\ ~Known(jid)
  <2>1. after = [byKey EXCEPT ![jid].mergedInto = @]
    BY <1>6 DEF AfterKeyFor, Merged
  <2>2. after = byKey
    BY <1>1, <2>1 DEF Records, Record
  <2> QED BY <1>1, <1>2, <2>2 DEF Known
<1>7. CASE alt # None /\ ~Known(alt) /\ Known(jid)
  <2>1. after = byKey BY <1>7 DEF AfterKeyFor
  <2> QED BY <1>1, <1>2, <2>1 DEF Known
<1> QED BY <1>3, <1>4, <1>5, <1>6, <1>7

\* keyFor leaves a sound registry, and the key it answers with is on record and the
\* sender's.
LEMMA KeyForSound ==
  ASSUME Sound(byKey), NEW jid \in Ids, NEW alt \in Phones \cup {None}, <<jid, alt>> \in Forms
  PROVE  /\ Sound(AfterKeyFor(jid, alt))
         /\ KeyFor(jid, alt) \in Ids /\ Person(KeyFor(jid, alt)) = Person(jid)
         /\ AfterKeyFor(jid, alt)[KeyFor(jid, alt)].known
<1> DEFINE after == AfterKeyFor(jid, alt)
           key == KeyFor(jid, alt)
<1>1. /\ after \in Records
      /\ \A i \in Ids : /\ Known(i) => after[i].known
                        /\ \/ after[i].mergedInto = byKey[i].mergedInto
                           \/ /\ i = jid /\ alt # None /\ Known(alt) /\ Known(jid)
                              /\ after[i].mergedInto = alt
      /\ alt # None => jid \in Lids /\ alt \in Ids /\ alt # jid /\ Person(alt) = Person(jid)
  BY KeyForChanges
<1>2. Sound(after)
  <2>1. alt # None => byKey[alt].mergedInto = None
    BY ChatsAssumption DEF Sound, HopsOnce, Ids
  <2> HIDE DEF after
  <2>2. ASSUME NEW i \in Ids, after[i].mergedInto # None
        PROVE  /\ after[i].known /\ i \in Lids
               /\ after[i].mergedInto \in Phones
               /\ after[after[i].mergedInto].known
               /\ after[after[i].mergedInto].mergedInto = None
               /\ Person(after[i].mergedInto) = Person(i)
    <3>1. CASE after[i].mergedInto = byKey[i].mergedInto
      <4>1. /\ byKey[i].known /\ i \in Lids /\ byKey[i].mergedInto \in Phones
            /\ byKey[byKey[i].mergedInto].known /\ byKey[byKey[i].mergedInto].mergedInto = None
            /\ Person(byKey[i].mergedInto) = Person(i)
        BY <2>2, <3>1 DEF Sound, HopsOnce
      <4>2. byKey[i].mergedInto \in Ids /\ byKey[i].mergedInto \notin Lids
        BY <4>1, ChatsAssumption DEF Ids
      <4>3. byKey[i].mergedInto # jid \/ alt = None
        BY <1>1, <4>2
      <4> QED BY <1>1, <3>1, <4>1, <4>2, <4>3 DEF Known
    <3>2. CASE i = jid /\ alt # None /\ Known(alt) /\ Known(jid) /\ after[i].mergedInto = alt
      BY <1>1, <2>1, <3>2 DEF Known
    <3> QED BY <1>1, <3>1, <3>2
  <2> QED BY <1>1, <2>2 DEF Sound, HopsOnce
<1>3. key \in Ids /\ Person(key) = Person(jid)
  BY <1>1, CanonicalKeepsPerson DEF KeyFor, canonical
<1>4. after[key].known
  <2>1. CASE alt = None
    <3>1. after = [byKey EXCEPT ![jid].known = TRUE] /\ key = canonicalIn(byKey, jid)
      BY <2>1 DEF AfterKeyFor, KeyFor, canonical
    <3>2. key = jid \/ (key # jid /\ byKey[key].known)
      BY <3>1 DEF Sound, HopsOnce, canonicalIn
    <3>3. byKey \in Records BY DEF Sound
    <3> QED BY <1>1, <1>3, <3>1, <3>2, <3>3 DEF Known, Records, Record
  <2>2. CASE alt # None /\ (Known(alt) \/ Known(jid))
    <3>1. key = IF Known(alt) THEN alt ELSE jid BY <2>2 DEF KeyFor
    <3> QED BY <1>1, <2>2, <3>1
  <2>3. CASE alt # None /\ ~Known(alt) /\ ~Known(jid)
    <3>1. after = [byKey EXCEPT ![alt].known = TRUE] /\ key = alt BY <2>3 DEF AfterKeyFor, KeyFor
    <3>2. byKey \in Records BY DEF Sound
    <3> QED BY <1>1, <2>3, <3>1, <3>2 DEF Records, Record
  <2> QED BY <2>1, <2>2, <2>3
<1> QED BY <1>2, <1>3, <1>4

\* Whoever is shut out stays so, whatever WhatsApp delivers.
LEMMA KeyForKeepsShut ==
  ASSUME Sound(byKey), NEW jid \in Ids, NEW alt \in Phones \cup {None}, <<jid, alt>> \in Forms,
         byKey' = AfterKeyFor(jid, alt), barred' = barred
  PROVE  Shut \subseteq Shut'
<1> SUFFICES ASSUME NEW p \in Shut, NEW i \in Ids, Person(i) = p
             PROVE  Known(i)' /\ canonical(i)' \in barred
  BY DEF Shut
<1>1. Known(i) /\ canonical(i) \in barred
  BY DEF Shut
<1>2. /\ Known(i) => byKey'[i].known
      /\ \/ byKey'[i].mergedInto = byKey[i].mergedInto
         \/ i = jid /\ alt # None /\ byKey'[i].mergedInto = alt
      /\ alt # None => alt \in Ids /\ Person(alt) = Person(jid)
  BY KeyForChanges
<1>3. CASE i = jid /\ alt # None /\ byKey'[i].mergedInto = alt
  <2>1. canonical(alt) \in barred BY <1>2, <1>3 DEF Shut
  <2>2. canonical(alt) = alt
    BY <1>3, ChatsAssumption DEF Sound, HopsOnce, canonical, canonicalIn, Ids
  <2>3. canonical(i)' = alt BY <1>3 DEF canonical, canonicalIn
  <2> QED BY <1>1, <1>2, <2>1, <2>2, <2>3 DEF Known
<1> QED BY <1>1, <1>2, <1>3 DEF Known, canonical, canonicalIn

----------------------------------------------------------------------------
\* Blocking leaves a sound registry: it touches one flag, of the person's own record.
LEMMA BlockedKeeps ==
  ASSUME Sound(byKey), NEW key \in Ids, NEW refuse \in BOOLEAN
  PROVE  /\ Sound(Blocked(key, refuse))
         /\ \A i \in Ids :
              /\ Blocked(key, refuse)[i].known = byKey[i].known
              /\ Blocked(key, refuse)[i].mergedInto = byKey[i].mergedInto
              /\ Blocked(key, refuse)[i].blocked = IF i = canonical(key) THEN refuse ELSE byKey[i].blocked
<1> DEFINE after == Blocked(key, refuse)
           at == canonicalIn(byKey, key)
<1>1. at \in Ids BY CanonicalKeepsPerson
<1>2. byKey \in Records BY DEF Sound
<1>3. after = [byKey EXCEPT ![at].blocked = refuse] /\ at = canonical(key) BY DEF Blocked, canonical
<1> HIDE DEF at
<1>4. after \in Records BY <1>1, <1>2, <1>3 DEF Records, Record
<1>5. \A i \in Ids : /\ after[i].known = byKey[i].known /\ after[i].mergedInto = byKey[i].mergedInto
                     /\ after[i].blocked = IF i = at THEN refuse ELSE byKey[i].blocked
  BY <1>1, <1>2, <1>3 DEF Records, Record
<1> HIDE DEF after
<1>6. Sound(after)
  BY <1>4, <1>5, ChatsAssumption DEF Sound, HopsOnce, Ids
<1> QED BY <1>3, <1>5, <1>6 DEF after

\* Reconciling the contacts adds records and changes no reference and no block.
LEMMA ReconciledKeeps ==
  ASSUME NEW records, Sound(records), NEW wanted \in SUBSET Phones
  PROVE  /\ Sound(Reconciled(records, wanted))
         /\ \A i \in Ids : /\ records[i].known => Reconciled(records, wanted)[i].known
                           /\ Reconciled(records, wanted)[i].mergedInto = records[i].mergedInto
                           /\ Reconciled(records, wanted)[i].blocked = records[i].blocked
<1> DEFINE after == Reconciled(records, wanted)
<1>1. \A i \in Ids : /\ after[i] \in Record
                     /\ after[i].mergedInto = records[i].mergedInto
                     /\ after[i].blocked = records[i].blocked
                     /\ records[i].known => after[i].known
  <2> SUFFICES ASSUME NEW i \in Ids
               PROVE  /\ after[i] \in Record
                      /\ after[i].mergedInto = records[i].mergedInto
                      /\ after[i].blocked = records[i].blocked
                      /\ records[i].known => after[i].known
    OBVIOUS
  <2> DEFINE known == records[i].known \/ i \in wanted
  <2>1. records[i] \in Record BY DEF Sound, Records
  <2>2. known \in BOOLEAN OBVIOUS
  <2>3. after[i] = [records[i] EXCEPT !.known = known] BY DEF Reconciled
  <2>4. records[i].known => known OBVIOUS
  <2> HIDE DEF known, after
  <2> QED BY <2>1, <2>2, <2>3, <2>4 DEF Record
<1>2. after \in Records BY <1>1 DEF Records, Reconciled
<1> HIDE DEF after
<1>3. Sound(after) BY <1>1, <1>2, ChatsAssumption DEF Sound, HopsOnce, Ids
<1> QED BY <1>1, <1>3 DEF after

\* What leaves every reference as it was, every barred record blocked and what was known
\* known leaves whoever is shut out shut out.
LEMMA ShutStays ==
  ASSUME \A i \in Ids : Known(i) => byKey'[i].known,
         \A i \in Ids : byKey'[i].mergedInto = byKey[i].mergedInto,
         NEW p \in Shut,
         \A i \in Ids : Person(i) = p /\ canonical(i) \in barred => canonical(i) \in barred'
  PROVE  p \in Shut'
BY DEF Shut, Known, canonical, canonicalIn

----------------------------------------------------------------------------
LEMMA TakeKeyKeeps ==
  ASSUME RegistryInv, NEW h \in Handles, NEW jid \in Ids, NEW alt \in Phones \cup {None},
         TakeKey(h, jid, alt)
  PROVE  RegistryInv'
<1> DEFINE after == AfterKeyFor(jid, alt)
           key == KeyFor(jid, alt)
<1>1. /\ <<jid, alt>> \in Forms /\ byKey' = after /\ saved' = saved /\ heard' = heard
      /\ barred' = barred /\ written' = written /\ shut' = shut \cup Shut'
  BY DEF TakeKey
<1>2. Sound(byKey) /\ Sound(saved) /\ OnTheirWay /\ Barred /\ heard = {}
  BY DEF RegistryInv
<1>3. Sound(after) /\ key \in Ids /\ Person(key) = Person(jid) /\ after[key].known
  BY <1>1, <1>2, KeyForSound
<1>4. \A i \in Ids : after[i].blocked = byKey[i].blocked /\ (Known(i) => after[i].known)
  BY <1>1, <1>2, KeyForChanges
<1>5. Shut \subseteq Shut'
  BY <1>1, <1>2, KeyForKeepsShut
<1> HIDE DEF after, key
<1>6. Barred'
  BY <1>1, <1>2, <1>4, <1>5 DEF Barred, Shut
<1>7. OnTheirWay'
  <2>1. ASSUME NEW g \in Handles
        PROVE  /\ msg'[g] \in {Nothing} \cup Sent
               /\ msg'[g] # Nothing => Known(msg[g].key)' /\ Sender(msg[g])'
    <3>1. CASE g = h
      <4>1. msg'[g] = [jid |-> jid, key |-> key, overtaken |-> FALSE] BY <3>1 DEF TakeKey, key
      <4> QED BY <1>1, <1>3, <4>1 DEF Sent, Sender, Known
    <3>2. CASE g # h
      <4> DEFINE over == msg[g].overtaken \/ (alt # None /\ msg[g].key = jid)
      <4>1. msg'[g] = [msg[g] EXCEPT !.overtaken = over] BY <3>2 DEF TakeKey
      <4>2. CASE msg[g] = Nothing
        <5>1. over = FALSE BY <4>2, NothingIsNotSent, ChatsAssumption DEF Ids
        <5> HIDE DEF over
        <5>2. msg'[g] = Nothing BY <4>1, <4>2, <5>1, NothingStays
        <5> QED BY <5>2
      <4>3. CASE msg[g] # Nothing
        <5>1. msg[g] \in Sent /\ Known(msg[g].key) /\ Sender(msg[g]) BY <1>2, <4>3 DEF OnTheirWay
        <5>2. over \in BOOLEAN OBVIOUS
        <5> HIDE DEF over
        <5>3. /\ msg'[g] \in Sent /\ msg'[g].key = msg[g].key /\ msg'[g].jid = msg[g].jid
          BY <4>1, <5>1, <5>2 DEF Sent
        <5> QED BY <1>1, <1>4, <5>1, <5>3 DEF Sender, Known, Sent
      <4> QED BY <4>2, <4>3
    <3> QED BY <3>1, <3>2
  <2>2. msg' = [g \in Handles |-> msg'[g]] BY DEF TakeKey
  <2> QED BY <2>1, <2>2 DEF OnTheirWay, Sender
<1>8. numbers' \in [Lids -> SUBSET Phones]
  BY DEF TakeKey, RegistryInv
<1> QED BY <1>1, <1>2, <1>3, <1>6, <1>7, <1>8 DEF RegistryInv

LEMMA FileKeeps ==
  ASSUME RegistryInv, NEW h \in Handles, File(h) \/ Drop(h)
  PROVE  RegistryInv'
<1>1. /\ byKey' = byKey /\ saved' = saved /\ numbers' = numbers /\ barred' = barred /\ written' = written
      /\ shut' = shut /\ msg' = [msg EXCEPT ![h] = Nothing] /\ msg[h] # Nothing
      /\ \/ heard' = heard
         \/ ~isBlocked(byKey, msg[h].key) /\ heard' = heard \cup ({Person(msg[h].jid)} \cap shut)
  BY DEF File, Drop, operators
<1>2. Sound(byKey) /\ OnTheirWay /\ Barred /\ heard = {} BY DEF RegistryInv
<1>3. ASSUME ~isBlocked(byKey, msg[h].key) PROVE Person(msg[h].jid) \notin shut
  <2>1. msg[h] \in Sent /\ Sender(msg[h]) BY <1>1, <1>2 DEF OnTheirWay
  <2>2. msg[h].key \in Ids /\ Person(msg[h].key) = Person(msg[h].jid) BY <2>1 DEF Sent, Sender
  <2>3. Person(msg[h].jid) \in shut => canonical(msg[h].key) \in barred BY <1>2, <2>2 DEF Barred, Shut
  <2> QED BY <1>2, <1>3, <2>3 DEF Barred, isBlocked, canonical
<1>4. heard' = {} BY <1>1, <1>2, <1>3
<1>5. OnTheirWay' BY <1>1, <1>2 DEF OnTheirWay, Known, Sender
<1>6. Barred' BY <1>1, <1>2 DEF Barred, Shut, Known, canonical, canonicalIn
<1> QED BY <1>1, <1>4, <1>5, <1>6 DEF RegistryInv

LEMMA SetBlockedKeeps ==
  ASSUME RegistryInv, NEW key \in Ids, NEW refuse \in BOOLEAN, SetBlocked(key, refuse)
  PROVE  RegistryInv'
<1> DEFINE at == canonical(key)
<1>1. /\ byKey' = Blocked(key, refuse) /\ msg' = msg /\ numbers' = numbers /\ heard' = heard
      /\ barred' = (IF refuse THEN barred \cup {at} ELSE barred \ {at})
      /\ shut' = (shut \ {Person(key)}) \cup Shut'
      /\ (saved' = byKey' /\ written' = barred') \/ (saved' = saved /\ written' = written)
  BY DEF SetBlocked, FlushTried, Flushed
<1>2. Sound(byKey) /\ Sound(saved) /\ OnTheirWay /\ Barred /\ heard = {} BY DEF RegistryInv
<1>3. /\ Sound(byKey')
      /\ \A i \in Ids : /\ byKey'[i].known = byKey[i].known
                        /\ byKey'[i].mergedInto = byKey[i].mergedInto
                        /\ byKey'[i].blocked = IF i = at THEN refuse ELSE byKey[i].blocked
  BY <1>1, <1>2, BlockedKeeps
<1>4. at \in Ids /\ Person(at) = Person(key) BY <1>2, CanonicalKeepsPerson DEF canonical
<1> HIDE DEF at
<1>5. ASSUME NEW p \in shut, p # Person(key) PROVE p \in Shut'
  <2>1. p \in Shut BY <1>2 DEF Barred
  <2>2. ASSUME NEW i \in Ids, Person(i) = p PROVE canonical(i) # at
    BY <1>2, <1>4, <1>5, <2>2, CanonicalKeepsPerson DEF canonical
  <2> QED BY <1>1, <1>3, <2>1, <2>2, ShutStays DEF Known
<1>6. Barred'
  <2>1. shut' \subseteq Shut' BY <1>1, <1>5
  <2>2. barred' \subseteq Ids /\ \A i \in barred' : byKey'[i].blocked
    BY <1>1, <1>2, <1>3, <1>4 DEF Barred
  <2>3. written' \subseteq Ids /\ \A i \in written' : saved'[i].blocked
    BY <1>1, <1>2, <2>2 DEF Barred
  <2> QED BY <2>1, <2>2, <2>3 DEF Barred, Shut
<1>7. OnTheirWay'
  <2>1. \A h \in Handles : msg[h] # Nothing => msg[h].key \in Ids BY <1>2 DEF OnTheirWay, Sent
  <2> QED BY <1>1, <1>2, <1>3, <2>1 DEF OnTheirWay, Known, Sender
<1> QED BY <1>1, <1>2, <1>3, <1>6, <1>7 DEF RegistryInv

LEMMA SyncKeeps ==
  ASSUME RegistryInv, NEW wanted \in SUBSET Phones, SyncContacts(wanted)
  PROVE  RegistryInv'
<1>1. /\ byKey' = Reconciled(byKey, wanted) /\ msg' = msg /\ numbers' = numbers /\ heard' = heard
      /\ barred' = barred /\ shut' = shut \cup Shut'
      /\ (saved' = byKey' /\ written' = barred') \/ (saved' = saved /\ written' = written)
  BY DEF SyncContacts, FlushTried, Flushed
<1>2. Sound(byKey) /\ Sound(saved) /\ OnTheirWay /\ Barred /\ heard = {} BY DEF RegistryInv
<1>3. /\ Sound(byKey')
      /\ \A i \in Ids : /\ Known(i) => byKey'[i].known
                        /\ byKey'[i].mergedInto = byKey[i].mergedInto
                        /\ byKey'[i].blocked = byKey[i].blocked
  BY <1>1, <1>2, ReconciledKeeps DEF Known
<1>4. shut \subseteq Shut'
  <2>1. \A p \in Shut : p \in Shut' BY <1>1, <1>3, ShutStays
  <2> QED BY <1>2, <2>1 DEF Barred
<1>5. Barred' BY <1>1, <1>2, <1>3, <1>4 DEF Barred, Shut
<1>6. OnTheirWay'
  <2>1. \A h \in Handles : msg[h] # Nothing => msg[h].key \in Ids BY <1>2 DEF OnTheirWay, Sent
  <2> QED BY <1>1, <1>2, <1>3, <2>1 DEF OnTheirWay, Known, Sender
<1> QED BY <1>1, <1>2, <1>3, <1>5, <1>6 DEF RegistryInv

LEMMA CrashKeeps ==
  ASSUME RegistryInv, NEW wanted \in SUBSET Phones, Crash(wanted)
  PROVE  RegistryInv'
<1>1. /\ byKey' = Reconciled(saved, wanted) /\ msg' = [h \in Handles |-> Nothing] /\ numbers' = numbers
      /\ heard' = heard /\ barred' = written /\ shut' = Shut' /\ saved' = saved /\ written' = written
  BY DEF Crash
<1>2. Sound(saved) /\ Barred /\ heard = {} BY DEF RegistryInv
<1>3. Sound(byKey') /\ \A i \in Ids : byKey'[i].blocked = saved[i].blocked
  BY <1>1, <1>2, ReconciledKeeps
<1>4. Barred' BY <1>1, <1>2, <1>3 DEF Barred, Shut
<1>5. OnTheirWay' BY <1>1 DEF OnTheirWay
<1> QED BY <1>1, <1>2, <1>3, <1>4, <1>5 DEF RegistryInv

LEMMA NextKeepsInv == RegistryInv /\ [Next]_vars => RegistryInv'
<1> SUFFICES ASSUME RegistryInv, [Next]_vars PROVE RegistryInv' OBVIOUS
<1>1. CASE Flush
  <2>1. /\ byKey' = byKey /\ msg' = msg /\ numbers' = numbers /\ barred' = barred /\ shut' = shut
        /\ heard' = heard /\ saved' = byKey' /\ written' = barred'
    BY <1>1 DEF Flush, Flushed
  <2> QED BY <2>1 DEF RegistryInv, OnTheirWay, Barred, Shut, Known, Sender, canonical, canonicalIn
<1>2. CASE UNCHANGED vars
  BY <1>2 DEF vars, operators, RegistryInv, OnTheirWay, Barred, Shut, Known, Sender, canonical, canonicalIn
<1> QED BY <1>1, <1>2, TakeKeyKeeps, FileKeeps, SetBlockedKeeps, SyncKeeps, CrashKeeps DEF Next

THEOREM RegistryInvariant == Spec => []RegistryInv
BY InitSound, NextKeepsInv, PTL DEF Spec

----------------------------------------------------------------------------
\* Records have their shape (keyFor, syncContacts, setBlocked, load).
THEOREM TypesHold == Spec => []TypeOK
<1>1. RegistryInv => TypeOK
  BY DEF RegistryInv, OnTheirWay, Barred, Sent, Sound, Records, TypeOK
<1> QED BY <1>1, RegistryInvariant, PTL

\* One hop is the whole story: canonical need not follow a second (chats.ts,
\* the comment on canonical: "no chain can form").
THEOREM NoChainForms == Spec => []NoChain
<1>1. RegistryInv => NoChain BY DEF RegistryInv, Sound, NoChain
<1> QED BY <1>1, RegistryInvariant, PTL

\* A person all of whose identifiers are known and lead to records an operator has
\* blocked is not let in until one is unblocked, whatever arrives, whatever is on its
\* way, whichever write of chats.json fails and whenever the bridge crashes, a block
\* that was never written being forgotten with the process (setBlocked, isBlocked and
\* keyFor resolve to the same record).
THEOREM BlockHoldsAfterMerging == Spec => []BlockHoldsOnceMerged
<1>1. RegistryInv => BlockHoldsOnceMerged BY DEF RegistryInv, BlockHoldsOnceMerged
<1> QED BY <1>1, RegistryInvariant, PTL

----------------------------------------------------------------------------
(* The survivor *)

\* A record is superseded by a number its linked id came with.
ByNumber(records) ==
  \A i \in Ids : records[i].mergedInto # None => records[i].mergedInto \in numbers[i]

SurvivorInv == MessagesGoToTheSurvivor /\ ByNumber(byKey) /\ ByNumber(saved)

LEMMA SurvivorAfterTakeKey ==
  ASSUME RegistryInv, SurvivorInv, NEW h \in Handles, NEW jid \in Ids, NEW alt \in Phones \cup {None},
         TakeKey(h, jid, alt)
  PROVE  SurvivorInv'
<1>1. /\ <<jid, alt>> \in Forms /\ byKey' = AfterKeyFor(jid, alt) /\ saved' = saved
      /\ numbers' = [l \in Lids |-> IF l = jid /\ alt # None THEN numbers[l] \cup {alt} ELSE numbers[l]]
  BY DEF TakeKey
<1>2. Sound(byKey) /\ Sound(saved) /\ OnTheirWay /\ RegistryInv' BY TakeKeyKeeps DEF RegistryInv
<1>3. /\ \A i \in Ids : \/ byKey'[i].mergedInto = byKey[i].mergedInto
                        \/ i = jid /\ alt # None /\ byKey'[i].mergedInto = alt
      /\ alt # None => jid \in Lids
  BY <1>1, <1>2, KeyForChanges
<1>4. \A l \in Lids : numbers[l] \subseteq numbers'[l] /\ (l = jid /\ alt # None => alt \in numbers'[l])
  BY <1>1
<1>5. ByNumber(byKey)' /\ ByNumber(saved)'
  <2>1. ASSUME NEW i \in Ids, byKey'[i].mergedInto # None PROVE byKey'[i].mergedInto \in numbers'[i]
    BY <1>2, <1>3, <1>4, <2>1 DEF SurvivorInv, ByNumber, Sound, HopsOnce
  <2>2. ASSUME NEW i \in Ids, saved'[i].mergedInto # None PROVE saved'[i].mergedInto \in numbers'[i]
    BY <1>1, <1>2, <1>4, <2>2 DEF SurvivorInv, ByNumber, Sound, HopsOnce
  <2> QED BY <2>1, <2>2 DEF ByNumber
<1>6. ASSUME NEW g \in Handles, msg'[g] # Nothing PROVE Survives(msg[g])'
  <2>1. msg'[g] \in Sent /\ Person(canonical(msg[g].key)') = Person(msg'[g].jid)
    <3>1. msg'[g] \in Sent /\ Sender(msg[g])' /\ Sound(byKey)' BY <1>2, <1>6 DEF RegistryInv, OnTheirWay, Sender
    <3> QED BY <3>1, CanonicalKeepsPerson DEF Sent, Sender, canonical
  <2>2. ASSUME Superseded(msg[g].key)' PROVE msg'[g].overtaken \/ Renumbered(msg[g].jid)'
    <3>1. CASE g = h
      <4>1. msg'[g].jid = jid /\ msg'[g].key = KeyFor(jid, alt) BY <3>1 DEF TakeKey
      <4>2. byKey'[KeyFor(jid, alt)].mergedInto # None BY <2>2, <4>1 DEF Superseded
      <4>3. alt # None
        <5> SUFFICES ASSUME alt = None PROVE FALSE OBVIOUS
        <5>1. KeyFor(jid, alt) = canonicalIn(byKey, jid) BY DEF KeyFor, canonical
        <5>2. canonicalIn(byKey, jid) \in Ids /\ byKey[canonicalIn(byKey, jid)].mergedInto = None
          BY <1>2, CanonicalKeepsPerson, ChatsAssumption DEF Sound, HopsOnce, canonicalIn
        <5> QED BY <1>3, <4>2, <5>1, <5>2
      <4>4. jid \in Lids /\ alt \in Ids /\ alt \in Phones /\ alt \notin Lids
        BY <1>3, <4>3, ChatsAssumption DEF Ids
      <4>5. Sound(byKey') BY <1>2 DEF RegistryInv
      <4>6. KeyFor(jid, alt) # alt BY <4>2, <4>4, <4>5 DEF Sound, HopsOnce
      <4>7. ~Known(alt) /\ Known(jid) /\ KeyFor(jid, alt) = jid BY <4>3, <4>6 DEF KeyFor
      <4>8. byKey' = byKey BY <1>1, <4>3, <4>7 DEF AfterKeyFor
      <4>9. byKey[jid].mergedInto # alt /\ byKey[jid].mergedInto \in numbers[jid]
        BY <1>2, <4>2, <4>7, <4>8 DEF Sound, HopsOnce, Known, SurvivorInv, ByNumber
      <4> QED BY <1>4, <4>1, <4>3, <4>4, <4>9 DEF Renumbered
    <3>2. CASE g # h
      <4> DEFINE over == msg[g].overtaken \/ (alt # None /\ msg[g].key = jid)
      <4>1. msg'[g] = [msg[g] EXCEPT !.overtaken = over] BY <3>2 DEF TakeKey
      <4>2. msg[g] # Nothing
        <5> SUFFICES ASSUME msg[g] = Nothing PROVE FALSE OBVIOUS
        <5>1. over = FALSE BY NothingIsNotSent, ChatsAssumption DEF Ids
        <5> HIDE DEF over
        <5>2. msg'[g] = Nothing BY <4>1, <5>1, NothingStays
        <5> QED BY <1>6, <5>2
      <4>3. msg[g] \in Sent /\ Survives(msg[g])
        BY <1>2, <4>2 DEF OnTheirWay, SurvivorInv, MessagesGoToTheSurvivor
      <4>4. msg'[g].key = msg[g].key /\ msg'[g].jid = msg[g].jid /\ msg'[g].overtaken = over
        BY <4>1, <4>3 DEF Sent
      <4>5. CASE Superseded(msg[g].key)
        <5>1. msg[g].overtaken \/ Renumbered(msg[g].jid) BY <4>3, <4>5 DEF Survives
        <5>2. Renumbered(msg[g].jid) => Renumbered(msg[g].jid)' BY <1>4, <4>4 DEF Renumbered
        <5> QED BY <4>4, <5>1, <5>2 DEF Renumbered
      <4>6. CASE ~Superseded(msg[g].key)
        <5>1. msg[g].key = jid /\ alt # None
          BY <1>3, <2>2, <4>3, <4>4, <4>6 DEF Superseded, Sent
        <5> QED BY <4>4, <5>1
      <4> QED BY <4>5, <4>6
    <3> QED BY <3>1, <3>2
  <2> QED BY <2>1, <2>2 DEF Survives, canonical, Superseded, Renumbered
<1> QED BY <1>5, <1>6 DEF SurvivorInv, MessagesGoToTheSurvivor, ByNumber

LEMMA NextKeepsSurvivor == RegistryInv /\ SurvivorInv /\ [Next]_vars => SurvivorInv'
<1> SUFFICES ASSUME RegistryInv, SurvivorInv, [Next]_vars PROVE SurvivorInv' OBVIOUS
<1>1. Sound(byKey) /\ Sound(saved) /\ OnTheirWay BY DEF RegistryInv
\* What changes no reference and takes no key.
<1>2. ASSUME numbers' = numbers, saved' = byKey' \/ saved' = saved,
             \A i \in Ids : byKey'[i].mergedInto = byKey[i].mergedInto,
             \A h \in Handles : msg'[h] \in {Nothing, msg[h]}
      PROVE  SurvivorInv'
  <2>1. ByNumber(byKey)' /\ ByNumber(saved)' /\ numbers' = numbers
    BY <1>1, <1>2 DEF SurvivorInv, ByNumber
  <2>2. ASSUME NEW h \in Handles, msg'[h] # Nothing PROVE Survives(msg[h])'
    <3>1. msg'[h] = msg[h] /\ Survives(msg[h]) /\ msg[h].key \in Ids
      BY <1>1, <1>2, <2>2 DEF SurvivorInv, MessagesGoToTheSurvivor, OnTheirWay, Sent
    <3> QED BY <1>2, <3>1 DEF Survives, Superseded, Renumbered, canonical, canonicalIn
  <2> QED BY <2>1, <2>2 DEF SurvivorInv, MessagesGoToTheSurvivor, ByNumber
<1>3. ASSUME NEW h \in Handles, File(h) \/ Drop(h) PROVE SurvivorInv'
  <2>1. /\ byKey' = byKey /\ saved' = saved /\ numbers' = numbers /\ msg' = [msg EXCEPT ![h] = Nothing]
    BY <1>3 DEF File, Drop
  <2> QED BY <1>1, <1>2, <2>1 DEF OnTheirWay
<1>4. ASSUME NEW key \in Ids, NEW refuse \in BOOLEAN, SetBlocked(key, refuse) PROVE SurvivorInv'
  <2>1. byKey' = Blocked(key, refuse) /\ msg' = msg /\ numbers' = numbers /\ (saved' = byKey' \/ saved' = saved)
    BY <1>4 DEF SetBlocked, FlushTried, Flushed
  <2> QED BY <1>1, <1>2, <2>1, BlockedKeeps
<1>5. ASSUME NEW wanted \in SUBSET Phones, SyncContacts(wanted) PROVE SurvivorInv'
  <2>1. byKey' = Reconciled(byKey, wanted) /\ msg' = msg /\ numbers' = numbers /\ (saved' = byKey' \/ saved' = saved)
    BY <1>5 DEF SyncContacts, FlushTried, Flushed
  <2> QED BY <1>1, <1>2, <2>1, ReconciledKeeps
<1>6. ASSUME NEW wanted \in SUBSET Phones, Crash(wanted) PROVE SurvivorInv'
  <2>1. byKey' = Reconciled(saved, wanted) /\ saved' = saved /\ numbers' = numbers
        /\ msg' = [h \in Handles |-> Nothing]
    BY <1>6 DEF Crash
  <2>2. \A i \in Ids : byKey'[i].mergedInto = saved[i].mergedInto BY <1>1, <2>1, ReconciledKeeps
  <2> QED BY <2>1, <2>2 DEF SurvivorInv, MessagesGoToTheSurvivor, ByNumber
<1>7. CASE Flush \/ UNCHANGED vars
  <2>1. byKey' = byKey /\ msg' = msg /\ numbers' = numbers /\ (saved' = byKey' \/ saved' = saved)
    BY <1>7 DEF Flush, Flushed, vars
  <2> QED BY <1>2, <2>1
<1> QED BY <1>3, <1>4, <1>5, <1>6, <1>7, SurvivorAfterTakeKey DEF Next

\* A message is filed under a record of its sender's own, and under a superseded one
\* only if its linked id came with a number while the message was parsed, or has come
\* with two numbers (dispatcher.ts takes the key before the parse; keyFor keeps the
\* linked id's own record for a number it has not seen, though another superseded it).
THEOREM SurvivorGetsTheMessage == Spec => []MessagesGoToTheSurvivor
<1>1. Init => SurvivorInv
  <2> SUFFICES ASSUME Init PROVE SurvivorInv OBVIOUS
  <2>1. \A i \in Ids : byKey[i].mergedInto = None /\ saved[i].mergedInto = None
    BY DEF Init, Unknown
  <2> QED BY <2>1 DEF Init, SurvivorInv, MessagesGoToTheSurvivor, ByNumber
<1>2. RegistryInv /\ SurvivorInv /\ [Next]_vars => SurvivorInv'
  BY NextKeepsSurvivor
<1>3. SurvivorInv => MessagesGoToTheSurvivor
  BY DEF SurvivorInv
<1> QED BY <1>1, <1>2, <1>3, RegistryInvariant, PTL DEF Spec

----------------------------------------------------------------------------
(* The panel *)

KeyNumbers == 0..(MaxRotations + 1)
Viewers == {DNone} \cup DPeople
PanelRequest ==
  [stage : {"keys", "forced", "body"}, kind : D!Kinds, chat : DChats, cred : D!Credentials,
   kid : KeyNumbers, who : Viewers, rule : D!Rules, since : SUBSET D!Rules, got : KeyNumbers,
   failed : BOOLEAN]

(* A key that was signed with exists, and the keys fetched for a request are none
   older than its own. *)
KeysOf(q) == q.kid <= newest /\ (q.got = 0 \/ (q.kid <= q.got /\ q.got <= newest))
(* A request that awaits its body was let in under a rule that was in force then. *)
LetIn(q) ==
  q.stage = "body" =>
    /\ q.rule \in q.since /\ q.kind \in {"write", "open", "settings"}
    /\ q.kind = "write" => D!CanSee(q.rule, q.who, q.chat)

RequestsTyped == req \in [Slots -> {D!Free} \cup PanelRequest]
RequestsSound == \A r \in Slots : req[r] = D!Free \/ (KeysOf(req[r]) /\ LetIn(req[r]))
WorldTyped == now \in 1..MaxNow /\ newest \in 1..(MaxRotations + 1) /\ asked \in 0..MaxRequests
KeysTyped == keys \in [at : 0..MaxNow, newest : KeyNumbers]

(* The requests that may still be judged, and counted against their address. *)
ToBeJudged == {r \in Slots : req[r].stage \in {"keys", "forced"} /\ req[r].kind # "pty"}
MostTries == MAX_FAILURES + Cardinality(Slots) - 1
TriesTyped == failures \in [count : 0..MostTries, since : 0..MaxNow]
TriesLeft == D!WindowOver \/ failures.count + Cardinality(ToBeJudged) <= MostTries

PanelInv ==
  /\ RequestsTyped /\ RequestsSound /\ WorldTyped /\ KeysTyped /\ TriesTyped /\ TriesLeft
  /\ privacy \in D!Rules
  /\ amiss = {}

LEMMA PanelConstants ==
  /\ MAX_FAILURES \in Nat \ {0} /\ MaxNow \in Nat \ {0} /\ MaxRequests \in Nat /\ MaxRotations \in Nat
  /\ WINDOW \in Nat /\ JWKS_TTL \in Nat
  /\ IsFiniteSet(Slots) /\ Cardinality(Slots) \in Nat \ {0} /\ MostTries \in Nat \ {0}
  /\ DNone \notin DPeople
<1>1. /\ {MAX_FAILURES, WINDOW, JWKS_TTL, MaxNow, MaxRequests, MaxRotations} \subseteq Nat
      /\ MAX_FAILURES > 0 /\ MaxNow > 0 /\ DNone \notin DPeople /\ Slots # {}
  BY DeskAssumption DEF D!PanelAssumption
<1>2. IsFiniteSet(Slots)
  BY DeskAssumption DEF D!PanelAssumption, D!IsFiniteSet, IsFiniteSet
<1>3. Cardinality(Slots) \in Nat /\ Cardinality(Slots) # 0
  BY <1>1, <1>2, FS_CardinalityType, FS_EmptySet
<1>4. MAX_FAILURES \in Nat \ {0} /\ MaxNow \in Nat \ {0}
  BY <1>1
<1> QED
  BY <1>1, <1>2, <1>3, <1>4 DEF MostTries

LEMMA JudgedAreFinite ==
  IsFiniteSet(ToBeJudged) /\ Cardinality(ToBeJudged) \in 0..Cardinality(Slots)
<1>1. ToBeJudged \subseteq Slots
  BY DEF ToBeJudged
<1> QED
  BY <1>1, PanelConstants, FS_Subset, FS_CardinalityType

LEMMA PanelStart == D!Init => PanelInv
<1> SUFFICES ASSUME D!Init PROVE PanelInv
  OBVIOUS
<1>1. now = 1 /\ newest = 1 /\ asked = 0 /\ amiss = {} /\ keys = D!NoKeys
      /\ failures = D!NoFailures /\ privacy = D!NoRule /\ req = [r \in Slots |-> D!Free]
  BY DEF D!Init
<1>2. RequestsTyped /\ RequestsSound
  BY <1>1 DEF RequestsTyped, RequestsSound
<1>3. WorldTyped
  BY <1>1, PanelConstants DEF WorldTyped
<1>4. KeysTyped
  <2>1. 0 \in 0..MaxNow /\ 0 \in KeyNumbers
    BY PanelConstants DEF KeyNumbers
  <2> QED
    BY <1>1, <2>1 DEF KeysTyped, D!NoKeys
<1>5. TriesTyped
  <2>1. 0 \in 0..MaxNow /\ 0 \in 0..MostTries
    BY PanelConstants
  <2> QED
    BY <1>1, <2>1 DEF TriesTyped, D!NoFailures
<1>6. TriesLeft
  BY <1>1 DEF TriesLeft, D!WindowOver
<1>7. privacy \in D!Rules
  BY <1>1 DEF D!NoRule, D!Rules
<1> QED
  BY <1>1, <1>2, <1>3, <1>4, <1>5, <1>6, <1>7 DEF PanelInv

(* What is done to one request leaves every other as it was: what the slots hold
   after it, when the slot in question holds q and all else may only have seen
   another rule. *)
LEMMA SlotChanges ==
  ASSUME RequestsTyped, RequestsSound, newest \in Nat, newest' = newest,
         NEW r \in Slots, NEW q \in {D!Free} \cup PanelRequest,
         q = D!Free \/ (KeysOf(q) /\ LetIn(q)),
         req' = [req EXCEPT ![r] = q]
  PROVE  /\ RequestsTyped' /\ RequestsSound'
         /\ \A s \in Slots \ {r} : s \in ToBeJudged' <=> s \in ToBeJudged
         /\ r \in ToBeJudged' <=> q.stage \in {"keys", "forced"} /\ q.kind # "pty"
<1>1. \A s \in Slots : req'[s] = IF s = r THEN q ELSE req[s]
  BY DEF RequestsTyped
<1>2. RequestsTyped'
  BY DEF RequestsTyped
<1>3. RequestsSound'
  BY <1>1 DEF RequestsSound, KeysOf, LetIn
<1>4. /\ \A s \in Slots \ {r} : s \in ToBeJudged' <=> s \in ToBeJudged
      /\ r \in ToBeJudged' <=> q.stage \in {"keys", "forced"} /\ q.kind # "pty"
  BY <1>1 DEF ToBeJudged
<1> QED
  BY <1>2, <1>3, <1>4

(* What becomes of a request that one of its fields is changed of. *)
SameAsked(q, p) == q.kind = p.kind /\ q.chat = p.chat /\ q.who = p.who /\ q.rule = p.rule

LEMMA AnotherRule ==
  ASSUME NEW p \in PanelRequest, NEW S \in SUBSET D!Rules, NEW q, q = [p EXCEPT !.since = S]
  PROVE  /\ q \in PanelRequest /\ SameAsked(q, p) /\ q.stage = p.stage /\ q.kid = p.kid
         /\ q.got = p.got /\ q.since = S
<1>1. q \in PanelRequest
  BY DEF PanelRequest
<1>2. SameAsked(q, p) /\ q.stage = p.stage /\ q.kid = p.kid /\ q.got = p.got
  BY DEF PanelRequest, SameAsked
<1>3. q.since = S
  BY DEF PanelRequest
<1> QED
  BY <1>1, <1>2, <1>3

LEMMA AnotherStage ==
  ASSUME NEW p \in PanelRequest, NEW g \in {"keys", "forced", "body"}, NEW q,
         q = [p EXCEPT !.stage = g]
  PROVE  /\ q \in PanelRequest /\ SameAsked(q, p) /\ q.stage = g /\ q.kid = p.kid
         /\ q.got = p.got /\ q.since = p.since
<1>1. q \in PanelRequest
  BY DEF PanelRequest
<1>2. SameAsked(q, p) /\ q.stage = g /\ q.kid = p.kid /\ q.got = p.got
  BY DEF PanelRequest, SameAsked
<1>3. q.since = p.since
  BY DEF PanelRequest
<1> QED
  BY <1>1, <1>2, <1>3

LEMMA KeysGot ==
  ASSUME NEW p \in PanelRequest, NEW g \in KeyNumbers, NEW q, q = [p EXCEPT !.got = g]
  PROVE  /\ q \in PanelRequest /\ SameAsked(q, p) /\ q.stage = p.stage /\ q.kid = p.kid
         /\ q.got = g /\ q.since = p.since /\ q.cred = p.cred
<1>1. q \in PanelRequest
  BY DEF PanelRequest
<1>2. SameAsked(q, p) /\ q.stage = p.stage /\ q.kid = p.kid /\ q.cred = p.cred
  BY DEF PanelRequest, SameAsked
<1>3. q.got = g /\ q.since = p.since
  BY DEF PanelRequest
<1> QED
  BY <1>1, <1>2, <1>3

LEMMA KeysNotGot ==
  ASSUME NEW p \in PanelRequest, NEW q, q = [p EXCEPT !.got = 0, !.failed = TRUE],
         0 \in KeyNumbers
  PROVE  /\ q \in PanelRequest /\ SameAsked(q, p) /\ q.stage = p.stage /\ q.kid = p.kid
         /\ q.got = 0 /\ q.failed
<1>1. q \in PanelRequest
  BY DEF PanelRequest
<1>2. SameAsked(q, p) /\ q.stage = p.stage /\ q.kid = p.kid
  BY DEF PanelRequest, SameAsked
<1>3. q.got = 0 /\ q.failed
  BY DEF PanelRequest
<1> QED
  BY <1>1, <1>2, <1>3

AsViewer(p, who, rule) ==
  [p EXCEPT !.cred = [token |-> FALSE, mail |-> DNone], !.kid = 0, !.who = who,
            !.rule = rule, !.since = {rule}]

LEMMA WhoItIs ==
  ASSUME NEW p \in PanelRequest, NEW who \in Viewers, NEW rule \in D!Rules, NEW q,
         0 \in KeyNumbers, q = AsViewer(p, who, rule)
  PROVE  /\ q \in PanelRequest /\ q.stage = p.stage /\ q.kid = 0 /\ q.got = p.got
         /\ q.kind = p.kind /\ q.chat = p.chat /\ q.who = who /\ q.rule = rule /\ q.since = {rule}
<1>1. [token |-> FALSE, mail |-> DNone] \in D!Credentials
  BY DEF D!Credentials
<1>2. q \in PanelRequest
  BY <1>1 DEF PanelRequest, AsViewer
<1>3. q.stage = p.stage /\ q.kind = p.kind /\ q.chat = p.chat /\ q.got = p.got /\ q.kid = 0
  BY DEF PanelRequest, AsViewer
<1>4. q.who = who /\ q.rule = rule /\ q.since = {rule}
  BY DEF PanelRequest, AsViewer
<1> QED
  BY <1>2, <1>3, <1>4

LEMMA AllWitness ==
  ASSUME RequestsTyped, RequestsSound, newest \in Nat, newest' = newest, privacy' \in D!Rules,
         NEW r \in Slots,
         req' = D!Witnessed([req EXCEPT ![r] = D!Free])
  PROVE  /\ RequestsTyped' /\ RequestsSound'
         /\ \A s \in Slots \ {r} : s \in ToBeJudged' <=> s \in ToBeJudged
         /\ r \notin ToBeJudged'
<1> DEFINE rs == [req EXCEPT ![r] = D!Free]
<1>1. \A s \in Slots : rs[s] = IF s = r THEN D!Free ELSE req[s]
  BY DEF RequestsTyped
<1> HIDE DEF rs
<1>2. \A s \in Slots : req'[s] = IF rs[s].stage = "body" THEN [rs[s] EXCEPT !.since = @ \cup {privacy'}]
                                 ELSE rs[s]
  BY DEF D!Witnessed, rs
<1>3. D!Free.stage = "free"
  BY DEF D!Free
<1>4. req'[r] = D!Free
  BY <1>1, <1>2, <1>3
<1>5. ASSUME NEW s \in Slots, s # r, req[s] \in PanelRequest, req[s].stage = "body"
      PROVE  /\ req'[s] \in PanelRequest
             /\ req'[s].stage = req[s].stage /\ req'[s].kind = req[s].kind
             /\ req'[s].kid = req[s].kid /\ req'[s].got = req[s].got
             /\ req'[s].rule = req[s].rule /\ req'[s].who = req[s].who /\ req'[s].chat = req[s].chat
             /\ req[s].since \subseteq req'[s].since
  <2>1. req'[s] = [req[s] EXCEPT !.since = @ \cup {privacy'}]
    BY <1>1, <1>2, <1>5
  <2>2. req[s].since \cup {privacy'} \in SUBSET D!Rules
    BY <1>5 DEF PanelRequest
  <2>3. PICK q : q = req'[s]
    OBVIOUS
  <2>4. PICK S : S = req[s].since \cup {privacy'}
    OBVIOUS
  <2>5. q = [req[s] EXCEPT !.since = S] /\ S \in SUBSET D!Rules
    BY <2>1, <2>2, <2>3, <2>4
  <2>6. /\ q \in PanelRequest /\ SameAsked(q, req[s]) /\ q.stage = req[s].stage
        /\ q.kid = req[s].kid /\ q.got = req[s].got /\ q.since = S
    BY ONLY req[s] \in PanelRequest, <1>5, <2>5, AnotherRule
  <2> QED
    BY ONLY <2>3, <2>4, <2>6 DEF SameAsked
<1>6. ASSUME NEW s \in Slots, s # r, req[s].stage # "body" PROVE req'[s] = req[s]
  BY <1>1, <1>2, <1>6
<1>7. \A s \in Slots : req'[s] \in {D!Free} \cup PanelRequest
  BY <1>3, <1>4, <1>5, <1>6 DEF RequestsTyped
<1>8. RequestsTyped'
  BY <1>7 DEF RequestsTyped, D!Witnessed
<1>9. RequestsSound'
  <2> SUFFICES ASSUME NEW s \in Slots, req'[s] # D!Free
               PROVE  KeysOf(req[s])' /\ LetIn(req[s])'
    BY DEF RequestsSound
  <2>1. s # r /\ req[s] # D!Free /\ req[s] \in PanelRequest
    BY <1>3, <1>4, <1>5, <1>6 DEF RequestsTyped
  <2>2. KeysOf(req[s]) /\ LetIn(req[s])
    BY <2>1 DEF RequestsSound
  <2>3. CASE req[s].stage = "body"
    BY <1>5, <2>1, <2>2, <2>3 DEF KeysOf, LetIn
  <2>4. CASE req[s].stage # "body"
    BY <1>6, <2>1, <2>2, <2>4 DEF KeysOf, LetIn
  <2> QED
    BY <2>3, <2>4
<1>10. \A s \in Slots \ {r} : s \in ToBeJudged' <=> s \in ToBeJudged
  <2> SUFFICES ASSUME NEW s \in Slots, s # r PROVE s \in ToBeJudged' <=> s \in ToBeJudged
    OBVIOUS
  <2>1. CASE req[s].stage = "body"
    BY <1>5, <2>1, <1>3 DEF ToBeJudged, RequestsTyped
  <2>2. CASE req[s].stage # "body"
    BY <1>6, <2>2 DEF ToBeJudged
  <2> QED
    BY <2>1, <2>2
<1>11. r \notin ToBeJudged'
  BY <1>3, <1>4 DEF ToBeJudged
<1> QED
  BY <1>8, <1>9, <1>10, <1>11

(* The tries of the address: as they were, or one more. *)
LEMMA TriesStay ==
  ASSUME TriesTyped, TriesLeft, failures' = failures, now' = now, ToBeJudged' \subseteq ToBeJudged
  PROVE  TriesTyped' /\ TriesLeft'
<1>1. Cardinality(ToBeJudged') \in Nat /\ Cardinality(ToBeJudged) \in Nat
      /\ Cardinality(ToBeJudged') <= Cardinality(ToBeJudged)
  BY JudgedAreFinite, FS_Subset, FS_CardinalityType
<1>2. D!WindowOver' <=> D!WindowOver
  BY DEF D!WindowOver
<1>3. failures.count \in Nat /\ MostTries \in Nat
  BY PanelConstants DEF TriesTyped
<1>4. MostTries' = MostTries
  BY DEF MostTries
<1>5. failures'.count + Cardinality(ToBeJudged') <= failures.count + Cardinality(ToBeJudged)
  BY <1>1, <1>3
<1>6. TriesLeft'
  BY <1>1, <1>2, <1>3, <1>5 DEF TriesLeft, MostTries
<1> QED
  BY <1>6 DEF TriesTyped, MostTries

LEMMA OneMoreJudged ==
  ASSUME TriesTyped, failures' = failures, now' = now, ToBeJudged' \subseteq Slots,
         D!WindowOver \/ failures.count < MAX_FAILURES
  PROVE  TriesTyped' /\ TriesLeft'
<1>1. Cardinality(ToBeJudged') \in Nat /\ Cardinality(ToBeJudged') <= Cardinality(Slots)
  BY PanelConstants, FS_Subset, FS_CardinalityType
<1>2. D!WindowOver' <=> D!WindowOver
  BY DEF D!WindowOver
<1>3. failures.count \in Nat
  BY PanelConstants DEF TriesTyped
<1>4. TriesLeft'
  BY <1>1, <1>2, <1>3, PanelConstants DEF TriesLeft, MostTries
<1> QED
  BY <1>4 DEF TriesTyped, MostTries

LEMMA OneMoreTry ==
  ASSUME WorldTyped, TriesTyped, TriesLeft, failures' = D!Noted, now' = now,
         NEW r \in Slots, ToBeJudged' \subseteq Slots \ {r},
         ToBeJudged' \subseteq ToBeJudged \ {r},
         r \in ToBeJudged \/ D!WindowOver \/ failures.count < MAX_FAILURES
  PROVE  TriesTyped' /\ TriesLeft'
<1>1. /\ IsFiniteSet(ToBeJudged') /\ Cardinality(ToBeJudged') \in Nat
      /\ Cardinality(ToBeJudged') <= Cardinality(Slots) - 1
  BY PanelConstants, FS_Subset, FS_CardinalityType, FS_RemoveElement
<1>2. /\ now \in 1..MaxNow /\ MaxNow \in Nat /\ failures.count \in Nat /\ failures.since \in 0..MaxNow
      /\ failures.count <= MostTries /\ WINDOW \in Nat
  BY PanelConstants DEF WorldTyped, TriesTyped
<1>3. CASE D!WindowOver
  <2>1. failures'.count = 1 /\ failures'.since = now
        /\ failures' = [count |-> 1, since |-> now]
    BY <1>3 DEF D!Noted
  <2>2. failures'.count + Cardinality(ToBeJudged') <= MostTries
    BY <1>1, <2>1, PanelConstants DEF MostTries
  <2>3. 1 \in 0..MostTries /\ now \in 0..MaxNow
    BY <1>2, PanelConstants
  <2>4. TriesTyped'
    BY <2>1, <2>3 DEF TriesTyped, MostTries
  <2> QED
    BY <2>2, <2>4 DEF TriesLeft, MostTries
<1>4. CASE ~D!WindowOver
  <2>1. failures' = [failures EXCEPT !.count = @ + 1]
    BY <1>4 DEF D!Noted
  <2>2. failures'.count = failures.count + 1 /\ failures'.since = failures.since
    BY <2>1 DEF TriesTyped
  <2>3. failures.count + 1 + Cardinality(ToBeJudged') <= MostTries
    <3>1. CASE failures.count < MAX_FAILURES
      BY <1>1, <1>2, <3>1, PanelConstants DEF MostTries
    <3>2. CASE r \in ToBeJudged
      <4>1. Cardinality(ToBeJudged \ {r}) = Cardinality(ToBeJudged) - 1 /\ Cardinality(ToBeJudged) \in Nat
            /\ IsFiniteSet(ToBeJudged \ {r})
        BY <3>2, JudgedAreFinite, FS_RemoveElement, FS_CardinalityType
      <4>2. Cardinality(ToBeJudged') <= Cardinality(ToBeJudged \ {r})
        BY <4>1, FS_Subset
      <4>3. failures.count + Cardinality(ToBeJudged) <= MostTries
        BY <1>4 DEF TriesLeft
      <4> QED
        BY <1>1, <1>2, <4>1, <4>2, <4>3, PanelConstants
    <3> QED
      BY <1>4, <3>1, <3>2
  <2>4. failures.count + 1 \in 0..MostTries
    BY <1>1, <1>2, <2>3, PanelConstants
  <2>5. TriesTyped'
    BY <1>2, <2>1, <2>4 DEF TriesTyped, MostTries
  <2>6. TriesLeft'
    BY <2>2, <2>3 DEF TriesLeft, MostTries
  <2> QED
    BY <2>5, <2>6
<1> QED
  BY <1>3, <1>4

(* What any handler leaves of the requests, and of what was given and refused. *)
SlotOutcome(r) ==
  /\ RequestsTyped' /\ RequestsSound' /\ amiss' = {} /\ privacy' \in D!Rules
  /\ \A s \in Slots \ {r} : s \in ToBeJudged' <=> s \in ToBeJudged

LEMMA Leaves ==
  ASSUME RequestsTyped, RequestsSound, newest \in Nat, newest' = newest, privacy' \in D!Rules,
         NEW r \in Slots, req' = [req EXCEPT ![r] = D!Free], amiss' = {}
  PROVE  SlotOutcome(r) /\ r \notin ToBeJudged'
<1>1. D!Free \in {D!Free} \cup PanelRequest /\ D!Free.stage = "free"
  BY DEF D!Free
<1>2. /\ RequestsTyped' /\ RequestsSound'
      /\ \A s \in Slots \ {r} : s \in ToBeJudged' <=> s \in ToBeJudged
      /\ r \in ToBeJudged' <=> D!Free.stage \in {"keys", "forced"} /\ D!Free.kind # "pty"
  BY <1>1, SlotChanges
<1> QED
  BY <1>1, <1>2 DEF SlotOutcome

LEMMA Stays ==
  ASSUME RequestsTyped, RequestsSound, newest \in Nat, newest' = newest, privacy' \in D!Rules,
         NEW r \in Slots, NEW q \in PanelRequest, KeysOf(q), LetIn(q),
         req' = [req EXCEPT ![r] = q], amiss' = {}
  PROVE  /\ SlotOutcome(r)
         /\ r \in ToBeJudged' <=> q.stage \in {"keys", "forced"} /\ q.kind # "pty"
<1>2. /\ RequestsTyped' /\ RequestsSound'
      /\ \A s \in Slots \ {r} : s \in ToBeJudged' <=> s \in ToBeJudged
      /\ r \in ToBeJudged' <=> q.stage \in {"keys", "forced"} /\ q.kind # "pty"
  BY SlotChanges
<1> QED
  BY <1>2 DEF SlotOutcome

LEMMA WritesAll ==
  ASSUME RequestsTyped, RequestsSound, newest \in Nat, newest' = newest, privacy \in D!Rules,
         amiss = {}, NEW r \in Slots, NEW q, NEW p \in D!Rules, D!Writes(r, q, p),
         q.kind \in D!Unjudged \/ \E rule \in q.since : D!Entitled(q, rule)
  PROVE  SlotOutcome(r) /\ r \notin ToBeJudged'
<1>1. privacy' \in D!Rules /\ amiss' = {} /\ req' = D!Witnessed([req EXCEPT ![r] = D!Free])
  BY DEF D!Writes, D!Saved, D!Given
<1> QED
  BY <1>1, AllWitness DEF SlotOutcome

LEMMA AdmittedHolds ==
  ASSUME RequestsTyped, RequestsSound, newest \in Nat, newest' = newest, privacy \in D!Rules,
         amiss = {}, NEW r \in Slots, NEW p \in PanelRequest, NEW who \in Viewers,
         p.got = 0, D!Admitted(r, p, who)
  PROVE  SlotOutcome(r) /\ r \notin ToBeJudged' /\ failures' = failures
<1> DEFINE q == [p EXCEPT !.cred = [token |-> FALSE, mail |-> DNone], !.kid = 0, !.who = who,
                          !.rule = privacy, !.since = {privacy}]
<1>0. 0 \in KeyNumbers
  BY PanelConstants DEF KeyNumbers
<1>2. /\ failures' = failures
      /\ \/ D!Declined(r) /\ privacy' = privacy
         \/ /\ \/ q.kind = "read" /\ D!CanSee(privacy, who, q.chat)
               \/ q.kind = "open"
            /\ D!Served(r, q) /\ privacy' = privacy
         \/ /\ \/ q.kind = "write" /\ D!CanSee(privacy, who, q.chat)
               \/ q.kind \in {"settings", "open"}
            /\ D!GoesOn(r, [q EXCEPT !.stage = "body"]) /\ privacy' = privacy
         \/ q.kind = "pty" /\ D!IsOwner(privacy, who) /\ D!Served(r, q) /\ privacy' = privacy
         \/ /\ q.kind = "release" /\ D!IsOwner(privacy, who)
            /\ D!Writes(r, q, [privacy EXCEPT !.owner = DNone])
         \/ /\ q.kind = "private" /\ D!IsOwner(privacy, who)
            /\ \E chats \in {privacy.chats \cup {q.chat}, privacy.chats \ {q.chat}} :
                 D!Writes(r, q, [privacy EXCEPT !.chats = chats])
         \/ q.kind = "claim" /\ who # DNone /\ D!Writes(r, q, [privacy EXCEPT !.owner = who])
  BY Zenon DEF D!Admitted
<1>a. q = AsViewer(p, who, privacy)
  BY DEF AsViewer
<1> HIDE DEF q
<1>1. /\ q \in PanelRequest /\ q.stage = p.stage /\ q.kid = 0 /\ q.got = 0
      /\ q.kind = p.kind /\ q.chat = p.chat /\ q.who = who /\ q.rule = privacy
      /\ q.since = {privacy}
  <2>1. /\ q \in PanelRequest /\ q.stage = p.stage /\ q.kid = 0 /\ q.got = p.got
        /\ q.kind = p.kind /\ q.chat = p.chat /\ q.who = who /\ q.rule = privacy
        /\ q.since = {privacy}
    BY ONLY p \in PanelRequest, who \in Viewers, privacy \in D!Rules, <1>0, <1>a, WhoItIs
  <2> QED
    BY <2>1
<1>3. CASE D!Declined(r) /\ privacy' = privacy
  BY <1>2, <1>3, Leaves DEF D!Declined
<1>4. ASSUME q.kind \in {"read", "write"} => D!CanSee(privacy, who, q.chat),
             q.kind \in {"settings", "release", "private", "pty"} => D!IsOwner(privacy, who)
      PROVE  \E rule \in q.since : D!Entitled(q, rule)
  BY <1>1, <1>4 DEF D!Entitled, D!CanSee, D!IsOwner, D!Naming
<1>5. CASE /\ \/ q.kind = "read" /\ D!CanSee(privacy, who, q.chat)
              \/ q.kind = "open"
           /\ D!Served(r, q) /\ privacy' = privacy
  BY <1>2, <1>4, <1>5, Leaves DEF D!Served, D!Given, D!Unjudged
<1>6. CASE /\ \/ q.kind = "write" /\ D!CanSee(privacy, who, q.chat)
              \/ q.kind \in {"settings", "open"}
           /\ D!GoesOn(r, [q EXCEPT !.stage = "body"]) /\ privacy' = privacy
  <2> DEFINE b == [q EXCEPT !.stage = "body"]
  <2>1. /\ b \in PanelRequest /\ b.kind = q.kind /\ b.chat = q.chat /\ b.who = q.who
        /\ b.rule = q.rule /\ b.stage = "body" /\ b.kid = q.kid
        /\ b.got = q.got /\ b.since = q.since
    BY <1>1, AnotherStage DEF SameAsked
  <2>2. req' = [req EXCEPT ![r] = b] /\ amiss' = {}
    BY <1>6 DEF D!GoesOn
  <2> HIDE DEF b
  <2>3. KeysOf(b)
    BY <1>1, <2>1 DEF KeysOf
  <2>4. LetIn(b)
    BY <1>1, <1>6, <2>1 DEF LetIn
  <2> QED
    BY <1>2, <1>6, <2>1, <2>2, <2>3, <2>4, Stays
<1>7. CASE q.kind = "pty" /\ D!IsOwner(privacy, who) /\ D!Served(r, q) /\ privacy' = privacy
  BY <1>2, <1>4, <1>7, Leaves DEF D!Served, D!Given
<1>8. CASE /\ q.kind = "release" /\ D!IsOwner(privacy, who)
           /\ D!Writes(r, q, [privacy EXCEPT !.owner = DNone])
  <2>1. [privacy EXCEPT !.owner = DNone] \in D!Rules
    BY DEF D!Rules
  <2> QED
    BY <1>2, <1>4, <1>8, <2>1, WritesAll
<1>9. CASE /\ q.kind = "private" /\ D!IsOwner(privacy, who)
           /\ \E chats \in {privacy.chats \cup {q.chat}, privacy.chats \ {q.chat}} :
                D!Writes(r, q, [privacy EXCEPT !.chats = chats])
  <2>1. PICK chats \in {privacy.chats \cup {q.chat}, privacy.chats \ {q.chat}} :
               D!Writes(r, q, [privacy EXCEPT !.chats = chats])
    BY <1>9
  <2>2. q.chat \in DChats
    BY <1>1 DEF PanelRequest
  <2>3. [privacy EXCEPT !.chats = chats] \in D!Rules
    BY <2>2 DEF D!Rules
  <2> QED
    BY <1>2, <1>4, <1>9, <2>1, <2>3, WritesAll
<1>10. CASE q.kind = "claim" /\ who # DNone /\ D!Writes(r, q, [privacy EXCEPT !.owner = who])
  <2>1. [privacy EXCEPT !.owner = who] \in D!Rules
    BY DEF D!Rules, Viewers
  <2> QED
    BY <1>2, <1>10, <2>1, WritesAll DEF D!Unjudged
<1> QED
  BY <1>2, <1>3, <1>5, <1>6, <1>7, <1>8, <1>9, <1>10

LEMMA RefusedHolds ==
  ASSUME RequestsTyped, RequestsSound, newest \in Nat, newest' = newest, privacy \in D!Rules,
         amiss = {}, NEW r \in Slots, NEW q, D!Refused(r, q),
         q.cred.mail = DNone \/ q.kid = D!Stray \/ q.failed \/ D!Retired(q.kid)
  PROVE  /\ SlotOutcome(r) /\ r \notin ToBeJudged'
         /\ \/ failures' = failures
            \/ q.kind # "pty" /\ failures' = D!Noted
<1>1. amiss' = {} /\ req' = [req EXCEPT ![r] = D!Free] /\ privacy' = privacy
  BY DEF D!Refused
<1>2. SlotOutcome(r) /\ r \notin ToBeJudged'
  BY <1>1, Leaves
<1>3. \/ failures' = failures
      \/ q.kind # "pty" /\ failures' = D!Noted
  BY DEF D!Refused
<1> QED
  BY <1>2, <1>3

LEMMA ForcedHolds ==
  ASSUME RequestsTyped, RequestsSound, newest \in Nat, newest' = newest, privacy \in D!Rules,
         amiss = {}, NEW r \in Slots, NEW q \in PanelRequest, KeysOf(q), D!Forced(r, q)
  PROVE  SlotOutcome(r) /\ (r \in ToBeJudged' <=> q.kind # "pty") /\ failures' = failures
<1> DEFINE b == [q EXCEPT !.stage = "forced"]
<1>1. /\ b \in PanelRequest /\ b.kind = q.kind /\ b.stage = "forced" /\ b.kid = q.kid /\ b.got = q.got
  BY AnotherStage DEF SameAsked
<1>2. req' = [req EXCEPT ![r] = b] /\ amiss' = {} /\ privacy' = privacy /\ failures' = failures
  BY DEF D!Forced, D!GoesOn
<1> HIDE DEF b
<1>3. KeysOf(b) /\ LetIn(b)
  BY <1>1 DEF KeysOf, LetIn
<1> QED
  BY <1>1, <1>2, <1>3, Stays

(* How the tries may go with it. *)
TriesOutcome(r, kind) ==
  \/ failures' = failures /\ (r \in ToBeJudged' => kind # "pty")
  \/ failures' = D!Noted /\ kind # "pty" /\ r \notin ToBeJudged'

LEMMA UnverifiedHolds ==
  ASSUME RequestsTyped, RequestsSound, newest \in Nat, newest' = newest, privacy \in D!Rules,
         amiss = {}, NEW r \in Slots, NEW q \in PanelRequest, q.got = 0,
         D!Unverified(r, q),
         q.cred.mail = DNone \/ q.kid = D!Stray \/ q.failed \/ D!Retired(q.kid)
  PROVE  SlotOutcome(r) /\ TriesOutcome(r, q.kind)
<1>1. DNone \in Viewers
  BY DEF Viewers
<1>2. CASE D!Admitted(r, q, DNone)
  BY <1>1, <1>2, AdmittedHolds DEF TriesOutcome
<1>3. CASE D!Refused(r, q)
  BY <1>3, RefusedHolds DEF TriesOutcome
<1> QED
  BY <1>2, <1>3 DEF D!Unverified

LEMMA MailIsAViewer == \A q \in PanelRequest : q.cred.mail \in Viewers
BY DEF PanelRequest, D!Credentials, Viewers

(* A key that was not among the keys fetched for its request after it was signed
   with is one that the provider has retired. *)
LEMMA VerifiedHolds ==
  ASSUME RequestsTyped, RequestsSound, newest \in Nat, newest' = newest, privacy \in D!Rules,
         amiss = {}, NEW r \in Slots, NEW q \in PanelRequest, q.got = 0, KeysOf(q),
         NEW k, k.newest \in Nat, k.newest <= newest,
         q.stage = "forced" => q.kid <= k.newest,
         D!Verified(r, q, k)
  PROVE  SlotOutcome(r) /\ TriesOutcome(r, q.kind)
<1>1. CASE D!Holds(k, q.kid)
  <2>1. D!Admitted(r, q, q.cred.mail)
    BY <1>1 DEF D!Verified
  <2> QED
    BY <2>1, MailIsAViewer, AdmittedHolds DEF TriesOutcome
<1>2. CASE ~D!Holds(k, q.kid) /\ q.stage = "forced"
  <2>1. D!Unverified(r, q)
    BY <1>2 DEF D!Verified
  <2>2. q.kid \in Nat
    BY PanelConstants DEF PanelRequest, KeyNumbers
  <2>3. q.kid = D!Stray \/ D!Retired(q.kid)
    BY <1>2, <2>2 DEF D!Holds, D!Retired, D!Stray
  <2> QED
    BY <2>1, <2>3, UnverifiedHolds
<1>3. CASE ~D!Holds(k, q.kid) /\ q.stage # "forced"
  <2>1. D!Forced(r, q)
    BY <1>3 DEF D!Verified
  <2> QED
    BY <2>1, ForcedHolds DEF TriesOutcome
<1> QED
  BY <1>1, <1>2, <1>3

LEMMA PanelTyped ==
  ASSUME PanelInv
  PROVE  /\ RequestsTyped /\ RequestsSound /\ privacy \in D!Rules /\ amiss = {}
         /\ now \in 1..MaxNow /\ newest \in 1..(MaxRotations + 1) /\ newest \in Nat
         /\ asked \in 0..MaxRequests
         /\ KeysTyped /\ TriesTyped /\ TriesLeft /\ WorldTyped
         /\ 0 \in KeyNumbers /\ newest \in KeyNumbers
BY PanelConstants DEF PanelInv, WorldTyped, KeyNumbers

(* The keys in the cache were once the newest. *)
KeysOnce == keys.newest <= newest

LEMMA ArriveStep ==
  ASSUME PanelInv, KeysOnce, NEW r \in Slots, NEW kind \in D!Kinds, NEW chat \in DChats,
         NEW cred \in D!Credentials, NEW kid \in {D!Stray, newest},
         D!Arrive(r, kind, chat, cred, kid)
  PROVE  PanelInv' /\ KeysOnce'
<1> DEFINE q == D!Request("keys", kind, chat, cred, kid)
<1>0. /\ RequestsTyped /\ RequestsSound /\ privacy \in D!Rules /\ amiss = {}
      /\ now \in 1..MaxNow /\ newest \in 1..(MaxRotations + 1) /\ newest \in Nat
      /\ asked \in 0..MaxRequests
      /\ KeysTyped /\ TriesTyped /\ TriesLeft /\ WorldTyped
      /\ 0 \in KeyNumbers /\ newest \in KeyNumbers
  BY PanelTyped
<1>1. /\ req[r] = D!Free /\ asked < MaxRequests /\ asked' = asked + 1
      /\ now' = now /\ newest' = newest /\ keys' = keys
      /\ cred.mail = DNone => kid = D!Stray
      /\ \/ kind # "pty" /\ D!Throttled /\ D!Declined(r) /\ failures' = failures /\ privacy' = privacy
         \/ /\ kind = "pty" \/ ~D!Throttled
            /\ \/ D!Admitted(r, q, DNone)
               \/ cred.mail = DNone /\ D!Refused(r, q)
               \/ D!Verified(r, q, keys)
               \/ D!GoesOn(r, q) /\ failures' = failures /\ privacy' = privacy
  BY DEF D!Arrive, D!worldVars
<1>2. /\ q \in PanelRequest /\ q.got = 0 /\ q.kid = kid /\ q.stage = "keys" /\ q.kind = kind
      /\ q.cred = cred
  <2>1. kid \in KeyNumbers /\ D!NoRule \in D!Rules /\ DNone \in Viewers
    BY <1>0 DEF D!Stray, D!NoRule, D!Rules, Viewers
  <2>2. q \in PanelRequest
    BY <1>0, <2>1 DEF D!Request, PanelRequest
  <2>3. q.got = 0 /\ q.kid = kid /\ q.stage = "keys" /\ q.kind = kind /\ q.cred = cred
    BY DEF D!Request
  <2> QED
    BY <2>2, <2>3
<1> HIDE DEF q
<1>3. KeysOf(q) /\ LetIn(q)
  BY <1>0, <1>2 DEF KeysOf, LetIn, D!Stray
<1>4. r \notin ToBeJudged
  BY <1>1 DEF ToBeJudged, D!Free
<1>5. /\ SlotOutcome(r)
      /\ \/ failures' = failures /\ (r \in ToBeJudged' => kind # "pty" /\ ~D!Throttled)
         \/ failures' = D!Noted /\ ~D!Throttled /\ r \notin ToBeJudged'
  <2>1. CASE kind # "pty" /\ D!Throttled /\ D!Declined(r) /\ failures' = failures /\ privacy' = privacy
    BY <1>0, <1>1, <2>1, Leaves DEF D!Declined
  <2>2. CASE D!Admitted(r, q, DNone)
    <3>1. DNone \in Viewers
      BY DEF Viewers
    <3> QED
      BY <1>0, <1>1, <1>2, <2>2, <3>1, AdmittedHolds
  <2>3. CASE (kind = "pty" \/ ~D!Throttled) /\ cred.mail = DNone /\ D!Refused(r, q)
    <3>1. q.cred.mail = DNone
      BY <1>2, <2>3
    <3>2. /\ SlotOutcome(r) /\ r \notin ToBeJudged'
          /\ failures' = failures \/ (q.kind # "pty" /\ failures' = D!Noted)
      BY <1>0, <1>1, <2>3, <3>1, RefusedHolds
    <3> QED
      BY <1>2, <2>3, <3>2
  <2>4. CASE (kind = "pty" \/ ~D!Throttled) /\ D!Verified(r, q, keys)
    <3>1. keys.newest \in Nat /\ keys.newest <= newest
      BY <1>0, PanelConstants DEF KeysTyped, KeyNumbers, KeysOnce
    <3>2. SlotOutcome(r) /\ TriesOutcome(r, q.kind)
      BY <1>0, <1>1, <1>2, <1>3, <2>4, <3>1, VerifiedHolds
    <3> QED
      BY <1>2, <2>4, <3>2 DEF TriesOutcome
  <2>5. CASE /\ kind = "pty" \/ ~D!Throttled
             /\ D!GoesOn(r, q) /\ failures' = failures /\ privacy' = privacy
    <3>1. req' = [req EXCEPT ![r] = q] /\ amiss' = {}
      BY <1>0, <2>5 DEF D!GoesOn
    <3>2. SlotOutcome(r) /\ (r \in ToBeJudged' <=> q.stage \in {"keys", "forced"} /\ q.kind # "pty")
      BY <1>0, <1>1, <1>2, <1>3, <2>5, <3>1, Stays
    <3> QED
      BY <1>2, <2>5, <3>2
  <2> QED
    BY <1>1, <2>1, <2>2, <2>3, <2>4, <2>5
<1>6. /\ ToBeJudged' \subseteq Slots
      /\ r \notin ToBeJudged' => ToBeJudged' \subseteq ToBeJudged \ {r} /\ ToBeJudged' \subseteq Slots \ {r}
  BY <1>4, <1>5 DEF SlotOutcome, ToBeJudged
<1>7. ~D!Throttled => D!WindowOver \/ failures.count < MAX_FAILURES
  <2>1. failures.count \in Nat /\ MAX_FAILURES \in Nat
    BY <1>0, PanelConstants DEF TriesTyped
  <2> QED
    BY <2>1 DEF D!Throttled
<1>8. TriesTyped' /\ TriesLeft'
  <2>1. CASE failures' = failures /\ r \in ToBeJudged'
    BY <1>0, <1>1, <1>5, <1>6, <1>7, <2>1, OneMoreJudged
  <2>2. CASE failures' = failures /\ r \notin ToBeJudged'
    BY <1>0, <1>1, <1>6, <2>2, TriesStay
  <2>3. CASE failures' = D!Noted /\ ~D!Throttled /\ r \notin ToBeJudged'
    BY <1>0, <1>1, <1>6, <1>7, <2>3, OneMoreTry
  <2> QED
    BY <1>5, <2>1, <2>2, <2>3
<1>9. WorldTyped' /\ KeysTyped' /\ KeysOnce'
  BY <1>0, <1>1, PanelConstants DEF WorldTyped, KeysTyped, KeysOnce
<1> QED
  BY <1>5, <1>8, <1>9 DEF SlotOutcome, PanelInv

(* What the judging of a request that awaited the keys leaves of the whole. *)
LEMMA JudgedStep ==
  ASSUME PanelInv, NEW r \in Slots, req[r].stage \in {"keys", "forced"},
         now' = now, newest' = newest, asked' = asked, KeysTyped',
         SlotOutcome(r), TriesOutcome(r, req[r].kind)
  PROVE  PanelInv'
<1>0. TriesTyped /\ TriesLeft /\ WorldTyped
  BY DEF PanelInv
<1>1. r \in ToBeJudged' => r \in ToBeJudged
  BY DEF TriesOutcome, ToBeJudged
<1>2. ToBeJudged' \subseteq ToBeJudged
  BY <1>1 DEF SlotOutcome, ToBeJudged
<1>3. TriesTyped' /\ TriesLeft'
  <2>1. CASE failures' = failures
    BY <1>0, <1>2, <2>1, TriesStay
  <2>2. CASE failures' = D!Noted /\ req[r].kind # "pty" /\ r \notin ToBeJudged'
    <3>1. r \in ToBeJudged
      BY <2>2 DEF ToBeJudged
    <3>2. ToBeJudged' \subseteq Slots \ {r} /\ ToBeJudged' \subseteq ToBeJudged \ {r}
      BY <1>2, <2>2 DEF ToBeJudged
    <3> QED
      BY <1>0, <2>2, <3>1, <3>2, OneMoreTry
  <2> QED
    BY <2>1, <2>2 DEF TriesOutcome
<1>4. WorldTyped'
  BY <1>0 DEF WorldTyped
<1> QED
  BY <1>3, <1>4 DEF SlotOutcome, PanelInv

LEMMA FetchingRequest ==
  ASSUME PanelInv, NEW r \in Slots, D!Fetching(r)
  PROVE  req[r] \in PanelRequest /\ req[r].stage \in {"keys", "forced"} /\ KeysOf(req[r])
<1>1. req[r].stage \in {"keys", "forced"} /\ D!Free.stage = "free"
  BY DEF D!Fetching, D!Free
<1> QED
  BY <1>1 DEF PanelInv, RequestsTyped, RequestsSound

LEMMA FetchSteps ==
  ASSUME PanelInv, KeysOnce, NEW r \in Slots, D!Serve(r) \/ D!KeysCome(r) \/ D!FetchFails(r)
  PROVE  PanelInv' /\ KeysOnce'
<1> DEFINE p == req[r]
<1>0. /\ RequestsTyped /\ RequestsSound /\ privacy \in D!Rules /\ amiss = {}
      /\ now \in 1..MaxNow /\ newest \in 1..(MaxRotations + 1) /\ newest \in Nat
      /\ KeysTyped /\ 0 \in KeyNumbers /\ newest \in KeyNumbers
  BY PanelTyped
<1>1. p \in PanelRequest /\ p.stage \in {"keys", "forced"} /\ KeysOf(p)
  BY FetchingRequest DEF D!Serve, D!KeysCome, D!FetchFails
<1>2. p.kid \in Nat /\ p.got \in Nat /\ p.got \in KeyNumbers
  BY <1>1, PanelConstants DEF PanelRequest, KeyNumbers
<1>3. ASSUME D!Serve(r) PROVE PanelInv' /\ KeysOnce'
  <2> DEFINE q == [p EXCEPT !.got = newest]
  <2>1. /\ req' = [req EXCEPT ![r] = q] /\ amiss' = {} /\ privacy' = privacy
        /\ now' = now /\ newest' = newest /\ keys' = keys /\ failures' = failures /\ asked' = asked
    BY <1>0, <1>3 DEF D!Serve, D!GoesOn, D!worldVars, D!doorVars
  <2>2. /\ q \in PanelRequest /\ q.stage = p.stage /\ q.kid = p.kid /\ q.got = newest
        /\ q.kind = p.kind
    BY <1>0, <1>1, KeysGot DEF SameAsked
  <2> HIDE DEF q
  <2>3. KeysOf(q) /\ LetIn(q)
    BY <1>0, <1>1, <1>2, <2>2 DEF KeysOf, LetIn
  <2>4. SlotOutcome(r) /\ (r \in ToBeJudged' <=> q.stage \in {"keys", "forced"} /\ q.kind # "pty")
    BY <1>0, <2>1, <2>2, <2>3, Stays
  <2>5. TriesOutcome(r, p.kind)
    BY <2>1, <2>2, <2>4 DEF TriesOutcome
  <2>6. KeysTyped' /\ KeysOnce'
    BY <1>0, <2>1 DEF KeysTyped, KeysOnce
  <2> QED
    BY <1>1, <2>1, <2>4, <2>5, <2>6, JudgedStep
<1>4. ASSUME D!KeysCome(r) PROVE PanelInv' /\ KeysOnce'
  <2> DEFINE q == [p EXCEPT !.got = 0]
  <2>1. /\ p.got # 0 /\ keys' = [at |-> now, newest |-> p.got]
        /\ D!Verified(r, q, keys')
        /\ now' = now /\ newest' = newest /\ asked' = asked
    BY <1>4 DEF D!KeysCome, D!worldVars
  <2>2. q \in PanelRequest /\ q.stage = p.stage /\ q.kid = p.kid /\ q.got = 0 /\ q.kind = p.kind
    BY <1>0, <1>1, KeysGot DEF SameAsked
  <2> HIDE DEF q
  <2>3. /\ keys'.newest = p.got /\ keys'.newest \in Nat /\ keys'.newest <= newest
        /\ q.kid <= keys'.newest
    BY <1>1, <1>2, <2>1, <2>2 DEF KeysOf
  <2>4. KeysOf(q)
    BY <1>1, <2>2 DEF KeysOf
  <2>5. SlotOutcome(r) /\ TriesOutcome(r, q.kind)
    BY <1>0, <2>1, <2>2, <2>3, <2>4, VerifiedHolds
  <2>6. KeysTyped' /\ KeysOnce'
    <3>1. now \in 0..MaxNow
      BY <1>0
    <3> QED
      BY <1>2, <2>1, <2>3, <3>1 DEF KeysTyped, KeysOnce, KeyNumbers
  <2> QED
    BY <1>1, <2>1, <2>2, <2>5, <2>6, JudgedStep
<1>5. ASSUME D!FetchFails(r) PROVE PanelInv' /\ KeysOnce'
  <2> DEFINE q == [p EXCEPT !.got = 0, !.failed = TRUE]
  <2>1. /\ \/ D!Admitted(r, q, q.cred.mail)
           \/ D!Unverified(r, q)
           \/ D!Forced(r, q)
        /\ now' = now /\ newest' = newest /\ asked' = asked /\ keys' = keys
    BY <1>5 DEF D!FetchFails, D!worldVars
  <2>0. /\ q \in PanelRequest /\ SameAsked(q, p) /\ q.stage = p.stage /\ q.kid = p.kid
        /\ q.got = 0 /\ q.failed
    <3>1. p \in PanelRequest /\ 0 \in KeyNumbers
      BY <1>0, <1>1
    <3> QED
      BY ONLY <3>1, KeysNotGot
  <2>2. /\ q \in PanelRequest /\ q.stage = p.stage /\ q.kid = p.kid /\ q.got = 0 /\ q.kind = p.kind
        /\ q.failed
    BY <2>0 DEF SameAsked
  <2> HIDE DEF q
  <2>3. KeysOf(q)
    BY <1>1, <2>2 DEF KeysOf
  <2>4. SlotOutcome(r) /\ TriesOutcome(r, q.kind)
    <3>1. CASE D!Admitted(r, q, q.cred.mail)
      BY <1>0, <2>1, <2>2, <3>1, MailIsAViewer, AdmittedHolds DEF TriesOutcome
    <3>2. CASE D!Unverified(r, q)
      BY <1>0, <2>1, <2>2, <3>2, UnverifiedHolds
    <3>3. CASE D!Forced(r, q)
      BY <1>0, <2>1, <2>2, <2>3, <3>3, ForcedHolds DEF TriesOutcome
    <3> QED
      BY <2>1, <3>1, <3>2, <3>3
  <2>5. KeysTyped' /\ KeysOnce'
    BY <1>0, <2>1 DEF KeysTyped, KeysOnce
  <2> QED
    BY <1>1, <2>1, <2>2, <2>4, <2>5, JudgedStep
<1> QED
  BY <1>3, <1>4, <1>5

LEMMA BodySteps ==
  ASSUME PanelInv, KeysOnce, NEW r \in Slots, D!BodyComes(r) \/ D!BodyFails(r)
  PROVE  PanelInv' /\ KeysOnce'
<1> DEFINE q == req[r]
<1>0. /\ RequestsTyped /\ RequestsSound /\ privacy \in D!Rules /\ amiss = {}
      /\ newest \in Nat /\ KeysTyped /\ TriesTyped /\ TriesLeft /\ WorldTyped
  BY PanelTyped
<1>1. /\ q.stage = "body" /\ now' = now /\ newest' = newest /\ keys' = keys /\ failures' = failures
      /\ asked' = asked
  BY DEF D!BodyComes, D!BodyFails, D!worldVars, D!doorVars
<1>2. q \in PanelRequest /\ LetIn(q)
  BY <1>0, <1>1 DEF RequestsTyped, RequestsSound, D!Free
<1>3. q.rule \in q.since /\ q.rule \in D!Rules /\ q.kind \in {"write", "open", "settings"}
      /\ (q.kind = "write" => D!CanSee(q.rule, q.who, q.chat))
  BY <1>1, <1>2 DEF LetIn, PanelRequest
<1> HIDE DEF q
<1>4. ASSUME q.kind = "write" \/ D!IsOwner(q.rule, q.who)
      PROVE  \E rule \in q.since : D!Entitled(q, rule)
  BY <1>3, <1>4 DEF D!Entitled, D!CanSee, D!IsOwner, D!Naming
<1>5. SlotOutcome(r) /\ r \notin ToBeJudged'
  <2>1. CASE D!Declined(r) /\ privacy' = privacy
    BY <1>0, <1>1, <2>1, Leaves DEF D!Declined
  <2>2. CASE q.kind \in {"write", "open"} /\ D!Served(r, q) /\ privacy' = privacy
    BY <1>0, <1>1, <1>4, <2>2, Leaves DEF D!Served, D!Given, D!Unjudged
  <2>3. CASE /\ q.kind = "settings" /\ D!IsOwner(q.rule, q.who)
             /\ D!Writes(r, q, [privacy EXCEPT !.owner = DNone])
    <3>1. [privacy EXCEPT !.owner = DNone] \in D!Rules
      BY <1>0 DEF D!Rules
    <3> QED
      BY <1>0, <1>1, <1>4, <2>3, <3>1, WritesAll
  <2> QED
    BY <2>1, <2>2, <2>3 DEF D!BodyComes, D!BodyFails, q
<1>6. ToBeJudged' \subseteq ToBeJudged
  BY <1>5 DEF SlotOutcome, ToBeJudged
<1>7. TriesTyped' /\ TriesLeft'
  BY <1>0, <1>1, <1>6, TriesStay
<1>8. WorldTyped' /\ KeysTyped' /\ KeysOnce'
  BY <1>0, <1>1 DEF WorldTyped, KeysTyped, KeysOnce
<1> QED
  BY <1>5, <1>7, <1>8 DEF SlotOutcome, PanelInv

LEMMA PanelStep ==
  ASSUME PanelInv, KeysOnce, [D!Next]_(D!vars)
  PROVE  PanelInv' /\ KeysOnce'
<1>0. /\ RequestsTyped /\ RequestsSound /\ privacy \in D!Rules /\ amiss = {}
      /\ now \in 1..MaxNow /\ newest \in 1..(MaxRotations + 1) /\ asked \in 0..MaxRequests
      /\ KeysTyped /\ TriesTyped /\ TriesLeft /\ WorldTyped
  BY PanelTyped
<1>1. ASSUME D!Rotate PROVE PanelInv' /\ KeysOnce'
  <2>1. /\ newest <= MaxRotations /\ newest' = newest + 1
        /\ UNCHANGED <<now, keys, failures, privacy, req, amiss, asked>>
    BY <1>1 DEF D!Rotate, D!doorVars
  <2>2. WorldTyped' /\ KeysTyped'
    BY <1>0, <2>1, PanelConstants DEF WorldTyped, KeysTyped
  <2>3. KeysOnce'
    BY <1>0, <2>1, PanelConstants DEF KeysOnce, KeysTyped, KeyNumbers
  <2>4. RequestsSound'
    <3> SUFFICES ASSUME NEW r \in Slots, req[r] # D!Free
                 PROVE  KeysOf(req[r])' /\ LetIn(req[r])'
      BY <2>1 DEF RequestsSound
    <3>1. req[r] \in PanelRequest /\ KeysOf(req[r]) /\ LetIn(req[r])
      BY <1>0 DEF RequestsTyped, RequestsSound
    <3>2. req[r].kid \in Nat /\ req[r].got \in Nat
      BY <3>1, PanelConstants DEF PanelRequest, KeyNumbers
    <3> QED
      BY <1>0, <2>1, <3>1, <3>2 DEF KeysOf, LetIn
  <2>5. RequestsTyped'
    BY <1>0, <2>1 DEF RequestsTyped
  <2>6. ToBeJudged' = ToBeJudged
    BY <2>1 DEF ToBeJudged
  <2>7. TriesTyped' /\ TriesLeft'
    BY <1>0, <2>1, <2>6, TriesStay
  <2> QED
    BY <1>0, <2>1, <2>2, <2>3, <2>4, <2>5, <2>7 DEF PanelInv
<1>2. ASSUME D!Tick PROVE PanelInv' /\ KeysOnce'
  <2>1. /\ now < MaxNow /\ now' = now + 1
        /\ UNCHANGED <<newest, keys, failures, privacy, req, amiss, asked>>
    BY <1>2 DEF D!Tick, D!doorVars
  <2>2. WorldTyped' /\ KeysTyped' /\ KeysOnce'
    BY <1>0, <2>1, PanelConstants DEF WorldTyped, KeysTyped, KeysOnce
  <2>3. RequestsSound' /\ RequestsTyped' /\ ToBeJudged' = ToBeJudged
    BY <1>0, <2>1 DEF RequestsSound, RequestsTyped, KeysOf, LetIn, ToBeJudged
  <2>4. D!WindowOver => D!WindowOver'
    <3>1. failures.since \in Int /\ now \in Int /\ WINDOW \in Int
      BY <1>0, PanelConstants DEF TriesTyped
    <3> QED
      BY <2>1, <3>1 DEF D!WindowOver
  <2>5. TriesTyped' /\ TriesLeft'
    BY <1>0, <2>1, <2>3, <2>4 DEF TriesTyped, TriesLeft, MostTries
  <2> QED
    BY <1>0, <2>1, <2>2, <2>3, <2>5 DEF PanelInv
<1>3. ASSUME UNCHANGED D!vars PROVE PanelInv' /\ KeysOnce'
  <2>1. UNCHANGED <<now, newest, keys, failures, privacy, req, amiss, asked>>
    BY <1>3 DEF D!vars, D!worldVars, D!doorVars
  <2>2. RequestsSound' /\ RequestsTyped' /\ ToBeJudged' = ToBeJudged
    BY <1>0, <2>1 DEF RequestsSound, RequestsTyped, KeysOf, LetIn, ToBeJudged
  <2>3. TriesTyped' /\ TriesLeft'
    BY <1>0, <2>1, <2>2, TriesStay
  <2>4. WorldTyped' /\ KeysTyped' /\ KeysOnce'
    BY <1>0, <2>1 DEF WorldTyped, KeysTyped, KeysOnce
  <2> QED
    BY <1>0, <2>1, <2>2, <2>3, <2>4 DEF PanelInv
<1> QED
  BY <1>1, <1>2, <1>3, ArriveStep, FetchSteps, BodySteps DEF D!Next

LEMMA PanelTypeOK == ASSUME PanelInv PROVE D!TypeOK /\ D!ServedUnderARuleInForce /\ D!GenuineIsHeard
<1>0. /\ RequestsTyped /\ privacy \in D!Rules /\ amiss = {}
      /\ KeysTyped /\ TriesTyped /\ WorldTyped
  BY PanelTyped
<1>1. D!ServedUnderARuleInForce /\ D!GenuineIsHeard
  BY <1>0 DEF D!ServedUnderARuleInForce, D!GenuineIsHeard
<1>2. \A r \in Slots : req[r].stage \in {"free", "keys", "forced", "body"}
  BY <1>0 DEF RequestsTyped, PanelRequest, D!Free
<1>3. failures \in [count : 0..(MAX_FAILURES + D!Cardinality(Slots) - 1), since : 0..MaxNow]
  BY <1>0 DEF TriesTyped, MostTries, D!Cardinality, Cardinality
<1> QED
  BY <1>0, <1>1, <1>2, <1>3 DEF D!TypeOK, WorldTyped, KeysTyped, KeyNumbers

----------------------------------------------------------------------------
(* The pages *)

PageOnDisk ==
  [dir : BOOLEAN, index : BOOLEAN, down : BOOLEAN,
   pictures : 0..(MAX_IMAGES_PER_PAGE + 1), entries : SUBSET Entries]
PagesOnDisk ==
  page \in [Slugs -> PageOnDisk] /\ \A s \in Slugs : page[s].dir \/ page[s] = G!Nothing
SettingsOfPages == [grants : [Slugs -> G!Grants], words : [Slugs -> G!Word]]
SettingsTyped ==
  running \in SettingsOfPages /\ GSaved \in SettingsOfPages /\ legible \in BOOLEAN /\ byHand \in BOOLEAN
VerbTyped == verb = G!Idle \/ verb \in [kind : {"pageNew", "pageImage"}, slug : Slugs]
RoomForThePicture ==
  verb.kind = "pageImage" => page[verb.slug].pictures <= MAX_IMAGES_PER_PAGE
SaidOfPages == [word : G!Word, down : BOOLEAN]
ToldTyped == told \in [Slugs -> SaidOfPages]
ShownTyped ==
  shown \in [slug : Slugs, offered : G!Word,
             answer : {"page", "changed", "no page", "no database", "locked"}]
Counted == hands \in 0..MaxHands /\ faults \in 0..MaxFaults

(* What was last said of a page is so, of the page on the disk and of the running
   settings. *)
TakenDownIsDown == \A s \in Slugs : told[s].down => page[s].down
WordIsTheWord == \A s \in Slugs : running.words[s] = told[s].word
FileAgrees ==
  /\ GSaved.words = running.words
  /\ ~byHand => running = GSaved

PagesInv ==
  /\ PagesOnDisk /\ SettingsTyped /\ VerbTyped /\ RoomForThePicture
  /\ ToldTyped /\ ShownTyped /\ Counted
  /\ TakenDownIsDown /\ WordIsTheWord /\ FileAgrees

PagesParts == <<page, running, GSaved, legible, byHand, verb, told, shown, hands, faults>>

LEMMA PagesBounds == MaxHands \in Nat /\ MaxFaults \in Nat /\ MAX_IMAGES_PER_PAGE \in Nat
BY DeskAssumption DEF G!PagesAssumption

LEMMA NothingOnDisk ==
  G!Nothing \in PageOnDisk /\ G!Nothing.pictures = 0 /\ ~G!Nothing.down
<1>1. 0 \in 0..(MAX_IMAGES_PER_PAGE + 1)
  BY PagesBounds
<1> QED
  BY <1>1 DEF G!Nothing, PageOnDisk

LEMMA PageByItsFields ==
  ASSUME NEW p \in PageOnDisk
  PROVE  p = [dir |-> p.dir, index |-> p.index, down |-> p.down, pictures |-> p.pictures,
              entries |-> p.entries]
BY DEF PageOnDisk

LEMMA PagesStart == 
  ASSUME G!Init
  PROVE  PagesInv
<1>1. PagesOnDisk
  BY NothingOnDisk DEF G!Init, PagesOnDisk
<1>2. running \in SettingsOfPages /\ GSaved = running /\ legible = TRUE /\ byHand = FALSE
  BY DEF G!Init, SettingsOfPages, G!Grants, G!Word
<1>3. SettingsTyped /\ FileAgrees
  BY <1>2 DEF SettingsTyped, FileAgrees
<1>4. verb = G!Idle /\ verb.kind = "idle"
  BY DEF G!Init, G!Idle
<1>5. VerbTyped /\ RoomForThePicture
  BY <1>4 DEF VerbTyped, RoomForThePicture
<1>6. ToldTyped /\ TakenDownIsDown /\ WordIsTheWord
  <2>1. G!NoWord \in G!Word
    BY DEF G!Word
  <2>2. told = [s \in Slugs |-> [word |-> G!NoWord, down |-> FALSE]]
    BY DEF G!Init
  <2>3. ToldTyped
    BY <2>1, <2>2 DEF ToldTyped, SaidOfPages
  <2>4. \A s \in Slugs : told[s].down = FALSE /\ told[s].word = G!NoWord
    BY <2>2
  <2>5. \A s \in Slugs : running.words[s] = G!NoWord
    BY DEF G!Init
  <2> QED
    BY <2>3, <2>4, <2>5 DEF TakenDownIsDown, WordIsTheWord
<1>7. ShownTyped
  <2>1. PICK s \in Slugs : shown = [slug |-> s, offered |-> G!NoWord, answer |-> "no page"]
    BY DEF G!Init
  <2>2. G!NoWord \in G!Word
    BY DEF G!Word
  <2> QED
    BY <2>1, <2>2 DEF ShownTyped
<1>8. Counted
  <2>1. hands = 0 /\ faults = 0
    BY DEF G!Init
  <2> QED
    BY <2>1, PagesBounds DEF Counted
<1> QED
  BY <1>1, <1>3, <1>5, <1>6, <1>7, <1>8 DEF PagesInv

(* A page that is written, and what is said of it after: down only where it is, with
   room for the picture that may be under way. *)
LEMMA PageChanges ==
  ASSUME PagesInv, NEW s \in Slugs, NEW q \in PageOnDisk, q.dir \/ q = G!Nothing,
         page' = [page EXCEPT ![s] = q],
         NEW t \in SaidOfPages, told' = [told EXCEPT ![s] = t],
         t.word = told[s].word, t.down => q.down,
         \/ verb' = G!Idle
         \/ verb' = verb /\ (q.pictures = page[s].pictures \/ q.pictures <= MAX_IMAGES_PER_PAGE),
         UNCHANGED <<running, GSaved, legible, byHand, shown, hands, faults>> \/
           (ShownTyped' /\ UNCHANGED <<running, GSaved, legible, byHand, hands, faults>>)
  PROVE  PagesInv'
<1>0. PagesOnDisk /\ VerbTyped /\ RoomForThePicture /\ TakenDownIsDown /\ ToldTyped /\ WordIsTheWord
  BY DEF PagesInv
<1>1. PagesOnDisk'
  BY <1>0 DEF PagesOnDisk
<1>2. ToldTyped' /\ TakenDownIsDown'
  BY <1>0 DEF ToldTyped, TakenDownIsDown, PagesOnDisk
<1>3. WordIsTheWord'
  BY <1>0 DEF ToldTyped, WordIsTheWord
<1>4. VerbTyped'
  BY <1>0 DEF VerbTyped
<1>5. RoomForThePicture'
  <2>1. CASE verb' = G!Idle
    BY <2>1 DEF RoomForThePicture, G!Idle
  <2>2. CASE verb' = verb /\ (q.pictures = page[s].pictures \/ q.pictures <= MAX_IMAGES_PER_PAGE)
    <3> SUFFICES ASSUME verb.kind = "pageImage"
                 PROVE  page'[verb.slug].pictures <= MAX_IMAGES_PER_PAGE
      BY <2>2 DEF RoomForThePicture
    <3>1. verb.slug \in Slugs /\ page[verb.slug].pictures <= MAX_IMAGES_PER_PAGE
      BY <1>0 DEF VerbTyped, RoomForThePicture, G!Idle
    <3> QED
      BY <1>0, <2>2, <3>1 DEF PagesOnDisk
  <2> QED
    BY <2>1, <2>2
<1>6. SettingsTyped' /\ Counted' /\ FileAgrees' /\ ShownTyped'
  BY DEF PagesInv, SettingsTyped, Counted, FileAgrees, ShownTyped
<1> QED
  BY <1>1, <1>2, <1>3, <1>4, <1>5, <1>6 DEF PagesInv

(* The one writer: the file and the running settings change together or not at all. *)
LEMMA SavedTogether ==
  ASSUME PagesInv, NEW part \in {"grants", "words"}, NEW v, NEW ok \in BOOLEAN,
         part = "grants" => v \in [Slugs -> G!Grants],
         part = "words" => v \in [Slugs -> G!Word],
         G!Save(part, v, ok)
  PROVE  /\ SettingsTyped' /\ FileAgrees' /\ faults' \in 0..MaxFaults
         /\ running'.words = IF ok /\ part = "words" THEN v ELSE running.words
<1>0. SettingsTyped /\ FileAgrees /\ Counted
  BY DEF PagesInv
<1>1. /\ GSaved' = IF ok THEN [GSaved EXCEPT ![part] = v] ELSE GSaved
      /\ running' = IF ok THEN [running EXCEPT ![part] = v] ELSE running
      /\ legible' = legible /\ byHand' = byHand
  BY DEF G!Save, G!Applied
<1>2. faults' \in 0..MaxFaults
  BY <1>0, PagesBounds DEF G!Save, Counted
<1>3. running' \in SettingsOfPages /\ GSaved' \in SettingsOfPages
  BY <1>0, <1>1 DEF SettingsTyped, SettingsOfPages
<1>4. SettingsTyped'
  BY <1>0, <1>1, <1>3 DEF SettingsTyped
<1>5. FileAgrees'
  BY <1>0, <1>1 DEF FileAgrees, SettingsTyped, SettingsOfPages
<1>6. running'.words = IF ok /\ part = "words" THEN v ELSE running.words
  BY <1>0, <1>1 DEF SettingsTyped, SettingsOfPages
<1> QED
  BY <1>2, <1>4, <1>5, <1>6

(* And what is said of a page's word after it. *)
LEMMA SavedAndSaid ==
  ASSUME PagesInv, NEW s \in Slugs, NEW w \in G!Word, NEW ok \in BOOLEAN,
         G!Save("words", [running.words EXCEPT ![s] = w], ok),
         NEW t \in SaidOfPages, told' = [told EXCEPT ![s] = t],
         t.down = told[s].down,
         t.word = IF ok THEN w ELSE told[s].word,
         UNCHANGED <<page, verb, shown, hands>>
  PROVE  PagesInv'
<1>0. running \in SettingsOfPages /\ ToldTyped /\ WordIsTheWord /\ TakenDownIsDown /\ Counted
  BY DEF PagesInv, SettingsTyped
<1>1. [running.words EXCEPT ![s] = w] \in [Slugs -> G!Word]
  BY <1>0 DEF SettingsOfPages
<1>2. /\ SettingsTyped' /\ FileAgrees' /\ faults' \in 0..MaxFaults
      /\ running'.words = IF ok THEN [running.words EXCEPT ![s] = w] ELSE running.words
  BY <1>1, SavedTogether, Zenon
<1>3. running.words \in [Slugs -> G!Word]
  BY <1>0 DEF SettingsOfPages
<1>4. ToldTyped' /\ TakenDownIsDown'
  BY <1>0 DEF ToldTyped, TakenDownIsDown
<1>5. WordIsTheWord'
  <2> SUFFICES ASSUME NEW r \in Slugs
               PROVE  running'.words[r] = told'[r].word
    BY DEF WordIsTheWord
  <2>1. CASE r = s
    <3>1. told'[r] = t
      BY <1>0, <2>1 DEF ToldTyped
    <3> QED
      BY <1>0, <1>2, <1>3, <2>1, <3>1 DEF WordIsTheWord
  <2>2. CASE r # s
    <3>1. told'[r] = told[r]
      BY <1>0, <2>2 DEF ToldTyped
    <3> QED
      BY <1>0, <1>2, <1>3, <2>2, <3>1 DEF WordIsTheWord
  <2> QED
    BY <2>1, <2>2
<1>6. PagesOnDisk' /\ VerbTyped' /\ RoomForThePicture' /\ ShownTyped' /\ Counted'
  BY <1>2 DEF PagesInv, PagesOnDisk, VerbTyped, RoomForThePicture, ShownTyped, Counted
<1> QED
  BY <1>2, <1>4, <1>5, <1>6 DEF PagesInv

(* What a visitor is shown is of a page that is not said to be down, to who offers
   the word that was last saved. *)
AsSaid ==
  shown'.answer \in {"page", "changed"} /\ shown' # shown =>
    LET t == told[shown'.slug] IN
      ~t.down /\ t.word \in {G!NoWord, shown'.offered}

LEMMA VisitorsStep ==
  ASSUME PagesInv, NEW s \in Slugs, NEW w \in G!Word, G!Get(s, w) \/ G!Post(s, w)
  PROVE  PagesInv' /\ AsSaid
<1>0. PagesOnDisk /\ TakenDownIsDown /\ WordIsTheWord /\ page[s] \in PageOnDisk
  BY DEF PagesInv, PagesOnDisk
<1>1. ASSUME G!Get(s, w) PROVE PagesInv' /\ AsSaid
  <2>1. shown' = [slug |-> s, offered |-> w, answer |-> G!Answer(s, w)]
        /\ UNCHANGED <<page, running, GSaved, legible, byHand, verb, told, hands, faults>>
    BY <1>1 DEF G!Get, G!settings
  <2>2. page[s].down \/ ~G!Opens(s, w) => G!Answer(s, w) \in {"no page", "locked"}
    BY DEF G!Answer
  <2>3. G!Answer(s, w) \in {"page", "no page", "locked"}
    BY DEF G!Answer
  <2>4. ShownTyped'
    BY <2>1, <2>3 DEF ShownTyped
  <2>5. AsSaid
    BY <1>0, <2>1, <2>2 DEF AsSaid, TakenDownIsDown, WordIsTheWord, G!Opens
  <2>6. PagesInv'
    BY <2>1, <2>4 DEF PagesInv, PagesOnDisk, SettingsTyped, VerbTyped, RoomForThePicture,
       ToldTyped, Counted, TakenDownIsDown, WordIsTheWord, FileAgrees
  <2> QED
    BY <2>5, <2>6
<1>2. ASSUME G!Post(s, w) PROVE PagesInv' /\ AsSaid
  <2>1. /\ shown' = [slug |-> s, offered |-> w, answer |-> G!AnswerToWrite(s, w)]
        /\ UNCHANGED <<running, GSaved, legible, byHand, verb, told, hands, faults>>
        /\ \/ \E e \in Entries : page' = [page EXCEPT ![s].entries = @ \cup {e}]
                                 /\ G!AnswerToWrite(s, w) = "changed"
           \/ UNCHANGED page
    BY <1>2 DEF G!Post, G!settings
  <2>2. page[s].down \/ ~G!Opens(s, w) => G!AnswerToWrite(s, w) \in {"no page", "locked"}
    BY DEF G!AnswerToWrite
  <2>3. G!AnswerToWrite(s, w) \in {"changed", "no page", "locked", "no database"}
    BY DEF G!AnswerToWrite
  <2>4. ShownTyped'
    BY <2>1, <2>3 DEF ShownTyped
  <2>5. AsSaid
    BY <1>0, <2>1, <2>2 DEF AsSaid, TakenDownIsDown, WordIsTheWord, G!Opens
  <2>6. CASE UNCHANGED page
    BY <2>1, <2>4, <2>5, <2>6 DEF PagesInv, PagesOnDisk, SettingsTyped, VerbTyped, RoomForThePicture,
       ToldTyped, Counted, TakenDownIsDown, WordIsTheWord, FileAgrees
  <2>7. ASSUME NEW e \in Entries, page' = [page EXCEPT ![s].entries = @ \cup {e}],
               G!AnswerToWrite(s, w) = "changed"
        PROVE  PagesInv'
    <3> DEFINE q == [page[s] EXCEPT !.entries = @ \cup {e}]
    <3>1. page' = [page EXCEPT ![s] = q]
      BY <1>0, <2>7 DEF PagesOnDisk
    <3>2. q \in PageOnDisk /\ q.pictures = page[s].pictures /\ q.down = page[s].down
          /\ q.dir = page[s].dir
      BY <1>0 DEF PageOnDisk
    <3>3. page[s].entries # {}
      BY <2>7 DEF G!AnswerToWrite
    <3>4. page[s].dir
      BY <1>0, <3>3 DEF PagesOnDisk, G!Nothing
    <3>5. told[s].down => q.down
      BY <1>0, <3>2 DEF TakenDownIsDown
    <3>6. told[s] \in SaidOfPages /\ told' = [told EXCEPT ![s] = told[s]]
      BY <2>1 DEF PagesInv, ToldTyped
    <3> HIDE DEF q
    <3> QED
      BY <2>1, <2>4, <3>1, <3>2, <3>4, <3>5, <3>6, PageChanges
  <2> QED
    BY <2>1, <2>5, <2>6, <2>7
<1> QED
  BY <1>1, <1>2

LEMMA PagesSteps ==
  ASSUME PagesInv, [G!Next]_(G!vars)
  PROVE  PagesInv' /\ (AsSaid \/ UNCHANGED G!vars)
<1>0. /\ PagesOnDisk /\ SettingsTyped /\ VerbTyped /\ RoomForThePicture
      /\ ToldTyped /\ ShownTyped /\ Counted /\ TakenDownIsDown /\ WordIsTheWord /\ FileAgrees
      /\ \A s \in Slugs : page[s] \in PageOnDisk /\ told[s] \in SaidOfPages
  BY DEF PagesInv, PagesOnDisk, ToldTyped
<1>q. shown' = shown => AsSaid
  BY DEF AsSaid
<1>v. shown' = shown => ShownTyped'
  BY <1>0 DEF ShownTyped
<1>w. G!NoWord \in G!Word
  BY DEF G!Word
<1>1. ASSUME NEW s \in Slugs, G!AgentWrites(s) PROVE PagesInv' /\ AsSaid
  <2>1. PICK q \in G!Directory(MAX_IMAGES_PER_PAGE) :
          /\ page' = [page EXCEPT ![s] = q]
          /\ told' = [told EXCEPT ![s].down = @ /\ q.down]
    BY <1>1 DEF G!AgentWrites
  <2>2. UNCHANGED <<running, GSaved, legible, byHand, verb, shown, hands, faults>>
    BY <1>1 DEF G!AgentWrites, G!settings
  <2>3. q \in PageOnDisk /\ (q.dir \/ q = G!Nothing) /\ q.pictures <= MAX_IMAGES_PER_PAGE
    <3>1. CASE q = G!Nothing
      BY <3>1, NothingOnDisk, PagesBounds
    <3>2. CASE q # G!Nothing
      <4>1. q \in [dir : {TRUE}, index : BOOLEAN, down : BOOLEAN,
                   pictures : 0..MAX_IMAGES_PER_PAGE, entries : SUBSET Entries]
        BY <3>2 DEF G!Directory
      <4>2. q.dir = TRUE /\ q.pictures \in 0..MAX_IMAGES_PER_PAGE
        BY <4>1
      <4>3. 0..MAX_IMAGES_PER_PAGE \subseteq 0..(MAX_IMAGES_PER_PAGE + 1)
        BY PagesBounds
      <4>4. q \in PageOnDisk
        BY <4>1, <4>3 DEF PageOnDisk
      <4> QED
        BY <4>2, <4>4, PagesBounds
    <3> QED
      BY <3>1, <3>2
  <2> DEFINE down == told[s].down /\ q.down
             t == [told[s] EXCEPT !.down = down]
  <2>4. told' = [told EXCEPT ![s] = t]
    BY <1>0, <2>1 DEF ToldTyped
  <2>5. down \in BOOLEAN /\ (down => q.down)
    OBVIOUS
  <2> HIDE DEF down
  <2>6. t \in SaidOfPages /\ t.word = told[s].word /\ t.down = down
    BY <1>0, <2>5 DEF SaidOfPages
  <2> HIDE DEF t
  <2> QED
    BY <1>q, <2>1, <2>2, <2>3, <2>4, <2>5, <2>6, PageChanges
<1>2. ASSUME NEW s \in Slugs, G!PanelDelete(s) PROVE PagesInv' /\ AsSaid
  <2> DEFINE t == [told[s] EXCEPT !.down = FALSE]
  <2>1. /\ UNCHANGED <<running, GSaved, legible, byHand, verb, shown, hands, faults>>
        /\ page' = [page EXCEPT ![s] = G!Nothing]
        /\ told' = [told EXCEPT ![s] = t]
    BY <1>0, <1>2 DEF G!PanelDelete, G!settings, ToldTyped
  <2>2. t \in SaidOfPages /\ ~t.down /\ t.word = told[s].word
    BY <1>0 DEF SaidOfPages
  <2>3. G!Nothing \in PageOnDisk /\ G!Nothing.pictures <= MAX_IMAGES_PER_PAGE
    BY NothingOnDisk, PagesBounds
  <2> HIDE DEF t
  <2> QED
    BY <1>q, <2>1, <2>2, <2>3, PageChanges
<1>3. ASSUME NEW s \in Slugs, G!Restore(s) PROVE PagesInv' /\ AsSaid
  <2> DEFINE t == [told[s] EXCEPT !.down = FALSE]
             q == [page[s] EXCEPT !.down = FALSE]
  <2>1. /\ UNCHANGED <<running, GSaved, legible, byHand, verb, shown, hands, faults>>
        /\ page' = [page EXCEPT ![s] = q]
        /\ told' = [told EXCEPT ![s] = t]
    BY <1>0, <1>3 DEF G!Restore, G!settings, ToldTyped, PagesOnDisk
  <2>2. t \in SaidOfPages /\ ~t.down /\ t.word = told[s].word
    BY <1>0 DEF SaidOfPages
  <2>3. q \in PageOnDisk /\ q.dir = page[s].dir /\ q.pictures = page[s].pictures
    BY <1>0 DEF PageOnDisk
  <2>n. page[s] = G!Nothing => q = G!Nothing
    <3> DEFINE n == [G!Nothing EXCEPT !.down = FALSE]
    <3>a. G!Nothing \in PageOnDisk
      BY NothingOnDisk
    <3>b. n \in PageOnDisk
      BY <3>a DEF PageOnDisk
    <3>c. n = [dir |-> n.dir, index |-> n.index, down |-> n.down, pictures |-> n.pictures,
               entries |-> n.entries]
      BY <3>b, PageByItsFields
    <3>d. n.dir = FALSE /\ n.index = FALSE /\ n.down = FALSE /\ n.pictures = 0 /\ n.entries = {}
      <4>1. /\ n.dir = G!Nothing.dir /\ n.index = G!Nothing.index /\ n.down = FALSE
            /\ n.pictures = G!Nothing.pictures /\ n.entries = G!Nothing.entries
        BY <3>a DEF PageOnDisk
      <4>2. /\ G!Nothing.dir = FALSE /\ G!Nothing.index = FALSE /\ G!Nothing.pictures = 0
            /\ G!Nothing.entries = {}
        BY DEF G!Nothing
      <4> HIDE DEF n
      <4> QED
        BY <4>1, <4>2
    <3>1. n = G!Nothing
      <4> HIDE DEF n
      <4> QED
        BY <3>c, <3>d DEF G!Nothing
    <3> QED
      BY <3>1
  <2> HIDE DEF t, q
  <2> QED
    BY <1>0, <1>q, <2>1, <2>2, <2>3, <2>n, PageChanges DEF PagesOnDisk
<1>4. ASSUME NEW s \in Slugs, NEW c \in GChats, G!PageNew(c, s) \/ G!PageImage(c, s)
      PROVE  PagesInv' /\ AsSaid
  <2>1. /\ UNCHANGED <<page, running, GSaved, legible, byHand, told, shown, hands, faults>>
        /\ \/ verb' = [kind |-> "pageNew", slug |-> s]
           \/ verb' = [kind |-> "pageImage", slug |-> s] /\ ~G!Full(page[s])
    BY <1>4 DEF G!PageNew, G!PageImage, G!settings
  <2>2. VerbTyped'
    BY <2>1 DEF VerbTyped
  <2>3. ~G!Full(page[s]) => page[s].pictures <= MAX_IMAGES_PER_PAGE
    <3>1. page[s].pictures \in 0..(MAX_IMAGES_PER_PAGE + 1) /\ MAX_IMAGES_PER_PAGE \in Nat
      BY <1>0, PagesBounds DEF PageOnDisk
    <3> QED
      BY <3>1 DEF G!Full
  <2>4. RoomForThePicture'
    BY <2>1, <2>3 DEF RoomForThePicture
  <2> QED
    BY <1>0, <1>q, <1>v, <2>1, <2>2, <2>4
    DEF PagesInv, PagesOnDisk, SettingsTyped, ToldTyped, Counted, FileAgrees, TakenDownIsDown,
        WordIsTheWord
<1>6. ASSUME NEW s \in Slugs, NEW c \in GChats, G!PageDelete(c, s) PROVE PagesInv' /\ AsSaid
  <2> DEFINE t == [told[s] EXCEPT !.down = TRUE]
             q == [page[s] EXCEPT !.down = TRUE]
  <2>1. /\ UNCHANGED <<running, GSaved, legible, byHand, verb, shown, hands, faults>>
        /\ page' = [page EXCEPT ![s] = q]
        /\ told' = [told EXCEPT ![s] = t]
        /\ page[s].dir
    BY <1>0, <1>6 DEF G!PageDelete, G!settings, ToldTyped, PagesOnDisk
  <2>2. t \in SaidOfPages /\ t.word = told[s].word
    BY <1>0 DEF SaidOfPages
  <2>3. q \in PageOnDisk /\ q.dir = page[s].dir /\ q.down /\ q.pictures = page[s].pictures
    BY <1>0 DEF PageOnDisk
  <2> HIDE DEF t, q
  <2> QED
    BY <1>q, <2>1, <2>2, <2>3, PageChanges
<1>7. ASSUME NEW s \in Slugs, NEW w \in G!Word,
             (\E c \in GChats : G!PagePassword(c, s, w)) \/ G!PanelPassword(s, w)
      PROVE  PagesInv' /\ AsSaid
  <2>1. PICK ok \in BOOLEAN :
          /\ G!Save("words", [running.words EXCEPT ![s] = w], ok)
          /\ told' = IF ok THEN [told EXCEPT ![s].word = w] ELSE told
          /\ UNCHANGED <<page, verb, shown, hands>>
    BY <1>7 DEF G!PagePassword, G!PanelPassword
  <2> DEFINE word == IF ok THEN w ELSE told[s].word
             t == [told[s] EXCEPT !.word = word]
  <2>2. told' = [told EXCEPT ![s] = t]
    BY <1>0, <2>1 DEF ToldTyped, SaidOfPages
  <2>3. t \in SaidOfPages /\ t.down = told[s].down /\ t.word = IF ok THEN w ELSE told[s].word
    BY <1>0 DEF SaidOfPages
  <2> HIDE DEF t
  <2>a. G!Save("words", [running.words EXCEPT ![s] = w], ok) /\ UNCHANGED <<page, verb, shown, hands>>
    BY <2>1
  <2>4. PagesInv'
    BY ONLY PagesInv, <2>a, <2>2, <2>3, SavedAndSaid, s \in Slugs, w \in G!Word, ok \in BOOLEAN
  <2> QED
    BY <1>q, <2>1, <2>4
<1>9. ASSUME NEW s \in Slugs, NEW g \in G!Grants, G!PanelGrant(s, g) PROVE PagesInv' /\ AsSaid
  <2>1. PICK ok \in BOOLEAN : G!Save("grants", [running.grants EXCEPT ![s] = g], ok)
    BY <1>9 DEF G!PanelGrant
  <2>2. UNCHANGED <<page, verb, told, shown, hands>>
    BY <1>9 DEF G!PanelGrant
  <2>3. [running.grants EXCEPT ![s] = g] \in [Slugs -> G!Grants]
    BY <1>0 DEF SettingsTyped, SettingsOfPages
  <2>4. SettingsTyped' /\ FileAgrees' /\ faults' \in 0..MaxFaults /\ running'.words = running.words
    BY <2>1, <2>3, SavedTogether, Zenon
  <2> QED
    BY <1>0, <1>q, <1>v, <2>2, <2>4
    DEF PagesInv, PagesOnDisk, VerbTyped, RoomForThePicture, ToldTyped, Counted, TakenDownIsDown,
        WordIsTheWord
<1>10. ASSUME G!Scaffold PROVE PagesInv' /\ AsSaid
  <2>1. /\ verb.kind = "pageNew" /\ verb' = G!Idle
        /\ UNCHANGED <<running, GSaved, legible, byHand, told, shown, hands, faults>>
        /\ page' = IF page[verb.slug].index THEN page
                   ELSE [page EXCEPT ![verb.slug] = G!Scaffolded(@)]
    BY <1>10 DEF G!Scaffold, G!settings
  <2>2. verb.slug \in Slugs
    BY <1>0, <2>1 DEF VerbTyped, G!Idle
  <2>3. CASE page[verb.slug].index
    BY <1>0, <1>q, <1>v, <2>1, <2>3
    DEF PagesInv, PagesOnDisk, VerbTyped, RoomForThePicture, ToldTyped, Counted, TakenDownIsDown,
        WordIsTheWord, G!Idle, SettingsTyped, FileAgrees
  <2>4. CASE ~page[verb.slug].index
    <3> DEFINE q == G!Scaffolded(page[verb.slug])
    <3>1. page' = [page EXCEPT ![verb.slug] = q]
      BY <1>0, <2>1, <2>4 DEF PagesOnDisk
    <3>2. q \in PageOnDisk /\ q.dir /\ q.down = page[verb.slug].down
      BY <1>0, <2>2 DEF PageOnDisk, G!Scaffolded
    <3>3. told[verb.slug].down => q.down
      BY <1>0, <2>2, <3>2 DEF TakenDownIsDown
    <3>4. told[verb.slug] \in SaidOfPages /\ told' = [told EXCEPT ![verb.slug] = told[verb.slug]]
      BY <1>0, <2>1, <2>2 DEF ToldTyped
    <3> HIDE DEF q
    <3> QED
      BY <1>q, <2>1, <2>2, <3>1, <3>2, <3>3, <3>4, PageChanges
  <2> QED
    BY <2>3, <2>4
<1>11. ASSUME G!WritePicture PROVE PagesInv' /\ AsSaid
  <2>1. /\ verb.kind = "pageImage" /\ verb' = G!Idle
        /\ UNCHANGED <<running, GSaved, legible, byHand, told, shown, hands, faults>>
        /\ \/ page' = [page EXCEPT ![verb.slug].dir = TRUE, ![verb.slug].pictures = @ + 1]
           \/ UNCHANGED page
    BY <1>11 DEF G!WritePicture, G!settings
  <2>2. verb.slug \in Slugs
    BY <1>0, <2>1 DEF VerbTyped, G!Idle
  <2>3. CASE UNCHANGED page
    BY <1>0, <1>q, <1>v, <2>1, <2>3
    DEF PagesInv, PagesOnDisk, VerbTyped, RoomForThePicture, ToldTyped, Counted, TakenDownIsDown,
        WordIsTheWord, G!Idle, SettingsTyped, FileAgrees
  <2>4. CASE page' = [page EXCEPT ![verb.slug].dir = TRUE, ![verb.slug].pictures = @ + 1]
    <3> DEFINE q == [page[verb.slug] EXCEPT !.dir = TRUE, !.pictures = @ + 1]
    <3>1. page' = [page EXCEPT ![verb.slug] = q]
      BY <1>0, <2>2, <2>4 DEF PagesOnDisk
    <3>2. page[verb.slug].pictures + 1 \in 0..(MAX_IMAGES_PER_PAGE + 1)
      <4>1. page[verb.slug].pictures \in 0..(MAX_IMAGES_PER_PAGE + 1) /\ MAX_IMAGES_PER_PAGE \in Nat
        BY <1>0, <2>2, PagesBounds DEF PageOnDisk
      <4> QED
        BY <1>0, <2>1, <4>1 DEF RoomForThePicture
    <3>3. q \in PageOnDisk /\ q.dir /\ q.down = page[verb.slug].down
      BY <1>0, <2>2, <3>2 DEF PageOnDisk
    <3>4. told[verb.slug].down => q.down
      BY <1>0, <2>2, <3>3 DEF TakenDownIsDown
    <3>5. told[verb.slug] \in SaidOfPages /\ told' = [told EXCEPT ![verb.slug] = told[verb.slug]]
      BY <1>0, <2>1, <2>2 DEF ToldTyped
    <3> HIDE DEF q
    <3> QED
      BY <1>q, <2>1, <2>2, <3>1, <3>3, <3>4, <3>5, PageChanges
  <2> QED
    BY <2>1, <2>3, <2>4
<1>12. ASSUME G!HandEdit PROVE PagesInv' /\ AsSaid
  <2>1. /\ hands < MaxHands /\ hands' = hands + 1
        /\ UNCHANGED <<page, running, verb, told, shown, faults>>
    BY <1>12 DEF G!HandEdit
  <2>2. Counted'
    BY <1>0, <2>1, PagesBounds DEF Counted
  <2>3. SettingsTyped' /\ FileAgrees'
    <3>1. ASSUME NEW s \in Slugs, NEW g \in G!Grants, GSaved' = [GSaved EXCEPT !.grants[s] = g],
                 byHand' = TRUE, UNCHANGED <<running, legible>>
          PROVE  SettingsTyped' /\ FileAgrees'
      <4>1. GSaved' \in SettingsOfPages /\ GSaved'.words = GSaved.words
        BY <1>0, <3>1 DEF SettingsTyped, SettingsOfPages
      <4> QED
        BY <1>0, <3>1, <4>1 DEF SettingsTyped, FileAgrees
    <3>2. ASSUME legible' = ~legible, UNCHANGED <<running, GSaved, byHand>>
          PROVE  SettingsTyped' /\ FileAgrees'
      BY <1>0, <3>2 DEF SettingsTyped, FileAgrees
    <3> QED
      BY <1>12, <3>1, <3>2 DEF G!HandEdit
  <2> QED
    BY <1>0, <1>q, <1>v, <2>1, <2>2, <2>3
    DEF PagesInv, PagesOnDisk, VerbTyped, RoomForThePicture, ToldTyped, TakenDownIsDown,
        WordIsTheWord
<1>13. ASSUME G!Restart PROVE PagesInv' /\ AsSaid
  <2>1. /\ faults < MaxFaults /\ faults' = faults + 1 /\ running' = GSaved /\ byHand' = FALSE
        /\ verb' = G!Idle
        /\ UNCHANGED <<page, GSaved, legible, told, shown, hands>>
    BY <1>13 DEF G!Restart
  <2>2. Counted'
    BY <1>0, <2>1, PagesBounds DEF Counted
  <2>3. SettingsTyped' /\ FileAgrees' /\ running'.words = running.words
    BY <1>0, <2>1 DEF SettingsTyped, FileAgrees
  <2> QED
    BY <1>0, <1>q, <1>v, <2>1, <2>2, <2>3
    DEF PagesInv, PagesOnDisk, VerbTyped, RoomForThePicture, ToldTyped, TakenDownIsDown,
        WordIsTheWord, G!Idle
<1>14. ASSUME UNCHANGED G!vars PROVE PagesInv'
  <2>1. UNCHANGED PagesParts
    BY <1>14 DEF PagesParts, G!vars, G!settings
  <2> QED
    BY <1>0, <2>1 DEF PagesInv, PagesParts, PagesOnDisk, VerbTyped, RoomForThePicture, ToldTyped,
       TakenDownIsDown, WordIsTheWord, SettingsTyped, FileAgrees, ShownTyped, Counted
<1>15. CASE UNCHANGED G!vars
  BY <1>14, <1>15
<1>16. CASE G!Next
  BY <1>1, <1>2, <1>3, <1>4, <1>6, <1>7, <1>9, <1>10, <1>11, <1>12, <1>13, <1>16,
     VisitorsStep DEF G!Next
<1> QED
  BY <1>15, <1>16

----------------------------------------------------------------------------
(* The operator's commands *)

(* The file has the switches, unless the last write of it failed; and what is under
   way in a room is no report. *)
KindsInRooms ==
  \A m \in Typed : command[m].at \in {"marking", "saying"} /\ command[m].in \in Rooms
                        => command[m].name \in {"stop", "releasejuan"}
FileHasTheSwitches ==
  ~unsaved => disk = [held |-> held, stopped |-> stopped, generation |-> generation]
NoReportInRooms == \A c \in Rooms : "report" \notin seen[c]
ControlInv ==
  /\ K!TypeOK
  /\ FileHasTheSwitches
  /\ lifted # "someone"
  /\ KindsInRooms
  /\ NoReportInRooms

LEMMA KUntyped == K!Untyped \in K!Command /\ K!Over \in K!Command
                  /\ K!Untyped.at = "none" /\ K!Over.at = "over"
<1>1. (CHOOSE c \in K!Chats : TRUE) \in K!Chats
  BY DeskAssumption DEF K!ControlAssumption
<1> QED
  BY <1>1, Zenon DEF K!Untyped, K!Over, K!Command, K!Stages, K!People, K!Names

LEMMA ControlStart == K!Init => ControlInv
<1> SUFFICES ASSUME K!Init PROVE ControlInv
  OBVIOUS
<1>1. K!TypeOK
  <2>1. /\ held \in BOOLEAN /\ stopped \subseteq K!Chats /\ generation \in 0..MaxResets
        /\ blocked \subseteq K!Chats
        /\ drops \in 0..MaxDrops /\ KFailures \in 0..MaxUnsaved /\ restarts \in 0..MaxRestarts
    <3>1. {MaxResets, MaxDrops, MaxUnsaved, MaxRestarts} \subseteq Nat
      BY DeskAssumption DEF K!ControlAssumption
    <3>2. generation \in 0..MaxResets /\ drops \in 0..MaxDrops
          /\ KFailures \in 0..MaxUnsaved /\ restarts \in 0..MaxRestarts
      BY <3>1 DEF K!Init
    <3>3. held \in BOOLEAN /\ stopped \subseteq K!Chats /\ blocked \subseteq K!Chats
      BY DEF K!Init
    <3> QED
      BY <3>2, <3>3
  <2>2. /\ command \in [Typed -> K!Command]
        /\ seen \in [K!Chats -> SUBSET {"mark", "line", "held", "wrongRoom", "report"}]
    BY KUntyped DEF K!Init
  <2>3. disk \in [held : BOOLEAN, stopped : SUBSET K!Chats, generation : 0..MaxResets]
    BY <2>1 DEF K!Init
  <2>4. unsaved \in BOOLEAN /\ lifted \in K!People \cup {"nobody", "panel"}
    BY DEF K!Init
  <2> QED
    BY <2>1, <2>2, <2>3, <2>4 DEF K!TypeOK
<1>2. FileHasTheSwitches /\ lifted # "someone" /\ NoReportInRooms
  BY DEF K!Init, FileHasTheSwitches, NoReportInRooms, K!Chats
<1>3. KindsInRooms
  BY KUntyped DEF K!Init, KindsInRooms
<1> QED
  BY <1>1, <1>2, <1>3 DEF ControlInv

(* What no command of somebody's may do, and no restart. *)
OperatorsToLift ==
  /\ lifted' # "someone"
  /\ restarts' = restarts => \E c \in K!Chats : stopped \ stopped' \subseteq {c}
  /\ restarts' = restarts /\ held /\ ~held' => stopped' = stopped
  /\ restarts' # restarts /\ ~unsaved => stopped' = stopped /\ held' = held
  /\ \A c \in Rooms : "report" \notin seen'[c]

(* The switches and the file, typed. *)
SwitchesTyped ==
  /\ held \in BOOLEAN /\ stopped \subseteq K!Chats /\ generation \in 0..MaxResets
  /\ blocked \subseteq K!Chats
  /\ disk \in [held : BOOLEAN, stopped : SUBSET K!Chats, generation : 0..MaxResets]
  /\ unsaved \in BOOLEAN /\ KFailures \in 0..MaxUnsaved

LEMMA FlushKeeps ==
  ASSUME SwitchesTyped, MaxUnsaved \in Nat, K!Flush,
         held' \in BOOLEAN, stopped' \subseteq K!Chats, generation' \in 0..MaxResets,
         blocked' \subseteq K!Chats
  PROVE  SwitchesTyped' /\ FileHasTheSwitches'
<1>1. CASE /\ disk' = [held |-> held', stopped |-> stopped', generation |-> generation']
           /\ unsaved' = FALSE /\ UNCHANGED KFailures
  <2>1. disk' \in [held : BOOLEAN, stopped : SUBSET K!Chats, generation : 0..MaxResets]
    BY <1>1
  <2>2. unsaved' \in BOOLEAN /\ KFailures' \in 0..MaxUnsaved
    BY <1>1 DEF SwitchesTyped
  <2>3. FileHasTheSwitches'
    BY <1>1 DEF FileHasTheSwitches
  <2> QED
    BY <2>1, <2>2, <2>3 DEF SwitchesTyped
<1>2. CASE /\ KFailures < MaxUnsaved /\ KFailures' = KFailures + 1
           /\ unsaved' = TRUE /\ UNCHANGED disk
  <2>1. KFailures' \in 0..MaxUnsaved
    BY <1>2 DEF SwitchesTyped
  <2>2. unsaved' \in BOOLEAN /\ FileHasTheSwitches'
    BY <1>2 DEF FileHasTheSwitches
  <2>3. disk' \in [held : BOOLEAN, stopped : SUBSET K!Chats, generation : 0..MaxResets]
    BY <1>2 DEF SwitchesTyped
  <2> QED
    BY <2>1, <2>2, <2>3 DEF SwitchesTyped
<1> QED
  BY <1>1, <1>2 DEF K!Flush

LEMMA SwitchesStay ==
  ASSUME SwitchesTyped, FileHasTheSwitches, UNCHANGED <<K!switches, K!file>>
  PROVE  SwitchesTyped' /\ FileHasTheSwitches'
<1>1. UNCHANGED <<held, stopped, generation, blocked, disk, unsaved, KFailures>>
  BY DEF K!switches, K!file
<1> QED
  BY <1>1 DEF SwitchesTyped, FileHasTheSwitches

(* What a command does, whoever gives it: the switches stay of their kind and the
   file is as good as before; and all that a command does to the stops is to lift one
   of them, and never with the hold. *)
LEMMA WhatIsDone ==
  ASSUME ControlInv, NEW c \in K!Chats, NEW name, K!Does(c, name)
  PROVE  /\ SwitchesTyped' /\ FileHasTheSwitches'
         /\ stopped \ stopped' \subseteq {c}
         /\ held /\ ~held' => stopped' = stopped
         /\ name = "stop" => ~K!Lifting
<1>0. /\ SwitchesTyped /\ FileHasTheSwitches /\ MaxResets \in Nat /\ MaxUnsaved \in Nat
      /\ held \in BOOLEAN /\ stopped \subseteq K!Chats /\ generation \in 0..MaxResets
      /\ blocked \subseteq K!Chats
  BY DeskAssumption DEF ControlInv, SwitchesTyped, K!TypeOK, K!ControlAssumption
<1>1. ASSUME NEW b \in BOOLEAN, K!SetHold(b)
      PROVE  SwitchesTyped' /\ FileHasTheSwitches' /\ stopped' = stopped
  <2>1. K!Flush /\ held' \in BOOLEAN /\ UNCHANGED <<stopped, generation, blocked>>
    BY <1>1 DEF K!SetHold
  <2> QED
    BY <1>0, <2>1, FlushKeeps
<1>2. ASSUME K!StopChat(c)
      PROVE  /\ SwitchesTyped' /\ FileHasTheSwitches' /\ stopped \subseteq stopped'
             /\ held' = held /\ blocked' = blocked
  <2>1. K!Flush /\ stopped' = stopped \cup {c} /\ UNCHANGED <<held, generation, blocked>>
    BY <1>2 DEF K!StopChat
  <2> QED
    BY <1>0, <2>1, FlushKeeps
<1>3. ASSUME K!StartChat(c)
      PROVE  /\ SwitchesTyped' /\ FileHasTheSwitches' /\ held' = held
             /\ stopped \ stopped' \subseteq {c}
  <2>1. CASE c \in stopped
    <3>1. K!Flush /\ stopped' = stopped \ {c} /\ UNCHANGED <<held, generation, blocked>>
      BY <1>3, <2>1 DEF K!StartChat
    <3> QED
      BY <1>0, <3>1, FlushKeeps
  <2>2. CASE c \notin stopped
    <3>1. UNCHANGED <<K!switches, K!file>>
      BY <1>3, <2>2 DEF K!StartChat
    <3> QED
      BY <1>0, <3>1, SwitchesStay DEF K!switches
  <2> QED
    BY <2>1, <2>2
<1>4. ASSUME NEW d \in K!Chats, NEW b, K!SetBlocked(d, b)
      PROVE  /\ SwitchesTyped' /\ FileHasTheSwitches' /\ stopped' = stopped /\ held' = held
  <2>1. UNCHANGED <<held, stopped, generation, disk, unsaved, KFailures>>
        /\ blocked' \subseteq K!Chats
    BY <1>0, <1>4 DEF K!SetBlocked, K!file
  <2> QED
    BY <1>0, <2>1 DEF SwitchesTyped, FileHasTheSwitches
<1>5. ASSUME K!Reset
      PROVE  /\ SwitchesTyped' /\ FileHasTheSwitches' /\ stopped' = stopped /\ held' = held
  <2>1. K!Flush /\ generation' \in 0..MaxResets /\ UNCHANGED <<held, stopped, blocked>>
    BY <1>0, <1>5 DEF K!Reset
  <2> QED
    BY <1>0, <2>1, FlushKeeps
<1>6. ASSUME UNCHANGED <<K!switches, K!file>>
      PROVE  /\ SwitchesTyped' /\ FileHasTheSwitches' /\ stopped' = stopped /\ held' = held
  BY <1>0, <1>6, SwitchesStay DEF K!switches
<1>7. name = "stop" => ~K!Lifting
  <2> SUFFICES ASSUME name = "stop" PROVE ~K!Lifting
    OBVIOUS
  <2>1. K!StopChat(c)
    BY DEF K!Does
  <2> QED
    BY <1>2, <2>1 DEF K!Lifting
<1>8. name \in {"hold", "release"} /\ K!SetHold(name = "hold") =>
        SwitchesTyped' /\ FileHasTheSwitches' /\ stopped' = stopped
  BY <1>1
<1> QED
  BY <1>2, <1>3, <1>4, <1>5, <1>6, <1>7, <1>8 DEF K!Does

LEMMA ControlSteps ==
  ASSUME ControlInv, [K!Next]_(K!controlVars)
  PROVE  ControlInv' /\ (OperatorsToLift \/ UNCHANGED K!controlVars)
<1> USE DEF SwitchesTyped
<1>0. /\ K!TypeOK /\ SwitchesTyped /\ FileHasTheSwitches /\ lifted # "someone" 
      /\ KindsInRooms /\ NoReportInRooms
      /\ {MaxResets, MaxUnsaved, MaxDrops, MaxRestarts} \subseteq Nat
      /\ K!Chats # {}
  BY DeskAssumption DEF ControlInv, K!TypeOK, K!ControlAssumption
<1>1. ASSUME NEW m \in Typed, NEW who \in K!People, NEW c \in K!Chats, NEW name \in K!Names,
             K!Type(m, who, c, name)
      PROVE  ControlInv' /\ OperatorsToLift
  <2>1. /\ SwitchesTyped' /\ FileHasTheSwitches' /\ stopped \ stopped' \subseteq {c}
        /\ held /\ ~held' => stopped' = stopped
        /\ name = "stop" => ~K!Lifting
    BY <1>1, WhatIsDone DEF K!Type
  <2>2. lifted' # "someone" /\ lifted' \in K!People \cup {"nobody", "panel"}
    BY <1>0, <1>1, <2>1 DEF K!Type, K!Noted, K!Runs, K!OpenToEveryone, K!TypeOK, K!People,
       K!OperatorAnywhere
  <2>3. PICK stage \in K!FirstStage(c, name) :
          command' = [command EXCEPT ![m] = [at |-> stage, by |-> who, in |-> c, name |-> name,
                                             held |-> held]]
    BY <1>1 DEF K!Type, K!Types
  <2>4. [at |-> stage, by |-> who, in |-> c, name |-> name, held |-> held] \in K!Command
    BY <1>0 DEF K!Command, K!Stages, K!FirstStage
  <2>5. command' \in [Typed -> K!Command]
    BY <1>0, <2>3, <2>4 DEF K!TypeOK
  <2>6. seen' = seen /\ drops' = drops /\ restarts' = restarts
    BY <1>1 DEF K!Type, K!bounds
  <2>7. c \in Rooms => name \in {"stop", "releasejuan"}
    BY <1>1 DEF K!Type, K!Runs, K!OpenToEveryone, K!OperatorAnywhere
  <2>8. KindsInRooms'
    BY <1>0, <2>3, <2>7 DEF KindsInRooms, K!TypeOK
  <2> QED
    BY <1>0, <2>1, <2>2, <2>5, <2>6, <2>8
    DEF ControlInv, OperatorsToLift, K!TypeOK, NoReportInRooms
<1>2. ASSUME NEW m \in Typed, NEW who \in K!People, NEW c \in K!Chats, NEW name \in K!Names,
             K!Misplaced(m, who, c, name)
      PROVE  ControlInv' /\ OperatorsToLift
  <2>1. /\ command' = [command EXCEPT ![m] = K!Over]
        /\ seen' = [seen EXCEPT ![c] = @ \cup {"wrongRoom"}]
        /\ UNCHANGED <<K!switches, K!file, lifted, K!bounds>>
    BY <1>2 DEF K!Misplaced
  <2>2. SwitchesTyped' /\ FileHasTheSwitches' /\ stopped' = stopped /\ held' = held
    BY <1>0, <2>1 DEF K!switches, K!file, FileHasTheSwitches
  <2>3. command' \in [Typed -> K!Command] /\ KindsInRooms'
    BY <1>0, <2>1, KUntyped DEF K!TypeOK, KindsInRooms
  <2>4. seen' \in [K!Chats -> SUBSET {"mark", "line", "held", "wrongRoom", "report"}]
        /\ NoReportInRooms'
    BY <1>0, <2>1 DEF K!TypeOK, NoReportInRooms, K!Chats
  <2> QED
    BY <1>0, <2>1, <2>2, <2>3, <2>4 DEF ControlInv, OperatorsToLift, K!TypeOK, K!bounds,
       NoReportInRooms
<1>3. ASSUME NEW m \in Typed, K!Marked(m) \/ K!MarkFails(m) \/ K!Said(m)
      PROVE  ControlInv' /\ OperatorsToLift
  <2>1. /\ UNCHANGED <<K!switches, K!file, lifted, restarts>>
        /\ drops' = drops \/ (drops < MaxDrops /\ drops' = drops + 1)
    BY <1>3 DEF K!Marked, K!MarkFails, K!Said, K!bounds
  <2>2. SwitchesTyped' /\ FileHasTheSwitches' /\ stopped' = stopped /\ held' = held
        /\ drops' \in 0..MaxDrops
    BY <1>0, <2>1 DEF K!switches, K!file, FileHasTheSwitches, K!TypeOK
  <2>3. command[m] \in K!Command
    BY <1>0 DEF K!TypeOK
  <2>4. \E cmd \in K!Command :
          /\ command' = [command EXCEPT ![m] = cmd]
          /\ cmd.at \in {"marking", "saying"} => 
               /\ command[m].at \in {"marking", "saying"}
               /\ cmd.in = command[m].in /\ cmd.name = command[m].name
    <3>1. CASE K!MarkFails(m)
      <4>1. [command[m] EXCEPT !.at = "saying"] \in K!Command
        BY <2>3 DEF K!Command, K!Stages
      <4> QED
        BY <3>1, <2>3, <4>1 DEF K!MarkFails, K!Command
    <3>2. CASE K!Marked(m)
      <4>1. [command[m] EXCEPT !.at = "saying"] \in K!Command
        BY <2>3 DEF K!Command, K!Stages
      <4> QED
        BY <1>0, <3>2, <2>3, <4>1, KUntyped DEF K!Marked, K!Command, K!TypeOK
    <3>3. CASE K!Said(m)
      BY <3>3, KUntyped DEF K!Said
    <3> QED
      BY <1>3, <3>1, <3>2, <3>3
  <2>5. command' \in [Typed -> K!Command] /\ KindsInRooms'
    BY <1>0, <2>4 DEF K!TypeOK, KindsInRooms
  <2>6. PICK S \in SUBSET {"mark", "line", "held", "wrongRoom", "report"} :
          /\ command[m].in \in Rooms => "report" \notin S
          /\ seen' = [seen EXCEPT ![command[m].in] = @ \cup S]
    <3>1. CASE K!MarkFails(m)
      <4>1. seen' = [seen EXCEPT ![command[m].in] = @ \cup {}]
        BY <1>0, <3>1 DEF K!MarkFails, K!TypeOK
      <4> QED
        BY <4>1
    <3>2. CASE K!Marked(m)
      BY <3>2 DEF K!Marked
    <3>3. CASE K!Said(m)
      <4>1. command[m].in \in Rooms => command[m].name \in {"stop", "releasejuan"}
        BY <1>0, <3>3 DEF K!Said, KindsInRooms
      <4>2. K!Shown(m) \in SUBSET {"mark", "line", "held", "wrongRoom", "report"}
            /\ (command[m].in \in Rooms => "report" \notin K!Shown(m))
        BY <4>1 DEF K!Shown
      <4> QED
        BY <3>3, <4>2 DEF K!Said
    <3> QED
      BY <1>3, <3>1, <3>2, <3>3
  <2>7. seen' \in [K!Chats -> SUBSET {"mark", "line", "held", "wrongRoom", "report"}]
        /\ NoReportInRooms'
    BY <1>0, <2>6 DEF K!TypeOK, NoReportInRooms, K!Chats
  <2> QED
    BY <1>0, <2>1, <2>2, <2>5, <2>7 DEF ControlInv, OperatorsToLift, K!TypeOK, NoReportInRooms
<1>4. ASSUME NEW c \in K!Chats, NEW name \in K!Names, K!Press(c, name)
      PROVE  ControlInv' /\ OperatorsToLift
  <2>1. /\ SwitchesTyped' /\ FileHasTheSwitches' /\ stopped \ stopped' \subseteq {c}
        /\ held /\ ~held' => stopped' = stopped
    BY <1>4, WhatIsDone DEF K!Press
  <2>2. /\ lifted' # "someone" /\ lifted' \in K!People \cup {"nobody", "panel"}
        /\ command' = command /\ seen' = seen /\ drops' = drops /\ restarts' = restarts
    BY <1>0, <1>4 DEF K!Press, K!Noted, K!TypeOK, K!bounds
  <2> QED
    BY <1>0, <2>1, <2>2
    DEF ControlInv, OperatorsToLift, K!TypeOK, NoReportInRooms, KindsInRooms
<1>5. ASSUME K!Restart
      PROVE  ControlInv' /\ OperatorsToLift
  <2>0. /\ held' = disk.held /\ stopped' = disk.stopped /\ generation' = disk.generation
        /\ unsaved' = FALSE /\ UNCHANGED <<disk, KFailures, blocked>>
    BY <1>5 DEF K!Restart, K!Kept
  <2>a. /\ disk.held \in BOOLEAN /\ disk.stopped \subseteq K!Chats /\ disk.generation \in 0..MaxResets
        /\ disk = [held |-> disk.held, stopped |-> disk.stopped, generation |-> disk.generation]
    BY <1>0
  <2>b. SwitchesTyped'
    <3>1. unsaved' \in BOOLEAN
      BY <2>0
    <3> QED
      BY <1>0, <2>0, <2>a, <3>1, Zenon
  <2>c. FileHasTheSwitches'
    BY <2>0, <2>a DEF FileHasTheSwitches
  <2>d. ~unsaved => stopped' = stopped /\ held' = held
    BY <1>0, <2>0 DEF FileHasTheSwitches
  <2>1. SwitchesTyped' /\ FileHasTheSwitches' /\ (~unsaved => stopped' = stopped /\ held' = held)
    BY <2>b, <2>c, <2>d
  <2>2. command' \in [Typed -> K!Command] /\ KindsInRooms'
    BY <1>5, KUntyped DEF K!Restart, KindsInRooms
  <2> QED
    BY <1>0, <1>5, <2>1, <2>2
    DEF ControlInv, OperatorsToLift, K!TypeOK, NoReportInRooms, K!Restart
<1>6. ASSUME UNCHANGED K!controlVars
      PROVE  ControlInv'
  BY <1>0, <1>6 DEF ControlInv, K!TypeOK, K!controlVars, K!switches, K!file, K!bounds,
     FileHasTheSwitches, KindsInRooms, NoReportInRooms
<1> QED
  BY <1>1, <1>2, <1>3, <1>4, <1>5, <1>6 DEF K!Next

----------------------------------------------------------------------------
(* The parts together: a behaviour is one of a single part, and every other part
   stays as it began. *)

deskVars == <<which, vars, DVars, GVars, KVars>>

LEMMA StepsOfTheParts ==
  ASSUME [Step]_deskVars
  PROVE  [Next]_vars /\ [D!Next]_(D!vars) /\ [G!Next]_(G!vars) /\ [K!Next]_(K!controlVars)
<1>1. /\ DVars' = DVars => D!vars' = D!vars
      /\ GVars' = GVars => G!vars' = G!vars
      /\ KVars' = KVars => K!controlVars' = K!controlVars
  BY DEF DVars, D!vars, D!worldVars, D!doorVars, GVars, G!vars, G!settings, KVars, K!controlVars,
     K!switches, K!file, K!bounds
<1> QED
  BY <1>1 DEF Step, deskVars

LEMMA Behaviours ==
  Sum => /\ Spec
         /\ D!Init /\ [][D!Next]_(D!vars)
         /\ G!Init /\ [][G!Next]_(G!vars)
         /\ K!Init /\ [][K!Next]_(K!controlVars)
<1>1. Start => Init /\ D!Init /\ G!Init /\ K!Init
  BY DEF Start
<1>2. [Step]_deskVars =>
        [Next]_vars /\ [D!Next]_(D!vars) /\ [G!Next]_(G!vars) /\ [K!Next]_(K!controlVars)
  BY StepsOfTheParts
<1> QED
  BY <1>1, <1>2, PTL DEF Sum, Spec, deskVars

\* What the requests at the door have seen and got agrees with the rules and the
\* keys there were, and the tries of an address with the requests under way
\* (panel.ts, access.ts): the inductive invariant of Panel.
THEOREM PanelInvariant == Sum => [](PanelInv /\ KeysOnce)
<1>1. D!Init => PanelInv /\ KeysOnce
  BY PanelStart DEF D!Init, D!NoKeys, KeysOnce
<1>2. PanelInv /\ KeysOnce /\ [D!Next]_(D!vars) => (PanelInv /\ KeysOnce)'
  BY PanelStep
<1> QED
  BY <1>1, <1>2, Behaviours, PTL

\* For any number of requests, people, conversations and rotations: what a viewer is
\* given by a route that is judged was theirs under a rule in force while the request
\* lived (panel.ts judges ?key= and the owner's routes, and not those of Unjudged), and
\* somebody with an assertion is refused for want of a key only if a fetch for that
\* request failed or the provider retired the key.
THEOREM PanelIsFairAlways == Sum => []PanelIsFair
<1>1. PanelInv => PanelIsFair
  BY PanelTypeOK DEF PanelIsFair
<1> QED
  BY <1>1, PanelInvariant, PTL

\* The file and the running settings have the same words, the last that were saved,
\* and unless the file was edited by hand the same grants; and a page said to be down
\* is, if nobody took its marker away: the inductive invariant of Pages.
THEOREM PagesInvariant == Sum => []PagesInv
<1>1. G!Init => PagesInv
  BY PagesStart
<1>2. PagesInv /\ [G!Next]_(G!vars) => PagesInv'
  BY PagesSteps
<1> QED
  BY <1>1, <1>2, Behaviours, PTL

\* For any pages, chats, words and faults, whatever the agent's shell does with the
\* directories: a page taken down is shown to nobody until an operator or that shell
\* puts it back, a page is shown only to who offers the word in force, the last that
\* was saved, and a restart finds what was running (pages.ts, updateSettings).
THEOREM PagesAreAsSaidAlways == Sum => PagesAreAsSaid
<1>1. PagesInv => (which = "pages" => G!RestartChangesNothing)
  BY DEF PagesInv, FileAgrees, G!RestartChangesNothing
<1>2. PagesInv /\ [G!Next]_(G!vars) =>
        [shown'.answer \in {"page", "changed"} /\ shown' # shown =>
           LET t == told[shown'.slug] IN
             ~t.down /\ t.word \in {G!NoWord, shown'.offered}]_(G!vars)
  BY PagesSteps DEF AsSaid
<1> QED
  BY <1>1, <1>2, PagesInvariant, Behaviours, PTL DEF PagesAreAsSaid, G!VisitorsSeeWhatWasSaid

\* The switches on disk are the running ones unless the last write of them failed,
\* and no report is on its way to a room: the inductive invariant of Control.
THEOREM ControlInvariant == Sum => []ControlInv
<1>1. ControlInv /\ [K!Next]_(K!controlVars) => ControlInv'
  BY ControlSteps
<1> QED
  BY <1>1, ControlStart, Behaviours, PTL

\* For any commands, chats, failed writes and restarts: nobody but an operator and no
\* restart lifts a silence, one command lifts one stop at most and never with the
\* hold, and a room is shown no report (control.ts).
THEOREM SilenceIsTheOperatorsAlways == Sum => SilenceIsTheOperatorsToLift
<1>1. ControlInv /\ [K!Next]_(K!controlVars) => 
        [/\ lifted' # "someone"
         /\ restarts' = restarts => \E c \in K!Chats : stopped \ stopped' \subseteq {c}
         /\ restarts' = restarts /\ held /\ ~held' => stopped' = stopped
         /\ restarts' # restarts /\ ~unsaved => stopped' = stopped /\ held' = held
         /\ \A c \in Rooms : "report" \notin seen'[c]]_(K!controlVars)
  BY ControlSteps DEF OperatorsToLift
<1> QED
  BY <1>1, ControlInvariant, Behaviours, PTL
     DEF SilenceIsTheOperatorsToLift, K!SilenceIsTheOperatorsToLift

\* Every part's state has its shape, and no chain of merged records forms.
THEOREM TypesAlways == Sum => []Types
<1>1. RegistryInv /\ PanelInv /\ PagesInv /\ ControlInv => Types
  <2> SUFFICES ASSUME RegistryInv, PanelInv, PagesInv, ControlInv PROVE Types
    OBVIOUS
  <2>1. TypeOK /\ NoChain
    BY DEF RegistryInv, OnTheirWay, Barred, Sent, Sound, Records, TypeOK, NoChain
  <2>2. D!TypeOK
    BY PanelTypeOK
  <2>3. G!TypeOK
    <3>1. ASSUME NEW s \in Slugs PROVE page[s] \in G!Directory(MAX_IMAGES_PER_PAGE + 1)
      <4>1. page[s] \in PageOnDisk /\ (page[s].dir \/ page[s] = G!Nothing)
        BY DEF PagesInv, PagesOnDisk
      <4>2. page[s].dir => page[s].dir \in {TRUE}
        OBVIOUS
      <4> QED
        BY <4>1, <4>2 DEF PageOnDisk, G!Directory
    <3> QED
      BY <3>1 DEF PagesInv, PagesOnDisk, SettingsTyped, SettingsOfPages, VerbTyped, ToldTyped,
         SaidOfPages, ShownTyped, Counted, G!TypeOK
  <2>4. K!TypeOK
    BY DEF ControlInv
  <2> QED
    BY <2>1, <2>2, <2>3, <2>4 DEF Types
<1> QED
  BY <1>1, RegistryInvariant, PanelInvariant, PagesInvariant, ControlInvariant, Behaviours, PTL

=============================================================================
