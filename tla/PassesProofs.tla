---------------------------- MODULE PassesProofs ----------------------------
(*****************************************************************************)
(* Theorems about the loops that carry a message either way: the outbox      *)
(* (Outbox), for any number of actions and of messages the operator says,    *)
(* any allowances and any number of failures and crashes; and MCPasses,      *)
(* whose behaviours are those of Outbox and of Dispatcher (as D).            *)
(*****************************************************************************)
EXTENDS MCPasses, SequenceTheorems, FiniteSetTheorems, TLAPS

(* Outbox. *)

----------------------------------------------------------------------------
(* The inductive invariant. *)

Row == [id : Ids, unsent : BOOLEAN]
Asked == {n \in Names : asked[n] # None}
Corrections == {"edit", "unsend"}

OnDisk ==
  /\ asked \in [Names -> Action \cup {None}] /\ DOMAIN meant = Names
  /\ files \subseteq Asked /\ pass \subseteq files
  /\ attempts \in [Names -> 0..MaxAttempts - 1] /\ calls \subseteq Asked \ files
AtWork ==
  /\ stage \in {"idle", "looping", "sending", "took"}
  /\ current \in Names \cup {None} /\ (current = None <=> stage \in {"idle", "looping"})
  /\ current # None => current \in files \ pass
  /\ current # None => (target = None <=> kind(current) \in Delivers)
Spent ==
  /\ turn \in [open : BOOLEAN, sends : 0..SendsPerTurn, tools : 0..ToolsPerTurn]
  /\ sentHour \in [Chats -> 0..SendsPerHour]
Stored == store \in [Chats -> Seq(Row)] /\ \A c \in Chats : Len(store[c]) <= KeepPerChat
Shape ==
  OnDisk /\ AtWork /\ Spent /\ Stored /\ delivered \in [Names -> Nat] /\ crashes \in Nat

(* An action still on disk was taken by the transport no more often than there were
   crashes, unless it is the one the transport took just now. *)
TookNow(n) == stage = "took" /\ target = None /\ current = n
Once ==
  /\ \A n \in Names : delivered[n] <= 1 + crashes
  /\ \A n \in Names : n \in files \/ asked[n] = None => delivered[n] <= crashes \/ TookNow(n)
  /\ \A n \in Names : TookNow(n) => delivered[n] > 0

(* A correction the agent is sure of is alone in the outbox, and what it counted to
   is still where it counted; the message awaited, and any it reached, is that one. *)
Aimed ==
  /\ sure \subseteq Asked
  /\ \A n \in sure \cap files :
       files = {n} /\ (kind(n) \in Corrections => Nth(Home, asked[n].nth) = meant[n])
  /\ current \in sure /\ target # None => target = meant[current]
  /\ \A x \in corrected : x[1] \in Asked /\ (x[1] \in sure => Reaches(x))

(* While an action is on disk its attempts are the throws of this life of the process. *)
Tried ==
  /\ thrown \in [Names -> Nat] /\ TriedInVain
  /\ \A n \in Names : n \in files => thrown[n] = attempts[n]
  /\ \A n \in Names : asked[n] = None => thrown[n] = 0 /\ attempts[n] = 0

IInv == Shape /\ Once /\ NothingVanishes /\ Aimed /\ Tried

----------------------------------------------------------------------------
(* Lemmas about what the steps do. *)

LEMMA Named == /\ None \notin Names /\ None \notin Action /\ Names \subseteq Ids /\ OperatorIds \subseteq Ids
               /\ Home # Other /\ Home \in Chats /\ Other \in Chats /\ KeepPerChat \in Nat \ {0}
               /\ MaxAttempts \in Nat \ {0} /\ {SendsPerTurn, ToolsPerTurn, SendsPerHour} \subseteq Nat
BY OutboxAssumption DEF Ids, Chats

(* Recording a message keeps no more of a chat than KeepPerChat. *)
LEMMA RecordedRows ==
  ASSUME Stored, NEW c \in Chats, NEW id \in Ids
  PROVE  /\ Recorded(c, id) \in [Chats -> Seq(Row)]
         /\ \A d \in Chats : Len(Recorded(c, id)[d]) <= KeepPerChat
         /\ \A d \in Chats \ {c} : Recorded(c, id)[d] = store[d]
<1> DEFINE row == [id |-> id, unsent |-> FALSE]
           all == Append(store[c], row)
           over == Len(all) - KeepPerChat
           kept == IF over > 0 THEN SubSeq(all, over + 1, Len(all)) ELSE all
<1>1. store \in [Chats -> Seq(Row)] /\ store[c] \in Seq(Row) /\ \A d \in Chats : Len(store[d]) <= KeepPerChat
  BY DEF Stored
<1>2. row \in Row
  BY DEF Row
<1>3. all \in Seq(Row) /\ Len(all) = Len(store[c]) + 1 /\ Len(all) \in Nat
  BY <1>1, <1>2
<1> HIDE DEF row, all
<1>4. kept \in Seq(Row) /\ Len(kept) <= KeepPerChat
  <2>1. CASE over > 0
    <3>1. over + 1 \in Int /\ Len(all) \in Int /\ \A i \in over + 1..Len(all) : all[i] \in Row
      BY <1>3, <2>1, Named
    <3>2. /\ SubSeq(all, over + 1, Len(all)) \in Seq(Row)
          /\ Len(SubSeq(all, over + 1, Len(all))) =
               IF over + 1 <= Len(all) THEN Len(all) - (over + 1) + 1 ELSE 0
      BY <3>1, SubSeqProperties
    <3> QED
      BY <1>3, <2>1, <3>2, Named
  <2>2. CASE ~(over > 0)
    BY <1>3, <2>2, Named
  <2> QED
    BY <2>1, <2>2
<1>5. Recorded(c, id) = [store EXCEPT ![c] = kept]
  BY DEF Recorded, all, row
<1> HIDE DEF kept
<1> QED
  BY <1>1, <1>4, <1>5

LEMMA RetractedRows ==
  ASSUME Stored, NEW c \in Chats, NEW id
  PROVE  /\ Retracted(c, id) \in [Chats -> Seq(Row)]
         /\ \A d \in Chats : Len(Retracted(c, id)[d]) <= KeepPerChat
<1> DEFINE s == store[c]
           rows == [i \in 1..Len(s) |-> IF s[i].id = id THEN [s[i] EXCEPT !.unsent = TRUE] ELSE s[i]]
<1>1. store \in [Chats -> Seq(Row)] /\ s \in Seq(Row) /\ \A d \in Chats : Len(store[d]) <= KeepPerChat
  BY DEF Stored
<1>2. \A i \in 1..Len(s) : rows[i] \in Row
  <2>1. SUFFICES ASSUME NEW i \in 1..Len(s) PROVE rows[i] \in Row
    OBVIOUS
  <2>2. s[i] \in Row
    BY <1>1
  <2>3. [s[i] EXCEPT !.unsent = TRUE] \in Row
    BY <2>2 DEF Row
  <2> QED
    BY <2>2, <2>3
<1>3. rows \in [1..Len(s) -> Row] /\ Len(s) \in Nat
  BY <1>1, <1>2
<1>4. rows \in Seq(Row) /\ Len(rows) = Len(s)
  BY <1>3
<1>5. Retracted(c, id) = [store EXCEPT ![c] = rows]
  BY DEF Retracted
<1> HIDE DEF rows
<1> QED
  BY <1>1, <1>4, <1>5

(* A position in a chat is resolved by what was said there. *)
LEMMA NthStays ==
  ASSUME store'[Home] = store[Home], NEW n
  PROVE  Nth(Home, n)' = Nth(Home, n)
BY DEF Nth, Recent

(* What was asked for, and what was meant, stay. *)
LEMMA AskedStays ==
  ASSUME OnDisk, [Next]_vars
  PROVE  \A n \in Asked : asked'[n] = asked[n] /\ meant'[n] = meant[n]
BY DEF Next, DrainStep, Drain, EndPass, Takes, Done, Throws, Refuse, Send, Answer, StartCall, Ask, CallReturns,
       OperatorSays, OperatorUnsends, TurnFallsSilent, Crash, vars, history, Asked, OnDisk

----------------------------------------------------------------------------
(* Each part of the shape is kept by every step. *)

LEMMA OnDiskHolds == ASSUME OnDisk, AtWork, [Next]_vars PROVE OnDisk'
<1> USE Named DEF OnDisk, Asked
<1>1. ASSUME NEW n \in Names, NEW what \in Kinds, NEW nth \in 0..Cardinality(Ids), Ask(n, what, nth)
      PROVE  OnDisk'
  BY <1>1 DEF Ask, drain, Action
<1>2. CASE Drain \/ EndPass
  BY <1>2 DEF Drain, EndPass, history
<1>3. ASSUME NEW n \in Names, Refuse(n) \/ Answer(n) PROVE OnDisk'
  BY <1>3 DEF Refuse, Answer, Perform, Taken, Gone
<1>4. ASSUME NEW n \in Names, Send(n) \/ StartCall(n) PROVE OnDisk'
  BY <1>4 DEF Send, WhileSending, StartCall, history, Perform, Taken, Gone
<1>5. ASSUME NEW n \in Names, CallReturns(n) PROVE OnDisk'
  BY <1>5 DEF CallReturns, drain
<1>6. CASE Takes \/ Done
  BY <1>6 DEF Takes, Done, Gone, AtWork
<1>7. CASE Throws
  BY <1>7 DEF Throws, GivesUp, Gone, AtWork
<1>8. CASE \/ \E chat \in Chats, id \in OperatorIds : OperatorSays(chat, id)
           \/ \E nth \in 1..Cardinality(Ids) : OperatorUnsends(nth)
           \/ TurnFallsSilent
  BY <1>8 DEF OperatorSays, OperatorUnsends, TurnFallsSilent, drain, history
<1>9. CASE Crash
  BY <1>9 DEF Crash, history
<1>10. CASE UNCHANGED vars
  BY <1>10 DEF vars, drain, history
<1> QED
  BY <1>1, <1>2, <1>3, <1>4, <1>5, <1>6, <1>7, <1>8, <1>9, <1>10 DEF Next, DrainStep

LEMMA AtWorkHolds == ASSUME OnDisk, AtWork, [Next]_vars PROVE AtWork'
<1> USE Named DEF AtWork
<1>1. \A n \in Asked : kind(n)' = kind(n)
  BY AskedStays DEF kind
<1>2. files \subseteq Asked /\ pass \subseteq files
  BY DEF OnDisk
<1>3. ASSUME NEW n \in Names, NEW what \in Kinds, NEW nth \in 0..Cardinality(Ids), Ask(n, what, nth)
      PROVE  AtWork'
  BY <1>1, <1>2, <1>3 DEF Ask, drain
<1>4. CASE Drain \/ EndPass
  BY <1>1, <1>2, <1>4 DEF Drain, EndPass
<1>5. ASSUME NEW n \in Names, Refuse(n) \/ Answer(n) \/ StartCall(n) PROVE AtWork'
  BY <1>1, <1>2, <1>5 DEF Refuse, Answer, StartCall, Perform, Taken, Gone
<1>6. ASSUME NEW n \in Names, Send(n) PROVE AtWork'
  BY <1>1, <1>2, <1>6 DEF Send, Perform, Taken, WhileSending, Delivers
<1>7. CASE Takes
  BY <1>1, <1>2, <1>7 DEF Takes
<1>8. CASE Done \/ Throws \/ Crash
  BY <1>8 DEF Done, Throws, Crash
<1>9. CASE \/ \E n \in Names : CallReturns(n)
           \/ \E chat \in Chats, id \in OperatorIds : OperatorSays(chat, id)
           \/ \E nth \in 1..Cardinality(Ids) : OperatorUnsends(nth)
           \/ TurnFallsSilent
  BY <1>1, <1>2, <1>9 DEF CallReturns, OperatorSays, OperatorUnsends, TurnFallsSilent, drain
<1>10. CASE UNCHANGED vars
  BY <1>1, <1>2, <1>10 DEF vars, drain
<1> QED
  BY <1>3, <1>4, <1>5, <1>6, <1>7, <1>8, <1>9, <1>10 DEF Next, DrainStep

(* What an action costs is asked first. *)
LEMMA SpentHolds == ASSUME Spent, [Next]_vars PROVE Spent'
<1> USE Named DEF Spent
<1>1. ASSUME NEW n \in Names, Perform(n) PROVE Spent'
  <2>1. Payer(n) \in Chats
    BY DEF Payer, Dest, Chats
  <2>2. CASE kind(n) \in Delivers
    BY <1>1, <2>1, <2>2 DEF Perform, Resolved, Admitted, Charged
  <2>3. CASE kind(n) \notin Delivers
    BY <1>1, <2>3 DEF Perform, Resolved, Charged
  <2> QED
    BY <2>2, <2>3
<1>2. ASSUME NEW n \in Names, Send(n) \/ Answer(n) \/ StartCall(n) PROVE Spent'
  BY <1>1, <1>2 DEF Send, Answer, StartCall
<1>3. ASSUME NEW chat \in Chats, NEW id \in OperatorIds, OperatorSays(chat, id) PROVE Spent'
  BY <1>3 DEF OperatorSays
<1>4. CASE TurnFallsSilent
  BY <1>4 DEF TurnFallsSilent
<1>5. CASE Crash
  <2>1. turn' \in [open : BOOLEAN, sends : 0..SendsPerTurn, tools : 0..ToolsPerTurn]
    BY <1>5 DEF Crash
  <2>2. [c \in Chats |-> 0] \in [Chats -> 0..SendsPerHour]
    OBVIOUS
  <2> QED
    BY <1>5, <2>1, <2>2 DEF Crash
<1>6. CASE UNCHANGED <<turn, sentHour>>
  BY <1>6
<1>7. [Next]_vars =>
        \/ UNCHANGED <<turn, sentHour>> \/ TurnFallsSilent \/ Crash
        \/ \E n \in Names : Send(n) \/ Answer(n) \/ StartCall(n)
        \/ \E chat \in Chats, id \in OperatorIds : OperatorSays(chat, id)
  BY DEF Next, DrainStep, Drain, EndPass, Takes, Done, Throws, Refuse, Ask, CallReturns, OperatorUnsends, vars
<1> QED
  BY <1>2, <1>3, <1>4, <1>5, <1>6, <1>7

LEMMA StoredHolds == ASSUME OnDisk, AtWork, Stored, [Next]_vars PROVE Stored'
<1> USE Named
<1>1. CASE Done
  <2>1. current \in Ids /\ Dest(current) \in Chats
    BY <1>1 DEF Done, AtWork, Dest, Chats
  <2> QED
    BY <1>1, <2>1, RecordedRows, RetractedRows DEF Done, Stored
<1>2. ASSUME NEW chat \in Chats, NEW id \in OperatorIds, OperatorSays(chat, id) PROVE Stored'
  BY <1>2, RecordedRows DEF OperatorSays, Stored
<1>3. ASSUME NEW nth \in 1..Cardinality(Ids), OperatorUnsends(nth) PROVE Stored'
  BY <1>3, RetractedRows DEF OperatorUnsends, Stored
<1>4. CASE UNCHANGED store
  BY <1>4 DEF Stored
<1>5. [Next]_vars =>
        \/ UNCHANGED store \/ Done
        \/ \E chat \in Chats, id \in OperatorIds : OperatorSays(chat, id)
        \/ \E nth \in 1..Cardinality(Ids) : OperatorUnsends(nth)
  BY DEF Next, DrainStep, Drain, EndPass, Takes, Throws, Refuse, Send, Answer, StartCall, Ask, CallReturns,
         TurnFallsSilent, Crash, vars
<1> QED
  BY <1>1, <1>2, <1>3, <1>4, <1>5

LEMMA ShapeHolds == ASSUME Shape, [Next]_vars PROVE Shape'
<1>1. CASE Takes
  <2>1. delivered' \in [Names -> Nat] /\ crashes' = crashes
    BY <1>1, Named DEF Shape, AtWork, Takes
  <2> QED
    BY <2>1, OnDiskHolds, AtWorkHolds, SpentHolds, StoredHolds DEF Shape
<1>2. CASE Crash
  <2>1. delivered' = delivered /\ crashes' = crashes + 1
    BY <1>2 DEF Crash, history
  <2> QED
    BY <2>1, OnDiskHolds, AtWorkHolds, SpentHolds, StoredHolds DEF Shape
<1>3. [Next]_vars => UNCHANGED <<delivered, crashes>> \/ Takes \/ Crash
  BY DEF Next, DrainStep, Drain, EndPass, Done, Throws, Refuse, Send, Answer, StartCall, Ask,
         CallReturns, OperatorSays, OperatorUnsends, TurnFallsSilent, vars, history
<1> QED
  BY <1>1, <1>2, <1>3, OnDiskHolds, AtWorkHolds, SpentHolds, StoredHolds DEF Shape

----------------------------------------------------------------------------
(* Delivery, and what becomes of what was asked. *)

(* The action the transport took is off the disk before another is looked at. *)
LEMMA OnceHolds == ASSUME Shape, Once, [Next]_vars PROVE Once'
<1> USE Named DEF Once, TookNow, Shape
<1>1. CASE Takes
  BY <1>1 DEF Takes, OnDisk, AtWork
<1>2. CASE Done
  BY <1>2 DEF Done, Gone, OnDisk, AtWork, Asked
<1>3. CASE Throws
  BY <1>3 DEF Throws, Gone, OnDisk, AtWork
<1>4. CASE Crash
  BY <1>4 DEF Crash, history
<1>5. ASSUME NEW n \in Names, NEW what \in Kinds, NEW nth \in 0..Cardinality(Ids), Ask(n, what, nth)
      PROVE  Once'
  <2>1. /\ asked[n] = None /\ files' = files \cup {n}
        /\ UNCHANGED <<stage, target, current, delivered, crashes>>
    BY <1>5 DEF Ask, drain
  <2>2. \A m \in Names : m # n => asked'[m] = asked[m]
    BY <1>5 DEF Ask, OnDisk
  <2> QED
    BY <2>1, <2>2
<1>6. ASSUME NEW n \in Names, Refuse(n) \/ Answer(n) \/ StartCall(n) PROVE Once'
  BY <1>6 DEF Refuse, Answer, StartCall, Perform, Taken, Gone, history
<1>7. ASSUME NEW n \in Names, Send(n) PROVE Once'
  BY <1>7 DEF Send, Perform, Taken, WhileSending, history
<1>8. CASE Drain \/ EndPass
  BY <1>8 DEF Drain, EndPass, history
<1>9. CASE \/ \E n \in Names : CallReturns(n)
           \/ \E chat \in Chats, id \in OperatorIds : OperatorSays(chat, id)
           \/ \E nth \in 1..Cardinality(Ids) : OperatorUnsends(nth)
           \/ TurnFallsSilent \/ UNCHANGED vars
  BY <1>9 DEF CallReturns, OperatorSays, OperatorUnsends, TurnFallsSilent, vars, drain, history
<1> QED
  BY <1>1, <1>2, <1>3, <1>4, <1>5, <1>6, <1>7, <1>8, <1>9 DEF Next, DrainStep

(* An action leaves the disk when its end is on record. *)
LEMMA NothingVanishesHolds == ASSUME Shape, Once, NothingVanishes, [Next]_vars PROVE NothingVanishes'
<1> USE Named DEF NothingVanishes
<1>1. \A n \in Asked : kind(n)' = kind(n)
  BY AskedStays DEF kind, Shape
<1>2. \A n \in Names : n \in Asked <=> asked[n] # None
  BY DEF Asked
<1>3. CASE Takes
  BY <1>1, <1>2, <1>3 DEF Takes, Shape, AtWork, OnDisk
<1>4. CASE Done
  BY <1>1, <1>2, <1>4 DEF Done, Gone, Shape, AtWork, Once, TookNow
<1>5. CASE Throws
  BY <1>1, <1>2, <1>5 DEF Throws, Gone, Shape, AtWork
<1>6. CASE Crash
  BY <1>1, <1>2, <1>6 DEF Crash, history, Shape
<1>7. ASSUME NEW n \in Names, NEW what \in Kinds, NEW nth \in 0..Cardinality(Ids), Ask(n, what, nth)
      PROVE  NothingVanishes'
  BY <1>1, <1>2, <1>7 DEF Ask, Shape, OnDisk
<1>8. ASSUME NEW n \in Names, Refuse(n) PROVE NothingVanishes'
  BY <1>1, <1>2, <1>8 DEF Refuse, Gone
<1>9. ASSUME NEW n \in Names, Answer(n) PROVE NothingVanishes'
  BY <1>1, <1>2, <1>9 DEF Answer, Gone, Delivers
<1>10. ASSUME NEW n \in Names, StartCall(n) PROVE NothingVanishes'
  BY <1>1, <1>2, <1>10 DEF StartCall, Gone, history, Delivers
<1>11. ASSUME NEW n \in Names, Send(n) PROVE NothingVanishes'
  BY <1>1, <1>2, <1>11 DEF Send, WhileSending, history
<1>12. ASSUME NEW n \in Names, CallReturns(n) PROVE NothingVanishes'
  BY <1>1, <1>2, <1>12 DEF CallReturns
<1>13. CASE \/ Drain \/ EndPass \/ TurnFallsSilent \/ UNCHANGED vars
            \/ \E chat \in Chats, id \in OperatorIds : OperatorSays(chat, id)
            \/ \E nth \in 1..Cardinality(Ids) : OperatorUnsends(nth)
  BY <1>1, <1>2, <1>13 DEF Drain, EndPass, OperatorSays, OperatorUnsends, TurnFallsSilent, vars, history
<1> QED
  BY <1>3, <1>4, <1>5, <1>6, <1>7, <1>8, <1>9, <1>10, <1>11, <1>12, <1>13 DEF Next, DrainStep

(* While an action the agent is sure of waits it is alone, and whatever else is asked
   or said in its chat ends that. *)
LEMMA AimedHolds == ASSUME Shape, Aimed, [Next]_vars PROVE Aimed'
<1> USE Named
<1>1. /\ \A n \in Asked : kind(n)' = kind(n) /\ asked'[n] = asked[n] /\ meant'[n] = meant[n]
      /\ Asked \subseteq Asked'
  BY AskedStays, Named DEF kind, Shape, Asked
<1>2. sure \subseteq Asked /\ files \subseteq Asked /\ pass \subseteq files /\ \A x \in corrected : x[1] \in Asked
  BY DEF Aimed, Shape, OnDisk
<1>3. \A n : store'[Home] = store[Home] => Nth(Home, n)' = Nth(Home, n)
  BY NthStays
<1>4. current # None => current \in files
  BY DEF Shape, AtWork
(* What leaves the list of the chat alone, and asks for nothing. *)
<1>5. ASSUME sure' \subseteq sure, files' \subseteq files, corrected' = corrected,
             \/ store'[Home] = store[Home] \/ sure' \cap files' = {},
             current' \in sure /\ target' # None => target' = meant[current']
      PROVE  Aimed'
  <2>1. sure' \subseteq Asked'
    BY <1>1, <1>2, <1>5
  <2>2. ASSUME NEW n \in sure' \cap files'
        PROVE  files' = {n} /\ (kind(n)' \in Corrections => Nth(Home, asked[n].nth)' = meant'[n])
    <3>1. n \in sure \cap files /\ n \in Asked /\ store'[Home] = store[Home]
      BY <1>2, <1>5, <2>2
    <3>2. files = {n} /\ (kind(n) \in Corrections => Nth(Home, asked[n].nth) = meant[n])
      BY <3>1 DEF Aimed
    <3> QED
      BY <1>1, <1>3, <1>5, <2>2, <3>1, <3>2
  <2>3. \A x \in corrected' : x[1] \in Asked' /\ (x[1] \in sure' => Reaches(x)')
    BY <1>1, <1>2, <1>5 DEF Aimed, Reaches
  <2>4. current' \in sure' /\ target' # None => target' = meant'[current']
    BY <1>1, <1>2, <1>5
  <2> QED
    BY <2>1, <2>2, <2>3, <2>4 DEF Aimed
<1>6. ASSUME NEW n \in Names, NEW what \in Kinds, NEW nth \in 0..Cardinality(Ids), Ask(n, what, nth)
      PROVE  Aimed'
  <2>1. /\ asked[n] = None /\ files' = files \cup {n} /\ sure' = (sure \ files) \cup Sure(n)
        /\ corrected' = corrected /\ store' = store /\ current' = current /\ target' = target
        /\ what \in Corrections => nth \in 1..Len(view)
    BY <1>6 DEF Ask, drain, Corrections
  <2>2. asked'[n] = [kind |-> what, nth |-> nth] /\ meant'[n] = IF nth = 0 THEN None ELSE view[nth]
    BY <1>6 DEF Ask, Shape, OnDisk
  <2>3. n \notin Asked /\ n \in Asked' /\ n \notin sure /\ n # current
    BY <1>2, <1>4, <2>1, <2>2 DEF Asked, Action
  <2>4. Sure(n) \subseteq {n} /\ (Sure(n) # {} => files = {} /\ view = Recent(Home))
    BY DEF Sure
  <2>5. ASSUME NEW k \in sure' \cap files'
        PROVE  files' = {k} /\ (kind(k)' \in Corrections => Nth(Home, asked[k].nth)' = meant'[k])
    <3>1. k = n /\ files' = {n} /\ view = Recent(Home)
      BY <1>2, <2>1, <2>3, <2>4, <2>5
    <3>2. kind(n)' = what /\ asked'[n].nth = nth
      BY <2>2 DEF kind
    <3>3. CASE what \in Corrections
      <4>1. nth \in 1..Len(view) /\ nth # 0
        BY <2>1, <3>3
      <4>2. Nth(Home, nth) = view[nth]
        BY <3>1, <4>1 DEF Nth
      <4> QED
        BY <1>3, <2>1, <2>2, <3>1, <3>2, <4>1, <4>2
    <3> QED
      BY <3>1, <3>2, <3>3
  <2>6. \A x \in corrected' : x[1] \in Asked' /\ (x[1] \in sure' => Reaches(x)')
    BY <1>1, <1>2, <2>1, <2>3, <2>4 DEF Aimed, Reaches
  <2>7. current' \in sure' /\ target' # None => target' = meant'[current']
    BY <1>1, <1>2, <2>1, <2>3, <2>4 DEF Aimed
  <2>8. sure' \subseteq Asked'
    BY <1>1, <1>2, <2>1, <2>3, <2>4
  <2> QED
    BY <2>5, <2>6, <2>7, <2>8 DEF Aimed
<1>7. CASE Takes
  <2>1. /\ sure' = sure /\ files' = files /\ store' = store /\ current' = current /\ target' = target
        /\ corrected' = IF target = None THEN corrected ELSE corrected \cup {<<current, target>>}
        /\ current \in Asked
    BY <1>2, <1>4, <1>7 DEF Takes, Shape, AtWork
  <2>2. \A x \in corrected' : x[1] \in Asked' /\ (x[1] \in sure' => Reaches(x)')
    BY <1>1, <1>2, <2>1 DEF Aimed, Reaches
  <2>3. ASSUME NEW n \in sure' \cap files'
        PROVE  files' = {n} /\ (kind(n)' \in Corrections => Nth(Home, asked[n].nth)' = meant'[n])
    BY <1>1, <1>2, <1>3, <2>1, <2>3 DEF Aimed
  <2>4. current' \in sure' /\ target' # None => target' = meant'[current']
    BY <1>1, <1>2, <2>1 DEF Aimed
  <2> QED
    BY <1>1, <1>2, <2>1, <2>2, <2>3, <2>4 DEF Aimed
<1>8. CASE Done
  <2>1. /\ sure' = sure /\ files' = files \ {current} /\ corrected' = corrected /\ target' = None
        /\ current \in files
    BY <1>4, <1>8 DEF Done, Gone, Shape, AtWork
  <2>2. sure' \cap files' = {}
    BY <2>1 DEF Aimed
  <2> QED
    BY <1>5, <2>1, <2>2
<1>9. ASSUME NEW n \in Names, Send(n) PROVE Aimed'
  <2>1. /\ sure' = sure /\ files' = files /\ corrected' = corrected /\ store' = store
        /\ current' = n /\ n \in files /\ kind(n) \in Delivers \cup Corrections
        /\ target' = IF kind(n) \in Delivers THEN None ELSE Nth(Home, asked[n].nth)
    BY <1>2, <1>9 DEF Send, Perform, Taken, WhileSending, history, Corrections
  <2>2. n \in sure /\ target' # None => target' = meant[n]
    BY <2>1 DEF Aimed
  <2> QED
    BY <1>5, <2>1, <2>2
<1>10. ASSUME NEW n \in Names, Refuse(n) \/ Answer(n) \/ StartCall(n) PROVE Aimed'
  <2>1. /\ sure' = sure /\ files' \subseteq files /\ corrected' = corrected /\ store' = store
        /\ current' = current /\ target' = target
    BY <1>10 DEF Refuse, Answer, StartCall, Perform, Taken, Gone, history
  <2> QED
    BY <1>5, <2>1 DEF Aimed
<1>11. CASE Throws
  <2>1. /\ sure' = sure /\ files' \subseteq files /\ corrected' = corrected /\ store' = store
        /\ target' = None
    BY <1>11 DEF Throws, Gone
  <2> QED
    BY <1>5, <2>1
<1>12. CASE Drain \/ EndPass \/ TurnFallsSilent \/ UNCHANGED vars \/ \E n \in Names : CallReturns(n)
  <2>1. /\ sure' = sure /\ files' = files /\ corrected' = corrected /\ store' = store
        /\ current' = current /\ target' = target
    BY <1>12 DEF Drain, EndPass, TurnFallsSilent, CallReturns, vars, drain, history
  <2> QED
    BY <1>5, <2>1 DEF Aimed
<1>13. CASE Crash
  <2>1. /\ sure' = sure /\ files' = files /\ corrected' = corrected /\ store' = store /\ target' = None
    BY <1>13 DEF Crash, history
  <2> QED
    BY <1>5, <2>1
<1>14. ASSUME NEW chat \in Chats, NEW id \in OperatorIds, OperatorSays(chat, id) PROVE Aimed'
  <2>1. /\ files' = files /\ corrected' = corrected /\ current' = current /\ target' = target
        /\ store' = Recorded(chat, id) /\ sure' = IF chat = Home THEN sure \ files ELSE sure
    BY <1>14 DEF OperatorSays, drain
  <2>2. chat # Home => store'[Home] = store[Home]
    BY <2>1, RecordedRows DEF Shape
  <2> QED
    BY <1>5, <2>1, <2>2 DEF Aimed
<1>15. ASSUME NEW nth \in 1..Cardinality(Ids), OperatorUnsends(nth) PROVE Aimed'
  <2>1. /\ files' = files /\ corrected' = corrected /\ current' = current /\ target' = target
        /\ sure' = sure \ files
    BY <1>15 DEF OperatorUnsends, drain
  <2> QED
    BY <1>5, <2>1 DEF Aimed
<1> QED
  BY <1>6, <1>7, <1>8, <1>9, <1>10, <1>11, <1>12, <1>13, <1>14, <1>15 DEF Next, DrainStep

(* A throw counts as an attempt, and the last of them takes the action off the disk. *)
LEMMA TriedHolds == ASSUME Shape, Tried, [Next]_vars PROVE Tried'
<1> USE Named DEF Tried, TriedInVain, Shape
<1>1. attempts \in [Names -> 0..MaxAttempts - 1] /\ \A n \in files : n \in Names /\ asked[n] # None
  BY DEF OnDisk, Asked
<1>2. CASE Throws
  <2>1. /\ current \in files /\ current \in Names /\ asked' = asked
        /\ thrown' = [thrown EXCEPT ![current] = @ + 1]
    BY <1>2 DEF Throws, AtWork
  <2>2. \/ attempts' = [attempts EXCEPT ![current] = 0] /\ files' = files \ {current}
        \/ /\ attempts' = [attempts EXCEPT ![current] = @ + 1] /\ files' = files
           /\ attempts[current] + 1 < MaxAttempts
    BY <1>1, <1>2, <2>1 DEF Throws, Gone, GivesUp
  <2>3. thrown[current] = attempts[current] /\ attempts[current] + 1 <= MaxAttempts
    BY <1>1, <2>1
  <2> QED
    BY <1>1, <2>1, <2>2, <2>3
<1>3. CASE Crash
  BY <1>3 DEF Crash
<1>4. ASSUME NEW n \in Names, NEW what \in Kinds, NEW nth \in 0..Cardinality(Ids), Ask(n, what, nth)
      PROVE  Tried'
  <2>1. /\ asked[n] = None /\ files' = files \cup {n} /\ UNCHANGED <<thrown, attempts>>
        /\ \A m \in Names : asked'[m] = None => asked[m] = None
    BY <1>4, AskedStays DEF Ask, drain, Asked
  <2> QED
    BY <1>1, <2>1
<1>5. CASE \/ \E n \in Names : Refuse(n) \/ Answer(n) \/ StartCall(n)
           \/ Done
  <2>1. PICK n \in Names : Gone(n) /\ UNCHANGED <<thrown, asked>>
    BY <1>5 DEF Refuse, Answer, StartCall, Done, history, AtWork
  <2> QED
    BY <1>1, <2>1 DEF Gone
<1>6. CASE UNCHANGED <<thrown, attempts, files, asked>>
  BY <1>6
<1>7. [Next]_vars =>
        \/ UNCHANGED <<thrown, attempts, files, asked>> \/ Throws \/ Crash \/ Done
        \/ \E n \in Names : Refuse(n) \/ Answer(n) \/ StartCall(n)
        \/ \E n \in Names, what \in Kinds, nth \in 0..Cardinality(Ids) : Ask(n, what, nth)
  BY DEF Next, DrainStep, Drain, EndPass, Takes, Send, WhileSending, CallReturns, OperatorSays, OperatorUnsends,
         TurnFallsSilent, vars, drain
<1> QED
  BY <1>2, <1>3, <1>4, <1>5, <1>6, <1>7

----------------------------------------------------------------------------
(* The theorems. *)

LEMMA InitHolds == Init => IInv
<1> SUFFICES ASSUME Init PROVE IInv
  OBVIOUS
<1> USE Named DEF Init
<1>1. Asked = {}
  BY DEF Asked
<1>2. OnDisk
  BY <1>1 DEF OnDisk
<1>3. AtWork
  BY DEF AtWork
<1>4. Spent
  BY DEF Spent
<1>5. Stored
  BY DEF Stored
<1>6. Shape
  BY <1>2, <1>3, <1>4, <1>5 DEF Shape
<1>7. Once
  BY DEF Once, TookNow
<1>8. NothingVanishes
  BY DEF NothingVanishes
<1>9. Aimed
  BY <1>1 DEF Aimed
<1>10. Tried
  BY DEF Tried, TriedInVain
<1> QED
  BY <1>6, <1>7, <1>8, <1>9, <1>10 DEF IInv

LEMMA Always == Spec => []IInv
<1>1. Init => IInv
  BY InitHolds
<1>2. IInv /\ [Next]_vars => IInv'
  BY ShapeHolds, OnceHolds, NothingVanishesHolds, AimedHolds, TriedHolds DEF IInv
<1> QED
  BY <1>1, <1>2, PTL DEF Spec

(* The outbox keeps its shape, and each allowance is within its bound (outbox.ts,
   sent.ts). *)
THEOREM TypesHold == Spec => []TypeOK
<1>1. IInv => TypeOK
  BY DEF IInv, Shape, OnDisk, AtWork, Spent, Stored, Asked, TypeOK
<1> QED
  BY <1>1, Always, PTL

(* No message is given to the network twice but by a crash, nothing that was asked for
   is lost without a word, and a correction nothing disturbed reaches the message it
   counted to (drain, perform, sent.ts nth).  And in one life of the process nothing is
   tried again that has thrown MaxAttempts times, however often sends throw: what the
   liveness EveryActionLeaves rests on (drain's catch). *)
THEOREM DoneOnceOrReportedAlways == Spec => [](DoneOnceOrReported /\ TriedInVain)
<1>1. Once => DeliveredOnce
  BY DEF Once, DeliveredOnce
<1>2. Aimed => ReachesWhileUndisturbed
  BY DEF Aimed, ReachesWhileUndisturbed
<1>3. IInv => DoneOnceOrReported /\ TriedInVain
  BY <1>1, <1>2 DEF IInv, DoneOnceOrReported, Tried
<1> QED
  BY <1>3, Always, PTL


----------------------------------------------------------------------------
(* Dispatcher.  DispatcherProofs is about the same actions under names of its own
   (DP!Next for D!Next): that they are the same is all there is to show here. *)

DP == INSTANCE DispatcherProofs
  WITH MaxFailures <- DMaxFailures, target <- DTarget, current <- DCurrent,
  failures <- DFailures

LEMMA SameWords ==
  /\ \A s, x : D!Contains(s, x) = DP!Contains(s, x)
  /\ \A s : D!ToSet(s) = DP!ToSet(s) /\ D!IsInjective(s) = DP!IsInjective(s)
  /\ \A S : D!SetToSeqs(S) = DP!SetToSeqs(S)
  /\ \A S : IsFiniteSet(S) = DP!IsFiniteSet(S)
  /\ \A s : IsInjective(s) = DP!IsInjective(s)
<1>1. \A s, x : D!Contains(s, x) = DP!Contains(s, x)
  BY DEF D!Contains, DP!Contains
<1>2. \A s : D!ToSet(s) = DP!ToSet(s)
  BY DEF D!ToSet, DP!ToSet
<1>3. \A s : D!IsInjective(s) = DP!IsInjective(s)
  BY DEF D!IsInjective, DP!IsInjective
<1>4. \A S : D!SetToSeqs(S) = DP!SetToSeqs(S)
  <2>1. \A S : D!Cardinality(S) = DP!Cardinality(S)
    BY DEF D!Cardinality, DP!Cardinality
  <2> QED
    BY <2>1 DEF D!SetToSeqs, DP!SetToSeqs
<1>5. \A S : IsFiniteSet(S) = DP!IsFiniteSet(S)
  BY DEF IsFiniteSet, DP!IsFiniteSet
<1>6. \A s : IsInjective(s) = DP!IsInjective(s)
  BY DEF IsInjective, DP!IsInjective
<1> QED
  BY <1>1, <1>2, <1>3, <1>4, <1>5, <1>6

LEMMA SameOrder ==
  /\ \A c : D!Restored(c) = DP!Restored(c)
  /\ D!RestoredChats = DP!RestoredChats
<1>1. \A key, S : D!InOrderOf(key, S) = DP!InOrderOf(key, S)
  BY SameWords DEF D!InOrderOf, DP!InOrderOf
<1>2. \A c : D!Restored(c) = DP!Restored(c)
  BY <1>1 DEF D!Restored, DP!Restored
<1>3. D!RestoredChats = DP!RestoredChats
  BY <1>1, <1>2 DEF D!RestoredChats, DP!RestoredChats
<1> QED
  BY <1>2, <1>3

LEMMA SameSteps == D!Next => DP!Next
<1> USE SameWords DEF D!NoTurn, DP!NoTurn, D!PumpState, DP!PumpState, D!Yielded, DP!Yielded, D!InHand,
    DP!InHand, D!LoopTop, DP!LoopTop, D!Kick, DP!Kick, D!MakeReady, DP!MakeReady,
    D!Retired, DP!Retired, D!FinishTurn, DP!FinishTurn, D!Saved, DP!Saved, D!Taken,
    DP!Taken, D!Rest, DP!Rest, D!Rotated, DP!Rotated, D!TurnOver, DP!TurnOver,
    D!Requeued, DP!Requeued, D!input, DP!input, D!lists, DP!lists, D!switches,
    DP!switches, D!work, DP!work, D!volume, DP!volume, D!counters, DP!counters,
    D!vars, DP!vars
<1>1. \A m \in Msg : D!Arrive(m) => DP!Arrive(m)
  BY DEF D!Arrive, DP!Arrive
<1>2. \A m \in Msg : D!Refuse(m) => DP!Refuse(m)
  BY DEF D!Refuse, DP!Refuse
<1>3. \A m \in Msg : D!Admit(m) => DP!Admit(m)
  BY DEF D!Admit, DP!Admit
<1>4. \A c \in Chat : D!Debounced(c) => DP!Debounced(c)
  BY DEF D!Debounced, DP!Debounced
<1>5. \A c \in Chat : D!StopChat(c) => DP!StopChat(c)
  BY DEF D!StopChat, DP!StopChat
<1>6. \A c \in Chat : D!StartChat(c) => DP!StartChat(c)
  BY DEF D!StartChat, DP!StartChat
<1>7. D!TurnEnds => DP!TurnEnds
  BY DEF D!TurnEnds, DP!TurnEnds
<1>8. D!Take => DP!Take
  BY DEF D!Take, DP!Take
<1>9. D!SkipTurn => DP!SkipTurn
  BY DEF D!SkipTurn, DP!SkipTurn
<1>10. D!DeliverFails => DP!DeliverFails
  BY DEF D!DeliverFails, DP!DeliverFails
<1>11. D!BackoffOver => DP!BackoffOver
  BY DEF D!BackoffOver, DP!BackoffOver
<1>12. D!WriteBatch => DP!WriteBatch
  BY DEF D!WriteBatch, DP!WriteBatch
<1>13. D!WritePointer => DP!WritePointer
  BY DEF D!WritePointer, DP!WritePointer
<1>14. D!Settle => DP!Settle
  BY DEF D!Settle, DP!Settle
<1>15. D!Started => DP!Started
  BY DEF D!Started, DP!Started
<1>16. D!Watchdog => DP!Watchdog
  BY DEF D!Watchdog, DP!Watchdog
<1>17. D!Hold => DP!Hold
  BY DEF D!Hold, DP!Hold
<1>18. D!Release => DP!Release
  BY DEF D!Release, DP!Release
<1>19. D!StopNow => DP!StopNow
  BY DEF D!StopNow, DP!StopNow
<1>20. D!Restart => DP!Restart
  BY SameOrder DEF D!Restart, DP!Restart
<1> QED
  BY <1>1, <1>2, <1>3, <1>4, <1>5, <1>6, <1>7, <1>8, <1>9, <1>10,
     <1>11, <1>12, <1>13, <1>14, <1>15, <1>16, <1>17, <1>18, <1>19, <1>20 DEF D!Next, DP!Next

LEMMA SameShape == (D!Init => DP!Init) /\ (DP!TypeOK => D!TypeOK)
<1>1. D!Init => DP!Init
  BY DEF D!Init, DP!Init, D!NoTurn, DP!NoTurn
<1>2. DP!TypeOK => D!TypeOK
  BY SameWords DEF D!TypeOK, DP!TypeOK, D!PumpState, DP!PumpState, D!MsgAt, DP!MsgAt
<1> QED
  BY <1>1, <1>2

----------------------------------------------------------------------------
(* The parts together. *)

allVars == <<which, vars, DVars>>

LEMMA Behaviours == Sum => Spec /\ D!Init /\ [][D!Next]_DVars
<1>1. Start => Init /\ D!Init
  BY DEF Start
<1>2. [Step]_allVars => [Next]_vars /\ [D!Next]_DVars
  BY DEF Step, allVars
<1> QED
  BY <1>1, <1>2, PTL DEF Sum, Spec, allVars

(* The state of both parts has its shape, whatever the constants. *)
THEOREM TypesAlways == Sum => []Types
<1>1. D!Init => DP!Init
  BY SameShape
<1>2. [D!Next]_DVars => [DP!Next]_DP!vars
  BY SameSteps DEF DVars, DP!vars, DP!input, DP!lists, DP!switches, DP!work, DP!volume, DP!counters
<1>3. DP!IInv => DP!TypeOK
  BY DEF DP!IInv
<1>4. DP!TypeOK => D!TypeOK
  BY SameShape
<1>5. DP!DispatcherAssumption
  BY PassesAssumption, SameWords
<1>6. DP!Spec => []DP!IInv
  BY <1>5, DP!QueueInvariant
<1>7. TypeOK /\ D!TypeOK => Types
  BY DEF Types
<1> QED
  BY <1>1, <1>2, <1>3, <1>4, <1>6, <1>7, Behaviours, TypesHold, PTL DEF DP!Spec

=============================================================================
