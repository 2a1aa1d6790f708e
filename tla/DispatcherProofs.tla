--------------------------- MODULE DispatcherProofs ---------------------------
(***************************************************************************)
(* Theorems about Dispatcher, for any finite sets of messages and chats,   *)
(* any batch size, and any number of failed deliveries and restarts.       *)
(***************************************************************************)
EXTENDS Dispatcher, SequenceTheorems, FiniteSetTheorems, WellFoundedInduction, TLAPS

----------------------------------------------------------------------------
(* Sorting by a key *)

Keyed(key, S) ==
  /\ \A x \in S : key[x] \in Nat
  /\ \A x, y \in S : key[x] = key[y] => x = y
Increasing(key, s) == \A i, j \in DOMAIN s : i < j => key[s[i]] < key[s[j]]

(* Among things with keys there is one with the least. *)
LEMMA LeastByKey ==
  ASSUME NEW key, NEW S, Keyed(key, S), S # {}
  PROVE  \E x \in S : \A y \in S : key[x] <= key[y]
<1> DEFINE Below == {ss \in Nat \X Nat : ss[1] < ss[2]}
           Keys == {key[x] : x \in S}
<1>1. IsWellFoundedOn(Below, Nat)
  BY NatLessThanWellFounded DEF OpToRel
<1>2. Keys \subseteq Nat /\ Keys # {}
  BY DEF Keyed
<1>3. PICK k \in Keys : \A n \in Keys : <<n, k>> \notin Below
  <2> HIDE DEF Below, Keys
  <2> QED
    BY <1>1, <1>2, WFMin
<1>4. PICK x \in S : k = key[x]
  BY <1>3
<1>5. ASSUME NEW y \in S PROVE key[x] <= key[y]
  <2>1. key[x] \in Nat /\ key[y] \in Nat
    BY DEF Keyed
  <2>2. <<key[y], key[x]>> \notin Below
    BY <1>3, <1>4
  <2>3. ~(key[y] < key[x])
    BY <2>1, <2>2
  <2> QED
    BY <2>1, <2>3
<1> QED
  BY <1>5

(* One in front of the rest, in order. *)
LEMMA Prepended ==
  ASSUME NEW key, NEW S, IsFiniteSet(S), Keyed(key, S),
         NEW x \in S, \A y \in S : key[x] <= key[y],
         NEW r \in [1..Cardinality(S \ {x}) -> S \ {x}], Increasing(key, r)
  PROVE  \E s \in [1..Cardinality(S) -> S] : Increasing(key, s)
<1> DEFINE n == Cardinality(S)
           s == [i \in 1..n |-> IF i = 1 THEN x ELSE r[i - 1]]
<1>1. n \in Nat /\ Cardinality(S \ {x}) = n - 1
  BY FS_RemoveElement, FS_CardinalityType
<1> HIDE DEF n
<1>2. \A i \in 1..n : i # 1 => i - 1 \in 1..(n - 1)
  BY <1>1
<1>3. \A i \in 1..(n - 1) : r[i] \in S /\ r[i] # x
  BY <1>1
<1>4. s \in [1..n -> S]
  BY <1>2, <1>3
<1>5. ASSUME NEW i \in 1..n, NEW j \in 1..n, i < j PROVE key[s[i]] < key[s[j]]
  <2>1. j - 1 \in 1..(n - 1) /\ s[j] = r[j - 1]
    BY <1>1, <1>5
  <2>2. CASE i = 1
    <3>1. s[i] = x /\ r[j - 1] \in S /\ r[j - 1] # x
      BY <2>1, <2>2, <1>3
    <3> QED
      BY <2>1, <3>1 DEF Keyed
  <2>3. CASE i # 1
    <3>1. i - 1 \in 1..(n - 1) /\ s[i] = r[i - 1] /\ i - 1 < j - 1
      BY <1>1, <1>5, <2>3
    <3>2. DOMAIN r = 1..(n - 1)
      BY <1>1
    <3> QED
      BY <2>1, <3>1, <3>2 DEF Increasing
  <2> QED
    BY <2>2, <2>3
<1>6. Increasing(key, s)
  BY <1>4, <1>5 DEF Increasing
<1> QED
  BY <1>4, <1>6 DEF n

(* A finite set can be listed in the order of its keys: a smallest part of it that
   could not would be its least element in front of a part that can. *)
LEMMA SortedExists ==
  ASSUME NEW S, IsFiniteSet(S), NEW key, Keyed(key, S)
  PROVE  \E s \in [1..Cardinality(S) -> S] : Increasing(key, s)
<1> DEFINE Listed(T) == \E s \in [1..Cardinality(T) -> T] : Increasing(key, s)
           Bad == {T \in SUBSET S : ~Listed(T)}
           Inside == StrictSubsetOrdering(S)
<1>1. SUFFICES ASSUME Bad # {} PROVE FALSE
  BY DEF Bad
<1>2. IsWellFoundedOn(Inside, FiniteSubsetsOf(S))
  BY FS_StrictSubsetOrderingWellFounded
<1>3. Bad \subseteq FiniteSubsetsOf(S)
  BY FS_FiniteSubsetsOfFinite
<1>4. PICK T \in Bad : \A U \in Bad : <<U, T>> \notin Inside
  <2> HIDE DEF Bad, Inside
  <2> QED
    BY <1>1, <1>2, <1>3, WFMin
<1>5. T \subseteq S /\ ~Listed(T)
  BY <1>4
<1> HIDE DEF Listed
<1>6. IsFiniteSet(T) /\ Keyed(key, T)
  BY <1>5, FS_Subset DEF Keyed
<1>7. T # {}
  <2>1. SUFFICES ASSUME T = {} PROVE Listed(T)
    BY <1>5
  <2>2. Cardinality(T) = 0
    BY <2>1, FS_EmptySet
  <2>3. [i \in 1..0 |-> i] \in [1..Cardinality(T) -> T] /\ Increasing(key, [i \in 1..0 |-> i])
    BY <2>2 DEF Increasing
  <2> QED
    BY <2>3 DEF Listed
<1>8. PICK x \in T : \A y \in T : key[x] <= key[y]
  BY <1>6, <1>7, LeastByKey
<1>9. Listed(T \ {x})
  <2> DEFINE U == T \ {x}
  <2>1. U \in SUBSET S /\ T \in SUBSET S /\ U \subseteq T /\ U # T
    BY <1>5, <1>8
  <2> HIDE DEF U
  <2>2. <<U, T>> \in (SUBSET S) \X (SUBSET S) /\ <<U, T>>[1] = U /\ <<U, T>>[2] = T
    BY <2>1
  <2>3. <<U, T>> \in Inside
    BY <2>1, <2>2 DEF StrictSubsetOrdering
  <2>4. U \notin Bad
    BY <1>4, <2>3
  <2> QED
    BY <2>1, <2>4 DEF U
<1>10. Listed(T)
  BY <1>6, <1>8, <1>9, Prepended DEF Listed
<1> QED
  BY <1>5, <1>10

(* What InOrderOf lists: all of the set, each once, in order. *)
LEMMA InOrderOfLists ==
  ASSUME NEW S, IsFiniteSet(S), NEW key, Keyed(key, S)
  PROVE  /\ InOrderOf(key, S) \in Seq(S)
         /\ ToSet(InOrderOf(key, S)) = S
         /\ IsInjective(InOrderOf(key, S))
         /\ Increasing(key, InOrderOf(key, S))
<1> DEFINE n == Cardinality(S)
           Good(s) == s \in SetToSeqs(S) /\ Increasing(key, s)
           q == InOrderOf(key, S)
<1>1. n \in Nat
  BY FS_CardinalityType
<1>2. PICK s \in [1..n -> S] : Increasing(key, s)
  BY SortedExists
<1>3. ASSUME NEW i \in 1..n, NEW j \in 1..n, i # j PROVE s[i] # s[j]
  <2>1. i < j \/ j < i
    BY <1>1, <1>3
  <2>2. key[s[i]] \in Nat /\ key[s[j]] \in Nat
    BY DEF Keyed
  <2>3. key[s[i]] < key[s[j]] \/ key[s[j]] < key[s[i]]
    BY <1>2, <2>1 DEF Increasing
  <2> QED
    BY <2>2, <2>3
<1>4. Good(s)
  BY <1>2, <1>3 DEF SetToSeqs
<1>5. Good(q)
  BY <1>4 DEF InOrderOf, Increasing
<1> HIDE DEF q
<1>6. q \in [1..n -> S] /\ \A i, j \in 1..n : i # j => q[i] # q[j]
  BY <1>5 DEF SetToSeqs
<1>7. q \in Seq(S) /\ IsInjective(q)
  BY <1>1, <1>6 DEF IsInjective
<1>8. q \in Injection(1..n, S)
  BY <1>6, <1>7 DEF Injection
<1>9. IsFiniteSet(1..n) /\ Cardinality(1..n) = n
  BY <1>1, FS_Interval
<1>10. q \in Surjection(1..n, S)
  BY <1>8, <1>9, FS_Injection
<1>11. ToSet(q) = S
  BY <1>6, <1>10 DEF Surjection, ToSet
<1> QED
  BY <1>5, <1>7, <1>11 DEF q

----------------------------------------------------------------------------
(* Lists *)

LEMMA ToSetOfConcat ==
  ASSUME NEW S, NEW s \in Seq(S), NEW t \in Seq(S)
  PROVE  ToSet(s \o t) = ToSet(s) \cup ToSet(t)
<1>1. Len(s) \in Nat /\ Len(t) \in Nat
  OBVIOUS
<1>2. \A i \in 1..Len(s) : s[i] = (s \o t)[i] /\ i \in 1..Len(s \o t)
  OBVIOUS
<1>3. \A i \in 1..Len(t) : t[i] = (s \o t)[Len(s) + i] /\ Len(s) + i \in 1..Len(s \o t)
  BY ConcatProperties
<1>4. \A i \in 1..Len(s \o t) : i \in 1..Len(s) \/ i - Len(s) \in 1..Len(t)
  BY ConcatProperties
<1>5. \A i \in 1..Len(s \o t) : (s \o t)[i] \in ToSet(s) \cup ToSet(t)
  BY <1>4, ConcatProperties DEF ToSet
<1>6. DOMAIN s = 1..Len(s) /\ DOMAIN t = 1..Len(t) /\ DOMAIN (s \o t) = 1..Len(s \o t)
  BY ConcatProperties, LenProperties
<1>7. ToSet(s \o t) \subseteq ToSet(s) \cup ToSet(t)
  BY <1>5, <1>6 DEF ToSet
<1>8. ToSet(s) \subseteq ToSet(s \o t)
  BY <1>2, <1>6 DEF ToSet
<1>9. ToSet(t) \subseteq ToSet(s \o t)
  BY <1>3, <1>6 DEF ToSet
<1> QED
  BY <1>7, <1>8, <1>9

LEMMA ToSetOfAppend ==
  ASSUME NEW S, NEW s \in Seq(S), NEW e \in S
  PROVE  ToSet(Append(s, e)) = ToSet(s) \cup {e}
<1>1. \A i \in 1..(Len(s) + 1) : Append(s, e)[i] = IF i <= Len(s) THEN s[i] ELSE e
  BY AppendProperties
<1>2. DOMAIN Append(s, e) = 1..(Len(s) + 1) /\ DOMAIN s = 1..Len(s) /\ Len(s) \in Nat
  BY AppendProperties
<1> QED
  BY <1>1, <1>2 DEF ToSet

(* A list in two parts is the list. *)
LEMMA TwoParts ==
  ASSUME NEW S, NEW s \in Seq(S), NEW n \in 0..Len(s)
  PROVE  /\ SubSeq(s, 1, n) \o SubSeq(s, n + 1, Len(s)) = s
         /\ SubSeq(s, 1, n) \in Seq(S) /\ Len(SubSeq(s, 1, n)) = n
         /\ SubSeq(s, n + 1, Len(s)) \in Seq(S)
<1>1. Len(s) \in Nat /\ n \in Nat /\ n <= Len(s)
  OBVIOUS
<1>2. SubSeq(s, 1, n) \o SubSeq(s, n + 1, Len(s)) = SubSeq(s, 1, Len(s))
  <2>1. 1 \in 1..(Len(s) + 1) /\ n \in (1 - 1)..Len(s) /\ Len(s) \in n..Len(s)
    BY <1>1
  <2> QED
    BY <2>1, ConcatAdjacentSubSeq
<1>3. SubSeq(s, 1, Len(s)) = s
  BY SubSeqFull
<1>4. \A i \in 1..n : s[i] \in S
  BY <1>1
<1>5. SubSeq(s, 1, n) \in Seq(S) /\ Len(SubSeq(s, 1, n)) = n
  BY <1>1, <1>4, SubSeqProperties
<1>6. \A i \in (n + 1)..Len(s) : s[i] \in S
  BY <1>1
<1>7. SubSeq(s, n + 1, Len(s)) \in Seq(S)
  BY <1>1, <1>6, SubSeqProperties
<1> QED
  BY <1>2, <1>3, <1>5, <1>7

(* What is in front is in the list. *)
LEMMA FirstPartIsOfIt ==
  ASSUME NEW S, NEW s \in Seq(S), NEW n \in 1..Len(s)
  PROVE  ToSet(SubSeq(s, 1, n)) \subseteq ToSet(s)
<1>1. n \in 0..Len(s)
  OBVIOUS
<1> DEFINE a == SubSeq(s, 1, n)
           b == SubSeq(s, n + 1, Len(s))
<1>2. a \o b = s /\ a \in Seq(S) /\ b \in Seq(S)
  BY <1>1, TwoParts
<1> HIDE DEF a, b
<1>3. ToSet(a \o b) = ToSet(a) \cup ToSet(b)
  BY <1>2, ToSetOfConcat, ZenonT(40)
<1>4. ToSet(a) \subseteq ToSet(s)
  BY <1>2, <1>3
<1> QED
  BY <1>4 DEF a

(* What is behind is in the list, and later in it. *)
LEMMA SecondPart ==
  ASSUME NEW S, NEW s \in Seq(S), NEW t \in Seq(S)
  PROVE  /\ DOMAIN t = 1..Len(t) /\ Len(s) \in Nat /\ Len(t) \in Nat
         /\ \A i \in DOMAIN t : Len(s) + i \in DOMAIN (s \o t) /\ (s \o t)[Len(s) + i] = t[i]
         /\ \A i \in DOMAIN s : i \in DOMAIN (s \o t) /\ (s \o t)[i] = s[i]
         /\ \A i \in DOMAIN s, j \in DOMAIN t : i < Len(s) + j
  BY ConcatProperties

LEMMA InjectiveParts ==
  ASSUME NEW S, NEW s \in Seq(S), NEW t \in Seq(S), IsInjective(s \o t)
  PROVE  IsInjective(s) /\ IsInjective(t)
<1>1. ASSUME NEW i \in DOMAIN t, NEW j \in DOMAIN t, t[i] = t[j] PROVE i = j
  <2>1. \A k \in DOMAIN t : Len(s) + k \in DOMAIN (s \o t) /\ (s \o t)[Len(s) + k] = t[k]
    BY ConcatProperties
  <2>2. Len(s) + i = Len(s) + j
    BY <1>1, <2>1 DEF IsInjective
  <2>3. Len(s) \in Nat /\ i \in Nat /\ j \in Nat
    BY ConcatProperties
  <2> QED
    BY <2>2, <2>3
<1>2. ASSUME NEW i \in DOMAIN s, NEW j \in DOMAIN s, s[i] = s[j] PROVE i = j
  BY <1>2, SecondPart DEF IsInjective
<1> QED
  BY <1>1, <1>2 DEF IsInjective

LEMMA InjectiveAppend ==
  ASSUME NEW S, NEW s \in Seq(S), IsInjective(s), NEW e \in S, e \notin ToSet(s)
  PROVE  IsInjective(Append(s, e))
<1>1. \A i \in 1..(Len(s) + 1) : Append(s, e)[i] = IF i <= Len(s) THEN s[i] ELSE e
  BY AppendProperties
<1>2. DOMAIN Append(s, e) = 1..(Len(s) + 1) /\ DOMAIN s = 1..Len(s) /\ Len(s) \in Nat
  BY AppendProperties
<1>3. \A i \in 1..Len(s) : s[i] # e
  BY <1>2 DEF ToSet
<1> QED
  BY <1>1, <1>2, <1>3 DEF IsInjective

LEMMA WithoutHead ==
  ASSUME NEW S, NEW s \in Seq(S), s # <<>>
  PROVE  /\ Head(s) \in ToSet(s) /\ Head(s) \in S /\ Tail(s) \in Seq(S)
         /\ ToSet(s) = {Head(s)} \cup ToSet(Tail(s))
         /\ IsInjective(s) => IsInjective(Tail(s)) /\ Head(s) \notin ToSet(Tail(s))
<1>1. Len(s) \in Nat \ {0} /\ DOMAIN s = 1..Len(s) /\ Head(s) = s[1]
  BY EmptySeq
<1>2. Tail(s) \in Seq(S) /\ Len(Tail(s)) = Len(s) - 1 /\ DOMAIN Tail(s) = 1..(Len(s) - 1)
  BY HeadTailProperties
<1>3. \A i \in 1..(Len(s) - 1) : Tail(s)[i] = s[i + 1] /\ i + 1 \in 1..Len(s)
  BY <1>1, <1>2, HeadTailProperties
<1>4. \A i \in 1..Len(s) : i = 1 \/ (i - 1 \in 1..(Len(s) - 1) /\ s[i] = Tail(s)[i - 1])
  BY <1>1, <1>3
<1>5. ToSet(s) = {Head(s)} \cup ToSet(Tail(s))
  <2>1. ASSUME NEW i \in 1..Len(s) PROVE s[i] \in {Head(s)} \cup ToSet(Tail(s))
    BY <1>1, <1>2, <1>4 DEF ToSet
  <2>2. {Head(s)} \cup ToSet(Tail(s)) \subseteq ToSet(s)
    BY <1>1, <1>2, <1>3 DEF ToSet
  <2>3. ToSet(s) \subseteq {Head(s)} \cup ToSet(Tail(s))
    BY <1>1, <2>1 DEF ToSet
  <2> QED
    BY <2>2, <2>3
<1>6. ASSUME IsInjective(s) PROVE IsInjective(Tail(s)) /\ Head(s) \notin ToSet(Tail(s))
  <2>1. \A i, j \in 1..(Len(s) - 1) : Tail(s)[i] = Tail(s)[j] => i + 1 = j + 1
    BY <1>1, <1>3, <1>6 DEF IsInjective
  <2>2. \A i \in 1..(Len(s) - 1) : s[1] = Tail(s)[i] => 1 = i + 1
    BY <1>1, <1>3, <1>6 DEF IsInjective
  <2> QED
    BY <1>1, <1>2, <2>1, <2>2 DEF IsInjective, ToSet
<1> QED
  BY <1>1, <1>2, <1>5, <1>6 DEF ToSet

----------------------------------------------------------------------------
(* The invariant *)

(* What the pump has in hand: the batch is of the chat it was taken from, and was
   taken with no turn in flight; its file is written before the pointer to it. *)
HandIsFull ==
  /\ pump \in {"preparing", "wroteBatch", "wrotePointer"} =>
       /\ opened # NoTurn /\ batch # <<>> /\ Len(batch) <= MaxBatch
       /\ \A m \in ToSet(batch) : ChatOf[m] = target
  /\ pump \in {"taking", "preparing", "wroteBatch", "wrotePointer", "backoff"} => inFlight = NoTurn
  /\ pump \in {"wroteBatch", "wrotePointer"} => batches[opened] # <<>>

(* A message is accepted once, after it was parsed; what is queued or handed over
   was accepted, and nothing bears a lifetime still to come. *)
AcceptedOnce ==
  /\ \A i, j \in DOMAIN admitted : admitted[i].msg = admitted[j].msg => i = j
  /\ \A i \in DOMAIN admitted :
       admitted[i].msg \in seen \ parsing /\ admitted[i].life <= restarts
  /\ \A m \in queue : WasAdmitted(m)
  /\ \A i \in DOMAIN handed : WasAdmitted(handed[i].msg) /\ handed[i].life <= restarts

(* IndexOf and QueuedBefore of a given history of acceptance. *)
Place(adm, m) == CHOOSE i \in DOMAIN adm : adm[i].msg = m
Before(adm, m, n, life) ==
  IF adm[Place(adm, m)].life < life /\ adm[Place(adm, n)].life < life THEN Stamp[m] < Stamp[n]
  ELSE Place(adm, m) < Place(adm, n)

LEMMA QueuedIsBefore ==
  /\ HandedInOrder <=>
       \A i, j \in DOMAIN handed :
         i < j /\ handed[i].life = handed[j].life /\ ChatOf[handed[i].msg] = ChatOf[handed[j].msg]
           => Before(admitted, handed[i].msg, handed[j].msg, handed[i].life)
  /\ HandedInOrder' <=>
       \A i, j \in DOMAIN handed' :
         i < j /\ handed'[i].life = handed'[j].life /\ ChatOf[handed'[i].msg] = ChatOf[handed'[j].msg]
           => Before(admitted', handed'[i].msg, handed'[j].msg, handed'[i].life)
  BY DEF HandedInOrder, QueuedBefore, IndexOf, Before, Place

(* Line w of chat c holds messages of that chat that are on disk, in order, behind
   what this process has handed over. *)
LineOK(adm, disk, given, life, c, w) ==
  /\ \A m \in ToSet(w) : m \in disk /\ ChatOf[m] = c
  /\ \A i, j \in DOMAIN w : i < j => Before(adm, w[i], w[j], life)
  /\ \A i \in DOMAIN given :
       given[i].life = life /\ ChatOf[given[i].msg] = c =>
         \A m \in ToSet(w) : Before(adm, given[i].msg, m, life)

LinesInOrder == \A c \in Chat : LineOK(admitted, queue, handed, restarts, c, WaitingIn(c))

(* Between the pointer and the removal from disk, the batch counts as handed over. *)
BatchIsHanded ==
  pump = "wrotePointer" =>
    \A m \in ToSet(batch) : \E i \in DOMAIN handed : handed[i] = [msg |-> m, life |-> restarts]

(* The inductive invariant. *)
IInv ==
  TypeOK /\ HandIsFull /\ AcceptedOnce /\ LinesInOrder /\ BatchIsHanded /\ QueueIsSound

(* Where the loop of pump() goes: it takes a batch only with no turn in flight. *)
LEMMA LoopGoes ==
  ASSUME NEW r, NEW f, NEW h
  PROVE  /\ LoopTop(r, f, h) \in {"idle", "waiting", "taking"}
         /\ LoopTop(r, f, h) = "taking" => f = NoTurn
  BY DEF LoopTop, NoTurn

LEMMA KickGoes ==
  ASSUME NEW r, NEW f, NEW h
  PROVE  Kick(r, f, h) = pump \/ (pump = "idle" /\ Kick(r, f, h) = LoopTop(r, f, h))
  BY DEF Kick

(* A chat made ready holds one place in the rotation. *)
LEMMA MadeReady ==
  ASSUME NEW r \in Seq(Chat), IsInjective(r), NEW c \in Chat
  PROVE  /\ MakeReady(r, c) \in Seq(Chat) /\ IsInjective(MakeReady(r, c))
         /\ ToSet(MakeReady(r, c)) = ToSet(r) \cup {c}
<1>1. Contains(r, c) <=> c \in ToSet(r)
  BY DEF Contains, ToSet
<1>2. CASE Contains(r, c)
  BY <1>1, <1>2 DEF MakeReady
<1>3. CASE ~Contains(r, c)
  BY <1>1, <1>3, AppendProperties, ToSetOfAppend, InjectiveAppend DEF MakeReady
<1> QED
  BY <1>2, <1>3

LEMMA LineTypes ==
  ASSUME TypeOK, NEW c \in Chat
  PROVE  InHand \in Seq(Msg) /\ WaitingIn(c) \in Seq(Msg) /\ ToSet(pending[c]) \subseteq ToSet(WaitingIn(c))
<1>1. InHand \in Seq(Msg) /\ pending[c] \in Seq(Msg)
  BY EmptySeq DEF TypeOK, InHand
<1> QED
  BY <1>1, ConcatProperties, ToSetOfConcat DEF WaitingIn

(* Where a message is in the order of acceptance. *)
LEMMA IndexIsUnique ==
  ASSUME TypeOK, AcceptedOnce, NEW i \in DOMAIN admitted
  PROVE  Place(admitted, admitted[i].msg) = i
<1>1. Place(admitted, admitted[i].msg) \in DOMAIN admitted
      /\ admitted[Place(admitted, admitted[i].msg)].msg = admitted[i].msg
  BY DEF Place
<1> QED
  BY <1>1 DEF AcceptedOnce

LEMMA IndexTypes ==
  ASSUME TypeOK, AcceptedOnce, NEW m, WasAdmitted(m)
  PROVE  /\ m \in Msg /\ Stamp[m] \in Nat /\ m \notin parsing
         /\ Place(admitted, m) \in DOMAIN admitted /\ Place(admitted, m) \in Nat /\ Place(admitted, m) <= Len(admitted)
         /\ admitted[Place(admitted, m)].msg = m /\ admitted[Place(admitted, m)].life \in Nat
         /\ admitted[Place(admitted, m)].life <= restarts
<1>1. PICK i \in DOMAIN admitted : admitted[i].msg = m
  BY DEF WasAdmitted
<1>2. Place(admitted, m) = i
  BY <1>1, IndexIsUnique
<1>3. admitted \in Seq(MsgAt) /\ i \in 1..Len(admitted) /\ Len(admitted) \in Nat
  BY DEF TypeOK
<1>4. admitted[i] \in MsgAt
  BY <1>3
<1>5. admitted[i].msg \in Msg /\ admitted[i].life \in Nat
  BY <1>4 DEF MsgAt
<1> QED
  BY <1>1, <1>2, <1>3, <1>5, DispatcherAssumption DEF AcceptedOnce

(* What is in a line was accepted, and is there once. *)
LEMMA LineIsInjective ==
  ASSUME TypeOK, AcceptedOnce, LinesInOrder, NEW c \in Chat
  PROVE  IsInjective(WaitingIn(c)) /\ \A m \in ToSet(WaitingIn(c)) : WasAdmitted(m) /\ ~Before(admitted, m, m, restarts)
<1> DEFINE w == WaitingIn(c)
<1>1. ASSUME NEW m \in ToSet(w) PROVE WasAdmitted(m) /\ ~Before(admitted, m, m, restarts)
  <2>1. WasAdmitted(m)
    BY <1>1 DEF LinesInOrder, LineOK, AcceptedOnce
  <2>2. Stamp[m] \in Nat /\ Place(admitted, m) \in Nat
    BY <2>1, IndexTypes
  <2> QED
    BY <2>1, <2>2 DEF Before
<1>2. \A i, j \in DOMAIN w : i < j => Before(admitted, w[i], w[j], restarts)
  BY DEF LinesInOrder, LineOK
<1>3. DOMAIN w \subseteq Nat
  BY LineTypes
<1> HIDE DEF w
<1>4. \A i \in DOMAIN w : w[i] \in ToSet(w)
  BY DEF ToSet
<1>5. ASSUME NEW i \in DOMAIN w, NEW j \in DOMAIN w, w[i] = w[j] PROVE i = j
  <2>1. ~(i < j) /\ ~(j < i)
    BY <1>1, <1>2, <1>4, <1>5
  <2> QED
    BY <1>3, <2>1
<1> QED
  BY <1>1, <1>5 DEF IsInjective, w

(* What is being parsed waits in no line. *)
LEMMA ParsedIsNew ==
  ASSUME IInv, NEW m \in parsing, NEW c \in Chat
  PROVE  m \in Msg /\ ~WasAdmitted(m) /\ m \notin ToSet(WaitingIn(c)) /\ m \notin ToSet(pending[c])
<1>1. m \in Msg
  BY DEF IInv, TypeOK
<1>2. ~WasAdmitted(m)
  BY IndexTypes DEF IInv
<1> QED
  BY <1>1, <1>2, LineIsInjective, LineTypes DEF IInv

----------------------------------------------------------------------------
(* Steps *)

(* The batch taken and what stays behind are the chat's list. *)
LEMMA TakenAndRest ==
  ASSUME TypeOK, NEW c \in Chat
  PROVE  /\ Taken(c) \in Seq(Msg) /\ Rest(c) \in Seq(Msg) /\ Taken(c) \o Rest(c) = pending[c]
         /\ Len(Taken(c)) <= MaxBatch
         /\ pending[c] # <<>> => Taken(c) # <<>>
         /\ IsInjective(Rest(c)) /\ ToSet(Rest(c)) \subseteq ToSet(pending[c])
         /\ ToSet(Taken(c)) \subseteq ToSet(pending[c])
<1> DEFINE s == pending[c]
           n == IF Len(s) < MaxBatch THEN Len(s) ELSE MaxBatch
<1>1. s \in Seq(Msg) /\ IsInjective(s)
  BY DEF TypeOK
<1>2. Len(s) \in Nat /\ n \in 0..Len(s) /\ n <= MaxBatch /\ (s # <<>> => n # 0)
  BY <1>1, EmptySeq, DispatcherAssumption
<1> HIDE DEF s, n
<1>3. Taken(c) = SubSeq(s, 1, n)
  BY DEF Taken, s, n
<1>4. /\ SubSeq(s, 1, n) \o SubSeq(s, n + 1, Len(s)) = s
      /\ SubSeq(s, 1, n) \in Seq(Msg) /\ Len(SubSeq(s, 1, n)) = n
      /\ SubSeq(s, n + 1, Len(s)) \in Seq(Msg)
  BY <1>1, <1>2, TwoParts
<1>5. Rest(c) = SubSeq(s, n + 1, Len(s))
  BY <1>3, <1>4 DEF Rest, s
<1>6. Taken(c) \in Seq(Msg) /\ Rest(c) \in Seq(Msg) /\ Taken(c) \o Rest(c) = s /\ Len(Taken(c)) = n
  BY <1>3, <1>4, <1>5
<1>7. IsInjective(Rest(c))
  BY <1>1, <1>6, InjectiveParts
<1>8. ToSet(Taken(c) \o Rest(c)) = ToSet(Taken(c)) \cup ToSet(Rest(c))
  BY <1>6, ToSetOfConcat, ZenonT(40)
<1>9. s # <<>> => Taken(c) # <<>>
  BY <1>2, <1>6, EmptySeq
<1> QED
  BY <1>2, <1>6, <1>7, <1>8, <1>9 DEF s

(* The rotation after a chat has been served. *)
LEMMA RotationHolds ==
  ASSUME TypeOK, IsInjective(ready), ready # <<>>
  PROVE  LET c == Head(ready) IN
         /\ c \in Chat /\ c \in ToSet(ready)
         /\ Rotated(c) \in Seq(Chat) /\ IsInjective(Rotated(c))
         /\ ToSet(ready) \ {c} \subseteq ToSet(Rotated(c))
         /\ Rest(c) # <<>> => c \in ToSet(Rotated(c))
         /\ Tail(ready) \in Seq(Chat) /\ IsInjective(Tail(ready))
         /\ ToSet(ready) \ {c} \subseteq ToSet(Tail(ready))
<1> DEFINE c == Head(ready)
<1>1. ready \in Seq(Chat)
  BY DEF TypeOK
<1>2. /\ c \in ToSet(ready) /\ c \in Chat /\ Tail(ready) \in Seq(Chat)
      /\ ToSet(ready) = {c} \cup ToSet(Tail(ready))
      /\ IsInjective(Tail(ready)) /\ c \notin ToSet(Tail(ready))
  BY <1>1, WithoutHead
<1> HIDE DEF c
<1>3. CASE Rest(c) = <<>>
  BY <1>2, <1>3 DEF Rotated, c
<1>4. CASE Rest(c) # <<>>
  <2> DEFINE t == Tail(ready)
  <2>1. t \in Seq(Chat) /\ IsInjective(t) /\ c \in Chat /\ c \notin ToSet(t)
    BY <1>2
  <2> HIDE DEF t
  <2>2. Append(t, c) \in Seq(Chat) /\ IsInjective(Append(t, c))
    BY <2>1, AppendProperties, InjectiveAppend
  <2>3. ToSet(Append(t, c)) = ToSet(t) \cup {c}
    BY <2>1, ToSetOfAppend
  <2>4. Rotated(c) = Append(t, c)
    BY <1>4 DEF Rotated, t
  <2> QED
    BY <1>2, <2>2, <2>3, <2>4 DEF c, t
<1> QED
  BY <1>3, <1>4 DEF c

(* Retiring a turn empties its file and no other. *)
LEMMA RetiredFiles ==
  ASSUME TypeOK, NEW t \in 1..opened
  PROVE  /\ Retired(t) \in Seq(Seq(Msg)) /\ Len(Retired(t)) = opened
         /\ \A u \in 1..opened : u # t => Retired(t)[u] = batches[u]
<1>1. batches \in Seq(Seq(Msg)) /\ t \in 1..Len(batches) /\ <<>> \in Seq(Msg)
  BY EmptySeq DEF TypeOK
<1>2. Retired(t) = [batches EXCEPT ![t] = <<>>]
  BY DEF Retired
<1>3. Retired(t) \in Seq(Seq(Msg)) /\ Len(Retired(t)) = Len(batches)
  BY <1>1, <1>2, ExceptSeq
<1>4. \A u \in 1..Len(batches) : u # t => Retired(t)[u] = batches[u]
  BY <1>1, <1>2
<1> QED
  BY <1>3, <1>4 DEF TypeOK

(* What a restart makes of the queue directory. *)
LEMMA RestoredLists ==
  ASSUME queue' \subseteq Msg, NEW c \in Chat
  PROVE  /\ Restored(c) \in Seq(Msg) /\ IsInjective(Restored(c))
         /\ ToSet(Restored(c)) = {m \in queue' : ChatOf[m] = c}
         /\ Increasing(Stamp, Restored(c))
<1> DEFINE S == {m \in queue' : ChatOf[m] = c}
<1>1. S \subseteq Msg /\ IsFiniteSet(S)
  BY DispatcherAssumption, FS_Subset
<1>2. Keyed(Stamp, S)
  BY <1>1, DispatcherAssumption DEF Keyed, IsInjective
<1> HIDE DEF S
<1>3. /\ InOrderOf(Stamp, S) \in Seq(S) /\ IsInjective(InOrderOf(Stamp, S))
      /\ ToSet(InOrderOf(Stamp, S)) = S /\ Increasing(Stamp, InOrderOf(Stamp, S))
  BY <1>1, <1>2, InOrderOfLists
<1>4. InOrderOf(Stamp, S) \in Seq(Msg)
  BY <1>1, <1>3, SeqMonotonic
<1> QED
  BY <1>3, <1>4 DEF Restored, S

LEMMA RestoredChatsList ==
  ASSUME queue' \subseteq Msg
  PROVE  /\ RestoredChats \in Seq(Chat) /\ IsInjective(RestoredChats)
         /\ ToSet(RestoredChats) = {ChatOf[m] : m \in queue'}
<1> DEFINE S == {ChatOf[m] : m \in queue'}
           key == [c \in S |-> Stamp[Head(Restored(c))]]
<1>1. S \subseteq Chat /\ IsFiniteSet(S)
  BY DispatcherAssumption, FS_Subset
<1>2. ASSUME NEW c \in S PROVE Head(Restored(c)) \in Msg /\ ChatOf[Head(Restored(c))] = c
  <2>1. PICK m \in queue' : ChatOf[m] = c
    BY <1>2
  <2>2. c \in Chat
    BY <1>1, <1>2
  <2>3. Restored(c) \in Seq(Msg) /\ ToSet(Restored(c)) = {n \in queue' : ChatOf[n] = c}
    BY <2>2, RestoredLists
  <2>4. Restored(c) # <<>>
    BY <2>1, <2>3 DEF ToSet
  <2>5. Head(Restored(c)) \in ToSet(Restored(c))
    BY <2>3, <2>4, WithoutHead
  <2> QED
    BY <2>3, <2>5
<1>3. Keyed(key, S)
  <2>1. \A c \in S : key[c] = Stamp[Head(Restored(c))]
    OBVIOUS
  <2> HIDE DEF S, key
  <2>2. \A c \in S : key[c] \in Nat
    BY <1>2, <2>1, DispatcherAssumption
  <2>3. \A m, n \in Msg : Stamp[m] = Stamp[n] => m = n
    BY DispatcherAssumption DEF IsInjective
  <2>4. \A c, d \in S : key[c] = key[d] => c = d
    BY <1>2, <2>1, <2>3
  <2> QED
    BY <2>2, <2>4 DEF Keyed
<1>4. RestoredChats = InOrderOf(key, S)
  BY DEF RestoredChats
<1> HIDE DEF S, key
<1>5. /\ InOrderOf(key, S) \in Seq(S) /\ IsInjective(InOrderOf(key, S))
      /\ ToSet(InOrderOf(key, S)) = S
  BY <1>1, <1>3, InOrderOfLists
<1>6. InOrderOf(key, S) \in Seq(Chat)
  BY <1>1, <1>5, SeqMonotonic
<1> QED
  BY <1>4, <1>5, <1>6 DEF S

(* A restart, as a whole. *)
LEMMA RestartQueue == ASSUME TypeOK, Restart PROVE queue' \subseteq queue /\ queue' \subseteq Msg
  BY DEF TypeOK, Restart

(* What every step leaves has its shape. *)
LEMMA TypeHolds == IInv /\ [Next]_vars => TypeOK'
<1> SUFFICES ASSUME IInv, [Next]_vars PROVE TypeOK'
  OBVIOUS
<1>1. TypeOK /\ IsInjective(ready)
  BY DEF IInv, QueueIsSound, NoStrandedChat
<1> USE DispatcherAssumption DEF TypeOK, input, lists, switches, work, volume, counters, PumpState, NoTurn
<1>2. ASSUME NEW m \in Msg, Arrive(m) PROVE TypeOK'
  BY <1>1, <1>2 DEF Arrive
<1>3. ASSUME NEW m \in Msg, Refuse(m) PROVE TypeOK'
  BY <1>1, <1>3 DEF Refuse
<1>4. ASSUME NEW m \in Msg, Admit(m) PROVE TypeOK'
  <2> DEFINE c == ChatOf[m]
             s == pending[c]
  <2>1. c \in Chat /\ s \in Seq(Msg) /\ IsInjective(s) /\ m \notin ToSet(s)
    BY <1>1, <1>4, ParsedIsNew DEF Admit
  <2> HIDE DEF s
  <2>2. Append(s, m) \in Seq(Msg) /\ IsInjective(Append(s, m)) /\ ToSet(Append(s, m)) = ToSet(s) \cup {m}
    BY <2>1, AppendProperties, ToSetOfAppend, InjectiveAppend
  <2>3. pending' = [pending EXCEPT ![c] = Append(s, m)]
    BY <1>4 DEF Admit, s
  <2>4. /\ pending' \in [Chat -> Seq(Msg)]
        /\ \A d \in Chat : IsInjective(pending'[d]) /\ \A n \in ToSet(pending'[d]) : ChatOf[n] = d
    BY <1>1, <2>1, <2>2, <2>3 DEF s
  <2>5. [msg |-> m, life |-> restarts] \in MsgAt
    BY <1>1 DEF MsgAt
  <2>6. admitted' \in Seq(MsgAt)
    BY <1>1, <1>4, <2>5, AppendProperties DEF Admit
  <2> QED
    BY <1>1, <1>4, <2>1, <2>4, <2>6 DEF Admit, Saved
<1>5. ASSUME NEW c \in Chat, Debounced(c) PROVE TypeOK'
  <2>1. ready' \in Seq(Chat)
    BY <1>1, <1>5, MadeReady DEF Debounced
  <2>2. pump' \in PumpState
    BY <1>1, <1>5, KickGoes, LoopGoes DEF Debounced
  <2> QED
    BY <1>1, <1>5, <2>1, <2>2 DEF Debounced
<1>6. ASSUME NEW c \in Chat, StopChat(c) PROVE TypeOK'
  <2>1. inFlight \in 1..opened => Retired(inFlight) \in Seq(Seq(Msg)) /\ Len(Retired(inFlight)) = opened
    BY <1>1, RetiredFiles
  <2>2. CASE inFlight # NoTurn /\ target = c
    <3>1. batches' = Retired(inFlight) /\ inFlight' = NoTurn /\ inFlight \in 1..opened
      BY <1>1, <1>6, <2>2 DEF StopChat, FinishTurn
    <3>2. batches' \in Seq(Seq(Msg)) /\ Len(batches') = opened /\ inFlight' \in 0..opened
      BY <1>1, <2>1, <3>1
    <3> QED
      BY <1>1, <1>6, <3>2 DEF StopChat
  <2>3. CASE ~(inFlight # NoTurn /\ target = c)
    <3>1. batches' = batches /\ inFlight' = inFlight
      BY <1>6, <2>3 DEF StopChat
    <3> QED
      BY <1>1, <1>6, <3>1 DEF StopChat
  <2> QED
    BY <2>2, <2>3
<1>7. ASSUME NEW c \in Chat, StartChat(c) PROVE TypeOK'
  BY <1>1, <1>7 DEF StartChat
<1>8. CASE TurnEnds
  <2>1. inFlight \in 1..opened /\ batches' = Retired(inFlight) /\ inFlight' \in 0..opened
    BY <1>1, <1>8 DEF TurnEnds, FinishTurn
  <2>2. batches' \in Seq(Seq(Msg)) /\ Len(batches') = opened
    BY <1>1, <2>1, RetiredFiles
  <2> QED
    BY <1>1, <1>8, <2>1, <2>2 DEF TurnEnds
<1>9. CASE Take
  <2> DEFINE c == Head(ready)
  <2>1. c \in Chat /\ ready' \in Seq(Chat)
    BY <1>1, <1>9, RotationHolds DEF Take
  <2>2. /\ Taken(c) \in Seq(Msg) /\ Rest(c) \in Seq(Msg) /\ IsInjective(Rest(c))
        /\ ToSet(Rest(c)) \subseteq ToSet(pending[c])
    BY <1>1, <2>1, TakenAndRest
  <2> HIDE DEF c
  <2>3. pending' = [pending EXCEPT ![c] = Rest(c)] /\ batch' = Taken(c) /\ target' = c
    BY <1>9 DEF Take, c
  <2>4. /\ pending' \in [Chat -> Seq(Msg)]
        /\ \A d \in Chat : IsInjective(pending'[d]) /\ \A n \in ToSet(pending'[d]) : ChatOf[n] = d
    BY <1>1, <2>1, <2>2, <2>3
  <2>5. batches' \in Seq(Seq(Msg)) /\ Len(batches') = opened + 1 /\ opened' = opened + 1
    BY <1>1, <1>9, AppendProperties, EmptySeq DEF Take
  <2>6. opened' \in Nat /\ inFlight \in 0..opened' /\ current \in 0..opened' /\ Len(batches') = opened'
    BY <1>1, <2>5
  <2>7. /\ pump' = "preparing"
        /\ UNCHANGED <<seen, parsing, queue, debounces, held, stopped, inFlight, current,
                       failures, restarts, admitted, handed>>
    BY <1>9 DEF Take
  <2> QED
    BY <1>1, <2>1, <2>2, <2>3, <2>4, <2>5, <2>6, <2>7
<1>10. CASE SkipTurn
  <2>1. ready' \in Seq(Chat)
    BY <1>1, <1>10, RotationHolds DEF SkipTurn
  <2>2. pump' \in PumpState
    BY <1>10, LoopGoes DEF SkipTurn
  <2> QED
    BY <1>1, <1>10, <2>1, <2>2 DEF SkipTurn
<1>11. CASE DeliverFails
  <2> DEFINE s == batch \o pending[target]
  <2>1. s \in Seq(Msg) /\ s = WaitingIn(target)
    BY <1>1, <1>11, ConcatProperties DEF DeliverFails, WaitingIn, InHand
  <2>2. IsInjective(s) /\ \A n \in ToSet(s) : ChatOf[n] = target
    <3>1. target \in Chat /\ AcceptedOnce /\ LinesInOrder
      BY <1>1 DEF IInv
    <3>2. IsInjective(WaitingIn(target))
      BY <1>1, <3>1, LineIsInjective
    <3>3. \A n \in ToSet(WaitingIn(target)) : ChatOf[n] = target
      BY <3>1 DEF LinesInOrder, LineOK
    <3> QED
      BY <2>1, <3>2, <3>3
  <2> HIDE DEF s
  <2>3. pending' = [pending EXCEPT ![target] = s]
    BY <1>11 DEF DeliverFails, Requeued, s
  <2>4. /\ pending' \in [Chat -> Seq(Msg)]
        /\ \A d \in Chat : IsInjective(pending'[d]) /\ \A n \in ToSet(pending'[d]) : ChatOf[n] = d
    BY <1>1, <2>1, <2>2, <2>3
  <2>5. ready' \in Seq(Chat)
    BY <1>1, <1>11, MadeReady DEF DeliverFails
  <2>6. failures' \in 0..MaxFailures /\ <<>> \in Seq(Msg)
    BY <1>1, <1>11, EmptySeq DEF DeliverFails
  <2> QED
    BY <1>1, <1>11, <2>4, <2>5, <2>6 DEF DeliverFails
<1>12. CASE BackoffOver
  BY <1>1, <1>12 DEF BackoffOver
<1>13. CASE WriteBatch
  <2>1. opened \in 1..Len(batches)
    BY <1>1, <1>13 DEF WriteBatch, IInv, HandIsFull
  <2>2. batches' \in Seq(Seq(Msg)) /\ Len(batches') = opened
    BY <1>1, <1>13, <2>1, ExceptSeq DEF WriteBatch
  <2> QED
    BY <1>1, <1>13, <2>2 DEF WriteBatch
<1>14. CASE WritePointer
  <2> DEFINE h == [i \in DOMAIN batch |-> [msg |-> batch[i], life |-> restarts]]
  <2>1. h \in Seq(MsgAt)
    <3>1. DOMAIN batch = 1..Len(batch) /\ Len(batch) \in Nat /\ restarts \in 0..MaxRestarts
      BY <1>1
    <3>2. \A i \in DOMAIN batch : batch[i] \in Msg
      BY <1>1
    <3>3. \A i \in DOMAIN batch : [msg |-> batch[i], life |-> restarts] \in MsgAt
      BY <3>1, <3>2 DEF MsgAt
    <3>4. h \in [1..Len(batch) -> MsgAt]
      BY <3>1, <3>3
    <3> QED
      BY <3>1, <3>4
  <2> HIDE DEF h
  <2>2. handed' \in Seq(MsgAt)
    BY <1>1, <1>14, <2>1, ConcatProperties DEF WritePointer, h
  <2>3. current' \in 0..opened
    BY <1>1, <1>14 DEF WritePointer
  <2> QED
    BY <1>1, <1>14, <2>2, <2>3 DEF WritePointer
<1>15. CASE Settle
  <2>1. inFlight' \in 0..opened /\ <<>> \in Seq(Msg)
    BY <1>1, <1>15, EmptySeq DEF Settle
  <2> QED
    BY <1>1, <1>15, <2>1 DEF Settle
<1>16. CASE Started
  BY <1>1, <1>16, LoopGoes DEF Started
<1>17. CASE Watchdog
  BY <1>1, <1>17, LoopGoes DEF Watchdog
<1>18. CASE Hold
  BY <1>1, <1>18 DEF Hold
<1>19. CASE Release
  <2>1. pump' \in PumpState
    BY <1>1, <1>19, KickGoes, LoopGoes DEF Release
  <2> QED
    BY <1>1, <1>19, <2>1 DEF Release
<1>20. CASE StopNow
  <2>1. batches' \in Seq(Seq(Msg)) /\ Len(batches') = opened /\ inFlight' \in 0..opened
    BY <1>1, <1>20, RetiredFiles DEF StopNow, FinishTurn
  <2> QED
    BY <1>1, <1>20, <2>1 DEF StopNow
<1>21. CASE Restart
  <2>1. queue' \subseteq Msg
    BY <1>1, <1>21, RestartQueue
  <2>2. pending' = [c \in Chat |-> Restored(c)] /\ ready' = RestoredChats
    BY <1>21 DEF Restart
  <2>3. \A c \in Chat : /\ Restored(c) \in Seq(Msg) /\ IsInjective(Restored(c))
                        /\ \A m \in ToSet(Restored(c)) : ChatOf[m] = c
    BY <2>1, RestoredLists
  <2>4. /\ pending' \in [Chat -> Seq(Msg)]
        /\ \A d \in Chat : IsInjective(pending'[d]) /\ \A n \in ToSet(pending'[d]) : ChatOf[n] = d
    BY <2>2, <2>3
  <2>5. ready' \in Seq(Chat)
    BY <2>1, <2>2, RestoredChatsList
  <2>6. restarts' \in 0..MaxRestarts /\ <<>> \in Seq(Msg) /\ 0 \in 0..opened
    BY <1>1, <1>21, EmptySeq DEF Restart
  <2> QED
    BY <1>1, <1>21, <2>1, <2>4, <2>5, <2>6 DEF Restart
<1>22. CASE UNCHANGED vars
  BY <1>1, <1>22 DEF vars
<1> QED
  BY <1>2, <1>3, <1>4, <1>5, <1>6, <1>7, <1>8, <1>9, <1>10, <1>11, <1>12, <1>13, <1>14, <1>15,
     <1>16, <1>17, <1>18, <1>19, <1>20, <1>21, <1>22 DEF Next

(* No step leaves the pump with a hand or a pointer that is empty. *)
LEMMA HandHolds == IInv /\ [Next]_vars => HandIsFull' /\ PointerHasItsBatch'
<1> SUFFICES ASSUME IInv, [Next]_vars PROVE HandIsFull' /\ PointerHasItsBatch'
  OBVIOUS
<1>1. TypeOK /\ HandIsFull /\ PointerHasItsBatch
  BY DEF IInv, QueueIsSound
<1>2. /\ opened \in Nat /\ inFlight \in 0..opened /\ current \in 0..opened
      /\ batches \in Seq(Seq(Msg)) /\ Len(batches) = opened /\ batch \in Seq(Msg)
  BY <1>1 DEF TypeOK
<1> USE DEF HandIsFull, PointerHasItsBatch, input, lists, switches, work, volume, counters, NoTurn
<1>3. ASSUME NEW m \in Msg, Arrive(m) \/ Refuse(m) \/ Admit(m) PROVE HandIsFull' /\ PointerHasItsBatch'
  BY <1>1, <1>3 DEF Arrive, Refuse, Admit
<1>4. ASSUME NEW c \in Chat, Debounced(c) PROVE HandIsFull' /\ PointerHasItsBatch'
  BY <1>1, <1>4, KickGoes, LoopGoes DEF Debounced, Yielded
<1>5. ASSUME NEW c \in Chat, StopChat(c) PROVE HandIsFull' /\ PointerHasItsBatch'
  BY <1>1, <1>5 DEF StopChat, Yielded, FinishTurn
<1>6. ASSUME NEW c \in Chat, StartChat(c) PROVE HandIsFull' /\ PointerHasItsBatch'
  BY <1>1, <1>6 DEF StartChat
<1>7. CASE TurnEnds
  BY <1>1, <1>7 DEF TurnEnds, FinishTurn
<1>8. CASE Take
  <2> DEFINE c == Head(ready)
  <2>1. c \in Chat /\ pending[c] # <<>> /\ batch' = Taken(c) /\ target' = c
    BY <1>1, <1>8, RotationHolds DEF Take, IInv, QueueIsSound, NoStrandedChat
  <2>2. batch' # <<>> /\ Len(batch') <= MaxBatch /\ \A m \in ToSet(batch') : ChatOf[m] = target'
    BY <1>1, <2>1, TakenAndRest DEF TypeOK
  <2>3. inFlight' = NoTurn /\ opened' # NoTurn /\ pump' = "preparing"
    BY <1>1, <1>2, <1>8 DEF Take, TurnOver
  <2> QED
    BY <2>2, <2>3
<1>9. CASE SkipTurn
  BY <1>1, <1>9, LoopGoes DEF SkipTurn, TurnOver
<1>10. CASE DeliverFails
  BY <1>1, <1>10 DEF DeliverFails
<1>11. CASE BackoffOver
  BY <1>1, <1>11 DEF BackoffOver
<1>12. CASE WriteBatch
  <2>1. opened \in 1..Len(batches) /\ inFlight = NoTurn /\ batch # <<>>
    BY <1>1, <1>2, <1>12 DEF WriteBatch
  <2>2. batches'[opened] = batch
    BY <1>2, <1>12, <2>1 DEF WriteBatch
  <2> QED
    BY <1>1, <1>12, <2>1, <2>2 DEF WriteBatch
<1>13. CASE WritePointer
  BY <1>1, <1>13 DEF WritePointer
<1>14. CASE Settle
  BY <1>1, <1>14 DEF Settle
<1>15. CASE Started
  BY <1>1, <1>15, LoopGoes DEF Started
<1>16. CASE Watchdog
  BY <1>1, <1>16, LoopGoes DEF Watchdog
<1>17. CASE Hold
  BY <1>1, <1>17 DEF Hold
<1>18. CASE Release
  BY <1>1, <1>18, KickGoes, LoopGoes DEF Release, Yielded
<1>19. CASE StopNow
  BY <1>1, <1>19 DEF StopNow, Yielded, FinishTurn
<1>20. CASE Restart
  BY <1>1, <1>20 DEF Restart
<1>21. CASE UNCHANGED vars
  BY <1>1, <1>21 DEF vars
<1> QED
  BY <1>3, <1>4, <1>5, <1>6, <1>7, <1>8, <1>9, <1>10, <1>11, <1>12, <1>13, <1>14, <1>15,
     <1>16, <1>17, <1>18, <1>19, <1>20, <1>21 DEF Next

(* No step strands a chat: what it leaves in a list has a place or a timer. *)
LEMMA NoneIsStranded == IInv /\ [Next]_vars => NoStrandedChat'
<1> SUFFICES ASSUME IInv, [Next]_vars PROVE NoStrandedChat'
  OBVIOUS
<1>1. TypeOK /\ NoStrandedChat
  BY DEF IInv, QueueIsSound
<1>2. pending \in [Chat -> Seq(Msg)] /\ ready \in Seq(Chat) /\ IsInjective(ready) /\ target \in Chat
  BY <1>1 DEF TypeOK, NoStrandedChat
<1> USE DEF NoStrandedChat, input, lists, work
<1>3. ASSUME NEW m \in Msg, Admit(m) PROVE NoStrandedChat'
  <2>1. ChatOf[m] \in Chat
    BY DispatcherAssumption
  <2>2. \A c \in Chat : c # ChatOf[m] => pending'[c] = pending[c]
    BY <1>2, <1>3, <2>1 DEF Admit
  <2> QED
    BY <1>1, <1>3, <2>2 DEF Admit
<1>4. ASSUME NEW c \in Chat, Debounced(c) PROVE NoStrandedChat'
  <2>1. IsInjective(ready') /\ ToSet(ready') = ToSet(ready) \cup {c}
    BY <1>2, <1>4, MadeReady DEF Debounced
  <2> QED
    BY <1>1, <1>4, <2>1 DEF Debounced
<1>5. CASE Take
  <2> DEFINE c == Head(ready)
  <2>1. /\ c \in Chat /\ IsInjective(ready') /\ ToSet(ready) \ {c} \subseteq ToSet(ready')
        /\ Rest(c) # <<>> => c \in ToSet(ready')
    BY <1>1, <1>2, <1>5, RotationHolds DEF Take
  <2> HIDE DEF c
  <2>2. pending' = [pending EXCEPT ![c] = Rest(c)] /\ debounces' = debounces
    BY <1>5 DEF Take, c
  <2>3. pending'[c] = Rest(c) /\ \A d \in Chat : d # c => pending'[d] = pending[d]
    BY <1>2, <2>1, <2>2
  <2> QED
    BY <1>1, <2>1, <2>2, <2>3
<1>6. CASE SkipTurn
  <2>1. CASE ready = <<>>
    BY <1>1, <1>6, <2>1 DEF SkipTurn
  <2>2. CASE ready # <<>>
    <3>1. IsInjective(Tail(ready)) /\ ToSet(ready) \ {Head(ready)} \subseteq ToSet(Tail(ready))
      BY <1>1, <1>2, <2>2, RotationHolds
    <3>2. ready' = Tail(ready) /\ pending[Head(ready)] = <<>> /\ UNCHANGED <<pending, debounces>>
      BY <1>6, <2>2 DEF SkipTurn
    <3> QED
      BY <1>1, <3>1, <3>2
  <2> QED
    BY <2>1, <2>2
<1>7. CASE DeliverFails
  <2>1. IsInjective(ready') /\ ToSet(ready') = ToSet(ready) \cup {target}
    BY <1>2, <1>7, MadeReady DEF DeliverFails
  <2>2. \A c \in Chat : c # target => pending'[c] = pending[c]
    BY <1>2, <1>7 DEF DeliverFails
  <2>3. debounces' = debounces
    BY <1>7 DEF DeliverFails
  <2> QED
    BY <1>1, <2>1, <2>2, <2>3
<1>8. CASE Restart
  <2>1. queue' \subseteq Msg /\ pending' = [c \in Chat |-> Restored(c)] /\ ready' = RestoredChats
    BY <1>1, <1>8, RestartQueue DEF Restart
  <2>2. IsInjective(ready') /\ ToSet(ready') = {ChatOf[m] : m \in queue'}
    BY <2>1, RestoredChatsList
  <2>3. ASSUME NEW c \in Chat, c \notin ToSet(ready') PROVE pending'[c] = <<>>
    <3>1. Restored(c) \in Seq(Msg) /\ ToSet(Restored(c)) = {}
      BY <2>1, <2>2, <2>3, RestoredLists
    <3>2. Restored(c) = <<>>
      BY <3>1, WithoutHead
    <3> QED
      BY <2>1, <3>2
  <2> QED
    BY <2>2, <2>3
<1>9. CASE UNCHANGED <<pending, ready, debounces>>
  BY <1>1, <1>9
<1>10. ASSUME NEW m \in Msg, Arrive(m) \/ Refuse(m) PROVE UNCHANGED <<pending, ready, debounces>>
  BY <1>10 DEF Arrive, Refuse
<1>11. ASSUME NEW c \in Chat, StopChat(c) \/ StartChat(c) PROVE UNCHANGED <<pending, ready, debounces>>
  BY <1>11 DEF StopChat, StartChat
<1>12. TurnEnds \/ BackoffOver \/ WriteBatch \/ WritePointer \/ Settle \/ Started \/ Watchdog
         \/ Hold \/ Release \/ StopNow => UNCHANGED <<pending, ready, debounces>>
  BY DEF TurnEnds, BackoffOver, WriteBatch, WritePointer, Settle, Started, Watchdog, Hold, Release, StopNow
<1>13. UNCHANGED vars => UNCHANGED <<pending, ready, debounces>>
  BY DEF vars
<1> QED
  BY <1>3, <1>4, <1>5, <1>6, <1>7, <1>8, <1>9, <1>10, <1>11, <1>12, <1>13 DEF Next

----------------------------------------------------------------------------
(* The lines *)

(* The steps that leave every line as it is: taking a batch and putting it back
   only move its messages between the list and the hand. *)
LEMMA LineOfTake ==
  ASSUME IInv, Take, NEW d \in Chat
  PROVE  WaitingIn(d)' = WaitingIn(d)
<1> DEFINE c == Head(ready)
<1>1. TypeOK /\ IsInjective(ready) /\ pending \in [Chat -> Seq(Msg)]
  BY DEF IInv, QueueIsSound, NoStrandedChat, TypeOK
<1>2. c \in Chat
  BY <1>1, RotationHolds DEF Take
<1>3. Taken(c) \o Rest(c) = pending[c]
  BY <1>1, <1>2, TakenAndRest
<1>4. pending' = [pending EXCEPT ![c] = Rest(c)] /\ batch' = Taken(c) /\ target' = c /\ pump' = "preparing"
  BY DEF Take
<1>5. InHand = <<>>
  BY DEF Take, TurnOver, InHand
<1>6. WaitingIn(d) = pending[d]
  <2>1. pending[d] \in Seq(Msg)
    BY <1>1
  <2> QED
    BY <1>5, <2>1, ConcatEmptySeq DEF WaitingIn
<1> HIDE DEF c
<1>7. CASE d = c
  <2>1. pending'[d] = Rest(d)
    BY <1>1, <1>2, <1>4, <1>7
  <2> QED
    BY <1>3, <1>4, <1>6, <1>7, <2>1 DEF WaitingIn, InHand
<1>8. CASE d # c
  <2>1. pending'[d] = pending[d]
    BY <1>1, <1>2, <1>4, <1>8
  <2> QED
    BY <1>4, <1>6, <1>8, <2>1 DEF WaitingIn, InHand
<1> QED
  BY <1>7, <1>8

LEMMA LineOfFailure ==
  ASSUME IInv, DeliverFails, NEW d \in Chat
  PROVE  WaitingIn(d)' = WaitingIn(d)
<1>1. pending \in [Chat -> Seq(Msg)] /\ batch \in Seq(Msg)
  BY DEF IInv, TypeOK
<1>2. InHand = batch /\ InHand' = <<>>
  BY DEF DeliverFails, InHand
<1>3. pending' = [pending EXCEPT ![target] = batch \o pending[target]] /\ target' = target
  BY DEF DeliverFails, Requeued
<1>4. CASE d = target
  <2>1. batch \o pending[target] \in Seq(Msg)
    BY <1>1, <1>4, ConcatProperties
  <2>2. <<>> \o (batch \o pending[target]) = batch \o pending[target]
    BY <2>1, ConcatEmptySeq
  <2>3. pending'[d] = batch \o pending[target]
    BY <1>1, <1>3, <1>4
  <2> QED
    BY <1>2, <1>3, <1>4, <2>2, <2>3 DEF WaitingIn
<1>5. CASE d # target
  <2>1. pending'[d] = pending[d]
    BY <1>1, <1>3, <1>5
  <2> QED
    BY <1>3, <1>5, <2>1 DEF WaitingIn
<1> QED
  BY <1>4, <1>5

(* The steps other than those that accept, write the pointer or restart. *)
Quiet ==
  \/ \E m \in Msg : Arrive(m) \/ Refuse(m)
  \/ \E c \in Chat : Debounced(c) \/ StopChat(c) \/ StartChat(c)
  \/ TurnEnds \/ Take \/ SkipTurn
  \/ DeliverFails \/ BackoffOver \/ WriteBatch \/ Settle \/ Started
  \/ Watchdog \/ Hold \/ Release \/ StopNow
  \/ UNCHANGED vars

LEMMA LinesStay ==
  ASSUME IInv, Quiet
  PROVE  /\ \A c \in Chat : WaitingIn(c)' = WaitingIn(c)
         /\ UNCHANGED <<admitted, handed, restarts>>
         /\ queue' = queue \/ (Settle /\ queue' = queue \ ToSet(batch))
<1> USE DEF input, lists, switches, work, volume, counters
<1> DEFINE Stays == pending' = pending /\ target' = target /\ InHand' = InHand
           Kept == UNCHANGED <<admitted, handed, restarts>>
           Disk == queue' = queue \/ (Settle /\ queue' = queue \ ToSet(batch))
<1>1. CASE Stays
  <2>1. \A c \in Chat : WaitingIn(c)' = WaitingIn(c)
    BY <1>1 DEF WaitingIn
  <2>2. Kept /\ Disk
    BY DEF Quiet, Arrive, Refuse, Debounced, StopChat, StartChat, TurnEnds, Take, SkipTurn, DeliverFails,
           BackoffOver, WriteBatch, Settle, Started, Watchdog, Hold, Release, StopNow, vars
  <2> QED
    BY <2>1, <2>2
<1>2. CASE Take
  BY <1>2, LineOfTake DEF Take
<1>3. CASE DeliverFails
  BY <1>3, LineOfFailure DEF DeliverFails
<1>4. ASSUME NEW m \in Msg, Arrive(m) \/ Refuse(m) PROVE Stays
  BY <1>4 DEF Arrive, Refuse, InHand
<1>5. ASSUME NEW c \in Chat, Debounced(c) PROVE Stays
  BY <1>5, KickGoes, LoopGoes DEF Debounced, InHand
<1>6. ASSUME NEW c \in Chat, StopChat(c) \/ StartChat(c) PROVE Stays
  BY <1>6 DEF StopChat, StartChat, InHand
<1>7. TurnEnds \/ BackoffOver \/ WriteBatch \/ Settle => Stays
  BY DEF TurnEnds, BackoffOver, WriteBatch, Settle, InHand
<1>8. Hold \/ StopNow \/ UNCHANGED vars => Stays
  BY DEF Hold, StopNow, vars, InHand
<1>9. SkipTurn => Stays
  BY LoopGoes DEF SkipTurn, TurnOver, InHand
<1>10. Started \/ Watchdog => Stays
  BY LoopGoes DEF Started, Watchdog, InHand
<1>11. Release => Stays
  BY KickGoes, LoopGoes DEF Release, InHand
<1> HIDE DEF Stays
<1> QED
  BY <1>1, <1>2, <1>3, <1>4, <1>5, <1>6, <1>7, <1>8, <1>9, <1>10, <1>11 DEF Quiet

(* Accepting a message puts it last in its chat's line. *)
LEMMA LineOfAdmit ==
  ASSUME IInv, NEW m \in Msg, Admit(m), NEW d \in Chat
  PROVE  /\ ChatOf[m] \in Chat
         /\ WaitingIn(d)' = IF d = ChatOf[m] THEN Append(WaitingIn(d), m) ELSE WaitingIn(d)
<1>1. pending \in [Chat -> Seq(Msg)] /\ TypeOK /\ ChatOf[m] \in Chat
  BY DispatcherAssumption DEF IInv, TypeOK
<1>2. InHand \in Seq(Msg) /\ pending[d] \in Seq(Msg)
  BY <1>1, LineTypes
<1>3. InHand' = InHand /\ target' = target /\ pending' = [pending EXCEPT ![ChatOf[m]] = Append(@, m)]
  BY DEF Admit, work, InHand
<1>4. CASE d = ChatOf[m]
  <2>1. pending'[d] = Append(pending[d], m)
    BY <1>1, <1>3, <1>4
  <2>2. InHand \o Append(pending[d], m) = Append(InHand \o pending[d], m)
    <3> DEFINE s == InHand
               t == pending[d]
    <3>1. s \in Seq(Msg) /\ t \in Seq(Msg) /\ <<m>> \in Seq(Msg) /\ s \o t \in Seq(Msg)
      BY <1>2, ConcatProperties
    <3> HIDE DEF s, t
    <3>2. Append(t, m) = t \o <<m>> /\ Append(s \o t, m) = (s \o t) \o <<m>>
      BY <3>1, AppendIsConcat
    <3>3. (s \o t) \o <<m>> = s \o (t \o <<m>>)
      BY <3>1, ConcatAssociative
    <3> QED
      BY <3>2, <3>3 DEF s, t
  <2> QED
    BY <1>1, <1>3, <1>4, <2>1, <2>2 DEF WaitingIn
<1>5. CASE d # ChatOf[m]
  <2>1. pending'[d] = pending[d]
    BY <1>1, <1>3, <1>5
  <2> QED
    BY <1>1, <1>3, <1>5, <2>1 DEF WaitingIn
<1> QED
  BY <1>4, <1>5

(* Writing the pointer takes the batch off the front of its chat's line. *)
LEMMA LineOfPointer ==
  ASSUME IInv, WritePointer, NEW d \in Chat
  PROVE  /\ batch \in Seq(Msg) /\ pending[target] \in Seq(Msg) /\ target \in Chat
         /\ d = target => WaitingIn(d) = batch \o pending[d] /\ WaitingIn(d)' = pending[d]
         /\ d # target => WaitingIn(d)' = WaitingIn(d)
<1>1. pending \in [Chat -> Seq(Msg)] /\ batch \in Seq(Msg) /\ target \in Chat
  BY DEF IInv, TypeOK
<1>2. InHand = batch /\ InHand' = <<>> /\ UNCHANGED <<pending, target>>
  BY DEF WritePointer, lists, InHand
<1>3. pending[d] \in Seq(Msg) /\ <<>> \o pending[d] = pending[d]
  BY <1>1, ConcatEmptySeq
<1> QED
  BY <1>1, <1>2, <1>3 DEF WaitingIn

(* A restart makes every line again from the files. *)
LEMMA LineOfRestart ==
  ASSUME IInv, Restart, NEW d \in Chat
  PROVE  /\ WaitingIn(d)' \in Seq(Msg) /\ IsInjective(WaitingIn(d)') /\ Increasing(Stamp, WaitingIn(d)')
         /\ ToSet(WaitingIn(d)') = {m \in queue' : ChatOf[m] = d}
<1>1. /\ Restored(d) \in Seq(Msg) /\ IsInjective(Restored(d)) /\ Increasing(Stamp, Restored(d))
      /\ ToSet(Restored(d)) = {m \in queue' : ChatOf[m] = d}
  BY RestartQueue, RestoredLists DEF IInv
<1>2. InHand' = <<>> /\ pending'[d] = Restored(d)
  BY DEF Restart, InHand
<1>3. <<>> \o Restored(d) = Restored(d)
  BY <1>1, ConcatEmptySeq
<1>4. WaitingIn(d)' = Restored(d)
  BY <1>2, <1>3 DEF WaitingIn
<1> QED
  BY <1>1, <1>4

----------------------------------------------------------------------------
(* The order of acceptance *)

(* Accepting one more message moves none that was accepted, and it comes last. *)
LEMMA OrderStands ==
  ASSUME IInv, NEW k \in Msg, Admit(k)
  PROVE  /\ \A m : WasAdmitted(m) => WasAdmitted(m)' /\ Place(admitted', m) = Place(admitted, m)
         /\ \A m, n, life : WasAdmitted(m) /\ WasAdmitted(n) =>
              (Before(admitted', m, n, life) <=> Before(admitted, m, n, life))
         /\ \A m : WasAdmitted(m)' <=> WasAdmitted(m) \/ m = k
         /\ \A m : WasAdmitted(m) => Before(admitted', m, k, restarts)
<1> DEFINE e == [msg |-> k, life |-> restarts]
           n == Len(admitted)
<1>1. TypeOK /\ AcceptedOnce /\ ~WasAdmitted(k) /\ restarts' = restarts
  <2>1. k \in parsing /\ ChatOf[k] \in Chat /\ restarts' = restarts
    BY DispatcherAssumption DEF Admit, counters
  <2> QED
    BY <2>1, ParsedIsNew DEF IInv
<1>2. admitted \in Seq(MsgAt) /\ e \in MsgAt /\ admitted' = Append(admitted, e)
  BY <1>1 DEF Admit, TypeOK, MsgAt
<1>3. /\ n \in Nat /\ DOMAIN admitted = 1..n /\ DOMAIN admitted' = 1..(n + 1)
      /\ \A i \in 1..n : admitted'[i] = admitted[i]
      /\ admitted'[n + 1] = e
  BY <1>2, AppendProperties
<1> HIDE DEF n
<1>4. \A m : WasAdmitted(m)' <=> WasAdmitted(m) \/ m = k
  <2>1. \A i \in 1..(n + 1) : i \in 1..n \/ i = n + 1
    BY <1>3
  <2>2. n + 1 \in 1..(n + 1) /\ 1..n \subseteq 1..(n + 1) /\ e.msg = k
    BY <1>3
  <2>3. ASSUME NEW m, WasAdmitted(m) PROVE WasAdmitted(m)'
    BY <1>3, <2>2, <2>3 DEF WasAdmitted
  <2>4. WasAdmitted(k)'
    BY <1>3, <2>2 DEF WasAdmitted
  <2>5. ASSUME NEW m, WasAdmitted(m)', m # k PROVE WasAdmitted(m)
    BY <1>3, <2>1, <2>2, <2>5 DEF WasAdmitted
  <2> QED
    BY <2>3, <2>4, <2>5
<1>5. ASSUME NEW m, WasAdmitted(m)
      PROVE  /\ Place(admitted, m) \in 1..n /\ Place(admitted', m) = Place(admitted, m)
             /\ admitted'[Place(admitted, m)] = admitted[Place(admitted, m)]
  <2>1. Place(admitted, m) \in 1..n /\ admitted[Place(admitted, m)].msg = m
    BY <1>1, <1>3, <1>5, IndexTypes
  <2>2. m # k
    BY <1>1, <1>5
  <2>3. ASSUME NEW i \in 1..(n + 1), admitted'[i].msg = m PROVE i = Place(admitted, m)
    <3>1. i \in 1..n
      BY <1>3, <2>2, <2>3
    <3> QED
      BY <1>1, <1>3, <2>1, <2>3, <3>1 DEF AcceptedOnce
  <2>4. Place(admitted, m) \in 1..(n + 1) /\ admitted'[Place(admitted, m)].msg = m
    BY <1>3, <2>1
  <2>5. (CHOOSE i \in DOMAIN admitted' : admitted'[i].msg = m) = Place(admitted, m)
    BY <1>3, <2>3, <2>4
  <2>6. Place(admitted', m) = Place(admitted, m)
    BY <2>5 DEF Place
  <2> QED
    BY <1>3, <2>1, <2>6
<1>6. Place(admitted', k) = n + 1
  <2>1. ASSUME NEW i \in 1..(n + 1), admitted'[i].msg = k PROVE i = n + 1
    BY <1>1, <1>3, <2>1 DEF WasAdmitted
  <2>2. n + 1 \in 1..(n + 1) /\ admitted'[n + 1].msg = k
    BY <1>3
  <2>3. (CHOOSE i \in DOMAIN admitted' : admitted'[i].msg = k) = n + 1
    BY <1>3, <2>1, <2>2
  <2> QED
    BY <2>3 DEF Place
<1>7. ASSUME NEW m, NEW o, NEW life, WasAdmitted(m), WasAdmitted(o)
      PROVE  Before(admitted', m, o, life) <=> Before(admitted, m, o, life)
  <2>1. Place(admitted', m) = Place(admitted, m) /\ admitted'[Place(admitted, m)] = admitted[Place(admitted, m)]
    BY <1>5, <1>7
  <2>2. Place(admitted', o) = Place(admitted, o) /\ admitted'[Place(admitted, o)] = admitted[Place(admitted, o)]
    BY <1>5, <1>7
  <2> QED
    BY <2>1, <2>2 DEF Before
<1>8. ASSUME NEW m, WasAdmitted(m) PROVE Before(admitted', m, k, restarts)
  <2>1. Place(admitted', m) \in 1..n
    BY <1>5, <1>8
  <2>2. admitted'[Place(admitted', k)].life = restarts /\ restarts \in Nat
    BY <1>1, <1>3, <1>6 DEF TypeOK
  <2>3. ~(admitted'[Place(admitted', k)].life < restarts) /\ Place(admitted', m) < Place(admitted', k)
    BY <1>3, <1>6, <2>1, <2>2
  <2> QED
    BY <2>3 DEF Before
<1> QED
  BY <1>4, <1>5, <1>7, <1>8

(* No step accepts a message twice, or hands over one that was not accepted. *)
LEMMA AcceptedHolds == IInv /\ [Next]_vars => AcceptedOnce'
<1> SUFFICES ASSUME IInv, [Next]_vars PROVE AcceptedOnce'
  OBVIOUS
<1>1. TypeOK /\ AcceptedOnce
  BY DEF IInv
<1>2. ASSUME NEW k \in Msg, Admit(k) PROVE AcceptedOnce'
  <2> DEFINE n == Len(admitted)
             e == [msg |-> k, life |-> restarts]
  <2>1. ~WasAdmitted(k) /\ k \in parsing
    <3>1. k \in parsing /\ ChatOf[k] \in Chat
      BY <1>2, DispatcherAssumption DEF Admit
    <3> QED
      BY <3>1, ParsedIsNew
  <2>2. admitted \in Seq(MsgAt) /\ e \in MsgAt /\ admitted' = Append(admitted, e)
    BY <1>1, <1>2 DEF Admit, TypeOK, MsgAt
  <2>3. /\ n \in Nat /\ DOMAIN admitted = 1..n /\ DOMAIN admitted' = 1..(n + 1)
        /\ \A i \in 1..n : admitted'[i] = admitted[i]
        /\ admitted'[n + 1] = e
    BY <2>2, AppendProperties
  <2> HIDE DEF n
  <2>4. \A i \in 1..(n + 1) : i \in 1..n \/ i = n + 1
    BY <2>3
  <2>5. \A i \in 1..n : admitted[i].msg # k
    BY <2>1, <2>3 DEF WasAdmitted
  <2>6. \A i, j \in 1..(n + 1) : admitted'[i].msg = admitted'[j].msg => i = j
    BY <1>1, <2>3, <2>4, <2>5 DEF AcceptedOnce
  <2>7. /\ seen' = seen /\ parsing' = parsing \ {k} /\ restarts' = restarts /\ handed' = handed
        /\ queue' = queue \cup {k} /\ parsing \subseteq seen /\ restarts \in Nat
    BY <1>1, <1>2 DEF Admit, Saved, counters, TypeOK
  <2>8. \A i \in 1..(n + 1) : admitted'[i].msg \in seen' \ parsing' /\ admitted'[i].life <= restarts'
    BY <1>1, <2>1, <2>3, <2>4, <2>7 DEF AcceptedOnce
  <2>9. \A m : WasAdmitted(m)' <=> WasAdmitted(m) \/ m = k
    BY <1>2, OrderStands
  <2>10. ASSUME NEW m \in queue' PROVE WasAdmitted(m)'
    BY <1>1, <2>7, <2>9 DEF AcceptedOnce
  <2>11. ASSUME NEW i \in DOMAIN handed' PROVE WasAdmitted(handed[i].msg)' /\ handed'[i].life <= restarts'
    <3>1. i \in DOMAIN handed /\ WasAdmitted(handed[i].msg) /\ handed[i].life <= restarts
      BY <1>1, <2>7 DEF AcceptedOnce
    <3> QED
      BY <2>7, <2>9, <3>1
  <2>12. \A i, j \in DOMAIN admitted' : admitted'[i].msg = admitted'[j].msg => i = j
    BY <2>3, <2>6
  <2>13. \A i \in DOMAIN admitted' : admitted'[i].msg \in seen' \ parsing' /\ admitted'[i].life <= restarts'
    BY <2>3, <2>8
  <2> QED
    BY <2>7, <2>10, <2>11, <2>12, <2>13 DEF AcceptedOnce
<1>3. CASE WritePointer
  <2> DEFINE h == [i \in DOMAIN batch |-> [msg |-> batch[i], life |-> restarts]]
  <2>1. UNCHANGED <<admitted, queue, seen, parsing, restarts>> /\ handed' = handed \o h
    BY <1>3 DEF WritePointer, input, counters
  <2>2. /\ batch \in Seq(Msg) /\ restarts \in Nat /\ target \in Chat /\ restarts \in 0..MaxRestarts
        /\ handed \in Seq(MsgAt)
    BY <1>1 DEF TypeOK
  <2>3. DOMAIN h = 1..Len(batch) /\ Len(batch) \in Nat
    BY <2>2
  <2>4. \A i \in DOMAIN h : h[i] = [msg |-> batch[i], life |-> restarts] /\ h[i] \in MsgAt
    BY <2>2 DEF MsgAt
  <2>5. h \in Seq(MsgAt)
    BY <2>3, <2>4
  <2>6. \A i \in DOMAIN h : WasAdmitted(h[i].msg) /\ h[i].life <= restarts
    <3>1. batch \in Seq(Msg) /\ pending[target] \in Seq(Msg) /\ WaitingIn(target) = batch \o pending[target]
      BY <1>3, <2>2, LineOfPointer
    <3>2. \A i \in DOMAIN batch : batch[i] \in ToSet(WaitingIn(target))
      BY <3>1, ToSetOfConcat DEF ToSet
    <3>3. \A m \in ToSet(WaitingIn(target)) : WasAdmitted(m)
      BY <2>2, LineIsInjective DEF IInv
    <3> QED
      BY <2>2, <2>4, <3>2, <3>3
  <2> HIDE DEF h
  <2>7. \A i \in DOMAIN handed' : handed'[i] \in ToSet(handed) \cup ToSet(h)
    BY <2>1, <2>2, <2>5, ToSetOfConcat DEF ToSet
  <2>8. \A i \in DOMAIN handed' : WasAdmitted(handed'[i].msg) /\ handed'[i].life <= restarts
    BY <1>1, <2>6, <2>7 DEF AcceptedOnce, ToSet
  <2>9. \A m : WasAdmitted(m)' <=> WasAdmitted(m)
    BY <2>1 DEF WasAdmitted
  <2> QED
    BY <1>1, <2>1, <2>8, <2>9 DEF AcceptedOnce
<1>4. CASE Restart
  <2>1. queue' \subseteq queue /\ restarts' = restarts + 1 /\ restarts \in Nat /\ UNCHANGED <<admitted, handed, seen>>
    BY <1>1, <1>4, RestartQueue DEF Restart, TypeOK
  <2>2. parsing' = {}
    BY <1>4 DEF Restart
  <2> \A x \in MsgAt : x.life \in Nat
    BY DEF MsgAt
  <2>3. \A i \in DOMAIN admitted : admitted[i].life \in Nat
    <3>1. \A i \in DOMAIN admitted : admitted[i] \in MsgAt
      BY <1>1 DEF TypeOK
    <3> QED
      BY <3>1
  <2>4. \A i \in DOMAIN handed : handed[i].life \in Nat
    <3>1. \A i \in DOMAIN handed : handed[i] \in MsgAt
      BY <1>1 DEF TypeOK
    <3> QED
      BY <3>1
  <2>5. \A m : WasAdmitted(m)' <=> WasAdmitted(m)
    BY <2>1 DEF WasAdmitted
  <2>6. \A i \in DOMAIN admitted' : admitted'[i].msg \in seen' \ parsing' /\ admitted'[i].life <= restarts'
    BY <1>1, <2>1, <2>2, <2>3 DEF AcceptedOnce
  <2>7. ASSUME NEW i \in DOMAIN handed' PROVE WasAdmitted(handed[i].msg)' /\ handed'[i].life <= restarts'
    <3>1. i \in DOMAIN handed /\ WasAdmitted(handed[i].msg) /\ handed[i].life <= restarts
      BY <1>1, <2>1 DEF AcceptedOnce
    <3> QED
      BY <2>1, <2>4, <2>5, <3>1
  <2> QED
    BY <1>1, <2>1, <2>5, <2>6, <2>7 DEF AcceptedOnce
<1>5. CASE Quiet
  <2>1. queue' \subseteq queue /\ UNCHANGED <<admitted, handed, restarts>>
    BY <1>5, LinesStay
  <2>2. \A m \in seen \ parsing : m \in seen' \ parsing'
    BY <1>5 DEF Quiet, input, Arrive, Refuse, Debounced, StopChat, StartChat, TurnEnds, Take, SkipTurn,
                DeliverFails, BackoffOver, WriteBatch, Settle, Started, Watchdog, Hold, Release, StopNow, vars
  <2>3. \A m : WasAdmitted(m)' <=> WasAdmitted(m)
    BY <2>1 DEF WasAdmitted
  <2> QED
    BY <1>1, <2>1, <2>2, <2>3 DEF AcceptedOnce
<1> QED
  BY <1>2, <1>3, <1>4, <1>5 DEF Next, Quiet

----------------------------------------------------------------------------
(* Nothing lost, nothing out of order *)

(* A line in order stays so when the history grows, and a message accepted last may
   be put behind it. *)
LEMMA LineStands ==
  ASSUME NEW adm, NEW adm2, NEW disk, NEW disk2, NEW given, NEW life, NEW c, NEW w,
         LineOK(adm, disk, given, life, c, w), NEW A,
         ToSet(w) \subseteq A, \A i \in DOMAIN given : given[i].msg \in A,
         \A m, n \in A : Before(adm2, m, n, life) <=> Before(adm, m, n, life),
         ToSet(w) \subseteq disk2
  PROVE  LineOK(adm2, disk2, given, life, c, w)
<1>1. \A i \in DOMAIN w : w[i] \in ToSet(w)
  BY DEF ToSet
<1> QED
  BY <1>1 DEF LineOK

LEMMA LineGrows ==
  ASSUME NEW adm, NEW disk, NEW given, NEW life, NEW c, NEW w \in Seq(Msg),
         LineOK(adm, disk, given, life, c, w), NEW k \in disk, k \in Msg, ChatOf[k] = c,
         \A m \in ToSet(w) : Before(adm, m, k, life),
         \A i \in DOMAIN given : Before(adm, given[i].msg, k, life)
  PROVE  LineOK(adm, disk, given, life, c, Append(w, k))
<1> DEFINE n == Len(w)
           v == Append(w, k)
<1>1. n \in Nat /\ DOMAIN w = 1..n /\ DOMAIN v = 1..(n + 1) /\ v[n + 1] = k /\ \A i \in 1..n : v[i] = w[i]
  BY AppendProperties
<1>2. ToSet(v) = ToSet(w) \cup {k}
  BY ToSetOfAppend
<1>3. \A i \in 1..n : w[i] \in ToSet(w)
  BY <1>1 DEF ToSet
<1> HIDE DEF n, v
<1>4. ASSUME NEW i \in 1..(n + 1), NEW j \in 1..(n + 1), i < j PROVE Before(adm, v[i], v[j], life)
  <2>1. i \in 1..n /\ (j \in 1..n \/ j = n + 1)
    BY <1>1, <1>4
  <2>2. CASE j \in 1..n
    BY <1>1, <1>4, <2>1, <2>2 DEF LineOK
  <2>3. CASE j = n + 1
    BY <1>1, <1>3, <2>1, <2>3
  <2> QED
    BY <2>1, <2>2, <2>3
<1>5. \A m \in ToSet(v) : m \in disk /\ ChatOf[m] = c
  BY <1>2 DEF LineOK
<1>6. \A i \in DOMAIN given : given[i].life = life /\ ChatOf[given[i].msg] = c =>
        \A m \in ToSet(v) : Before(adm, given[i].msg, m, life)
  BY <1>2 DEF LineOK
<1>7. LineOK(adm, disk, given, life, c, v)
  BY <1>1, <1>4, <1>5, <1>6 DEF LineOK
<1> QED
  BY <1>7 DEF v

(* What the order of acceptance has to do with, in one name. *)
Ordered == LinesInOrder /\ BatchIsHanded /\ NoMessageForgotten /\ HandedInOrder

LEMMA OrderedByAdmit ==
  ASSUME IInv, NEW k \in Msg, Admit(k)
  PROVE  Ordered'
<1> DEFINE A == {m \in Msg : WasAdmitted(m)}
           adm2 == admitted'
<1>1. TypeOK /\ AcceptedOnce /\ LinesInOrder /\ NoMessageForgotten /\ HandedInOrder
  BY DEF IInv, QueueIsSound
<1>2. restarts' = restarts /\ handed' = handed /\ queue' = queue \cup {k} /\ ChatOf[k] \in Chat
  BY DispatcherAssumption DEF Admit, Saved, counters
<1>3. \A i \in DOMAIN handed : handed[i].msg \in A
  BY <1>1, IndexTypes DEF AcceptedOnce
<1>4. /\ \A m, n \in A : \A life : Before(admitted', m, n, life) <=> Before(admitted, m, n, life)
      /\ \A m \in A : Before(admitted', m, k, restarts)
  BY OrderStands
<1>5. ASSUME NEW c \in Chat PROVE WaitingIn(c) \in Seq(Msg) /\ ToSet(WaitingIn(c)) \subseteq A
  BY <1>1, LineTypes, LineIsInjective, IndexTypes
<1> HIDE DEF A
<1>6. ASSUME NEW c \in Chat PROVE LineOK(admitted', queue', handed', restarts', c, WaitingIn(c)')
  <2>1. LineOK(admitted, queue, handed, restarts, c, WaitingIn(c))
    BY <1>1 DEF LinesInOrder
  <2>2. ToSet(WaitingIn(c)) \subseteq queue \cup {k}
    BY <2>1 DEF LineOK
  <2>3. LineOK(admitted', queue \cup {k}, handed, restarts, c, WaitingIn(c))
    BY <1>3, <1>4, <1>5, <2>1, <2>2, LineStands
  <2>4. CASE c = ChatOf[k]
    <3>1. k \in queue \cup {k} /\ \A m \in ToSet(WaitingIn(c)) : Before(admitted', m, k, restarts)
      BY <1>4, <1>5
    <3>2. \A i \in DOMAIN handed : Before(admitted', handed[i].msg, k, restarts)
      BY <1>3, <1>4
    <3>3. LineOK(admitted', queue \cup {k}, handed, restarts, c, Append(WaitingIn(c), k))
      BY <1>5, <2>3, <2>4, <3>1, <3>2, LineGrows
    <3>4. WaitingIn(c)' = Append(WaitingIn(c), k)
      BY <2>4, LineOfAdmit
    <3> QED
      BY <1>2, <3>3, <3>4
  <2>5. CASE c # ChatOf[k]
    <3>1. WaitingIn(c)' = WaitingIn(c)
      BY <2>5, LineOfAdmit
    <3> QED
      BY <1>2, <2>3, <3>1
  <2> QED
    BY <2>4, <2>5
<1>7. LinesInOrder'
  BY <1>6 DEF LinesInOrder
<1>8. BatchIsHanded'
  BY DEF Admit, Yielded, work, BatchIsHanded
<1>9. NoMessageForgotten'
  <2>1. \A m : WasHanded(m)' <=> WasHanded(m)
    BY <1>2 DEF WasHanded
  <2>2. ASSUME NEW m, WasAdmitted(m), ~WasHanded(m) PROVE m \in queue' /\ m \in ToSet(WaitingIn(ChatOf[m])')
    <3>1. m \in queue /\ m \in ToSet(WaitingIn(ChatOf[m])) /\ m \in Msg
      BY <1>1, <2>2, IndexTypes DEF NoMessageForgotten, WasAdmitted
    <3>2. ChatOf[m] \in Chat
      BY <3>1, DispatcherAssumption
    <3>3. \/ WaitingIn(ChatOf[m])' = Append(WaitingIn(ChatOf[m]), k)
          \/ WaitingIn(ChatOf[m])' = WaitingIn(ChatOf[m])
      BY <3>2, LineOfAdmit
    <3>4. ToSet(Append(WaitingIn(ChatOf[m]), k)) = ToSet(WaitingIn(ChatOf[m])) \cup {k}
      <4>1. WaitingIn(ChatOf[m]) \in Seq(Msg)
        BY <1>5, <3>2
      <4> QED
        BY <4>1, ToSetOfAppend
    <3>5. m \in ToSet(WaitingIn(ChatOf[m])')
      BY <3>1, <3>3, <3>4
    <3> QED
      BY <1>2, <3>1, <3>5
  <2>3. k \in queue' /\ k \in ToSet(WaitingIn(ChatOf[k])')
    <3>1. WaitingIn(ChatOf[k])' = Append(WaitingIn(ChatOf[k]), k) /\ WaitingIn(ChatOf[k]) \in Seq(Msg)
      BY <1>2, <1>5, LineOfAdmit
    <3> QED
      BY <1>2, <3>1, ToSetOfAppend
  <2>4. \A m : WasAdmitted(m)' <=> WasAdmitted(m) \/ m = k
    BY OrderStands
  <2>5. ASSUME NEW m, WasAdmitted(m)', ~WasHanded(m)'
        PROVE  m \in queue' /\ m \in ToSet(WaitingIn(ChatOf[m])')
    <3>1. ~WasHanded(m) /\ (WasAdmitted(m) \/ m = k)
      BY <2>1, <2>4, <2>5
    <3>2. CASE WasAdmitted(m)
      BY <2>2, <3>1, <3>2
    <3>3. CASE m = k
      BY <2>3, <3>3
    <3> QED
      BY <3>1, <3>2, <3>3
  <2> QED
    BY <2>5 DEF NoMessageForgotten, WasAdmitted
<1>10. HandedInOrder'
  BY <1>1, <1>2, <1>3, <1>4, QueuedIsBefore
<1> QED
  BY <1>7, <1>8, <1>9, <1>10 DEF Ordered

LEMMA OrderedByPointer ==
  ASSUME IInv, WritePointer
  PROVE  Ordered'
<1> DEFINE h == [i \in DOMAIN batch |-> [msg |-> batch[i], life |-> restarts]]
           p == pending[target]
<1>1. TypeOK /\ AcceptedOnce /\ LinesInOrder /\ NoMessageForgotten /\ HandedInOrder /\ HandIsFull
  BY DEF IInv, QueueIsSound
<1>2. UNCHANGED <<admitted, queue, restarts, batch>> /\ handed' = handed \o h
  BY DEF WritePointer, counters
<1> PICK t \in Chat : t = target
  BY <1>1 DEF TypeOK
<1>3. batch \in Seq(Msg) /\ p \in Seq(Msg) /\ handed \in Seq(MsgAt) /\ restarts \in 0..MaxRestarts
  BY <1>1 DEF TypeOK
<1>4. WaitingIn(t) = batch \o p /\ WaitingIn(t)' = p
  BY LineOfPointer
<1>5. \A c \in Chat : c # t => WaitingIn(c)' = WaitingIn(c)
  BY LineOfPointer
<1>6. \A i \in DOMAIN batch : ChatOf[batch[i]] = t
  BY <1>1 DEF HandIsFull, WritePointer, ToSet
<1>7. DOMAIN h = DOMAIN batch /\ DOMAIN batch = 1..Len(batch) /\ Len(batch) \in Nat
      /\ \A i \in DOMAIN h : h[i].msg = batch[i] /\ h[i].life = restarts /\ h[i] = [msg |-> batch[i], life |-> restarts]
  BY <1>3
<1>8. h \in Seq(MsgAt)
  <2>1. \A i \in DOMAIN h : h[i] \in MsgAt
    BY <1>3, <1>7 DEF MsgAt
  <2> QED
    BY <1>7, <2>1
<1>9. LineOK(admitted, queue, handed, restarts, t, batch \o p)
  BY <1>1, <1>3, <1>4 DEF LinesInOrder
<1> HIDE DEF h, p
<1>10. /\ \A i \in DOMAIN batch : i \in DOMAIN (batch \o p) /\ (batch \o p)[i] = batch[i]
       /\ \A j \in DOMAIN p : Len(batch) + j \in DOMAIN (batch \o p) /\ (batch \o p)[Len(batch) + j] = p[j]
       /\ \A i \in DOMAIN batch, j \in DOMAIN p : i < Len(batch) + j
       /\ DOMAIN p \subseteq Nat
  <2>1. DOMAIN p = 1..Len(p) /\ Len(p) \in Nat
    BY <1>3
  <2>2. DOMAIN p \subseteq Nat
    BY <2>1
  <2> QED
    BY <1>3, <2>2, ConcatProperties
<1>11. ToSet(batch \o p) = ToSet(batch) \cup ToSet(p)
  BY <1>3, ToSetOfConcat, ZenonT(40)
<1>12. \A i \in DOMAIN handed' :
         \/ i \in DOMAIN handed /\ handed'[i] = handed[i]
         \/ \E j \in DOMAIN batch : i = Len(handed) + j /\ handed'[i].msg = batch[j] /\ handed'[i].life = restarts
  <2>1. /\ Len(handed) \in Nat /\ DOMAIN handed = 1..Len(handed) /\ DOMAIN h = 1..Len(h) /\ Len(h) \in Nat
        /\ DOMAIN handed' = 1..(Len(handed) + Len(h))
        /\ \A i \in 1..(Len(handed) + Len(h)) :
             handed'[i] = IF i <= Len(handed) THEN handed[i] ELSE h[i - Len(handed)]
    BY <1>2, <1>3, <1>8, ConcatProperties
  <2>2. ASSUME NEW i \in DOMAIN handed', ~(i <= Len(handed))
        PROVE  i - Len(handed) \in DOMAIN h /\ i = Len(handed) + (i - Len(handed)) /\ handed'[i] = h[i - Len(handed)]
    BY <2>1, <2>2
  <2>3. ASSUME NEW i \in DOMAIN handed', i <= Len(handed) PROVE i \in DOMAIN handed /\ handed'[i] = handed[i]
    BY <2>1, <2>3
  <2> QED
    BY <1>7, <2>2, <2>3
<1>13. Len(handed) \in Nat /\ DOMAIN handed = 1..Len(handed) /\ DOMAIN handed' \subseteq Nat
  <2>1. handed' \in Seq(MsgAt)
    BY <1>2, <1>3, <1>8, ConcatProperties
  <2> QED
    BY <1>3, <2>1
<1>14. LineOK(admitted, queue, handed', restarts, t, p)
  <2>1. \A m \in ToSet(p) : m \in queue /\ ChatOf[m] = t
    BY <1>9, <1>11 DEF LineOK
  <2>2. ASSUME NEW i \in DOMAIN p, NEW j \in DOMAIN p, i < j PROVE Before(admitted, p[i], p[j], restarts)
    <3>1. Len(batch) + i < Len(batch) + j
      BY <1>7, <1>10, <2>2
    <3> QED
      BY <1>9, <1>10, <3>1 DEF LineOK
  <2>3. ASSUME NEW i \in DOMAIN handed', handed'[i].life = restarts, ChatOf[handed'[i].msg] = t, NEW m \in ToSet(p)
        PROVE  Before(admitted, handed'[i].msg, m, restarts)
    <3>1. CASE i \in DOMAIN handed /\ handed'[i] = handed[i]
      BY <1>9, <1>11, <2>3, <3>1 DEF LineOK
    <3>2. ASSUME NEW j \in DOMAIN batch, handed'[i].msg = batch[j] PROVE Before(admitted, handed'[i].msg, m, restarts)
      <4>1. PICK k \in DOMAIN p : m = p[k]
        BY <2>3 DEF ToSet
      <4> QED
        BY <1>9, <1>10, <3>2, <4>1 DEF LineOK
    <3> QED
      BY <1>12, <2>3, <3>1, <3>2
  <2> QED
    BY <2>1, <2>2, <2>3 DEF LineOK
<1>15. ASSUME NEW c \in Chat, c # t PROVE LineOK(admitted, queue, handed', restarts, c, WaitingIn(c))
  <2>1. LineOK(admitted, queue, handed, restarts, c, WaitingIn(c))
    BY <1>1 DEF LinesInOrder
  <2>2. ASSUME NEW i \in DOMAIN handed', handed'[i].life = restarts, ChatOf[handed'[i].msg] = c
        PROVE  i \in DOMAIN handed /\ handed'[i] = handed[i]
    BY <1>6, <1>12, <1>15, <2>2
  <2> QED
    BY <2>1, <2>2 DEF LineOK
<1>16. LinesInOrder'
  BY <1>2, <1>4, <1>5, <1>14, <1>15 DEF LinesInOrder
<1>17. \A m \in ToSet(batch) : \E i \in DOMAIN handed' : handed'[i] = [msg |-> m, life |-> restarts]
  <2>1. \A j \in DOMAIN h : Len(handed) + j \in DOMAIN handed' /\ handed'[Len(handed) + j] = h[j]
    BY <1>2, <1>3, <1>8, ConcatProperties
  <2> QED
    BY <1>7, <2>1 DEF ToSet
<1>18. BatchIsHanded'
  BY <1>2, <1>17 DEF BatchIsHanded
<1>19. \A m : WasHanded(m) => WasHanded(m)'
  <2>1. \A i \in DOMAIN handed : i \in DOMAIN handed' /\ handed'[i] = handed[i]
    BY <1>2, <1>3, <1>8, ConcatProperties
  <2> QED
    BY <2>1 DEF WasHanded
<1>20. \A m \in ToSet(batch) : WasHanded(m)'
  BY <1>17 DEF WasHanded
<1>21. NoMessageForgotten'
  <2>1. ASSUME NEW m, WasAdmitted(m), ~WasHanded(m)' PROVE m \in queue' /\ m \in ToSet(WaitingIn(ChatOf[m])')
    <3>1. m \in queue /\ m \in ToSet(WaitingIn(ChatOf[m])) /\ m \in Msg /\ m \notin ToSet(batch)
      BY <1>1, <1>19, <1>20, <2>1, IndexTypes DEF NoMessageForgotten, WasAdmitted
    <3>2. ChatOf[m] \in Chat
      BY <3>1, DispatcherAssumption
    <3>3. CASE ChatOf[m] = t
      <4>1. m \in ToSet(p)
        BY <1>4, <1>11, <3>1, <3>3
      <4> QED
        BY <1>2, <1>4, <3>1, <3>3, <4>1
    <3>4. CASE ChatOf[m] # t
      <4>1. WaitingIn(ChatOf[m])' = WaitingIn(ChatOf[m])
        BY <1>5, <3>2, <3>4
      <4> QED
        BY <1>2, <3>1, <4>1
    <3> QED
      BY <3>3, <3>4
  <2>2. \A m : WasAdmitted(m)' <=> WasAdmitted(m)
    BY <1>2 DEF WasAdmitted
  <2> QED
    BY <1>2, <2>1, <2>2 DEF NoMessageForgotten, WasAdmitted
<1>22. ASSUME NEW i \in DOMAIN handed', NEW j \in DOMAIN handed', i < j,
              handed'[i].life = handed'[j].life, ChatOf[handed'[i].msg] = ChatOf[handed'[j].msg]
       PROVE  Before(admitted, handed'[i].msg, handed'[j].msg, handed'[i].life)
  <2>1. CASE j \in DOMAIN handed /\ handed'[j] = handed[j]
    <3>1. i \in DOMAIN handed /\ handed'[i] = handed[i]
      BY <1>12, <1>13, <1>7, <1>22, <2>1
    <3> QED
      BY <1>1, <1>22, <2>1, <3>1, QueuedIsBefore
  <2>2. ASSUME NEW b \in DOMAIN batch, j = Len(handed) + b, handed'[j].msg = batch[b], handed'[j].life = restarts
        PROVE  Before(admitted, handed'[i].msg, handed'[j].msg, handed'[i].life)
    <3>1. CASE i \in DOMAIN handed /\ handed'[i] = handed[i]
      <4>1. batch[b] \in ToSet(batch \o p) /\ ChatOf[batch[b]] = t
        BY <1>6, <1>11 DEF ToSet
      <4> QED
        BY <1>9, <1>22, <2>2, <3>1, <4>1 DEF LineOK
    <3>2. ASSUME NEW a \in DOMAIN batch, i = Len(handed) + a, handed'[i].msg = batch[a], handed'[i].life = restarts
          PROVE  Before(admitted, handed'[i].msg, handed'[j].msg, handed'[i].life)
      <4>1. a < b
        BY <1>7, <1>13, <1>22, <2>2, <3>2
      <4> QED
        BY <1>9, <1>10, <2>2, <3>2, <4>1 DEF LineOK
    <3> QED
      BY <1>12, <1>22, <3>1, <3>2
  <2> QED
    BY <1>12, <1>22, <2>1, <2>2
<1>23. HandedInOrder'
  BY <1>2, <1>22, QueuedIsBefore
<1> QED
  BY <1>16, <1>18, <1>21, <1>23 DEF Ordered

(* A message that is off the disk, or about to be, was handed over. *)
LEMMA HandedIsNotWaiting ==
  ASSUME IInv, pump = "wrotePointer"
  PROVE  /\ \A m \in ToSet(batch) : WasHanded(m)
         /\ \A c \in Chat : ToSet(WaitingIn(c)) \cap ToSet(batch) = {}
<1>1. \A m \in ToSet(batch) : \E i \in DOMAIN handed : handed[i] = [msg |-> m, life |-> restarts]
  BY DEF IInv, BatchIsHanded
<1>2. ASSUME NEW c \in Chat, NEW m \in ToSet(WaitingIn(c)), m \in ToSet(batch) PROVE FALSE
  <2>1. PICK i \in DOMAIN handed : handed[i] = [msg |-> m, life |-> restarts]
    BY <1>1, <1>2
  <2>2. handed[i].msg = m /\ handed[i].life = restarts
    BY <2>1
  <2>3. LineOK(admitted, queue, handed, restarts, c, WaitingIn(c)) /\ ~Before(admitted, m, m, restarts)
    BY <1>2, LineIsInjective DEF IInv, LinesInOrder
  <2>4. ChatOf[m] = c
    BY <1>2, <2>3 DEF LineOK
  <2> QED
    BY <1>2, <2>2, <2>3, <2>4 DEF LineOK
<1> QED
  BY <1>1, <1>2 DEF WasHanded

LEMMA OrderedByQuiet ==
  ASSUME IInv, Quiet
  PROVE  Ordered'
<1>1. LinesInOrder /\ NoMessageForgotten /\ HandedInOrder /\ BatchIsHanded
  BY DEF IInv, QueueIsSound
<1>2. /\ \A c \in Chat : WaitingIn(c)' = WaitingIn(c)
      /\ UNCHANGED <<admitted, handed, restarts>>
      /\ queue' = queue \/ (Settle /\ queue' = queue \ ToSet(batch))
  BY LinesStay
<1>3. ASSUME NEW c \in Chat PROVE ToSet(WaitingIn(c)) \subseteq queue'
  <2>1. ToSet(WaitingIn(c)) \subseteq queue
    BY <1>1 DEF LinesInOrder, LineOK
  <2>2. Settle => ToSet(WaitingIn(c)) \cap ToSet(batch) = {}
    BY HandedIsNotWaiting DEF Settle
  <2> QED
    BY <1>2, <2>1, <2>2
<1>4. LinesInOrder'
  BY <1>1, <1>2, <1>3 DEF LinesInOrder, LineOK
<1>5. BatchIsHanded'
  <2>1. pump' = "wrotePointer" => pump = "wrotePointer" /\ batch' = batch
    BY KickGoes, LoopGoes
    DEF Quiet, work, Arrive, Refuse, Debounced, StopChat, StartChat, TurnEnds, Take, SkipTurn,
        DeliverFails, BackoffOver, WriteBatch, Settle, Started, Watchdog, Hold, Release, StopNow, vars
  <2> QED
    BY <1>1, <1>2, <2>1 DEF BatchIsHanded
<1>6. NoMessageForgotten'
  <2>1. ASSUME NEW m, WasAdmitted(m), ~WasHanded(m) PROVE m \in queue' /\ m \in ToSet(WaitingIn(ChatOf[m])')
    <3>1. m \in ToSet(WaitingIn(ChatOf[m])) /\ m \in Msg
      BY <1>1, <2>1, IndexTypes DEF IInv, NoMessageForgotten, WasAdmitted
    <3>2. ChatOf[m] \in Chat
      BY <3>1, DispatcherAssumption
    <3>3. WaitingIn(ChatOf[m])' = WaitingIn(ChatOf[m]) /\ m \in queue'
      BY <1>2, <1>3, <3>1, <3>2
    <3> QED
      BY <3>1, <3>3
  <2>2. \A m : (WasAdmitted(m)' <=> WasAdmitted(m)) /\ (WasHanded(m)' <=> WasHanded(m))
    BY <1>2 DEF WasAdmitted, WasHanded
  <2> QED
    BY <1>2, <2>1, <2>2 DEF NoMessageForgotten, WasAdmitted
<1>7. HandedInOrder'
  BY <1>1, <1>2, QueuedIsBefore
<1> QED
  BY <1>4, <1>5, <1>6, <1>7 DEF Ordered

LEMMA OrderedByRestart ==
  ASSUME IInv, Restart
  PROVE  Ordered'
<1>1. TypeOK /\ AcceptedOnce /\ LinesInOrder /\ NoMessageForgotten /\ HandedInOrder
  BY DEF IInv, QueueIsSound
<1>2. restarts' = restarts + 1 /\ UNCHANGED <<admitted, handed>> /\ pump' = "idle" /\ restarts \in Nat
  BY <1>1 DEF Restart, TypeOK
<1>3. queue' \subseteq queue /\ \A m \in queue \ queue' : WasHanded(m)
  <2>1. \A n \in 1..Len(batch) : ToSet(SubSeq(batch, 1, n)) \subseteq ToSet(batch)
    BY <1>1, FirstPartIsOfIt DEF TypeOK
  <2>2. pump = "wrotePointer" => \A m \in ToSet(batch) : WasHanded(m)
    BY HandedIsNotWaiting
  <2> QED
    BY <2>1, <2>2 DEF Restart
<1>4. ASSUME NEW c \in Chat PROVE LineOK(admitted', queue', handed', restarts', c, WaitingIn(c)')
  <2> DEFINE Mine == {m \in queue' : ChatOf[m] = c}
  <2>1. PICK w : w = WaitingIn(c)'
    OBVIOUS
  <2>2. w \in Seq(Msg) /\ Increasing(Stamp, w) /\ ToSet(w) = Mine
    BY <2>1, LineOfRestart
  <2>3. ASSUME NEW m \in ToSet(w) PROVE admitted[Place(admitted, m)].life < restarts'
    <3>1. WasAdmitted(m)
      BY <1>1, <1>3, <2>2 DEF AcceptedOnce
    <3>2. admitted[Place(admitted, m)].life \in Nat /\ admitted[Place(admitted, m)].life <= restarts
      BY <1>1, <3>1, IndexTypes
    <3> QED
      BY <1>2, <3>2
  <2>4. ASSUME NEW i \in DOMAIN w, NEW j \in DOMAIN w, i < j PROVE Before(admitted, w[i], w[j], restarts')
    <3>1. w[i] \in ToSet(w) /\ w[j] \in ToSet(w)
      BY DEF ToSet
    <3>2. Stamp[w[i]] < Stamp[w[j]]
      BY <2>2, <2>4 DEF Increasing
    <3> QED
      BY <2>3, <3>1, <3>2 DEF Before
  <2>5. ASSUME NEW i \in DOMAIN handed PROVE handed[i].life # restarts'
    <3>1. handed[i].life <= restarts /\ handed[i] \in MsgAt
      BY <1>1 DEF AcceptedOnce, TypeOK
    <3>2. handed[i].life \in Nat
      BY <3>1 DEF MsgAt
    <3> QED
      BY <1>2, <3>1, <3>2
  <2>6. LineOK(admitted, queue', handed, restarts', c, w)
    BY <2>2, <2>4, <2>5 DEF LineOK
  <2> QED
    BY <1>2, <2>1, <2>6
<1>5. LinesInOrder'
  BY <1>4 DEF LinesInOrder
<1>6. BatchIsHanded'
  BY <1>2 DEF BatchIsHanded
<1>7. NoMessageForgotten'
  <2>1. ASSUME NEW m, WasAdmitted(m), ~WasHanded(m) PROVE m \in queue' /\ m \in ToSet(WaitingIn(ChatOf[m])')
    <3>1. m \in queue /\ m \in Msg
      BY <1>1, <2>1, IndexTypes DEF NoMessageForgotten, WasAdmitted
    <3>2. ChatOf[m] \in Chat /\ m \in queue'
      BY <1>3, <2>1, <3>1, DispatcherAssumption
    <3>3. ToSet(WaitingIn(ChatOf[m])') = {n \in queue' : ChatOf[n] = ChatOf[m]}
      BY <3>2, LineOfRestart
    <3> QED
      BY <3>2, <3>3
  <2>2. \A m : (WasAdmitted(m)' <=> WasAdmitted(m)) /\ (WasHanded(m)' <=> WasHanded(m))
    BY <1>2 DEF WasAdmitted, WasHanded
  <2> QED
    BY <1>2, <2>1, <2>2 DEF NoMessageForgotten, WasAdmitted
<1>8. HandedInOrder'
  BY <1>1, <1>2, QueuedIsBefore
<1> QED
  BY <1>5, <1>6, <1>7, <1>8 DEF Ordered

----------------------------------------------------------------------------
(* The theorems *)

LEMMA InitHolds == Init => IInv
<1> SUFFICES ASSUME Init PROVE IInv
  OBVIOUS
<1> USE DEF Init
<1>1. TypeOK
  <2>1. target \in Chat
    BY DispatcherAssumption
  <2>2. <<>> \in Seq(Msg) /\ <<>> \in Seq(Chat) /\ <<>> \in Seq(MsgAt) /\ <<>> \in Seq(Seq(Msg)) /\ Len(<<>>) = 0
    OBVIOUS
  <2>3. \A c \in Chat : IsInjective(pending[c]) /\ ToSet(pending[c]) = {}
    BY DEF IsInjective, ToSet
  <2>4. failures \in 0..MaxFailures /\ restarts \in 0..MaxRestarts
    BY DispatcherAssumption
  <2>5. pending \in [Chat -> Seq(Msg)]
    BY <2>2
  <2>6. opened \in Nat /\ inFlight \in 0..opened /\ current \in 0..opened /\ pump \in PumpState
    BY DEF NoTurn, PumpState
  <2> QED
    BY <2>1, <2>2, <2>3, <2>4, <2>5, <2>6 DEF TypeOK
<1>2. \A c \in Chat : WaitingIn(c) = <<>>
  <2>1. <<>> \o <<>> = <<>>
    OBVIOUS
  <2> QED
    BY <2>1 DEF WaitingIn, InHand
<1>3. HandIsFull /\ BatchIsHanded
  BY DEF HandIsFull, BatchIsHanded
<1>4. AcceptedOnce
  BY DEF AcceptedOnce
<1>5. LinesInOrder
  <2>1. ASSUME NEW c \in Chat PROVE LineOK(admitted, queue, handed, restarts, c, <<>>)
    BY DEF LineOK, ToSet
  <2> QED
    BY <1>2, <2>1 DEF LinesInOrder
<1>6. QueueIsSound
  BY DEF QueueIsSound, NoMessageForgotten, NoStrandedChat, PointerHasItsBatch, HandedInOrder,
         IsInjective, NoTurn
<1> QED
  BY <1>1, <1>3, <1>4, <1>5, <1>6 DEF IInv

LEMMA StepHolds == IInv /\ [Next]_vars => IInv'
<1> SUFFICES ASSUME IInv, [Next]_vars PROVE IInv'
  OBVIOUS
<1>1. Ordered'
  <2>1. ASSUME NEW m \in Msg, Admit(m) PROVE Ordered'
    BY <2>1, OrderedByAdmit
  <2>2. CASE WritePointer
    BY <2>2, OrderedByPointer
  <2>3. CASE Restart
    BY <2>3, OrderedByRestart
  <2>4. CASE Quiet
    BY <2>4, OrderedByQuiet
  <2> QED
    BY <2>1, <2>2, <2>3, <2>4 DEF Next, Quiet
<1>2. TypeOK' /\ HandIsFull' /\ PointerHasItsBatch' /\ NoStrandedChat' /\ AcceptedOnce'
  BY TypeHolds, HandHolds, NoneIsStranded, AcceptedHolds
<1> QED
  BY <1>1, <1>2 DEF IInv, Ordered, QueueIsSound

(* The inductive invariant: what is in the pump's hand has its file, an accepted
   message is accepted once, and every chat's line (the batch in hand, then the
   list) is on disk and in the order of acceptance, behind what was handed over. *)
THEOREM QueueInvariant == Spec => []IInv
<1>1. Init => IInv
  BY InitHolds
<1>2. IInv /\ [Next]_vars => IInv'
  BY StepHolds
<1> QED
  BY <1>1, <1>2, PTL DEF Spec

(* No accepted message is forgotten, no chat with a message is out of the rotation,
   current.json never names a batch that is not there, and within one lifetime a
   chat's messages reach the agent in order and once: for any number of messages,
   chats, failed deliveries and restarts, and any batch size. *)
THEOREM QueueIsSoundAlways == Spec => []QueueIsSound
<1>1. IInv => QueueIsSound
  BY DEF IInv
<1> QED
  BY <1>1, QueueInvariant, PTL

----------------------------------------------------------------------------
(* The contract of delivery, step by step *)

Lines == [c \in Chat |-> WaitingIn(c)]
Busy == inFlight # NoTurn \/ pump = "wrotePointer"

LEMMA AdmitAccepts ==
  ASSUME IInv, NEW m \in Msg, Admit(m)
  PROVE  Contract!Accept(m)
<1>1. \A d \in Chat : WaitingIn(d)' = IF d = ChatOf[m] THEN Append(WaitingIn(d), m) ELSE WaitingIn(d)
  BY LineOfAdmit
<1>2. Lines' = [Lines EXCEPT ![ChatOf[m]] = Append(@, m)]
  BY <1>1 DEF Lines
<1>3. UNCHANGED <<inFlight, pump>>
  BY DEF Admit, work
<1> QED
  BY <1>2, <1>3 DEF Contract!Accept, Lines

LEMMA PointerHandsOver ==
  ASSUME IInv, WritePointer
  PROVE  \E c \in Chat : Contract!HandOver(c)
<1> DEFINE p == pending[target]
           n == Len(batch)
<1>1. batch \in Seq(Msg) /\ p \in Seq(Msg) /\ target \in Chat
  BY LineOfPointer DEF IInv, TypeOK
<1>2. batch # <<>> /\ n <= MaxBatch /\ inFlight = NoTurn /\ pump = "wroteBatch"
  BY DEF IInv, HandIsFull, WritePointer
<1>3. pump' = "wrotePointer" /\ inFlight' = inFlight
  BY DEF WritePointer
<1>4. ~Busy /\ Busy'
  BY <1>2, <1>3 DEF Busy
<1>5. WaitingIn(target) = batch \o p
  BY LineOfPointer, <1>1
<1>6. \A d \in Chat : WaitingIn(d)' = IF d = target THEN p ELSE WaitingIn(d)
  BY LineOfPointer
<1> HIDE DEF p, n
<1>7. n \in 1..Len(batch \o p)
  BY <1>1, <1>2 DEF n
<1>8. SubSeq(batch \o p, n + 1, Len(batch \o p)) = p
  BY <1>1, SecondPart DEF n
<1>9. Lines' = [Lines EXCEPT ![target] = p]
  BY <1>6 DEF Lines
<1>10. Lines[target] = batch \o p
  BY <1>1, <1>5 DEF Lines
<1>11. Lines' = [Lines EXCEPT ![target] = SubSeq(@, n + 1, Len(@))]
  BY <1>8, <1>9, <1>10
<1>12. n \in 1..Len(Lines[target])
  BY <1>7, <1>10
<1>13. Contract!HandOver(target)
  BY <1>2, <1>4, <1>11, <1>12 DEF Contract!HandOver, Lines, Busy
<1> QED
  BY <1>1, <1>13

LEMMA RestartLosesNothing ==
  ASSUME IInv, Restart
  PROVE  Contract!RestartLosesNothing
<1>1. ~Busy'
  BY DEF Restart, Busy, NoTurn
<1>2. \A d \in Chat : /\ WaitingIn(d)' \in Seq(Msg) /\ IsInjective(WaitingIn(d)')
                      /\ ToSet(WaitingIn(d)') = {m \in queue' : ChatOf[m] = d}
  BY LineOfRestart
<1>3. Lines' \in [Chat -> Seq(Msg)] /\ \A d \in Chat : Lines'[d] = WaitingIn(d)'
  BY <1>2 DEF Lines
<1>4. ASSUME NEW d \in Chat, NEW m \in ToSet(WaitingIn(d)) PROVE m \in ToSet(WaitingIn(d)')
  <2>1. m \in queue /\ ChatOf[m] = d
    BY <1>4 DEF IInv, LinesInOrder, LineOK
  <2>2. pump = "wrotePointer" => m \notin ToSet(batch)
    BY <1>4, HandedIsNotWaiting
  <2>3. m \in queue'
    <3>1. CASE queue' = queue
      BY <2>1, <3>1
    <3>2. ASSUME pump = "wrotePointer", NEW n \in 1..Len(batch), queue' = queue \ ToSet(SubSeq(batch, 1, n))
          PROVE  m \in queue'
      <4>1. batch \in Seq(Msg)
        BY DEF IInv, TypeOK
      <4>2. ToSet(SubSeq(batch, 1, n)) \subseteq ToSet(batch)
        BY <3>2, <4>1, FirstPartIsOfIt
      <4> QED
        BY <2>1, <2>2, <3>2, <4>2
    <3> QED
      BY <3>1, <3>2 DEF Restart
  <2> QED
    BY <1>2, <2>1, <2>3
<1>5. \A d \in Chat : ToSet(Lines[d]) \subseteq ToSet(Lines'[d])
  BY <1>3, <1>4 DEF Lines
<1>6. \A d \in Chat : IsInjective(Lines'[d]) /\ \A m \in ToSet(Lines'[d]) : ChatOf[m] = d
  BY <1>2, <1>3
<1>7. \A s : Contract!ToSet(s) = ToSet(s) /\ (Contract!IsInjective(s) <=> IsInjective(s))
  BY DEF Contract!ToSet, Contract!IsInjective, ToSet, IsInjective
<1>8. Contract!Survives(Lines')
  BY <1>5, <1>7 DEF Contract!Survives, Lines
<1> QED
  BY <1>1, <1>3, <1>6, <1>7, <1>8 DEF Contract!RestartLosesNothing, Lines, Busy

LEMMA QuietEndsOrStutters ==
  ASSUME IInv, Quiet
  PROVE  Contract!EndTurn \/ UNCHANGED <<Lines, Busy>>
<1> USE DEF input, lists, switches, work, volume, counters
<1>1. Lines' = Lines
  BY LinesStay DEF Lines
<1>2. CASE \/ \E m \in Msg : Arrive(m) \/ Refuse(m)
           \/ \E c \in Chat : StartChat(c)
           \/ Take \/ DeliverFails \/ BackoffOver \/ WriteBatch \/ Hold \/ UNCHANGED vars
  <2>1. Busy' = Busy
    BY <1>2 DEF Busy, Arrive, Refuse, StartChat, Take, TurnOver, DeliverFails, BackoffOver, WriteBatch, Hold, vars
  <2> QED
    BY <1>1, <2>1
<1>3. CASE (\E c \in Chat : Debounced(c)) \/ SkipTurn \/ Started \/ Watchdog \/ Release
  <2>1. inFlight' = inFlight /\ pump # "wrotePointer" /\ pump' # "wrotePointer"
    BY <1>3, LoopGoes, KickGoes
    DEF Debounced, SkipTurn, TurnOver, Started, Watchdog, Release, Yielded
  <2> QED
    BY <1>1, <2>1 DEF Busy
<1>4. CASE Settle
  <2>1. opened # NoTurn
    BY <1>4 DEF IInv, HandIsFull, Settle
  <2>2. Busy /\ Busy'
    BY <1>4, <2>1 DEF Settle, Busy
  <2> QED
    BY <1>1, <2>2 DEF Busy
<1>5. CASE TurnEnds \/ StopNow \/ \E c \in Chat : StopChat(c)
  <2>1. pump # "wrotePointer" /\ pump' # "wrotePointer"
    BY <1>5 DEF TurnEnds, StopNow, StopChat, Yielded
  <2>2. inFlight' = inFlight \/ (inFlight # NoTurn /\ inFlight' = NoTurn)
    BY <1>5 DEF TurnEnds, StopNow, StopChat, FinishTurn
  <2>3. CASE inFlight' = inFlight
    BY <1>1, <2>1, <2>3 DEF Busy
  <2>4. CASE inFlight # NoTurn /\ inFlight' = NoTurn
    <3>1. Busy /\ ~Busy'
      BY <2>1, <2>4 DEF Busy
    <3> QED
      BY <1>1, <3>1 DEF Contract!EndTurn, Busy, Lines
  <2> QED
    BY <2>2, <2>3, <2>4
<1> QED
  BY <1>2, <1>3, <1>4, <1>5 DEF Quiet

(* The dispatcher implements the contract of delivery: messages are accepted one at
   a time, handed over from the front of a chat's line in batches no larger than
   MaxBatch and only with no turn in flight, and a restart loses none that waits. *)
THEOREM KeepsContractAlways == Spec => KeepsContract
<1>1. Init => Contract!ContractInit
  <2> SUFFICES ASSUME Init PROVE Contract!ContractInit
    OBVIOUS
  <2>1. \A c \in Chat : WaitingIn(c) = <<>>
    <3>1. <<>> \o <<>> = <<>>
      OBVIOUS
    <3> QED
      BY <3>1 DEF Init, WaitingIn, InHand
  <2> QED
    BY <2>1 DEF Init, Contract!ContractInit
<1>2. IInv /\ [Next]_vars => [Contract!ContractNext]_Contract!contractVars
  <2> SUFFICES ASSUME IInv, [Next]_vars PROVE [Contract!ContractNext]_Contract!contractVars
    OBVIOUS
  <2>1. ASSUME NEW m \in Msg, Admit(m) PROVE Contract!ContractNext
    BY <2>1, AdmitAccepts DEF Contract!ContractNext
  <2>2. CASE WritePointer
    BY <2>2, PointerHandsOver DEF Contract!ContractNext
  <2>3. CASE Restart
    BY <2>3, RestartLosesNothing DEF Contract!ContractNext
  <2>4. CASE Quiet
    BY <2>4, QuietEndsOrStutters DEF Contract!ContractNext, Contract!contractVars, Lines, Busy
  <2> QED
    BY <2>1, <2>2, <2>3, <2>4 DEF Next, Quiet
<1> QED
  BY <1>1, <1>2, QueueInvariant, PTL DEF Spec, KeepsContract, Contract!ContractSpec

===============================================================================
