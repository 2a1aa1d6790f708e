--------------------------- MODULE OutsideProofs ----------------------------
(* Proofs about what the bridge reaches the outside through, for any values of the
   constants: the egress proxy (Egress), plugins as they are called (Calls, as K), the
   paid services (Providers, as V), the browser (Browse, as B), plugins as they call
   (Plugins, as G), the connection (Connection, as W) and the clocks of the world
   (Calendar, as C), and about MCOutside, whose behaviours are theirs. *)
EXTENDS MCOutside, SequenceTheorems, FiniteSetTheorems, TLAPS

(* The egress proxy *)

(* Only a tunnel that has opened is released: a request that connects is not
   taken for one that has ended. *)
ReleasedOnceOpen == \A c \in Conns : released[c] => stage[c] \in {"open", "over"}

(* The name is judged before it is resolved: what waits for its addresses is listed
   already. *)
Permitted == Listed \cup (IF Any THEN Hosts \ Numeric ELSE {})
ResolvesListed == \A c \in Conns : stage[c] = "resolving" => host[c] \in Permitted

(* The inductive invariant. *)
IInv == TypeOK /\ ReleasedOnceOpen /\ ResolvesListed /\ LimitBinds /\ OnlyPublic

(* The requests that wait and those with a tunnel are finitely many, and none is
   both. *)
LEMMA CountedRequests ==
  /\ IsFiniteSet(Waiting) /\ Cardinality(Waiting) \in Nat
  /\ IsFiniteSet(Tunnels) /\ Cardinality(Tunnels) \in Nat
<1>1. Waiting \subseteq Conns /\ Tunnels \subseteq Conns
  BY DEF Waiting, Tunnels
<1> QED
  BY <1>1, EgressAssumption, FS_Subset, FS_CardinalityType

(* A set of numbers has a least one. *)
LEMMA LeastNumber ==
  ASSUME NEW S \in SUBSET Nat, S # {}
  PROVE  \E x \in S : \A y \in S : x <= y
<1> DEFINE Below == {ss \in Nat \X Nat : ss[1] < ss[2]}
<1>1. IsWellFoundedOn(Below, Nat)
  BY NatLessThanWellFounded DEF OpToRel
<1>2. PICK x \in S : \A y \in S : <<y, x>> \notin Below
  BY <1>1, WFMin
<1>3. ASSUME NEW y \in S PROVE x <= y
  <2>1. <<y, x>> \in Nat \X Nat /\ ~(<<y, x>>[1] < <<y, x>>[2])
    BY <1>2
  <2> QED
    BY <2>1
<1> QED
  BY <1>3

(* resolveSafely answers with an address that may be dialled, or with none. *)
LEMMA ResolvedIsPublic ==
  ASSUME NEW n \in Nat, NEW records \in [1..n -> Addresses], resolveSafely(records) # None
  PROVE  resolveSafely(records) \in Addresses \ Blocked
<1> DEFINE good == {i \in DOMAIN records : MayDial(records[i])}
           first == CHOOSE i \in good : \A j \in good : i <= j
<1>1. good # {}
  BY DEF resolveSafely
<1>2. good \subseteq Nat
  OBVIOUS
<1>3. \E i \in good : \A j \in good : i <= j
  BY <1>1, <1>2, LeastNumber
<1>4. first \in good
  BY <1>3
<1> QED
  BY <1>1, <1>4 DEF resolveSafely, MayDial

LEMMA InitHolds == Init => IInv
<1> SUFFICES ASSUME Init PROVE IInv
  OBVIOUS
<1> USE EgressAssumption DEF Init
<1>1. TypeOK /\ ReleasedOnceOpen /\ ResolvesListed /\ OnlyPublic
  BY DEF TypeOK, ReleasedOnceOpen, ResolvesListed, OnlyPublic, Permitted, Stages
<1>2. Waiting = {} /\ Tunnels = {}
  BY DEF Waiting, Tunnels
<1> QED
  BY <1>1, <1>2, FS_EmptySet DEF IInv, LimitBinds

(* A request that is let through was found with room for it, and is one of those
   that wait. *)
LEMMA ConnectHolds ==
  ASSUME IInv, NEW c \in Conns, NEW a \in Authority, Connect(c, a)
  PROVE  IInv'
<1> USE EgressAssumption DEF IInv
<1>0. decide(a) => a.host \in Hosts /\ a.host \in Listed \cup (IF Any THEN Hosts \ Numeric ELSE {})
  BY DEF Authority, decide, Listed
<1>1. TypeOK'
  BY <1>0 DEF TypeOK, Connect, Over, Stages
<1>2. ReleasedOnceOpen' /\ ResolvesListed' /\ OnlyPublic'
  BY <1>0 DEF TypeOK, ReleasedOnceOpen, ResolvesListed, OnlyPublic, Permitted, Connect, Over
<1>3. Tunnels' = Tunnels
  BY DEF TypeOK, Tunnels, Connect, Over
<1>4. LimitBinds'
  <2>1. CASE Room /\ decide(a)
    <3>1. Waiting' = Waiting \cup {c} /\ c \notin Waiting
      BY <2>1 DEF TypeOK, Waiting, Connect
    <3>2. Cardinality(Waiting') = Cardinality(Waiting) + 1
      BY <3>1, CountedRequests, FS_AddElement
    <3> QED
      BY <1>3, <2>1, <3>2, CountedRequests DEF TypeOK, LimitBinds, Connect, Room
  <2>2. CASE ~(Room /\ decide(a))
    <3>1. Waiting' = Waiting
      BY <2>2 DEF TypeOK, Waiting, Connect, Over
    <3> QED
      BY <1>3, <3>1 DEF LimitBinds, Connect
  <2> QED
    BY <2>1, <2>2
<1> QED
  BY <1>1, <1>2, <1>4

(* What is dialled is what was judged; a name without such an address ends here. *)
LEMMA DialHolds ==
  ASSUME IInv, NEW c \in Conns, NEW n \in Nat, NEW records \in [1..n -> Addresses], Dial(c, records)
  PROVE  IInv'
<1> USE EgressAssumption DEF IInv
<1> DEFINE address == resolveSafely(records)
<1>1. address = None \/ address \in Addresses \ Blocked
  BY ResolvedIsPublic
<1> HIDE DEF address
<1>a. /\ stage[c] = "resolving"
      /\ IF address = None
           THEN Over(c) /\ UNCHANGED dialled
           ELSE /\ stage' = [stage EXCEPT ![c] = "dialling"]
                /\ dialled' = [dialled EXCEPT ![c] = address]
                /\ UNCHANGED client
      /\ UNCHANGED <<host, released, openTunnels, listening, exits>>
  BY DEF Dial, address
<1>2. TypeOK'
  BY <1>1, <1>a DEF TypeOK, Over, Stages
<1>3. ReleasedOnceOpen' /\ ResolvesListed' /\ OnlyPublic'
  <2>1. CASE address = None
    <3>1. stage' = [stage EXCEPT ![c] = "over"] /\ dialled' = dialled /\ UNCHANGED <<host, released>>
      BY <1>a, <2>1 DEF Over
    <3> QED
      BY <3>1 DEF TypeOK, ReleasedOnceOpen, ResolvesListed, OnlyPublic
  <2>2. CASE address # None
    <3>1. /\ stage' = [stage EXCEPT ![c] = "dialling"] /\ dialled' = [dialled EXCEPT ![c] = address]
          /\ UNCHANGED <<host, released>>
      BY <1>a, <2>2
    <3>2. ReleasedOnceOpen' /\ ResolvesListed'
      BY <1>a, <3>1 DEF TypeOK, ReleasedOnceOpen, ResolvesListed
    <3>3. OnlyPublic'
      BY <1>1, <1>a, <2>2, <3>1 DEF TypeOK, ResolvesListed, OnlyPublic, Permitted
    <3> QED
      BY <3>2, <3>3
  <2> QED
    BY <2>1, <2>2
<1>4. Tunnels' = Tunnels
  BY <1>a DEF TypeOK, Tunnels, Over
<1>5. Waiting' = Waiting \/ Waiting' = Waiting \ {c}
  BY <1>a DEF TypeOK, Waiting, Over
<1>6. Cardinality(Waiting') \in Nat /\ Cardinality(Waiting') <= Cardinality(Waiting)
  <2>1. CASE Waiting' = Waiting
    BY <2>1, CountedRequests
  <2>2. CASE Waiting' = Waiting \ {c}
    <3>1. Cardinality(Waiting \ {c}) \in {Cardinality(Waiting), Cardinality(Waiting) - 1}
      BY CountedRequests, FS_RemoveElement
    <3>2. Cardinality(Waiting \ {c}) \in Nat
      BY CountedRequests, FS_RemoveElement, FS_CardinalityType
    <3> QED
      BY <2>2, <3>1, <3>2, CountedRequests
  <2> QED
    BY <1>5, <2>1, <2>2
<1>7. LimitBinds'
  BY <1>a, <1>4, <1>6, CountedRequests DEF TypeOK, LimitBinds
<1> QED
  BY <1>2, <1>3, <1>7

(* One request gives up its place: none waits that did not, and no tunnel is
   another. *)
LEMMA OneLeaves ==
  ASSUME IInv, NEW c \in Conns, stage[c] = "dialling", Over(c),
         UNCHANGED <<host, dialled, released, openTunnels, listening, exits>>
  PROVE  IInv'
<1> USE EgressAssumption DEF IInv
<1>1. TypeOK' /\ ReleasedOnceOpen' /\ ResolvesListed' /\ OnlyPublic'
  BY DEF TypeOK, ReleasedOnceOpen, ResolvesListed, OnlyPublic, Permitted, Over, Stages
<1>2. Tunnels' = Tunnels /\ Waiting' = Waiting \ {c} /\ c \in Waiting
  BY DEF TypeOK, Tunnels, Waiting, Over
<1>3. Cardinality(Waiting') = Cardinality(Waiting) - 1
  BY <1>2, CountedRequests, FS_RemoveElement
<1>4. LimitBinds'
  BY <1>2, <1>3, CountedRequests DEF TypeOK, LimitBinds
<1> QED
  BY <1>1, <1>4

(* Connecting turns one that waits into a tunnel. *)
LEMMA ConnectedHolds ==
  ASSUME IInv, NEW c \in Conns, Connected(c)
  PROVE  IInv'
<1> USE EgressAssumption DEF IInv
<1>1. TypeOK' /\ ReleasedOnceOpen' /\ ResolvesListed' /\ OnlyPublic'
  BY DEF TypeOK, ReleasedOnceOpen, ResolvesListed, OnlyPublic, Permitted, Connected, Stages
<1>2. /\ Waiting' = Waiting \ {c} /\ c \in Waiting
      /\ Tunnels' = Tunnels \cup {c} /\ c \notin Tunnels
  BY DEF TypeOK, ReleasedOnceOpen, Tunnels, Waiting, Connected
<1>3. Cardinality(Waiting') = Cardinality(Waiting) - 1
  BY <1>2, CountedRequests, FS_RemoveElement
<1>4. Cardinality(Tunnels') = Cardinality(Tunnels) + 1
  BY <1>2, CountedRequests, FS_AddElement
<1>5. LimitBinds'
  BY <1>3, <1>4, CountedRequests DEF TypeOK, LimitBinds, Connected
<1> QED
  BY <1>1, <1>5

(* Of the events that end a tunnel only the first gives its place back. *)
LEMMA DoneHolds ==
  ASSUME IInv, NEW c \in Conns, done(c)
  PROVE  IInv'
<1> USE EgressAssumption DEF IInv
<1>1. ReleasedOnceOpen' /\ ResolvesListed' /\ OnlyPublic'
  BY DEF TypeOK, ReleasedOnceOpen, ResolvesListed, OnlyPublic, Permitted, done, Over
<1>2. Waiting' = Waiting
  BY DEF TypeOK, Waiting, done, Over
<1>3. TypeOK' /\ openTunnels' = Cardinality(Tunnels') /\ openTunnels' <= openTunnels
  <2>1. CASE released[c]
    <3>1. Tunnels' = Tunnels
      BY <2>1 DEF TypeOK, Tunnels, done, Over
    <3>2. openTunnels' = openTunnels
      BY <2>1 DEF done, Less
    <3>3. TypeOK'
      BY <2>1, <3>2 DEF TypeOK, done, Over, Stages
    <3> QED
      BY <3>1, <3>2, <3>3 DEF TypeOK, LimitBinds
  <2>2. CASE ~released[c]
    <3>1. Tunnels' = Tunnels \ {c} /\ c \in Tunnels
      BY <2>2 DEF TypeOK, Tunnels, done
    <3>2. Cardinality(Tunnels') = Cardinality(Tunnels) - 1 /\ Cardinality(Tunnels') \in Nat
      BY <3>1, CountedRequests, FS_RemoveElement, FS_CardinalityType
    <3>3. openTunnels' = Cardinality(Tunnels')
      BY <2>2, <3>2 DEF LimitBinds, done, Less
    <3> QED
      BY <2>2, <3>2, <3>3, CountedRequests DEF TypeOK, LimitBinds, done
  <2> QED
    BY <2>1, <2>2
<1> QED
  BY <1>1, <1>2, <1>3, CountedRequests DEF TypeOK, LimitBinds

(* The next process has no tunnel, and nobody waits for it. *)
LEMMA ExitHolds == ASSUME IInv, Exit PROVE IInv'
<1> USE EgressAssumption DEF IInv
<1>1. TypeOK' /\ ReleasedOnceOpen' /\ ResolvesListed' /\ OnlyPublic'
  BY DEF TypeOK, ReleasedOnceOpen, ResolvesListed, OnlyPublic, Permitted, Exit, Stages
<1>2. Waiting' = {} /\ Tunnels' = {}
  BY DEF TypeOK, Waiting, Tunnels, Exit
<1> QED
  BY <1>1, <1>2, FS_EmptySet DEF LimitBinds, Exit

LEMMA NextHolds == IInv /\ [Next]_egressVars => IInv'
<1> SUFFICES ASSUME IInv, [Next]_egressVars PROVE IInv'
  OBVIOUS
<1>1. ASSUME NEW c \in Conns, NEW a \in Authority, Connect(c, a) PROVE IInv'
  BY <1>1, ConnectHolds
<1>2. ASSUME NEW c \in Conns, NEW n \in 0..2, NEW records \in [1..n -> Addresses], Dial(c, records)
      PROVE  IInv'
  BY <1>2, DialHolds
<1>3. ASSUME NEW c \in Conns, shutdown(c) PROVE IInv'
  BY <1>3, OneLeaves DEF shutdown
<1>4. ASSUME NEW c \in Conns, ClientLeaves(c) PROVE IInv'
  <2>1. Waiting' = Waiting /\ Tunnels' = Tunnels
    BY <1>4 DEF ClientLeaves, Waiting, Tunnels
  <2> QED
    BY <1>4, <2>1 DEF IInv, TypeOK, ReleasedOnceOpen, ResolvesListed, LimitBinds, OnlyPublic, ClientLeaves
<1>5. ASSUME NEW c \in Conns, Connected(c) PROVE IInv'
  BY <1>5, ConnectedHolds
<1>6. ASSUME NEW c \in Conns, done(c) PROVE IInv'
  BY <1>6, DoneHolds
<1>7. CASE Signal
  <2>1. Waiting' = Waiting /\ Tunnels' = Tunnels
    BY <1>7 DEF Signal, Waiting, Tunnels
  <2>2. TypeOK'
    <3>1. exits' \in 0..MaxExits
      BY <1>7, EgressAssumption DEF IInv, TypeOK, Signal
    <3> QED
      BY <1>7, <3>1 DEF IInv, TypeOK, Signal
  <2> QED
    BY <1>7, <2>1, <2>2 DEF IInv, ReleasedOnceOpen, ResolvesListed, LimitBinds, OnlyPublic, Signal
<1>8. CASE Exit
  BY <1>8, ExitHolds
<1>9. CASE UNCHANGED egressVars
  <2>1. Waiting' = Waiting /\ Tunnels' = Tunnels
    BY <1>9 DEF egressVars, Waiting, Tunnels
  <2> QED
    BY <1>9, <2>1 DEF IInv, TypeOK, ReleasedOnceOpen, ResolvesListed, LimitBinds, OnlyPublic, egressVars
<1> QED
  BY <1>1, <1>2, <1>3, <1>4, <1>5, <1>6, <1>7, <1>8, <1>9 DEF Next

(* The state of the proxy has its shape; what is released was open. *)
THEOREM ProxyInvariant == Spec => []IInv
<1> QED
  BY InitHolds, NextHolds, PTL DEF Spec

(* No more tunnels are open than the limit and what waited when it was reached,
   the count is their number whatever ends them in whatever order, and each goes
   to a public address of a listed host (openTunnels, done, resolveSafely). *)
THEOREM TunnelsHoldAlways == Spec => []TunnelsHold
<1>1. IInv => TunnelsHold
  BY DEF IInv, TunnelsHold
<1> QED
  BY ProxyInvariant, <1>1, PTL

----------------------------------------------------------------------------
(* Plugins as they are called *)

CallsInv ==
  /\ K!TypeOK /\ K!TakenWhileHeard
  /\ \A k \in Calls :
       /\ verdict[k] = "none" <=> asked[k] # "done"
       /\ asked[k] = "unasked" => k \notin takenUp
       /\ verdict[k] = "notAsked" => k \notin takenUp
       /\ answerFile[k] # "missing" => k \in takenUp

LEMMA CallsStart == K!Init => CallsInv
BY OutsideAssumption DEF K!CallsAssumption, K!Init, CallsInv, K!TypeOK, K!TakenWhileHeard, K!Answers

LEMMA CallsStep ==
  ASSUME CallsInv, [K!Next]_(K!callsVars), Foreign = FALSE
  PROVE  CallsInv'
<1> USE OutsideAssumption DEF K!CallsAssumption, CallsInv, K!TypeOK, K!TakenWhileHeard, K!Answers
<1>1. ASSUME NEW k \in Calls, K!Ask(k) PROVE CallsInv'
  BY <1>1 DEF K!Ask, K!Refused
<1>2. ASSUME NEW k \in Calls, K!awaitAnswer(k) PROVE CallsInv'
  BY <1>2 DEF K!awaitAnswer, K!Polled, K!Ended, K!interpret
<1>3. ASSUME NEW k \in Calls, K!TakeUp(k) PROVE CallsInv'
  BY <1>3 DEF K!TakeUp
<1>4. ASSUME NEW k \in Calls, NEW text \in K!Answers, K!Reply(k, text) PROVE CallsInv'
  BY <1>4 DEF K!Reply
<1>5. CASE K!BridgeRestart
  BY <1>5 DEF K!BridgeRestart
<1>6. CASE UNCHANGED K!callsVars
  BY <1>6 DEF K!callsVars
<1> QED
  BY <1>1, <1>2, <1>3, <1>4, <1>5, <1>6 DEF K!Next

LEMMA CallsStartMaps == K!Init => K!Contract!Init
BY DEF K!Init, K!Contract!Init

LEMMA CallsStepMaps ==
  ASSUME CallsInv, [K!Next]_(K!callsVars), Foreign = FALSE
  PROVE  [K!Contract!Next]_(K!Contract!contractVars)
<1> USE OutsideAssumption DEF K!CallsAssumption, CallsInv, K!TypeOK, K!TakenWhileHeard, K!Answers
<1>1. ASSUME NEW k \in Calls, K!Ask(k) PROVE K!Contract!Next
  <2>1. asked[k] = "unasked" /\ verdict[k] = "none" /\ k \notin takenUp /\ takenUp' = takenUp
    BY <1>1 DEF K!Ask
  <2>2. asked \in [Calls -> {"unasked", "waiting", "done", "lost"}] /\ DOMAIN verdict = Calls
    OBVIOUS
  <2>3. CASE asked' = [asked EXCEPT ![k] = "done"] /\ verdict' = [verdict EXCEPT ![k] = "notAsked"]
    <3>1. K!Contract!Conclude(k, "notAsked")
      BY ONLY <2>1, <2>2, <2>3, k \in Calls DEF K!Contract!Conclude
    <3> QED
      BY <3>1 DEF K!Contract!Next
  <2>4. CASE asked' = [asked EXCEPT ![k] = "waiting"] /\ verdict' = verdict
    <3>1. K!Contract!Ask(k)
      BY ONLY <2>1, <2>2, <2>4, k \in Calls DEF K!Contract!Ask
    <3> QED
      BY <3>1 DEF K!Contract!Next
  <2> QED
    BY <1>1, <2>3, <2>4 DEF K!Ask, K!Refused
<1>2. ASSUME NEW k \in Calls, K!awaitAnswer(k) PROVE K!Contract!Next
  <2>1. PICK o \in {"answered", "unknown"} :
          (o = "answered" => answerFile[k] # "missing") /\ K!Ended(k, o)
    BY <1>2 DEF K!awaitAnswer, K!Polled, K!interpret
  <2>2. K!Contract!Conclude(k, o)
    <3>1. /\ asked[k] = "waiting" /\ verdict[k] = "none" /\ takenUp' = takenUp
          /\ asked' = [asked EXCEPT ![k] = "done"] /\ verdict' = [verdict EXCEPT ![k] = o]
      BY <1>2, <2>1 DEF K!awaitAnswer, K!Ended
    <3>2. /\ asked \in [Calls -> {"unasked", "waiting", "done", "lost"}] /\ DOMAIN verdict = Calls
          /\ (o = "answered" => k \in takenUp)
      BY <2>1
    <3> QED
      BY ONLY <2>1, <3>1, <3>2, k \in Calls DEF K!Contract!Conclude
  <2> QED
    BY <2>2 DEF K!Contract!Next
<1>3. ASSUME NEW k \in Calls, K!TakeUp(k) PROVE K!Contract!Next
  BY <1>3 DEF K!TakeUp, K!Contract!Next, K!Contract!Take
<1>4. ASSUME NEW k \in Calls, NEW text \in K!Answers, K!Reply(k, text) PROVE UNCHANGED K!Contract!contractVars
  BY <1>4 DEF K!Reply, K!Contract!contractVars
<1>5. CASE K!BridgeRestart
  BY <1>5 DEF K!BridgeRestart, K!Contract!Next, K!Contract!Crash
<1>6. CASE UNCHANGED K!callsVars
  BY <1>6 DEF K!callsVars, K!Contract!contractVars
<1> QED
  BY <1>1, <1>2, <1>3, <1>4, <1>5, <1>6 DEF K!Next

----------------------------------------------------------------------------
(* The paid services *)

(* No more is spent than the day's allowance, and no more bought than was spent. *)
WithinTheDay == \A m \in V!Meters : bought[m] <= spent[m] /\ spent[m] <= PerDay[m]

(* What kind of use may stand at a stage, and what its owner has by then. *)
UseIsSound(j) ==
  /\ (kind[j] = "none") = (at[j] = "none")
  /\ at[j] \in {"making", "fetching"} => kind[j] \in V!Drawn
  /\ at[j] \in {"sending", "writing"} => kind[j] \in V!Drawn \cup {"voice"}
  /\ at[j] # "ended" => came[j] = "nothing" /\ VTries[j] < VMAX_ATTEMPTS
  /\ at[j] = "asking" => key[j] >= 1
  /\ at[j] \in {"none", "queued"} => said[j] = "nothing"
  /\ at[j] # "none" /\ kind[j] \notin V!Searches => said[j] = "nothing"

WordsArrive(j) ==
  at[j] = "ended" =>
    /\ kind[j] = "voice" => came[j] \in {"whole", "words", "givenUp"}
    /\ kind[j] \notin V!Drawn => came[j] # "nothing"
    /\ came[j] = "nothingFound" => kind[j] = "search" /\ said[j] \in {"none", "refusal"}
    /\ said[j] = "notNow" /\ came[j] = "error" => key[j] = Keys

ProvidersInv ==
  V!TypeOK /\ WithinTheDay /\ \A j \in Jobs : UseIsSound(j) /\ WordsArrive(j)

LEMMA ProvidersStart == V!Init => ProvidersInv
BY OutsideAssumption DEF V!Init, ProvidersInv, V!TypeOK, WithinTheDay, UseIsSound, WordsArrive, V!Stages,
  V!Kinds, V!Meters, V!ProvidersAssumption

(* What one use does to its own record. *)
JobRecord(j) == <<kind[j], at[j], key[j], polls[j], VTries[j], said[j], came[j]>>

OfOne(j) ==
  /\ \A i \in Jobs \ {j} : JobRecord(i)' = JobRecord(i)
  /\ kind' \in [Jobs -> V!Kinds \cup {"none"}] /\ at' \in [Jobs -> V!Stages]
  /\ key' \in [Jobs -> 0..Keys] /\ polls' \in [Jobs -> 0..MaxPolls]
  /\ VTries' \in [Jobs -> 0..VMAX_ATTEMPTS]
  /\ said' \in [Jobs -> {"nothing", "notNow", "text", "none", "refusal", "shape"}]
  /\ came' \in [Jobs -> {"nothing", "whole", "words", "error", "nothingFound", "givenUp", "lost"}]
  /\ UseIsSound(j)' /\ WordsArrive(j)'

LEMMA OneUse ==
  ASSUME ProvidersInv, NEW j \in Jobs, V!Goes(j) \/ V!SendThrows(j) \/ \E k \in V!Kinds : V!Use(j, k)
  PROVE  OfOne(j)
<1> USE DEF ProvidersInv, V!TypeOK, OfOne, JobRecord, UseIsSound, WordsArrive, V!Comes, V!Goto, V!Instead,
      V!Declined, V!Kept, V!Unasked, V!Drawn, V!Searches, V!mishaps, V!Stages
<1>0. Keys \in Nat \ {0} /\ VMAX_ATTEMPTS \in Nat \ {0} /\ MaxPolls \in Nat \ {0}
  BY OutsideAssumption DEF V!ProvidersAssumption
<1>1. CASE V!Capped(j)
  BY <1>0, <1>1 DEF V!Capped, V!MayBegin
<1>2. CASE V!NoMouth(j)
  BY <1>0, <1>2 DEF V!NoMouth, V!MayBegin
<1>3. CASE V!NotOnTheBench(j)
  BY <1>0, <1>3 DEF V!NotOnTheBench, V!MayBegin
<1>4. CASE V!NothingToAsk(j)
  BY <1>0, <1>4 DEF V!NothingToAsk, V!MayBegin
<1>5. CASE V!NoReference(j)
  BY <1>0, <1>5 DEF V!NoReference, V!MayBegin
<1>6. CASE V!NoCredential(j)
  BY <1>0, <1>6 DEF V!NoCredential, V!MayBegin
<1>7. CASE V!BadRecording(j)
  BY <1>0, <1>7 DEF V!BadRecording, V!MayBegin
<1>8. CASE V!Request(j)
  BY <1>0, <1>8 DEF V!Request, V!MayBegin
<1>9. CASE V!TryAgain(j)
  BY <1>0, <1>9 DEF V!TryAgain, V!NextKey
<1>10. CASE \E r \in {"text", "none", "refusal", "shape"} : V!Searched(j, r)
  BY <1>0, <1>10 DEF V!Searched, V!Empty
<1>11. CASE V!Submitted(j)
  BY <1>0, <1>11 DEF V!Submitted, V!Failed
<1>12. CASE V!Drew(j)
  BY <1>0, <1>12 DEF V!Drew, V!Failed
<1>13. CASE V!Synthesised(j)
  BY <1>0, <1>13 DEF V!Synthesised, V!Failed
<1>14. CASE V!Transcribed(j)
  BY <1>0, <1>14 DEF V!Transcribed, V!Failed
<1>15. CASE V!Poll(j)
  <2>1. CASE V!Instead(j) /\ UNCHANGED polls
    BY <1>0, <1>15, <2>1 DEF V!Poll
  <2>2. CASE V!Goto(j, "fetching") /\ UNCHANGED <<polls, came>>
    BY <1>0, <1>15, <2>2 DEF V!Poll
  <2>3. CASE polls[j] < MaxPolls /\ polls' = [polls EXCEPT ![j] = V!Polled(j)] /\ UNCHANGED <<at, came>>
    BY <1>0, <1>15, <2>3 DEF V!Poll, V!Polled
  <2> QED
    BY <1>15, <2>1, <2>2, <2>3 DEF V!Poll
<1>16. CASE V!Fetch(j)
  BY <1>0, <1>16 DEF V!Fetch
<1>17. CASE V!Sent(j)
  BY <1>0, <1>17 DEF V!Sent
<1>18. CASE V!SendThrows(j)
  BY <1>0, <1>18 DEF V!SendThrows
<1>19. CASE \E k \in V!Kinds : V!Use(j, k)
  BY <1>0, <1>19 DEF V!Use, V!Kinds
<1> QED
  BY <1>1, <1>2, <1>3, <1>4, <1>5, <1>6, <1>7, <1>8, <1>9, <1>10, <1>11, <1>12, <1>13, <1>14, <1>15,
     <1>16, <1>17, <1>18, <1>19 DEF V!Goes

LEMMA UseIsOfOne ==
  ASSUME ProvidersInv, NEW j \in Jobs, OfOne(j)
  PROVE  \A i \in Jobs : UseIsSound(i)' /\ WordsArrive(i)'
<1> SUFFICES ASSUME NEW i \in Jobs PROVE UseIsSound(i)' /\ WordsArrive(i)'
  OBVIOUS
<1>1. CASE i = j
  BY <1>1 DEF OfOne
<1>2. CASE i # j
  BY <1>2 DEF OfOne, JobRecord, ProvidersInv, UseIsSound, WordsArrive
<1> QED
  BY <1>1, <1>2

LEMMA LedgersHold ==
  ASSUME ProvidersInv, NEW j \in Jobs, V!Goes(j) \/ V!SendThrows(j) \/ \E k \in V!Kinds : V!Use(j, k)
  PROVE  /\ WithinTheDay' /\ spent' \in [V!Meters -> Nat] /\ bought' \in [V!Meters -> Nat]
         /\ throws' \in 0..MaxThrows /\ crashes' \in 0..MaxCrashes
<1>0. /\ MaxThrows \in Nat /\ PerDay \in [V!Meters -> Nat]
      /\ spent \in [V!Meters -> Nat] /\ bought \in [V!Meters -> Nat] /\ WithinTheDay
      /\ throws \in 0..MaxThrows /\ crashes \in 0..MaxCrashes
  BY OutsideAssumption DEF V!ProvidersAssumption, ProvidersInv, V!TypeOK
<1>1. \/ UNCHANGED <<spent, bought>>
      \/ V!Claim(j) /\ spent' = V!Spent(j) /\ UNCHANGED bought
      \/ /\ V!Claim(j) /\ spent' = V!Spent(j)
         /\ bought' = [m \in V!Meters |-> IF m \in V!MeterOf(kind[j]) THEN bought[m] + 1 ELSE bought[m]]
  BY DEF V!Goes, V!Capped, V!NoMouth, V!NotOnTheBench, V!NothingToAsk, V!NoReference, V!NoCredential,
    V!BadRecording, V!Request, V!TryAgain, V!Searched, V!Submitted, V!Drew, V!Synthesised, V!Transcribed,
    V!Poll, V!Fetch, V!Sent, V!SendThrows, V!Use, V!Unasked, V!Kept
<1>2. WithinTheDay' /\ spent' \in [V!Meters -> Nat] /\ bought' \in [V!Meters -> Nat]
  <2>1. CASE UNCHANGED <<spent, bought>>
    BY <1>0, <2>1 DEF WithinTheDay
  <2>2. CASE V!Claim(j) /\ spent' = V!Spent(j) /\ UNCHANGED bought
    BY <1>0, <2>2 DEF WithinTheDay, V!Claim, V!Spent
  <2>3. CASE /\ V!Claim(j) /\ spent' = V!Spent(j)
             /\ bought' = [m \in V!Meters |-> IF m \in V!MeterOf(kind[j]) THEN bought[m] + 1 ELSE bought[m]]
    BY <1>0, <2>3 DEF WithinTheDay, V!Claim, V!Spent
  <2> QED
    BY <1>1, <2>1, <2>2, <2>3
<1>3. throws' \in 0..MaxThrows /\ crashes' = crashes
  BY <1>0 DEF V!Goes, V!Capped, V!NoMouth, V!NotOnTheBench, V!NothingToAsk, V!NoReference, V!NoCredential,
    V!BadRecording, V!Request, V!TryAgain, V!Searched, V!Submitted, V!Drew, V!Synthesised, V!Transcribed,
    V!Poll, V!Fetch, V!Sent, V!SendThrows, V!Use, V!Unasked, V!Kept, V!mishaps
<1> QED
  BY <1>0, <1>2, <1>3

LEMMA ProvidersCrash == ProvidersInv /\ V!Crash => ProvidersInv'
<1> SUFFICES ASSUME ProvidersInv, V!Crash PROVE ProvidersInv'
  OBVIOUS
<1>0. MaxCrashes \in Nat /\ VMAX_ATTEMPTS \in Nat \ {0}
  BY OutsideAssumption DEF V!ProvidersAssumption
<1> DEFINE Again == {j \in V!UnderWay : kind[j] \in V!Awaited \cup {"speech"}}
<1>1. \A j \in Jobs : (j \in V!UnderWay) = (at[j] \in {"asking", "making", "fetching", "sending", "writing"})
  BY DEF V!UnderWay
<1>2. /\ at' = [j \in Jobs |-> CASE j \in Again -> "queued"
                                  [] j \in V!UnderWay \ Again -> "ended"
                                  [] OTHER -> at[j]]
      /\ came' = [j \in Jobs |-> IF j \in V!UnderWay \ Again THEN "lost" ELSE came[j]]
      /\ said' = [j \in Jobs |-> IF j \in Again THEN "nothing" ELSE said[j]]
      /\ VTries' = [j \in Jobs |-> 0] /\ crashes < MaxCrashes /\ crashes' = crashes + 1
      /\ UNCHANGED <<kind, key, polls, spent, bought, throws>>
  BY DEF V!Crash
<1> HIDE DEF Again
<1>3. ASSUME NEW j \in Jobs
      PROVE  /\ UseIsSound(j)' /\ WordsArrive(j)' /\ at'[j] \in V!Stages
             /\ said'[j] \in {"nothing", "notNow", "text", "none", "refusal", "shape"}
             /\ came'[j] \in {"nothing", "whole", "words", "error", "nothingFound", "givenUp", "lost"}
  <2>0. /\ kind'[j] = kind[j] /\ key'[j] = key[j] /\ VTries'[j] = 0 /\ UseIsSound(j) /\ WordsArrive(j)
        /\ at[j] \in V!Stages
        /\ said[j] \in {"nothing", "notNow", "text", "none", "refusal", "shape"}
        /\ came[j] \in {"nothing", "whole", "words", "error", "nothingFound", "givenUp", "lost"}
    BY <1>2 DEF ProvidersInv, V!TypeOK
  <2>1. CASE j \in Again
    <3>1. at'[j] = "queued" /\ came'[j] = came[j] /\ said'[j] = "nothing" /\ at[j] # "none" /\ at[j] # "ended"
      BY <1>1, <1>2, <2>1 DEF Again
    <3> QED
      BY <1>0, <2>0, <3>1 DEF UseIsSound, WordsArrive, V!Stages
  <2>2. CASE j \in V!UnderWay \ Again
    <3>1. at'[j] = "ended" /\ came'[j] = "lost" /\ said'[j] = said[j] /\ at[j] # "none"
          /\ kind[j] # "voice"
      BY <1>1, <1>2, <2>2 DEF Again, V!Awaited
    <3> QED
      BY <1>0, <2>0, <3>1 DEF UseIsSound, WordsArrive, V!Stages
  <2>3. CASE j \notin V!UnderWay
    <3>1. at'[j] = at[j] /\ came'[j] = came[j] /\ said'[j] = said[j]
      BY <1>1, <1>2, <2>3 DEF Again
    <3> QED
      BY <1>0, <2>0, <3>1 DEF UseIsSound, WordsArrive, V!Stages
  <2> QED
    BY <2>1, <2>2, <2>3 DEF Again
<1>4. V!TypeOK'
  <2>1. /\ at' \in [Jobs -> V!Stages]
        /\ said' \in [Jobs -> {"nothing", "notNow", "text", "none", "refusal", "shape"}]
        /\ came' \in [Jobs -> {"nothing", "whole", "words", "error", "nothingFound", "givenUp", "lost"}]
    BY ONLY <1>2, <1>3
  <2> QED
    BY <1>0, <1>2, <2>1 DEF ProvidersInv, V!TypeOK
<1>5. WithinTheDay'
  BY <1>2 DEF ProvidersInv, WithinTheDay
<1> QED
  BY <1>3, <1>4, <1>5 DEF ProvidersInv

LEMMA ProvidersStep == ProvidersInv /\ [V!Next]_(V!providersVars) => ProvidersInv'
<1> SUFFICES ASSUME ProvidersInv, [V!Next]_(V!providersVars) PROVE ProvidersInv'
  OBVIOUS
<1>1. ASSUME NEW j \in Jobs, V!Goes(j) \/ V!SendThrows(j) \/ \E k \in V!Kinds : V!Use(j, k)
      PROVE  ProvidersInv'
  <2>1. OfOne(j)
    BY <1>1, OneUse
  <2>2. \A i \in Jobs : UseIsSound(i)' /\ WordsArrive(i)'
    BY <2>1, UseIsOfOne
  <2>3. /\ WithinTheDay' /\ spent' \in [V!Meters -> Nat] /\ bought' \in [V!Meters -> Nat]
        /\ throws' \in 0..MaxThrows /\ crashes' \in 0..MaxCrashes
    BY <1>1, LedgersHold
  <2> QED
    BY <2>1, <2>2, <2>3 DEF OfOne, ProvidersInv, V!TypeOK
<1>2. CASE UNCHANGED V!providersVars
  BY <1>2 DEF V!providersVars, V!where, V!mishaps, ProvidersInv, V!TypeOK, WithinTheDay, UseIsSound, WordsArrive
<1> QED
  BY <1>1, <1>2, ProvidersCrash DEF V!Next

LEMMA ProvidersPays == ProvidersInv => V!TypeOK /\ V!BoughtWithinTheAllowance /\ V!WordsAlwaysArrive
<1>1. PerDay \in [V!Meters -> Nat]
  BY OutsideAssumption DEF V!ProvidersAssumption
<1> QED
  BY <1>1 DEF ProvidersInv, WithinTheDay, V!TypeOK, V!BoughtWithinTheAllowance, V!WordsAlwaysArrive, WordsArrive

----------------------------------------------------------------------------
(* The browser *)

(* The line of calls: each once, the one that waits at its head. *)
LineIsSound ==
  /\ tail \in Seq(Asks) /\ \A i, j \in 1..Len(tail) : tail[i] = tail[j] => i = j
  /\ \A a \in Asks : call[a] \in {"queued", "waiting"} <=> \E i \in 1..Len(tail) : tail[i] = a
  /\ \A a \in Asks : call[a] = "waiting" => tail[1] = a

BrowserIsSound ==
  /\ step \in {"idle", "picked", "opening", "picture", "answer"}
  /\ page \in Asks \cup {B!NoPage} /\ (page = B!NoPage) = (step = "idle")
  /\ found \in {"nothing", "page", "pictured", "failed", "proxyDown"}
  /\ opened \subseteq Asks
  /\ step \in {"opening", "picture", "answer"} => page \in opened
  /\ step = "picture" => found = "pictured"

AskIsSound(a) ==
  /\ call[a] \in {"unasked", "queued"} =>
       /\ outcome[a] = "none" /\ a \notin opened /\ page # a /\ says[a] = "nothing"
       /\ ~B!Exists(B!Request(a)) /\ ~B!Exists(B!Result(a)) /\ ~B!Exists(B!Picture(a))
  /\ call[a] = "waiting" => outcome[a] = "none"
  /\ call[a] \in {"falling", "done"} => outcome[a] # "none"
  /\ B!Exists(B!Request(a)) => outcome[a] = "none"
  /\ outcome[a] = "notAsked" => a \notin opened
  /\ says[a] \notin {"nothing", "badRequest"} => a \in opened
  /\ call[a] = "waiting" /\ B!Exists(B!Result(a)) /\ says[a] = "pictured" => B!Exists(B!Picture(a))
  /\ call[a] = "waiting" /\ page = a /\ step = "answer" /\ found = "pictured" => B!Exists(B!Picture(a))

BrowseTypes ==
  /\ call \in [Asks -> {"unasked", "queued", "waiting", "falling", "done", "lost"}]
  /\ outcome \in [Asks -> {"none", "answered", "unknown", "notAsked"}]
  /\ reply \in [Asks -> [from: {"nobody", "browser", "provider"}, picture: BOOLEAN]]
  /\ says \in [Asks -> {"nothing", "badRequest", "page", "pictured", "failed", "proxyDown"}]
  /\ age \in [B!Files -> 0..B!Absent] /\ beatAge \in 0..HEARTBEAT_STALE + 1

BrowseInv == BrowseTypes /\ LineIsSound /\ BrowserIsSound /\ \A a \in Asks : AskIsSound(a)

----------------------------------------------------------------------------
LEMMA LineGrows ==
  ASSUME NEW S, NEW s \in Seq(S), NEW e \in S, \A i, j \in 1..Len(s) : s[i] = s[j] => i = j,
         \A i \in 1..Len(s) : s[i] # e
  PROVE  /\ Append(s, e) \in Seq(S)
         /\ \A i, j \in 1..Len(Append(s, e)) : Append(s, e)[i] = Append(s, e)[j] => i = j
         /\ \A x : (\E i \in 1..Len(Append(s, e)) : Append(s, e)[i] = x) <=> x = e \/ \E i \in 1..Len(s) : s[i] = x
         /\ s # <<>> => Append(s, e)[1] = s[1]
<1>1. /\ Append(s, e) \in Seq(S) /\ Len(Append(s, e)) = Len(s) + 1
      /\ \A i \in 1..Len(s) : Append(s, e)[i] = s[i]
      /\ Append(s, e)[Len(s) + 1] = e /\ Len(s) \in Nat
  BY AppendProperties
<1>2. s # <<>> => 1 \in 1..Len(s)
  BY LenProperties
<1>3. ASSUME NEW i \in 1..Len(Append(s, e)) PROVE i \in 1..Len(s) \/ i = Len(s) + 1
  BY <1>1
<1> QED
  BY <1>1, <1>2, <1>3

LEMMA LineShrinks ==
  ASSUME NEW S, NEW s \in Seq(S), s # <<>>, \A i, j \in 1..Len(s) : s[i] = s[j] => i = j
  PROVE  /\ Tail(s) \in Seq(S) /\ Head(s) = s[1] /\ s[1] \in S
         /\ \A i, j \in 1..Len(Tail(s)) : Tail(s)[i] = Tail(s)[j] => i = j
         /\ \A x : (\E i \in 1..Len(Tail(s)) : Tail(s)[i] = x) <=> x # s[1] /\ \E i \in 1..Len(s) : s[i] = x
<1>1. /\ Tail(s) \in Seq(S) /\ Head(s) = s[1] /\ s[1] \in S
      /\ Len(s) \in Nat \ {0} /\ Len(Tail(s)) = Len(s) - 1
      /\ \A i \in 1..Len(Tail(s)) : Tail(s)[i] = s[i + 1]
  BY HeadTailProperties, LenProperties, ElementOfSeq
<1>2. \A i \in 1..Len(Tail(s)) : i + 1 \in 1..Len(s) /\ i + 1 # 1
  BY <1>1
<1>3. \A i \in 1..Len(s) : i # 1 => i - 1 \in 1..Len(Tail(s)) /\ Tail(s)[i - 1] = s[i]
  BY <1>1
<1>4. 1 \in 1..Len(s)
  BY <1>1
<1>5. ASSUME NEW i \in 1..Len(Tail(s)), NEW j \in 1..Len(Tail(s)), Tail(s)[i] = Tail(s)[j] PROVE i = j
  <2>1. i + 1 = j + 1
    BY <1>1, <1>2, <1>5
  <2> QED
    BY <2>1
<1>6. ASSUME NEW x, x # s[1], NEW i \in 1..Len(s), s[i] = x PROVE \E k \in 1..Len(Tail(s)) : Tail(s)[k] = x
  <2>1. i # 1
    BY <1>6
  <2> QED
    BY <1>3, <1>6, <2>1
<1>7. ASSUME NEW x, NEW i \in 1..Len(Tail(s)), Tail(s)[i] = x PROVE x # s[1] /\ \E k \in 1..Len(s) : s[k] = x
  BY <1>1, <1>2, <1>4, <1>7
<1> QED
  BY <1>1, <1>5, <1>6, <1>7

----------------------------------------------------------------------------
LEMMA BrowseStart == B!Init => BrowseInv
BY OutsideAssumption DEF B!BrowseAssumption, B!Init, BrowseInv, BrowseTypes, LineIsSound, BrowserIsSound, AskIsSound,
  B!Absent, B!Exists, B!NoReply, B!Files, B!Request, B!Result, B!Picture

LEMMA FunctionStays ==
  ASSUME NEW S, NEW R, NEW f \in [S -> R], NEW i, NEW v \in R
  PROVE  [f EXCEPT ![i] = v] \in [S -> R]
OBVIOUS

LEMMA BrowseTypesKept ==
  ASSUME BrowseInv, [B!Next]_(B!browseVars) PROVE BrowseTypes'
<1> USE DEF BrowseInv, BrowseTypes, BrowserIsSound, B!Absent
<1>0. ORPHAN \in Nat /\ HEARTBEAT_STALE \in Nat
  BY OutsideAssumption DEF B!BrowseAssumption
<1>1. ASSUME NEW a \in Asks PROVE {B!Request(a), B!Result(a), B!Picture(a)} \subseteq B!Files
  BY DEF B!Files, B!Request, B!Result, B!Picture
<1>2. B!Swept \in [B!Files -> 0..B!Absent]
  BY <1>0 DEF B!Swept
<1>3. ASSUME NEW a \in Asks, B!ReadPage(a) \/ B!Fallback(a) \/ B!Pick(a) PROVE BrowseTypes'
  <2>1. CASE B!ReadPage(a)
    BY <2>1 DEF B!ReadPage, B!Concluded
  <2>2. CASE B!Fallback(a)
    <3>1. PICK o \in {"provider", "nobody"} : reply' = [reply EXCEPT ![a].from = o]
      BY <2>2 DEF B!Fallback
    <3>2. reply' \in [Asks -> [from: {"nobody", "browser", "provider"}, picture: BOOLEAN]]
      BY <3>1
    <3> QED
      BY <2>2, <3>2 DEF B!Fallback
  <2>3. CASE B!Pick(a)
    BY <2>3 DEF B!Pick, B!bridgeVars
  <2> QED
    BY <1>3, <2>1, <2>2, <2>3
<1>4. ASSUME NEW a \in Asks, B!Begin(a) PROVE BrowseTypes'
  <2>1. age' = B!Swept \/ age' = [B!Swept EXCEPT ![B!Request(a)] = 0]
    BY <1>4 DEF B!Begin, B!Asked
  <2>2. 0 \in 0..(ORPHAN + 1) /\ B!Swept \in [B!Files -> 0..(ORPHAN + 1)]
    BY <1>0, <1>2
  <2>3. [B!Swept EXCEPT ![B!Request(a)] = 0] \in [B!Files -> 0..(ORPHAN + 1)]
    BY <2>2, FunctionStays
  <2>4. age' \in [B!Files -> 0..B!Absent]
    BY <2>1, <2>2, <2>3
  <2>5. UNCHANGED <<reply, says, beatAge>>
    BY <1>4 DEF B!Begin
  <2>6. /\ \/ call' = [call EXCEPT ![a] = "waiting"] /\ outcome' = outcome
           \/ call' = [call EXCEPT ![a] = "falling"] /\ outcome' = [outcome EXCEPT ![a] = "notAsked"]
    BY <1>4 DEF B!Begin, B!Concluded
  <2>7. /\ call' \in [Asks -> {"unasked", "queued", "waiting", "falling", "done", "lost"}]
        /\ outcome' \in [Asks -> {"none", "answered", "unknown", "notAsked"}]
    BY <2>6, FunctionStays
  <2> QED
    BY <2>4, <2>5, <2>7
<1>5. ASSUME NEW a \in Asks, B!Poll(a) \/ B!GiveUp(a) PROVE BrowseTypes'
  <2>0. B!Freed(a)
    BY <1>5 DEF B!Poll, B!GiveUp
  <2>1. age' \in [B!Files -> 0..B!Absent] /\ says' = [says EXCEPT ![a] = "nothing"]
    <3>1. age \in [B!Files -> 0..ORPHAN + 1] /\ ORPHAN + 1 \in 0..ORPHAN + 1
      BY <1>0
    <3>2. \A f, g, h : [age EXCEPT ![f] = ORPHAN + 1, ![g] = ORPHAN + 1, ![h] = ORPHAN + 1]
                         \in [B!Files -> 0..ORPHAN + 1]
      BY ONLY <3>1
    <3> QED
      BY <2>0, <3>2 DEF B!Freed, B!Cleared
  <2>2. CASE B!Poll(a)
    <3>1. outcome' \in [Asks -> {"none", "answered", "unknown", "notAsked"}]
          /\ call' \in [Asks -> {"unasked", "queued", "waiting", "falling", "done", "lost"}]
      BY <2>2 DEF B!Poll, B!Concluded
    <3>2. reply' \in [Asks -> [from: {"nobody", "browser", "provider"}, picture: BOOLEAN]]
      <4>1. reply' = reply \/ \E p \in BOOLEAN : reply' = [reply EXCEPT ![a] = [from |-> "browser", picture |-> p]]
        BY <2>2 DEF B!Poll
      <4> QED
        BY <4>1
    <3> QED
      BY <2>1, <2>2, <3>1, <3>2 DEF B!Poll
  <2>3. CASE B!GiveUp(a)
    BY <2>1, <2>3 DEF B!GiveUp, B!Concluded, B!browserVars
  <2> QED
    BY <1>5, <2>2, <2>3
<1>6. CASE B!ReadRequest \/ B!WritePicture \/ B!WriteAnswer
  <2>1. step # "idle" /\ page \in Asks
    BY <1>6 DEF B!ReadRequest, B!WritePicture, B!HasPicture, B!WriteAnswer, B!MayAnswer
  <2>2. age' \in [B!Files -> 0..B!Absent]
    BY <1>0, <1>1, <1>6, <2>1 DEF B!ReadRequest, B!WritePicture, B!WriteAnswer, B!Answered
  <2>3. says' \in [Asks -> {"nothing", "badRequest", "page", "pictured", "failed", "proxyDown"}]
    BY <1>6, <2>1 DEF B!ReadRequest, B!WritePicture, B!WriteAnswer, B!Answered
  <2>4. UNCHANGED <<call, outcome, reply, beatAge>>
    BY <1>6 DEF B!ReadRequest, B!WritePicture, B!WriteAnswer, B!bridgeVars
  <2> QED
    BY <2>2, <2>3, <2>4
<1>7. CASE \/ \E k \in {"page", "pictured", "failed", "proxyDown"} : B!OpenPage(k)
           \/ B!PageError \/ B!Stop
  BY <1>7 DEF B!OpenPage, B!PageError, B!Stop, B!bridgeVars
<1>8. CASE B!Start
  BY <1>0, <1>8 DEF B!Start, B!bridgeVars
<1>9. CASE B!BridgeCrash
  BY <1>9 DEF B!BridgeCrash, B!browserVars
<1>10. CASE B!Tick
  BY <1>0, <1>10 DEF B!Tick, B!Older, B!bridgeVars
<1>11. CASE UNCHANGED B!browseVars
  BY <1>11 DEF B!browseVars, B!bridgeVars
<1> QED
  BY <1>3, <1>4, <1>5, <1>6, <1>7, <1>8, <1>9, <1>10, <1>11 DEF B!Next

LEMMA LineKept ==
  ASSUME BrowseInv, [B!Next]_(B!browseVars) PROVE LineIsSound'
<1> USE DEF BrowseInv, BrowseTypes, LineIsSound
<1>1. ASSUME NEW a \in Asks, B!ReadPage(a) PROVE LineIsSound'
  <2>1. call[a] = "unasked" /\ ~\E i \in 1..Len(tail) : tail[i] = a
    BY <1>1 DEF B!ReadPage
  <2>2. CASE B!Concluded(a, "notAsked", "falling") /\ UNCHANGED tail
    BY <2>1, <2>2 DEF B!Concluded
  <2>3. CASE call' = [call EXCEPT ![a] = "queued"] /\ tail' = Append(tail, a)
    <3>1. /\ tail' \in Seq(Asks) /\ \A i, j \in 1..Len(tail') : tail'[i] = tail'[j] => i = j
          /\ \A x : (\E i \in 1..Len(tail') : tail'[i] = x) <=> x = a \/ \E i \in 1..Len(tail) : tail[i] = x
          /\ tail # <<>> => tail'[1] = tail[1]
      BY <2>1, <2>3, LineGrows
    <3>2. \A b \in Asks : call[b] = "waiting" => tail # <<>>
      OBVIOUS
    <3>3. call'[a] = "queued" /\ \A b \in Asks : b # a => call'[b] = call[b]
      BY <2>3
    <3>4. ASSUME NEW b \in Asks
          PROVE  /\ call'[b] \in {"queued", "waiting"} <=> \E i \in 1..Len(tail') : tail'[i] = b
                 /\ call'[b] = "waiting" => tail'[1] = b
      BY <3>1, <3>2, <3>3, <3>4
    <3> QED
      BY <3>1, <3>4
  <2> QED
    BY <1>1, <2>2, <2>3 DEF B!ReadPage
<1>2. ASSUME NEW a \in Asks, call[a] \in {"queued", "waiting"}, tail # <<>>, a = tail[1],
             call'[a] \notin {"queued", "waiting"}, \A b \in Asks \ {a} : call'[b] = call[b] /\ call[b] # "waiting",
             tail' = Tail(tail)
      PROVE LineIsSound'
  <2>1. /\ tail' \in Seq(Asks) /\ \A i, j \in 1..Len(tail') : tail'[i] = tail'[j] => i = j
        /\ \A x : (\E i \in 1..Len(tail') : tail'[i] = x) <=> x # a /\ \E i \in 1..Len(tail) : tail[i] = x
    <3>1. tail \in Seq(Asks) /\ \A i, j \in 1..Len(tail) : tail[i] = tail[j] => i = j
      OBVIOUS
    <3> QED
      BY ONLY <1>2, <3>1, LineShrinks
  <2>2. ASSUME NEW b \in Asks
        PROVE  call'[b] # "waiting" /\ (call'[b] \in {"queued", "waiting"} <=> \E i \in 1..Len(tail') : tail'[i] = b)
    <3>1. call[b] \in {"queued", "waiting"} <=> \E i \in 1..Len(tail) : tail[i] = b
      OBVIOUS
    <3>2. (\E i \in 1..Len(tail') : tail'[i] = b) <=> b # a /\ \E i \in 1..Len(tail) : tail[i] = b
      BY ONLY <2>1
    <3> DEFINE Before == \E i \in 1..Len(tail) : tail[i] = b
               After == \E i \in 1..Len(tail') : tail'[i] = b
    <3> HIDE DEF Before, After
    <3>3. CASE b = a
      BY ONLY <1>2, <3>2, <3>3 DEF After, Before
    <3>4. CASE b # a
      <4>1. call'[b] = call[b] /\ call[b] # "waiting" /\ (call[b] \in {"queued", "waiting"} <=> Before)
            /\ (After <=> Before)
        BY ONLY <1>2, <3>1, <3>2, <3>4, b \in Asks DEF After, Before
      <4> QED
        BY ONLY <4>1 DEF After
    <3> QED
      BY <3>3, <3>4
  <2> QED
    BY <2>1, <2>2
<1>3. ASSUME NEW a \in Asks, B!Begin(a) PROVE LineIsSound'
  <2>1. tail # <<>> /\ a = tail[1] /\ call[a] = "queued" /\ \A b \in Asks : call[b] # "waiting"
    BY <1>3, LineShrinks DEF B!Begin, B!Waiting
  <2>2. CASE B!Concluded(a, "notAsked", "falling") /\ tail' = Tail(tail)
    BY <1>2, <2>1, <2>2 DEF B!Concluded
  <2>3. CASE call' = [call EXCEPT ![a] = "waiting"] /\ UNCHANGED <<outcome, tail>>
    BY <2>1, <2>3
  <2> QED
    BY <1>3, <2>2, <2>3 DEF B!Begin
<1>4. ASSUME NEW a \in Asks, B!Poll(a) \/ B!GiveUp(a) PROVE LineIsSound'
  <2>1. call[a] = "waiting" /\ tail # <<>> /\ a = tail[1] /\ \A b \in Asks : call[b] = "waiting" => b = a
    BY <1>4 DEF B!Poll, B!GiveUp, B!PastDeadline
  <2>2. tail' = Tail(tail) /\ \E c \in {"done", "falling"} : call' = [call EXCEPT ![a] = c]
    BY <1>4 DEF B!Poll, B!GiveUp, B!Freed, B!Concluded
  <2> QED
    BY <1>2, <2>1, <2>2
<1>5. ASSUME NEW a \in Asks, B!Fallback(a) PROVE LineIsSound'
  BY <1>5 DEF B!Fallback
<1>6. CASE B!BridgeCrash
  BY <1>6 DEF B!BridgeCrash
<1>7. CASE UNCHANGED <<call, tail>>
  BY <1>7
<1> QED
  BY <1>1, <1>3, <1>4, <1>5, <1>6, <1>7 DEF B!Next, B!browseVars, B!bridgeVars, B!Pick, B!OpenPage, B!ReadRequest,
    B!WritePicture, B!WriteAnswer, B!PageError, B!Start, B!Stop, B!Tick

LEMMA BrowserKept ==
  ASSUME BrowseInv, [B!Next]_(B!browseVars) PROVE BrowserIsSound'
<1> USE DEF BrowseInv, BrowserIsSound
<1>0. B!NoPage \notin Asks
  BY OutsideAssumption DEF B!BrowseAssumption
<1>1. ASSUME NEW a \in Asks, B!Pick(a) PROVE BrowserIsSound'
  BY <1>0, <1>1 DEF B!Pick
<1>2. CASE B!ReadRequest
  BY <1>0, <1>2 DEF B!ReadRequest, B!Answered
<1>3. ASSUME NEW k \in {"page", "pictured", "failed", "proxyDown"}, B!OpenPage(k) PROVE BrowserIsSound'
  BY <1>0, <1>3 DEF B!OpenPage
<1>4. CASE B!WritePicture \/ B!WriteAnswer \/ B!PageError \/ B!Stop
  BY <1>0, <1>4 DEF B!WritePicture, B!HasPicture, B!WriteAnswer, B!MayAnswer, B!Answered, B!PageError, B!Stop
<1>5. CASE UNCHANGED <<page, step, found, opened>>
  BY <1>5
<1> QED
  BY <1>1, <1>2, <1>3, <1>4, <1>5 DEF B!Next, B!browseVars, B!browserVars, B!ReadPage, B!Begin, B!Poll, B!GiveUp,
    B!Fallback, B!BridgeCrash, B!Tick, B!Start

(* Which of the files of a call are there. *)
Request(a) == age[<<"request", a>>] # ORPHAN + 1
Result(a) == age[<<"result", a>>] # ORPHAN + 1
Picture(a) == age[<<"picture", a>>] # ORPHAN + 1

LEMMA FilesThere ==
  ASSUME BrowseInv, NEW a \in Asks
  PROVE  /\ B!Exists(B!Request(a)) = Request(a) /\ B!Exists(B!Result(a)) = Result(a)
         /\ B!Exists(B!Picture(a)) = Picture(a)
         /\ {<<"request", a>>, <<"result", a>>, <<"picture", a>>} \subseteq DOMAIN age
BY DEF B!Exists, B!Request, B!Result, B!Picture, B!Absent, Request, Result, Picture, BrowseInv, BrowseTypes, B!Files

Ask(a) ==
  /\ call[a] \in {"unasked", "queued"} =>
       /\ outcome[a] = "none" /\ a \notin opened /\ page # a /\ says[a] = "nothing"
       /\ ~Request(a) /\ ~Result(a) /\ ~Picture(a)
  /\ call[a] = "waiting" => outcome[a] = "none"
  /\ call[a] \in {"falling", "done"} => outcome[a] # "none"
  /\ Request(a) => outcome[a] = "none"
  /\ outcome[a] = "notAsked" => a \notin opened
  /\ says[a] \notin {"nothing", "badRequest"} => a \in opened
  /\ call[a] = "waiting" /\ Result(a) /\ says[a] = "pictured" => Picture(a)
  /\ call[a] = "waiting" /\ page = a /\ step = "answer" /\ found = "pictured" => Picture(a)

LEMMA AskKept ==
  ASSUME BrowseInv, [B!Next]_(B!browseVars), NEW b \in Asks, Ask(b) PROVE Ask(b)'
<1> USE DEF Ask
<1>0. /\ ORPHAN \in Nat /\ B!NoPage \notin Asks
      /\ call \in [Asks -> {"unasked", "queued", "waiting", "falling", "done", "lost"}]
      /\ outcome \in [Asks -> {"none", "answered", "unknown", "notAsked"}]
      /\ says \in [Asks -> {"nothing", "badRequest", "page", "pictured", "failed", "proxyDown"}]
      /\ {<<"request", b>>, <<"result", b>>, <<"picture", b>>} \subseteq DOMAIN age
      /\ {<<"request", b>>, <<"result", b>>, <<"picture", b>>} \subseteq B!Files
  BY OutsideAssumption, FilesThere DEF B!BrowseAssumption, BrowseInv, BrowseTypes, B!Files
<1>1. ASSUME NEW a \in Asks, B!ReadPage(a) PROVE Ask(b)'
  BY <1>0, <1>1 DEF B!ReadPage, B!Concluded, B!browserVars, Request, Result, Picture
<1>2. ASSUME NEW a \in Asks, B!Begin(a) PROVE Ask(b)'
  <2>1. /\ Request(b)' => Request(b) \/ (b = a /\ call'[a] = "waiting")
        /\ Result(b)' => Result(b)
        /\ Picture(b)' => Picture(b)
    <3>1. B!Swept[<<"request", b>>] # ORPHAN + 1 => Request(b)
      BY <1>0 DEF B!Swept, B!Absent, Request
    <3>2. B!Swept[<<"result", b>>] # ORPHAN + 1 => Result(b)
      BY <1>0 DEF B!Swept, B!Absent, Result
    <3>3. B!Swept[<<"picture", b>>] # ORPHAN + 1 => Picture(b)
      BY <1>0 DEF B!Swept, B!Absent, Picture
    <3>4. age' = B!Swept \/ (age' = [B!Swept EXCEPT ![<<"request", a>>] = 0] /\ call'[a] = "waiting")
      BY <1>0, <1>2 DEF B!Begin, B!Asked, B!Request
    <3>5. DOMAIN B!Swept = B!Files
      BY DEF B!Swept
    <3>6. CASE age' = B!Swept
      BY <3>1, <3>2, <3>3, <3>6 DEF Request, Result, Picture
    <3>7. CASE age' = [B!Swept EXCEPT ![<<"request", a>>] = 0] /\ call'[a] = "waiting"
      <4>1. /\ age'[<<"result", b>>] = B!Swept[<<"result", b>>]
            /\ age'[<<"picture", b>>] = B!Swept[<<"picture", b>>]
            /\ a # b => age'[<<"request", b>>] = B!Swept[<<"request", b>>]
        BY <1>0, <3>5, <3>7
      <4> QED
        BY <3>1, <3>2, <3>3, <3>7, <4>1 DEF Request, Result, Picture
    <3> QED
      BY <3>4, <3>6, <3>7
  <2>2. /\ call[a] = "queued" /\ \A c \in Asks : call[c] # "waiting"
        /\ \/ call' = [call EXCEPT ![a] = "waiting"] /\ UNCHANGED outcome
           \/ B!Concluded(a, "notAsked", "falling") /\ age' \in {B!Swept}
        /\ UNCHANGED <<says, page, step, found, opened>>
    BY <1>2 DEF B!Begin, B!Waiting, B!browserVars, B!Asked
  <2>3. age' = B!Swept /\ b = a => ~Request(b)'
    BY <1>0, <2>2 DEF B!Swept, B!Absent, Request
  <2>4. CASE call' = [call EXCEPT ![a] = "waiting"] /\ UNCHANGED outcome
    <3>1. call'[b] = (IF b = a THEN "waiting" ELSE call[b])
      BY <1>0, <2>4
    <3>2. outcome' = outcome /\ UNCHANGED <<says, page, step, found, opened>> /\ call[a] = "queued"
      BY <2>2, <2>4
    <3>3. CASE b = a
      BY ONLY Ask(b), <2>1, <3>1, <3>2, <3>3 DEF Ask
    <3>4. CASE b # a
      <4>1. call[b] # "waiting"
        BY <1>0, <2>2
      <4> QED
        BY ONLY Ask(b), <2>1, <3>1, <3>2, <3>4, <4>1 DEF Ask
    <3> QED
      BY <3>3, <3>4
  <2>5. CASE B!Concluded(a, "notAsked", "falling") /\ age' = B!Swept
    <3>1. /\ call'[b] = (IF b = a THEN "falling" ELSE call[b])
          /\ outcome'[b] = (IF b = a THEN "notAsked" ELSE outcome[b])
      BY <1>0, <2>5 DEF B!Concluded
    <3>2. Request(b)' => Request(b)
      BY <2>1, <2>3, <2>5
    <3>3. /\ UNCHANGED <<says, page, step, found, opened>> /\ call[a] = "queued"
          /\ b = a => ~Request(b)'
      BY <2>2, <2>3, <2>5
    <3>4. Result(b)' => Result(b)
      BY <2>1
    <3>5. Picture(b)' => Picture(b)
      BY <2>1
    <3>6. CASE b = a
      BY ONLY Ask(b), <3>1, <3>2, <3>3, <3>4, <3>5, <3>6 DEF Ask
    <3>7. CASE b # a
      <4>1. call[b] # "waiting"
        BY <1>0, <2>2
      <4> QED
        BY ONLY Ask(b), <3>1, <3>2, <3>3, <3>4, <3>5, <3>7, <4>1 DEF Ask
    <3> QED
      BY <3>6, <3>7
  <2> QED
    BY <2>2, <2>4, <2>5
<1>3. ASSUME NEW a \in Asks, B!Poll(a) \/ B!GiveUp(a) PROVE Ask(b)'
  <2>1. /\ b = a => ~Request(b)' /\ ~Result(b)' /\ ~Picture(b)'
        /\ b # a => Request(b)' = Request(b) /\ Result(b)' = Result(b) /\ Picture(b)' = Picture(b)
    BY <1>0, <1>3 DEF B!Poll, B!GiveUp, B!Freed, B!Cleared, B!Request, B!Result, B!Picture, B!Absent,
      Request, Result, Picture
  <2>2. /\ says' = [says EXCEPT ![a] = "nothing"] /\ UNCHANGED <<page, step, found, opened>>
        /\ call[a] = "waiting"
    BY <1>3 DEF B!Poll, B!GiveUp, B!Freed, B!browserVars, B!PastDeadline
  <2>3. \E o \in {"answered", "unknown"}, c \in {"falling", "done"} : B!Concluded(a, o, c)
    BY <1>3 DEF B!Poll, B!GiveUp
  <2> QED
    BY <1>0, <2>1, <2>2, <2>3 DEF B!Concluded
<1>4. ASSUME NEW a \in Asks, B!Fallback(a) PROVE Ask(b)'
  BY <1>0, <1>4 DEF B!Fallback, B!browserVars, Request, Result, Picture
<1>5. ASSUME NEW a \in Asks, B!Pick(a) PROVE Ask(b)'
  <2>1. Request(a)
    BY <1>5, FilesThere DEF B!Pick, B!Next1, B!Fresh
  <2>2. a = b => call[b] \notin {"unasked", "queued"}
    BY <2>1
  <2> QED
    BY <1>0, <1>5, <2>2 DEF B!Pick, B!bridgeVars, Request, Result, Picture
<1>6. CASE B!ReadRequest
  <2>1. page \in Asks /\ step = "picked"
    BY <1>6 DEF B!ReadRequest, BrowseInv, BrowserIsSound
  <2>2. CASE B!Exists(B!Request(page)) /\ step' = "opening" /\ opened' = opened \cup {page}
             /\ UNCHANGED <<page, found, age, says>>
    <3>1. Request(page) /\ (b = page => Request(b))
      BY <2>1, <2>2, FilesThere
    <3>2. Request(b)' = Request(b) /\ Result(b)' = Result(b) /\ Picture(b)' = Picture(b)
      BY <2>2 DEF Request, Result, Picture
    <3> QED
      BY <1>6, <2>2, <3>1, <3>2 DEF B!ReadRequest, B!bridgeVars
  <2>3. CASE B!Answered(page, "badRequest") /\ UNCHANGED opened
    <3>1. /\ Request(b)' = Request(b)
          /\ Picture(b)' = Picture(b)
          /\ b # page => Result(b)' = Result(b)
      BY <2>3 DEF B!Answered, Request, Result, Picture, B!Result
    <3>2. /\ says'[b] = (IF b = page THEN "badRequest" ELSE says[b])
          /\ page' = B!NoPage /\ step' = "idle" /\ UNCHANGED <<call, outcome, opened>>
      BY <1>0, <1>6, <2>3 DEF B!ReadRequest, B!Answered, B!bridgeVars
    <3>3. CASE b = page
      <4>1. call[b] \notin {"unasked", "queued"}
        BY <1>0, <3>3
      <4> QED
        BY ONLY Ask(b), <1>0, <3>1, <3>2, <3>3, <4>1 DEF Ask
    <3>4. CASE b # page
      BY ONLY Ask(b), <1>0, <3>1, <3>2, <3>4 DEF Ask
    <3> QED
      BY <3>3, <3>4
  <2> QED
    BY <1>6, <2>2, <2>3 DEF B!ReadRequest
<1>7. ASSUME NEW k \in {"page", "pictured", "failed", "proxyDown"}, B!OpenPage(k) PROVE Ask(b)'
  BY <1>7 DEF B!OpenPage, B!bridgeVars, Request, Result, Picture
<1>8. CASE B!WritePicture
  <2>1. page \in Asks /\ page \in opened
    BY <1>8 DEF B!WritePicture, B!HasPicture, BrowseInv, BrowserIsSound
  <2>2. /\ Request(b)' = Request(b) /\ Result(b)' = Result(b)
        /\ Picture(b)' = (b = page \/ Picture(b))
    BY <1>0, <1>8, <2>1 DEF B!WritePicture, B!Picture, Request, Result, Picture
  <2> QED
    BY <1>8, <2>1, <2>2 DEF B!WritePicture, B!bridgeVars
<1>9. CASE B!WriteAnswer
  <2>1. page \in Asks /\ page \in opened /\ step = "answer"
    BY <1>9 DEF B!WriteAnswer, B!MayAnswer, BrowseInv, BrowserIsSound
  <2>2. /\ Request(b)' = Request(b) /\ Picture(b)' = Picture(b)
        /\ b # page => Result(b)' = Result(b)
    BY <1>0, <1>9, <2>1 DEF B!WriteAnswer, B!Answered, B!Result, Request, Result, Picture
  <2> QED
    BY <1>0, <1>9, <2>1, <2>2 DEF B!WriteAnswer, B!Answered, B!bridgeVars
<1>10. CASE B!PageError \/ B!Stop \/ B!Start
  BY <1>0, <1>10 DEF B!PageError, B!Stop, B!Start, B!bridgeVars, Request, Result, Picture
<1>11. CASE B!BridgeCrash
  BY <1>0, <1>11 DEF B!BridgeCrash, B!browserVars, Request, Result, Picture
<1>12. CASE B!Tick
  <2>1. Request(b)' => Request(b)
    BY <1>0, <1>12 DEF B!Tick, B!Absent, Request
  <2>2. Result(b)' => Result(b)
    BY <1>0, <1>12 DEF B!Tick, B!Absent, Result
  <2>3. Picture(b) = Picture(b)'
    <3>1. age[<<"picture", b>>] \in 0..ORPHAN + 1
      BY <1>0 DEF BrowseInv, BrowseTypes, B!Absent
    <3> QED
      BY <1>0, <1>12, <3>1 DEF B!Tick, B!Absent, B!Older, Picture
  <2> QED
    BY <1>12, <2>1, <2>2, <2>3 DEF B!Tick, B!bridgeVars, B!browserVars
<1>13. CASE UNCHANGED B!browseVars
  BY <1>13 DEF B!browseVars, B!bridgeVars, B!browserVars, Request, Result, Picture
<1> QED
  BY <1>1, <1>2, <1>3, <1>4, <1>5, <1>6, <1>7, <1>8, <1>9, <1>10, <1>11, <1>12, <1>13 DEF B!Next

LEMMA BrowseStep == BrowseInv /\ [B!Next]_(B!browseVars) => BrowseInv'
<1> SUFFICES ASSUME BrowseInv, [B!Next]_(B!browseVars) PROVE BrowseInv'
  OBVIOUS
<1>1. BrowseTypes' /\ LineIsSound' /\ BrowserIsSound'
  BY BrowseTypesKept, LineKept, BrowserKept
<1>2. ASSUME NEW b \in Asks PROVE AskIsSound(b)'
  <2>1. AskIsSound(b) = Ask(b)
    BY FilesThere DEF AskIsSound, Ask
  <2>2. Ask(b)'
    BY <2>1, AskKept DEF BrowseInv
  <2>3. /\ B!Exists(B!Request(b))' = Request(b)' /\ B!Exists(B!Result(b))' = Result(b)'
        /\ B!Exists(B!Picture(b))' = Picture(b)'
    BY DEF B!Exists, B!Request, B!Result, B!Picture, B!Absent, Request, Result, Picture
  <2> QED
    BY <2>2, <2>3 DEF AskIsSound, Ask
<1> QED
  BY <1>1, <1>2 DEF BrowseInv

LEMMA BrowseAnswers == BrowseInv => B!AnswerMeansReady
BY DEF BrowseInv, AskIsSound, B!AnswerMeansReady, B!Waiting

LEMMA BrowseTyped == BrowseInv => B!TypeOK
<1> SUFFICES ASSUME BrowseInv PROVE B!TypeOK
  OBVIOUS
<1>1. B!IsInjective(tail) /\ {a \in Asks : call[a] \in {"queued", "waiting"}} = B!ToSet(tail)
  BY DEF BrowseInv, LineIsSound, B!IsInjective, B!ToSet
<1>2. Cardinality(B!Waiting) <= 1 /\ (B!Waiting # {} => Head(tail) \in B!Waiting)
  <2>1. B!Waiting \subseteq {tail[1]}
    BY DEF BrowseInv, LineIsSound, B!Waiting
  <2>2. IsFiniteSet({tail[1]}) /\ Cardinality({tail[1]}) = 1
    BY FS_Singleton
  <2>3. B!Waiting # {} => tail # <<>>
    BY DEF BrowseInv, LineIsSound, B!Waiting
  <2> QED
    BY <2>1, <2>2, <2>3, FS_Subset DEF BrowseInv, LineIsSound
<1>3. /\ BrowseTypes /\ BrowserIsSound /\ tail \in Seq(Asks)
  BY DEF BrowseInv, LineIsSound
<1>4. B!Cardinality(B!Waiting) <= 1 /\ (B!Waiting # {} => Head(tail) \in B!Waiting) /\ age \in [B!Files -> 0..B!Absent]
      /\ beatAge \in 0..HEARTBEAT_STALE + 1
  BY <1>2, <1>3 DEF BrowseTypes, Cardinality, B!Cardinality
<1>5. /\ (page = B!NoPage) = (step = "idle") /\ opened \subseteq Asks
      /\ reply \in [Asks -> [from: {"nobody", "browser", "provider"}, picture: BOOLEAN]]
      /\ call \in [Asks -> {"unasked", "queued", "waiting", "falling", "done", "lost"}]
      /\ outcome \in [Asks -> {"none", "answered", "unknown", "notAsked"}]
  BY <1>3 DEF BrowserIsSound, BrowseTypes
<1> QED
  BY ONLY <1>1, <1>3, <1>4, <1>5 DEF B!TypeOK

LEMMA BrowseStartMaps == B!Init => B!Contract!Init
BY DEF B!Init, B!Contract!Init

LEMMA BrowseStepMaps ==
  ASSUME BrowseInv, [B!Next]_(B!browseVars)
  PROVE  B!Contract!Next \/ UNCHANGED B!Contract!contractVars
<1> DEFINE out == [a \in Asks |->
             IF call[a] = "lost" /\ outcome[a] = "none" THEN "lost"
             ELSE IF call[a] \in {"queued", "waiting"} THEN "pending" ELSE outcome[a]]
<1>0. /\ call \in [Asks -> {"unasked", "queued", "waiting", "falling", "done", "lost"}]
      /\ outcome \in [Asks -> {"none", "answered", "unknown", "notAsked"}]
      /\ B!NoPage \notin Asks /\ opened \subseteq Asks /\ \A a \in Asks : Ask(a)
  <2>1. \A a \in Asks : AskIsSound(a) = Ask(a)
    BY FilesThere DEF AskIsSound, Ask
  <2> QED
    BY <2>1, OutsideAssumption DEF B!BrowseAssumption, BrowseInv, BrowseTypes, BrowserIsSound
<1>1. ASSUME NEW a \in Asks, B!ReadPage(a) PROVE B!Contract!Next
  <2>1. call[a] = "unasked" /\ outcome[a] = "none" /\ a \notin opened /\ opened' = opened
    BY <1>0, <1>1 DEF B!ReadPage, B!browserVars, Ask
  <2>2. CASE B!Concluded(a, "notAsked", "falling")
    <3>1. out' = [out EXCEPT ![a] = "notAsked"]
      BY <1>0, <2>1, <2>2 DEF B!Concluded
    <3>2. B!Contract!Conclude(a, "notAsked")
      BY <2>1, <3>1 DEF B!Contract!Conclude
    <3> QED
      BY <3>2 DEF B!Contract!Next
  <2>3. CASE call' = [call EXCEPT ![a] = "queued"] /\ UNCHANGED outcome
    <3>1. out' = [out EXCEPT ![a] = "pending"]
      BY <1>0, <2>1, <2>3
    <3>2. B!Contract!Ask(a)
      BY <2>1, <3>1 DEF B!Contract!Ask
    <3> QED
      BY <3>2 DEF B!Contract!Next
  <2> QED
    BY <1>1, <2>2, <2>3 DEF B!ReadPage
<1>2. ASSUME NEW a \in Asks, B!Begin(a) PROVE B!Contract!Next \/ UNCHANGED B!Contract!contractVars
  <2>1. call[a] = "queued" /\ outcome[a] = "none" /\ a \notin opened /\ opened' = opened
    BY <1>0, <1>2 DEF B!Begin, B!browserVars, Ask
  <2>2. CASE B!Concluded(a, "notAsked", "falling")
    <3>1. out' = [out EXCEPT ![a] = "notAsked"]
      BY <1>0, <2>1, <2>2 DEF B!Concluded
    <3>2. B!Contract!Conclude(a, "notAsked")
      BY <2>1, <3>1 DEF B!Contract!Conclude
    <3> QED
      BY <3>2 DEF B!Contract!Next
  <2>3. CASE call' = [call EXCEPT ![a] = "waiting"] /\ UNCHANGED outcome
    <3>1. out' = out
      BY <1>0, <2>1, <2>3
    <3> QED
      BY <2>1, <3>1 DEF B!Contract!contractVars
  <2> QED
    BY <1>2, <2>2, <2>3 DEF B!Begin
<1>3. ASSUME NEW a \in Asks, B!Poll(a) \/ B!GiveUp(a) PROVE B!Contract!Next
  <2>1. call[a] = "waiting" /\ outcome[a] = "none" /\ opened' = opened
    BY <1>0, <1>3 DEF B!Poll, B!GiveUp, B!PastDeadline, B!browserVars, Ask
  <2>2. PICK o \in {"answered", "unknown"}, c \in {"falling", "done"} :
          B!Concluded(a, o, c) /\ (o = "answered" => says[a] \in {"page", "pictured", "failed"})
    BY <1>3 DEF B!Poll, B!GiveUp
  <2>3. out' = [out EXCEPT ![a] = o]
    BY <1>0, <2>1, <2>2 DEF B!Concluded
  <2>4. o = "answered" => a \in opened
    BY <1>0, <2>2 DEF Ask
  <2>5. B!Contract!Conclude(a, o)
    BY <2>1, <2>2, <2>3, <2>4 DEF B!Contract!Conclude
  <2> QED
    BY <2>5 DEF B!Contract!Next
<1>4. ASSUME NEW a \in Asks, B!Fallback(a) PROVE UNCHANGED B!Contract!contractVars
  <2>1. out' = out
    BY <1>0, <1>4 DEF B!Fallback, Ask
  <2> QED
    BY <1>4, <2>1 DEF B!Fallback, B!browserVars, B!Contract!contractVars
<1>5. CASE B!ReadRequest
  <2>1. page \in Asks
    BY <1>5 DEF B!ReadRequest, BrowseInv, BrowserIsSound
  <2>2. out' = out
    BY <1>5 DEF B!ReadRequest, B!bridgeVars
  <2>3. CASE opened' = opened
    BY <2>2, <2>3 DEF B!Contract!contractVars
  <2>4. CASE opened' = opened \cup {page} /\ page \notin opened /\ B!Exists(B!Request(page))
    <3>1. outcome[page] = "none" /\ call[page] \in {"waiting", "lost"}
      BY <1>0, <2>1, <2>4, FilesThere DEF Ask
    <3>2. out[page] \in {"pending", "lost"}
      BY <2>1, <3>1
    <3>3. B!Contract!Take(page)
      BY <2>1, <2>2, <2>4, <3>2 DEF B!Contract!Take
    <3> QED
      BY <2>1, <3>3 DEF B!Contract!Next
  <2> QED
    BY <1>5, <2>3, <2>4 DEF B!ReadRequest
<1>6. CASE B!BridgeCrash
  <2>1. out' = [a \in Asks |-> IF out[a] = "pending" THEN "lost" ELSE out[a]]
    BY <1>0, <1>6 DEF B!BridgeCrash, Ask
  <2>2. B!Contract!Crash
    BY <1>6, <2>1 DEF B!BridgeCrash, B!browserVars, B!Contract!Crash
  <2> QED
    BY <2>2 DEF B!Contract!Next
<1>7. CASE UNCHANGED <<call, outcome, opened>>
  BY <1>7 DEF B!Contract!contractVars
<1> QED
  BY <1>1, <1>2, <1>3, <1>4, <1>5, <1>6, <1>7 DEF B!Next, B!browseVars, B!bridgeVars, B!browserVars, B!Pick, B!OpenPage,
    B!WritePicture, B!WriteAnswer, B!PageError, B!Start, B!Stop, B!Tick

----------------------------------------------------------------------------
(* Plugins as they call *)

(* What was handed over and is not excused has its receipt, and what is being sent
   has none. *)
PluginsInv ==
  /\ box \in [G!NameSet -> G!Actions \cup {G!NoFile}]
  /\ failed \subseteq G!NameSet /\ receipts \subseteq G!Receipts /\ pass \subseteq G!NameSet
  /\ tries \in [G!NameSet -> [n: 0..MAX_ATTEMPTS - 1, waits: BOOLEAN]]
  /\ sending \in G!NameSet \cup {G!NoName}
  /\ sending # G!NoName => G!There(sending) /\ G!ReceiptOf(sending) \notin receipts
  /\ handed \in [G!Receipts -> Nat] /\ excused \in [G!Receipts -> Nat]
  /\ \A r \in G!Receipts : handed[r] <= excused[r] + (IF r \in receipts THEN 1 ELSE 0)

LEMMA PluginsStart == G!Init => PluginsInv
BY OutsideAssumption DEF G!PluginsAssumption, PluginsInv, G!Init, G!Untried

LEMMA ActionsAreNotNoFile == \A a \in G!Actions : a # G!NoFile
BY DEF G!Actions, G!NoFile, G!Shapes

LEMMA ReceiptsOf ==
  ASSUME PluginsInv, NEW f \in G!NameSet, G!There(f) PROVE G!ReceiptOf(f) \in G!Receipts
BY DEF PluginsInv, G!There, G!ReceiptOf, G!Receipts, G!Actions

LEMMA PluginsStep == PluginsInv /\ [G!Next]_(G!pluginsVars) => PluginsInv'
<1> SUFFICES ASSUME PluginsInv, [G!Next]_(G!pluginsVars) PROVE PluginsInv'
  OBVIOUS
<1> USE DEF PluginsInv
<1>0. MAX_ATTEMPTS \in Nat \ {0} /\ G!NoName \notin G!NameSet
  BY OutsideAssumption DEF G!PluginsAssumption
<1>00. G!Untried \in [n: 0..MAX_ATTEMPTS - 1, waits: BOOLEAN]
  BY <1>0 DEF G!Untried
<1>1. ASSUME NEW f \in G!NameSet, NEW a \in G!Actions, G!Write(f, a) PROVE PluginsInv'
  BY <1>1, ActionsAreNotNoFile DEF G!Write, G!memory, G!There, G!ReceiptOf
<1>2. ASSUME NEW f \in G!NameSet, G!Completed(f) PROVE PluginsInv'
  <2>1. box[f] \in G!Actions /\ box[f] # G!NoFile
    BY <1>2 DEF G!Completed, G!NoFile
  <2>2. /\ box'[f] \in G!Actions /\ box'[f].id = box[f].id
        /\ box' \in [G!NameSet -> G!Actions \cup {G!NoFile}]
        /\ \A g \in G!NameSet : g # f => box'[g] = box[g]
    BY <1>2, <2>1 DEF G!Completed, G!Actions, G!Shapes
  <2>3. sending # G!NoName => G!There(sending)' /\ G!ReceiptOf(sending)' = G!ReceiptOf(sending)
    BY <1>2, <2>1, <2>2, ActionsAreNotNoFile DEF G!Completed, G!memory, G!There, G!ReceiptOf
  <2> QED
    BY <1>2, <2>2, <2>3 DEF G!Completed, G!memory
<1>3. ASSUME NEW f \in G!NameSet, G!failedAttempt(f)
      PROVE  /\ box' \in [G!NameSet -> G!Actions \cup {G!NoFile}] /\ failed' \subseteq G!NameSet
             /\ tries' \in [G!NameSet -> [n: 0..MAX_ATTEMPTS - 1, waits: BOOLEAN]]
  <2>1. CASE tries[f].n + 1 >= MAX_ATTEMPTS
    BY <1>3, <1>00, <2>1 DEF G!failedAttempt, G!refuse, G!Removed
  <2>2. CASE ~(tries[f].n + 1 >= MAX_ATTEMPTS)
    <3>1. [n |-> tries[f].n + 1, waits |-> TRUE] \in [n: 0..MAX_ATTEMPTS - 1, waits: BOOLEAN]
      BY <1>0, <2>2
    <3> QED
      BY <1>3, <2>2, <3>1 DEF G!failedAttempt
  <2> QED
    BY <2>1, <2>2
<1>4. ASSUME NEW f \in G!NameSet, G!handle(f) PROVE PluginsInv'
  <2>1. sending = G!NoName /\ pass' \subseteq G!NameSet /\ UNCHANGED <<receipts, handed, excused>>
    BY <1>4 DEF G!handle
  <2>2. \/ G!failedAttempt(f) /\ sending' = sending
        \/ /\ tries' = tries /\ sending' = sending
           /\ UNCHANGED <<box, failed>> \/ G!refuse(f) \/ (G!Removed(f) /\ failed' = failed)
        \/ /\ G!There(f) /\ ~G!AlreadySent(f) /\ sending' \in {f, G!NoName}
           /\ UNCHANGED <<box, failed, tries>>
    BY <1>4, <2>1 DEF G!handle
  <2>3. CASE G!failedAttempt(f) /\ sending' = sending
    BY <1>3, <2>1, <2>3
  <2>4. CASE /\ tries' = tries /\ sending' = sending
             /\ UNCHANGED <<box, failed>> \/ G!refuse(f) \/ (G!Removed(f) /\ failed' = failed)
    BY <2>1, <2>4 DEF G!refuse, G!Removed
  <2>5. CASE /\ G!There(f) /\ ~G!AlreadySent(f) /\ sending' \in {f, G!NoName}
             /\ UNCHANGED <<box, failed, tries>>
    BY <2>1, <2>5 DEF G!There, G!AlreadySent, G!ReceiptOf
  <2> QED
    BY <2>2, <2>3, <2>4, <2>5
<1>5. CASE G!SendFails
  <2>1. sending \in G!NameSet /\ G!failedAttempt(sending)
    BY <1>5 DEF G!SendFails
  <2> QED
    BY <1>3, <1>5, <2>1 DEF G!SendFails
<1>6. ASSUME NEW b \in BOOLEAN, G!Sent(b) PROVE PluginsInv'
  <2> DEFINE r == G!ReceiptOf(sending)
  <2>1. sending \in G!NameSet /\ r \in G!Receipts /\ r \notin receipts
    BY <1>6, ReceiptsOf DEF G!Sent
  <2>2. /\ handed' = [handed EXCEPT ![r] = @ + 1] /\ sending' = G!NoName
        /\ \/ receipts' = receipts \cup {r} /\ excused' = excused
           \/ receipts' = receipts /\ excused' = [excused EXCEPT ![r] = @ + 1]
        /\ tries' = [tries EXCEPT ![sending] = G!Untried]
        /\ box' = [box EXCEPT ![sending] = G!NoFile] /\ UNCHANGED <<failed, pass>>
    BY <1>6 DEF G!Sent, G!Receipt, G!Removed
  <2> HIDE DEF r
  <2>3. \A x \in G!Receipts : handed'[x] <= excused'[x] + (IF x \in receipts' THEN 1 ELSE 0)
    BY <2>1, <2>2
  <2> QED
    BY <1>00, <2>1, <2>2, <2>3
<1>7. ASSUME NEW b \in BOOLEAN, G!Crash(b) PROVE PluginsInv'
  <2>1. CASE b
    <3> DEFINE r == G!ReceiptOf(sending)
    <3>1. sending \in G!NameSet /\ r \in G!Receipts
      BY <1>7, <2>1, ReceiptsOf DEF G!Crash
    <3>2. /\ handed' = [handed EXCEPT ![r] = @ + 1] /\ excused' = [excused EXCEPT ![r] = @ + 1]
          /\ sending' = G!NoName /\ tries' = [f \in G!NameSet |-> G!Untried] /\ pass' = {}
          /\ UNCHANGED <<box, failed, receipts>>
      BY <1>7, <2>1 DEF G!Crash
    <3> HIDE DEF r
    <3> QED
      BY <1>00, <3>1, <3>2
  <2>2. CASE ~b
    BY <1>7, <1>00, <2>2 DEF G!Crash
  <2> QED
    BY <2>1, <2>2
<1>8. CASE G!drain
  BY <1>8 DEF G!drain, G!There, G!ReceiptOf
<1>9. ASSUME NEW f \in G!NameSet, G!BackoffOver(f) PROVE PluginsInv'
  BY <1>9 DEF G!BackoffOver, G!There, G!ReceiptOf
<1>10. CASE G!Disconnected \/ G!HourOver \/ \E e \in G!Settings : G!SaveSettings(e)
  BY <1>10 DEF G!Disconnected, G!HourOver, G!SaveSettings, G!memory, G!There, G!ReceiptOf
<1>11. CASE UNCHANGED G!pluginsVars
  BY <1>11 DEF G!pluginsVars, G!memory, G!There, G!ReceiptOf
<1> QED
  BY <1>1, <1>2, <1>4, <1>5, <1>6, <1>7, <1>8, <1>9, <1>10, <1>11 DEF G!Next

LEMMA PluginsPromise == PluginsInv => G!TypeOK /\ G!OncePerReceipt
BY DEF PluginsInv, G!TypeOK, G!OncePerReceipt

----------------------------------------------------------------------------
(* The connection *)

(* A socket is up or being opened or waited for, one of the three at most, and in a
   process that is up; and a message handed on is known, unless the set was emptied. *)
ProcessInv ==
  /\ proc \in {"down", "up", "refused"} /\ pid \in Pids \cup {0} /\ lock \in Pids \cup {0} /\ predecessor \in Pids \cup {0}

NumbersInv == generation \in Nat /\ generation <= MaxSockets /\ socket \in Nat /\ socket <= generation

FlagsInv == connecting \in BOOLEAN /\ reconnectTimer \in BOOLEAN /\ connected \in BOOLEAN

SocketInv ==
  /\ alive \subseteq {socket} /\ 0 \notin alive
  /\ connected => socket \in alive /\ socket = generation
  /\ connecting \/ reconnectTimer => alive = {}
  /\ ~(connecting /\ reconnectTimer) /\ (connecting => generation # 0)
  /\ proc # "up" => generation = 0 /\ ~connecting /\ ~reconnectTimer

KnownInv ==
  /\ WSeen \subseteq Messages /\ WHanded \in [Messages -> 0..Deliveries] /\ emptied \in [Messages -> BOOLEAN]
  /\ \A m \in Messages : WHanded[m] > 0 /\ ~emptied[m] => m \in WSeen

ConnectionInv == ProcessInv /\ NumbersInv /\ FlagsInv /\ SocketInv /\ KnownInv

LEMMA ConnectionStart == W!Init => ConnectionInv
<1> SUFFICES ASSUME W!Init PROVE ConnectionInv
  OBVIOUS
<1>1. ProcessInv
  BY DEF ProcessInv, W!Init, W!NoLock
<1>4. NumbersInv
  BY OutsideAssumption DEF W!ConnectionAssumption, NumbersInv, W!Init, W!NoSocket
<1>5. FlagsInv
  BY DEF FlagsInv, W!Init
<1>6. SocketInv
  BY DEF SocketInv, W!Init, W!NoSocket
<1>2. emptied \in [Messages -> BOOLEAN]
  BY Zenon DEF W!Init
<1>3. KnownInv
  BY <1>2, OutsideAssumption DEF W!ConnectionAssumption, KnownInv, W!Init
<1> QED
  BY <1>1, <1>3, <1>4, <1>5, <1>6 DEF ConnectionInv

LEMMA ConnectionStep == ConnectionInv /\ [W!Next]_(W!connectionVars) => ConnectionInv'
<1> SUFFICES ASSUME ConnectionInv, [W!Next]_(W!connectionVars) PROVE ConnectionInv'
  OBVIOUS
<1> USE DEF ConnectionInv, ProcessInv, NumbersInv, FlagsInv, SocketInv, KnownInv, W!NoLock, W!NoSocket
<1>0. Deliveries \in Nat /\ MaxSockets \in Nat \ {0}
  BY OutsideAssumption DEF W!ConnectionAssumption
<1>1. ASSUME NEW p \in Pids, W!Launch(p) PROVE ConnectionInv'
  <2>1. ProcessInv'
    BY <1>0, <1>1 DEF W!Launch, W!messageVars
  <2>2. NumbersInv'
    BY <1>0, <1>1 DEF W!Launch, W!messageVars
  <2>3. FlagsInv'
    BY <1>0, <1>1 DEF W!Launch, W!messageVars
  <2>4. SocketInv'
    BY <1>0, <1>1 DEF W!Launch, W!messageVars
  <2>5. KnownInv'
    BY <1>0, <1>1 DEF W!Launch, W!messageVars
  <2> QED
    BY <2>1, <2>2, <2>3, <2>4, <2>5
<1>2. ASSUME NEW b \in BOOLEAN, W!Ends(b) PROVE ConnectionInv'
  <2>1. ProcessInv'
    BY <1>2 DEF W!Ends
  <2>2. NumbersInv'
    BY <1>0, <1>2 DEF W!Ends
  <2>3. FlagsInv'
    BY <1>2 DEF W!Ends
  <2>4. SocketInv'
    BY <1>2 DEF W!Ends
  <2>5. KnownInv'
    <3>1. emptied' \in [Messages -> BOOLEAN]
      BY <1>2, Zenon DEF W!Ends
    <3>2. \A m \in Messages : emptied'[m]
      BY <1>2, Zenon DEF W!Ends
    <3> QED
      BY <1>2, <3>1, <3>2 DEF W!Ends
  <2> QED
    BY <2>1, <2>2, <2>3, <2>4, <2>5
<1>3. ASSUME NEW b \in BOOLEAN, W!Stop(b) PROVE ConnectionInv'
  BY <1>2, <1>3 DEF W!Stop
<1>4. CASE W!PredecessorEnds
  <2>1. ProcessInv'
    BY <1>0, <1>4 DEF W!PredecessorEnds, W!socketVars, W!messageVars
  <2>2. NumbersInv'
    BY <1>0, <1>4 DEF W!PredecessorEnds, W!socketVars, W!messageVars
  <2>3. FlagsInv'
    BY <1>0, <1>4 DEF W!PredecessorEnds, W!socketVars, W!messageVars
  <2>4. SocketInv'
    BY <1>0, <1>4 DEF W!PredecessorEnds, W!socketVars, W!messageVars
  <2>5. KnownInv'
    BY <1>0, <1>4 DEF W!PredecessorEnds, W!socketVars, W!messageVars
  <2> QED
    BY <2>1, <2>2, <2>3, <2>4, <2>5
<1>5. CASE W!Reconnect
  <2>1. ProcessInv'
    BY <1>0, <1>5 DEF W!Reconnect, W!lockVars, W!messageVars
  <2>2. NumbersInv'
    BY <1>0, <1>5 DEF W!Reconnect, W!lockVars, W!messageVars
  <2>3. FlagsInv'
    BY <1>0, <1>5 DEF W!Reconnect, W!lockVars, W!messageVars
  <2>4. SocketInv'
    <3>1. ~connecting /\ reconnectTimer /\ alive = {} /\ ~connected /\ proc = "up"
      BY <1>5 DEF W!Reconnect
    <3>2. /\ connecting' = TRUE /\ reconnectTimer' = FALSE /\ alive' = {} /\ socket' = 0
          /\ proc' = proc /\ connected' = connected
      BY <1>5, <3>1 DEF W!Reconnect, W!lockVars
    <3>3. generation' # 0
      BY <1>5, <3>1 DEF W!Reconnect
    <3> QED
      BY <3>1, <3>2, <3>3
  <2>5. KnownInv'
    BY <1>0, <1>5 DEF W!Reconnect, W!lockVars, W!messageVars
  <2> QED
    BY <2>1, <2>2, <2>3, <2>4, <2>5
<1>6. CASE W!Opened
  <2>1. ProcessInv'
    BY <1>0, <1>6 DEF W!Opened, W!lockVars, W!messageVars
  <2>2. NumbersInv'
    BY <1>0, <1>6 DEF W!Opened, W!lockVars, W!messageVars
  <2>3. FlagsInv'
    BY <1>0, <1>6 DEF W!Opened, W!lockVars, W!messageVars
  <2>4. SocketInv'
    BY <1>0, <1>6 DEF W!Opened, W!lockVars, W!messageVars
  <2>5. KnownInv'
    BY <1>0, <1>6 DEF W!Opened, W!lockVars, W!messageVars
  <2> QED
    BY <2>1, <2>2, <2>3, <2>4, <2>5
<1>7. CASE W!OpenFails
  BY <1>0, <1>2, <1>7 DEF W!OpenFails, W!Retry, W!lockVars, W!messageVars
<1>8. ASSUME NEW g \in 1..MaxSockets, W!Up(g) PROVE ConnectionInv'
  <2>1. ProcessInv'
    BY <1>0, <1>8 DEF W!Up, W!lockVars, W!messageVars
  <2>2. NumbersInv'
    BY <1>0, <1>8 DEF W!Up, W!lockVars, W!messageVars
  <2>3. FlagsInv'
    BY <1>0, <1>8 DEF W!Up, W!lockVars, W!messageVars
  <2>4. SocketInv'
    BY <1>0, <1>8 DEF W!Up, W!lockVars, W!messageVars
  <2>5. KnownInv'
    BY <1>0, <1>8 DEF W!Up, W!lockVars, W!messageVars
  <2> QED
    BY <2>1, <2>2, <2>3, <2>4, <2>5
<1>12. ASSUME NEW g \in 1..MaxSockets, W!Close(g) PROVE ConnectionInv'
  <2>1. ProcessInv'
    BY <1>0, <1>12 DEF W!Close, W!lockVars, W!messageVars
  <2>2. NumbersInv'
    BY <1>0, <1>12 DEF W!Close, W!lockVars, W!messageVars
  <2>3. FlagsInv'
    BY <1>0, <1>12 DEF W!Close, W!lockVars, W!messageVars
  <2>4. SocketInv'
    BY <1>0, <1>12 DEF W!Close, W!lockVars, W!messageVars
  <2>5. KnownInv'
    BY <1>0, <1>12 DEF W!Close, W!lockVars, W!messageVars
  <2> QED
    BY <2>1, <2>2, <2>3, <2>4, <2>5
<1>9. ASSUME NEW g \in 1..MaxSockets, W!LoggedOut(g) PROVE ConnectionInv'
  BY <1>2, <1>9 DEF W!LoggedOut
<1>10. ASSUME NEW g \in 1..MaxSockets, NEW m \in Messages, W!Upsert(g, m) PROVE ConnectionInv'
  <2>1. /\ UNCHANGED <<proc, pid, lock, predecessor, socket, generation, connecting, reconnectTimer, connected, alive>>
        /\ WHanded' = [WHanded EXCEPT ![m] = @ + 1] /\ WHanded[m] < Deliveries
        /\ WSeen' = IF W!Full(WSeen \cup {m}) THEN {} ELSE WSeen \cup {m}
        /\ emptied' = [x \in Messages |-> IF x = m THEN W!Full(WSeen \cup {m})
                                          ELSE emptied[x] \/ W!Full(WSeen \cup {m})]
    BY <1>10 DEF W!Upsert, W!lockVars, W!socketVars
  <2>2. WHanded' \in [Messages -> 0..Deliveries]
    BY <1>0, <2>1
  <2>3. W!Full(WSeen \cup {m}) \in BOOLEAN
    BY DEF W!Full
  <2>4. emptied' \in [Messages -> BOOLEAN]
    BY <2>1, <2>3, Zenon
  <2>5. ASSUME NEW x \in Messages, WHanded'[x] > 0, ~emptied'[x] PROVE x \in WSeen'
    <3>1. ~W!Full(WSeen \cup {m})
      BY <2>1, <2>5, Zenon
    <3>2. CASE x = m
      BY <2>1, <3>1, <3>2
    <3>3. CASE x # m
      <4>1. ~emptied[x]
        BY <2>1, <2>5, <3>1, <3>3, Zenon
      <4> QED
        BY <2>1, <2>5, <3>1, <3>3, <4>1
    <3> QED
      BY <3>2, <3>3
  <2>6. WSeen' \subseteq Messages
    BY <2>1
  <2> QED
    BY <2>1, <2>2, <2>4, <2>5, <2>6
<1>11. CASE UNCHANGED W!connectionVars
  BY <1>11 DEF W!connectionVars, W!lockVars, W!socketVars, W!messageVars
<1> QED
  BY <1>1, <1>3, <1>4, <1>5, <1>6, <1>7, <1>8, <1>9, <1>10, <1>11, <1>12 DEF W!Next

LEMMA ConnectionTyped == ConnectionInv => W!TypeOK
<1> SUFFICES ASSUME ConnectionInv PROVE W!TypeOK
  OBVIOUS
<1>1. W!Cardinality(alive) <= 1
  <2>1. IsFiniteSet({socket}) /\ Cardinality({socket}) = 1 /\ alive \in SUBSET {socket}
    BY FS_Singleton DEF ConnectionInv, SocketInv
  <2>2. Cardinality(alive) <= 1
    BY <2>1, FS_Subset
  <2> QED
    BY <2>2 DEF W!Cardinality, Cardinality
<1>2. generation \in 0..MaxSockets /\ socket \in 0..generation
  BY OutsideAssumption DEF W!ConnectionAssumption, ConnectionInv, NumbersInv
<1>3. alive \subseteq 1..generation
  BY <1>2 DEF ConnectionInv, NumbersInv, SocketInv
<1>4. {connecting, reconnectTimer, connected} \subseteq BOOLEAN
  BY DEF ConnectionInv, FlagsInv
<1>5. ~(connecting /\ alive # {}) /\ (connected => socket \in alive /\ socket = generation)
  BY DEF ConnectionInv, SocketInv
<1> QED
  BY <1>1, <1>2, <1>3, <1>4, <1>5 DEF ConnectionInv, ProcessInv, SocketInv, KnownInv, W!TypeOK, W!NoLock

LEMMA ConnectionRemembers ==
  ASSUME ConnectionInv, [W!Next]_(W!connectionVars), NEW m \in Messages,
         WHanded'[m] > WHanded[m], WHanded[m] > 0
  PROVE  emptied[m]
<1>1. PICK g \in 1..MaxSockets, x \in Messages : W!Upsert(g, x)
  <2>1. ~UNCHANGED WHanded
    BY DEF ConnectionInv, KnownInv
  <2> QED
    BY <2>1 DEF W!Next, W!connectionVars, W!messageVars, W!Launch, W!Stop, W!Ends, W!PredecessorEnds, W!Reconnect,
      W!Opened, W!OpenFails, W!Up, W!Close, W!LoggedOut
<1>2. x = m /\ m \notin WSeen
  BY <1>1 DEF W!Upsert, W!Unseen, ConnectionInv, KnownInv
<1> QED
  BY <1>2 DEF ConnectionInv, KnownInv

----------------------------------------------------------------------------
(* Clocks and calendars *)

LEMMA DivMod ==
  ASSUME NEW a \in Int, NEW n \in Nat \ {0}
  PROVE  /\ a \div n \in Int /\ a % n \in 0..n - 1
         /\ a = n * (a \div n) + (a % n)
<1>1. a \div n \in Int /\ a % n \in 0..n - 1
  OBVIOUS
<1>2. a % n = a - n * (a \div n)
  OBVIOUS
<1> QED
  BY <1>1, <1>2

LEMMA DivUnique ==
  ASSUME NEW n \in Nat \ {0}, NEW q \in Int, NEW r \in 0..n - 1
  PROVE  (n * q + r) \div n = q /\ (n * q + r) % n = r
OBVIOUS

LEMMA DivOfNat ==
  ASSUME NEW a \in Nat, NEW n \in Nat \ {0}
  PROVE  a \div n \in Nat /\ a % n <= a
OBVIOUS

LEMMA DivTwice ==
  ASSUME NEW a \in Int, NEW n \in Nat \ {0}, NEW k \in Nat \ {0}
  PROVE  a \div (n * k) = (a \div n) \div k
OBVIOUS

\* Multiples of n that are less than n apart are the same.
LEMMA SameMultiple ==
  ASSUME NEW n \in Nat \ {0}, NEW a \in Int, NEW b \in Int, a % n = 0, b % n = 0,
         a - b < n, b - a < n
  PROVE  a = b
<1>1. a = n * (a \div n) /\ b = n * (b \div n) /\ a \div n \in Int /\ b \div n \in Int
  BY DivMod
<1> DEFINE p == a \div n
           q == b \div n
<1>2. p \in Int /\ q \in Int /\ n * p - n * q < n /\ n * q - n * p < n
  BY <1>1
<1> HIDE DEF p, q
<1>3. p = q
  BY <1>2
<1> QED
  BY <1>1, <1>3 DEF p, q

LEMMA SumOfMultiples ==
  ASSUME NEW n \in Nat \ {0}, NEW a \in Int, NEW b \in Int, a % n = 0, b % n = 0
  PROVE  (a + b) % n = 0 /\ (a - b) % n = 0
<1>1. a = n * (a \div n) /\ b = n * (b \div n) /\ a \div n \in Int /\ b \div n \in Int
  BY DivMod
<1> DEFINE p == a \div n
           q == b \div n
<1>2. p \in Int /\ q \in Int /\ a = n * p /\ b = n * q
  BY <1>1
<1> HIDE DEF p, q
<1>3. n * (p + q) = n * p + n * q /\ n * (p - q) = n * p - n * q
  BY <1>2
<1>4. p + q \in Int /\ p - q \in Int /\ a + b = n * (p + q) + 0 /\ a - b = n * (p - q) + 0
  BY <1>2, <1>3
<1> QED
  <2>1. 0 \in 0..n - 1
    OBVIOUS
  <2>2. (n * (p + q) + 0) % n = 0 /\ (n * (p - q) + 0) % n = 0
    BY <1>4, <2>1, DivUnique
  <2> QED
    BY <1>4, <2>2

(* Wall clocks: U(w), asIfUtc(w), counts the ticks from the epoch of the wall. *)

Walls == [date : Nat, hour : 0..HOURS - 1, minute : 0..MINUTES - 1]
MinutesOf(w) == (w.date * HOURS + w.hour) * MINUTES + w.minute
Before(a, b) ==
  \/ a.date < b.date
  \/ a.date = b.date /\ a.hour < b.hour
  \/ a.date = b.date /\ a.hour = b.hour /\ a.minute < b.minute

LEMMA Units == TICKS \in Nat \ {0} /\ MINUTES \in Nat \ {0} /\ HOURS \in Nat \ {0}
BY OutsideAssumption DEF C!CalendarAssumption

LEMMA Products ==
  /\ HOURS * MINUTES \in Nat \ {0} /\ HOURS * MINUTES = MINUTES * HOURS
  /\ MINUTES * TICKS \in Nat \ {0} /\ HOURS * MINUTES * TICKS \in Nat \ {0}
<1>1. \A a, b \in Nat \ {0} : a * b \in Nat \ {0} /\ a * b = b * a
  OBVIOUS
<1> QED
  BY <1>1, Units

LEMMA MinutesOfWall ==
  ASSUME NEW w \in Walls
  PROVE  /\ MinutesOf(w) \in Nat /\ C!asIfUtc(w) \in Nat
         /\ C!asIfUtc(w) = TICKS * MinutesOf(w) /\ C!asIfUtc(w) % TICKS = 0
<1>1. w.date \in Nat /\ w.hour \in Nat /\ w.minute \in Nat
  BY Units DEF Walls
<1>2. MinutesOf(w) \in Nat
  <2>1. w.date * HOURS \in Nat
    BY <1>1, Units
  <2>2. (w.date * HOURS + w.hour) * MINUTES \in Nat
    BY <1>1, <2>1, Units
  <2> QED
    BY <1>1, <2>2 DEF MinutesOf
<1> DEFINE m == MinutesOf(w)
<1>3. C!asIfUtc(w) = m * TICKS
  BY DEF C!asIfUtc, MinutesOf
<1>4. m \in Nat
  BY <1>2
<1> HIDE DEF m
<1>5. m * TICKS = TICKS * m /\ TICKS * m = TICKS * m + 0 /\ TICKS * m \in Nat /\ 0 \in 0..TICKS - 1
  BY <1>4, Units
<1>6. (TICKS * m + 0) % TICKS = 0
  BY <1>4, <1>5, Units, DivUnique
<1> QED
  BY <1>2, <1>3, <1>5, <1>6 DEF m

LEMMA ReadsMinutes ==
  ASSUME NEW m \in Int, NEW w \in Walls
  PROVE  /\ m \div (HOURS * MINUTES) = w.date
         /\ (m \div MINUTES) % HOURS = w.hour
         /\ m % MINUTES = w.minute
         <=> m = MinutesOf(w)
<1> DEFINE k == m \div MINUTES
           q == w.date * HOURS + w.hour
<1>1. k \in Int /\ m % MINUTES \in 0..MINUTES - 1 /\ m = MINUTES * k + (m % MINUTES)
  BY DivMod, Units
<1>2. k \div HOURS \in Int /\ k % HOURS \in 0..HOURS - 1 /\ k = HOURS * (k \div HOURS) + (k % HOURS)
  BY <1>1, DivMod, Units
<1>3. m \div (HOURS * MINUTES) = k \div HOURS
  <2>1. m \div (MINUTES * HOURS) = k \div HOURS
    BY Units, DivTwice
  <2> QED
    BY <2>1, Products
<1>4. w.date \in Nat /\ w.hour \in 0..HOURS - 1 /\ w.minute \in 0..MINUTES - 1
  BY DEF Walls
<1>5. q \in Int /\ q = HOURS * w.date + w.hour /\ MinutesOf(w) = MINUTES * q + w.minute
  <2>1. w.date * HOURS \in Int /\ w.date * HOURS = HOURS * w.date
    BY <1>4, Units
  <2>2. q \in Int /\ q = HOURS * w.date + w.hour
    BY <1>4, <2>1
  <2> HIDE DEF q
  <2>3. q * MINUTES = MINUTES * q
    BY <2>2, Units
  <2> QED
    BY <2>2, <2>3 DEF MinutesOf, q
<1>6. ASSUME k \div HOURS = w.date, k % HOURS = w.hour, m % MINUTES = w.minute
      PROVE  m = MinutesOf(w)
  BY <1>1, <1>2, <1>5, <1>6
<1>7. ASSUME m = MinutesOf(w)
      PROVE  k \div HOURS = w.date /\ k % HOURS = w.hour /\ m % MINUTES = w.minute
  <2>1. (MINUTES * q + w.minute) \div MINUTES = q /\ (MINUTES * q + w.minute) % MINUTES = w.minute
    <3> HIDE DEF q
    <3> QED
      BY <1>4, <1>5, Units, DivUnique
  <2>2. k = q /\ m % MINUTES = w.minute
    BY <1>5, <1>7, <2>1
  <2>3. \A d \in Int, h \in 0..HOURS - 1 :
          (HOURS * d + h) \div HOURS = d /\ (HOURS * d + h) % HOURS = h
    BY Units, DivUnique
  <2>4. (HOURS * w.date + w.hour) \div HOURS = w.date /\ (HOURS * w.date + w.hour) % HOURS = w.hour
    BY <1>4, <2>3
  <2> QED
    BY <1>5, <2>2, <2>4
<1> QED
  BY <1>3, <1>6, <1>7

LEMMA ZoneIs ==
  ASSUME NEW z \in Zones
  PROVE  /\ z.before \in Int /\ z.after \in Int /\ z.at \in Int
         /\ z.before % TICKS = 0 /\ z.after % TICKS = 0
         /\ \A i \in Int : C!zoneOffset(z, i) \in {z.before, z.after}
BY OutsideAssumption DEF C!CalendarAssumption, C!zoneOffset

\* The clocks read w from the first tick of its minute to the last.
LEMMA Reads ==
  ASSUME NEW z \in Zones, NEW i \in Int, NEW w \in Walls
  PROVE  C!wallClockAt(z, i) = w <=>
           C!asIfUtc(w) <= i + C!zoneOffset(z, i) /\ i + C!zoneOffset(z, i) < C!asIfUtc(w) + TICKS
<1> DEFINE f == i + C!zoneOffset(z, i)
           m == f \div TICKS
           n == MinutesOf(w)
<1>1. f \in Int
  BY ZoneIs
<1>2. m \in Int /\ f % TICKS \in 0..TICKS - 1 /\ f = TICKS * m + (f % TICKS)
  <2> HIDE DEF f
  <2> QED
    BY <1>1, DivMod, Units
<1>3. n \in Nat /\ C!asIfUtc(w) = TICKS * n
  BY MinutesOfWall
<1>4. C!wallClockAt(z, i) = w <=>
        m \div (HOURS * MINUTES) = w.date /\ (m \div MINUTES) % HOURS = w.hour /\ m % MINUTES = w.minute
  BY DEF C!wallClockAt, Walls
<1>5. C!wallClockAt(z, i) = w <=> m = n
  <2> HIDE DEF m
  <2> QED
    BY <1>2, <1>4, ReadsMinutes
<1>6. m = n => TICKS * n <= f /\ f < TICKS * n + TICKS
  <2> HIDE DEF f, m, n
  <2>1. TICKS * m \in Int
    BY <1>2, Units
  <2> DEFINE t == TICKS * m
  <2>2. t <= f /\ f < t + TICKS
    <3> HIDE DEF t
    <3> QED
      BY <1>1, <1>2, <2>1, Units DEF t
  <2> QED
    BY <2>2
<1>7. ASSUME TICKS * n <= f, f < TICKS * n + TICKS
      PROVE  m = n
  <2> HIDE DEF f, n
  <2>1. PICK e \in 0..TICKS - 1 : f = TICKS * n + e
    <3>1. TICKS * n \in Int
      BY <1>3, Units
    <3>2. f - TICKS * n \in 0..TICKS - 1 /\ f = TICKS * n + (f - TICKS * n)
      BY <1>1, <1>7, <3>1, Units
    <3> QED
      BY <3>2
  <2>2. (TICKS * n + e) \div TICKS = n
    BY <1>3, Units, DivUnique
  <2> QED
    BY <2>1, <2>2
<1> QED
  BY <1>3, <1>5, <1>6, <1>7

LEMMA ClockIsWall ==
  ASSUME NEW z \in Zones, NEW i \in Int, i + C!zoneOffset(z, i) \in Nat
  PROVE  C!wallClockAt(z, i) \in Walls
<1> DEFINE f == i + C!zoneOffset(z, i)
           m == f \div TICKS
<1>1. m \in Nat
  <2> HIDE DEF f
  <2> QED
    BY DivOfNat, Units DEF f
<1> HIDE DEF m
<1>2. m \div (HOURS * MINUTES) \in Nat
  BY <1>1, DivOfNat, Units
<1>3. (m \div MINUTES) % HOURS \in 0..HOURS - 1 /\ m % MINUTES \in 0..MINUTES - 1
  BY <1>1, DivMod, Units
<1> QED
  BY <1>2, <1>3 DEF C!wallClockAt, Walls, m

\* On the minute, the clocks read w at its first tick.
LEMMA ReadsOnTheMinute ==
  ASSUME NEW z \in Zones, NEW i \in Int, NEW w \in Walls, i % TICKS = 0
  PROVE  C!wallClockAt(z, i) = w <=> i + C!zoneOffset(z, i) = C!asIfUtc(w)
<1> DEFINE f == i + C!zoneOffset(z, i)
           u == C!asIfUtc(w)
<1>1. f \in Int /\ f % TICKS = 0
  BY ZoneIs, SumOfMultiples, Units
<1>2. u \in Int /\ u % TICKS = 0
  BY MinutesOfWall
<1>3. C!wallClockAt(z, i) = w <=> u <= f /\ f < u + TICKS
  BY Reads
<1>4. u <= f /\ f < u + TICKS <=> f = u
  <2> HIDE DEF f, u
  <2>1. u <= f /\ f < u + TICKS => f - u < TICKS /\ u - f < TICKS
    BY <1>1, <1>2, Units
  <2>2. f - u < TICKS /\ u - f < TICKS => f = u
    BY <1>1, <1>2, SameMultiple, Units
  <2> QED
    BY <1>1, <1>2, <2>1, <2>2, Units
<1> QED
  BY <1>3, <1>4

LEMMA Ordered ==
  ASSUME NEW a \in Walls, NEW b \in Walls
  PROVE  /\ Before(a, b) => C!asIfUtc(a) + TICKS <= C!asIfUtc(b)
         /\ a = b \/ Before(a, b) \/ Before(b, a)
<1>1. /\ a.date \in Nat /\ a.hour \in 0..HOURS - 1 /\ a.minute \in 0..MINUTES - 1
      /\ b.date \in Nat /\ b.hour \in 0..HOURS - 1 /\ b.minute \in 0..MINUTES - 1
      /\ a = [date |-> a.date, hour |-> a.hour, minute |-> a.minute]
      /\ b = [date |-> b.date, hour |-> b.hour, minute |-> b.minute]
  BY DEF Walls
<1> DEFINE p == a.date * HOURS + a.hour
           q == b.date * HOURS + b.hour
<1>2. \A n \in Nat \ {0}, s, t \in Int : s < t => s * n + n <= t * n
  OBVIOUS
<1>3. p \in Int /\ q \in Int
  <2>1. a.date * HOURS \in Int /\ b.date * HOURS \in Int
    BY <1>1, Units
  <2> QED
    BY <1>1, <2>1
<1>4. ASSUME Before(a, b) PROVE MinutesOf(a) < MinutesOf(b)
  <2>1. CASE a.date < b.date
    <3>1. a.date * HOURS + HOURS <= b.date * HOURS
      BY <1>1, <1>2, <2>1, Units
    <3>2. a.date * HOURS \in Int /\ b.date * HOURS \in Int
      BY <1>1, Units
    <3>3. p < q
      BY <1>1, <3>1, <3>2, Units
    <3> HIDE DEF p, q
    <3>4. p * MINUTES + MINUTES <= q * MINUTES /\ p * MINUTES \in Int /\ q * MINUTES \in Int
      BY <1>2, <1>3, <3>3, Units
    <3>5. p * MINUTES + a.minute < q * MINUTES + b.minute
      BY <1>1, <3>4, Units
    <3> QED
      BY <3>5 DEF MinutesOf, p, q
  <2>2. CASE a.date = b.date /\ a.hour < b.hour
    <3>1. a.date * HOURS \in Int
      BY <1>1, Units
    <3>2. p < q
      BY <1>1, <2>2, <3>1, Units
    <3> HIDE DEF p, q
    <3>4. p * MINUTES + MINUTES <= q * MINUTES /\ p * MINUTES \in Int /\ q * MINUTES \in Int
      BY <1>2, <1>3, <3>2, Units
    <3>5. p * MINUTES + a.minute < q * MINUTES + b.minute
      BY <1>1, <3>4, Units
    <3> QED
      BY <3>5 DEF MinutesOf, p, q
  <2>3. CASE a.date = b.date /\ a.hour = b.hour /\ a.minute < b.minute
    <3>1. p = q
      BY <2>3
    <3> HIDE DEF p, q
    <3>2. p * MINUTES \in Int
      BY <1>3, Units
    <3>3. p * MINUTES + a.minute < p * MINUTES + b.minute
      BY <1>1, <2>3, <3>2
    <3> QED
      BY <3>1, <3>3 DEF MinutesOf, p, q
  <2> QED
    BY <1>4, <2>1, <2>2, <2>3 DEF Before
<1>5. ASSUME Before(a, b) PROVE C!asIfUtc(a) + TICKS <= C!asIfUtc(b)
  <2> DEFINE s == MinutesOf(a)
             t == MinutesOf(b)
  <2>1. s \in Nat /\ t \in Nat /\ s < t /\ C!asIfUtc(a) = TICKS * s /\ C!asIfUtc(b) = TICKS * t
    BY <1>4, <1>5, MinutesOfWall
  <2> HIDE DEF s, t
  <2>2. s * TICKS + TICKS <= t * TICKS /\ TICKS * s = s * TICKS /\ TICKS * t = t * TICKS
    BY <1>2, <2>1, Units
  <2> QED
    BY <2>1, <2>2
<1>6. a = b \/ Before(a, b) \/ Before(b, a)
  BY <1>1 DEF Before
<1> QED
  BY <1>5, <1>6

(* The instant of a wall. *)

Moment(w) == C!wallClockToInstant(zone, w)

\* Clocks are moved by no less than a minute.
LEMMA MovedByMinutes ==
  ASSUME NEW z \in Zones
  PROVE  z.before = z.after \/ z.before - z.after >= TICKS \/ z.after - z.before >= TICKS
BY ZoneIs, SameMultiple, Units

\* A wall the clocks show is resolved to an instant at which they show it.
LEMMA ReadsBack ==
  ASSUME zone \in Zones, NEW w \in Walls, C!Instants(w) # {}
  PROVE  Moment(w) \in C!Instants(w)
<1> DEFINE u == C!asIfUtc(w)
           j == Moment(w)
<1>1. zone.before \in Int /\ zone.after \in Int /\ zone.at \in Int /\ u \in Int
  BY ZoneIs, MinutesOfWall
<1>2. PICK i \in {u - zone.before, u - zone.after} : C!wallClockAt(zone, i) = w
  BY DEF C!Instants
<1>3. i \in Int /\ u <= i + C!zoneOffset(zone, i) /\ i + C!zoneOffset(zone, i) < u + TICKS
  BY <1>1, <1>2, Reads
<1>4. j \in {u - zone.before, u - zone.after} /\ j \in Int
  BY <1>1 DEF Moment, C!wallClockToInstant, C!zoneOffset
<1>5. j + C!zoneOffset(zone, j) = u
  <2> HIDE DEF u
  <2> QED
    BY <1>1, <1>2, <1>3, <1>4, MovedByMinutes, Units DEF Moment, C!wallClockToInstant, C!zoneOffset, u
<1>6. C!wallClockAt(zone, j) = w
  <2> HIDE DEF u, j
  <2> QED
    BY <1>1, <1>4, <1>5, Reads, Units DEF u
<1> QED
  BY <1>4, <1>6 DEF C!Instants

LEMMA SameCount == \A S : C!Cardinality(S) = Cardinality(S)
BY DEF C!Cardinality, Cardinality

LEMMA PlainIs ==
  ASSUME NEW w, C!Plain(w)
  PROVE  \E i : C!Instants(w) = {i}
<1> DEFINE both == {C!asIfUtc(w) - zone.before, C!asIfUtc(w) - zone.after}
<1>1. IsFiniteSet(both)
  <2>1. IsFiniteSet({C!asIfUtc(w) - zone.after})
    BY FS_Singleton
  <2>2. both = {C!asIfUtc(w) - zone.after} \cup {C!asIfUtc(w) - zone.before}
    OBVIOUS
  <2> QED
    BY <2>1, <2>2, FS_AddElement
<1>2. C!Instants(w) \subseteq both
  BY DEF C!Instants
<1>3. IsFiniteSet(C!Instants(w)) /\ Cardinality(C!Instants(w)) = 1
  BY <1>1, <1>2, FS_Subset, SameCount DEF C!Plain
<1> QED
  BY <1>3, FS_Singleton

(* The search. *)

Start0 == C!StartOf(zone, from)
FromIs ==
  /\ zone \in Zones /\ from \in Nat
  /\ from + zone.before \in Nat /\ from + zone.after \in Nat

\* Every matching wall the search has been past was due by the time it started from.
Searched ==
  \A w \in Walls : ~Before(w, Start0) /\ Before(w, wall) /\ C!Matches(w) => Moment(w) <= from
CronIs ==
  /\ ~Before(wall, Start0) /\ Searched
  /\ CFound >= 0 => C!Matches(wall) /\ CFound = Moment(wall) /\ CFound > from
  /\ CFound = C!Never => wall.date > C!Limit
OnceIs ==
  /\ spec.said \in Said /\ spec.at \in Int /\ spec.at = C!parseWhen(spec.said, zone, from)
  /\ CFound >= 0 => CFound = spec.at
  /\ CFound = C!Never => spec.at <= from
CalendarInv ==
  /\ FromIs /\ wall \in Walls /\ CFound \in {C!Searching, C!Never} \cup Nat
  /\ \/ spec.kind = "cron" /\ CronIs
     \/ spec.kind = "once" /\ OnceIs

LEMMA NextMinuteIs ==
  ASSUME NEW i \in Nat
  PROVE  LET n == (i \div TICKS) * TICKS + TICKS
         IN /\ n \in Nat /\ n > i /\ n % TICKS = 0
            /\ \A j \in Int : j > i /\ j % TICKS = 0 => j >= n
<1> DEFINE q == i \div TICKS
           n == q * TICKS + TICKS
<1>1. q \in Nat /\ i % TICKS \in 0..TICKS - 1 /\ i = TICKS * q + (i % TICKS)
  <2>1. i % TICKS \in 0..TICKS - 1 /\ i = TICKS * q + (i % TICKS)
    BY DivMod, Units
  <2>2. q \in Nat
    BY DivOfNat, Units
  <2> QED
    BY <2>1, <2>2
<1> HIDE DEF q
<1>2. q * TICKS = TICKS * q /\ TICKS * q \in Nat /\ TICKS * q + TICKS = TICKS * (q + 1) + 0
  BY <1>1, Units
<1>3. n \in Nat /\ n > i /\ n <= i + TICKS
  BY <1>1, <1>2, Units
<1>4. n % TICKS = 0
  <2>1. q + 1 \in Int /\ 0 \in 0..TICKS - 1 /\ n = TICKS * (q + 1) + 0
    BY <1>1, <1>2, Units
  <2>2. (TICKS * (q + 1) + 0) % TICKS = 0
    BY <2>1, DivUnique, Units
  <2> QED
    BY <2>1, <2>2
<1>5. ASSUME NEW j \in Int, j > i, j % TICKS = 0 PROVE j >= n
  <2> HIDE DEF n
  <2>1. j < n => n - j < TICKS /\ j - n < TICKS
    BY <1>3, <1>5, Units
  <2>2. ASSUME j < n PROVE j = n
    <3>1. j \in Int /\ n \in Int /\ j % TICKS = 0 /\ n % TICKS = 0 /\ n - j < TICKS /\ j - n < TICKS
      BY <1>3, <1>4, <1>5, <2>1, <2>2
    <3> QED
      BY <3>1, SameMultiple, Units
  <2> QED
    BY <1>3, <2>2
<1> QED
  BY <1>3, <1>4, <1>5 DEF q

LEMMA StartOnWall ==
  ASSUME NEW z \in Zones, NEW i \in Nat, i + z.before \in Nat, i + z.after \in Nat
  PROVE  C!StartOf(z, i) \in Walls
<1> DEFINE n == (i \div TICKS) * TICKS + TICKS
<1>1. n \in Nat /\ n > i
  BY NextMinuteIs
<1>2. C!StartOf(z, i) = C!wallClockAt(z, n)
  BY DEF C!StartOf
<1> HIDE DEF n
<1>3. n + C!zoneOffset(z, n) \in Nat
  BY <1>1, ZoneIs
<1> QED
  BY <1>1, <1>2, <1>3, ClockIsWall

LEMMA StartIs ==
  ASSUME FromIs
  PROVE  \E i \in Nat :
           /\ i > from /\ i % TICKS = 0 /\ \A j \in Int : j > from /\ j % TICKS = 0 => j >= i
           /\ Start0 = C!wallClockAt(zone, i) /\ Start0 \in Walls
           /\ C!asIfUtc(Start0) = i + C!zoneOffset(zone, i)
<1> DEFINE i == (from \div TICKS) * TICKS + TICKS
<1>1. i \in Nat /\ i > from /\ i % TICKS = 0 /\ \A j \in Int : j > from /\ j % TICKS = 0 => j >= i
  BY NextMinuteIs DEF FromIs
<1>2. Start0 = C!wallClockAt(zone, i)
  BY DEF Start0, C!StartOf
<1> HIDE DEF i
<1>3. i + C!zoneOffset(zone, i) \in Nat
  BY <1>1, ZoneIs DEF FromIs
<1>4. Start0 \in Walls
  BY <1>1, <1>2, <1>3, ClockIsWall DEF FromIs
<1> QED
  BY <1>1, <1>2, <1>4, ReadsOnTheMinute DEF FromIs

\* Months.
LEMMA YearIs ==
  /\ ShortMonth \in Nat \ {0} /\ LongMonth \in Nat \ {0}
  /\ C!Year \in Nat \ {0} /\ C!Year = ShortMonth + LongMonth
BY OutsideAssumption DEF C!CalendarAssumption, C!Year

LEMMA MonthAhead ==
  ASSUME NEW w \in Walls
  PROVE  /\ C!startOfNextMonth(w) \in Walls /\ C!startOfNextMonth(w).date > w.date
         /\ \A d \in Nat : w.date <= d /\ d < C!startOfNextMonth(w).date => C!MonthOf(d) = C!MonthOf(w.date)
<1> DEFINE r == w.date % C!Year
           q == w.date \div C!Year
<1>1. w.date \in Nat /\ q \in Nat /\ r \in 0..C!Year - 1 /\ w.date = C!Year * q + r /\ r <= w.date
  <2>1. w.date \in Nat /\ w.date \in Int
    BY DEF Walls
  <2>2. r \in 0..C!Year - 1 /\ w.date = C!Year * q + r
    BY <2>1, DivMod, YearIs
  <2>3. q \in Nat /\ r <= w.date
    BY <2>1, DivOfNat, YearIs
  <2> QED
    BY <2>1, <2>2, <2>3
<1>2. C!startOfNextMonth(w).date = IF r < ShortMonth THEN w.date - r + ShortMonth ELSE w.date - r + C!Year
  <2> HIDE DEF r, q
  <2> QED
    BY <1>1, YearIs DEF C!startOfNextMonth, C!MonthOf, C!DayOf, r
<1>3. C!startOfNextMonth(w) \in Walls /\ C!startOfNextMonth(w).date > w.date
  <2>1. C!startOfNextMonth(w).date \in Nat /\ C!startOfNextMonth(w).date > w.date
    <3> HIDE DEF r, q
    <3> QED
      BY <1>1, <1>2, YearIs
  <2>2. C!startOfNextMonth(w) = [date |-> C!startOfNextMonth(w).date, hour |-> 0, minute |-> 0]
    BY DEF C!startOfNextMonth
  <2> HIDE DEF r, q
  <2> QED
    BY <2>1, <2>2, Units DEF Walls
<1>4. ASSUME NEW d \in Nat, w.date <= d, d < C!startOfNextMonth(w).date
      PROVE  C!MonthOf(d) = C!MonthOf(w.date)
  <2> HIDE DEF r, q
  <2>1. C!Year * q \in Int
    BY <1>1, YearIs
  <2>2. PICK e \in 0..C!Year - 1 : d = C!Year * q + e /\ (r < ShortMonth <=> e < ShortMonth)
    <3>1. d - (C!Year * q) \in 0..C!Year - 1 /\ d = C!Year * q + (d - (C!Year * q))
      BY <1>1, <1>2, <1>4, <2>1, YearIs
    <3>2. r < ShortMonth <=> d - (C!Year * q) < ShortMonth
      BY <1>1, <1>2, <1>4, <2>1, YearIs
    <3> QED
      BY <3>1, <3>2
  <2>3. (C!Year * q + e) % C!Year = e
    BY <1>1, YearIs, DivUnique
  <2> QED
    BY <2>2, <2>3 DEF C!MonthOf, r
<1> QED
  BY <1>3, <1>4

\* The search goes forward, and past no wall that matches but the one it is at.
LEMMA SkippedIs ==
  ASSUME NEW w \in Walls
  PROVE  /\ C!Skipped(w) \in Walls /\ Before(w, C!Skipped(w))
         /\ \A v \in Walls : Before(v, C!Skipped(w)) /\ C!Matches(v) => Before(v, w) \/ (v = w /\ C!Matches(w))
<1>1. /\ w.date \in Nat /\ w.hour \in 0..HOURS - 1 /\ w.minute \in 0..MINUTES - 1
      /\ w = [date |-> w.date, hour |-> w.hour, minute |-> w.minute]
  BY DEF Walls
<1>2. \A v \in Walls : /\ v.date \in Nat /\ v.hour \in 0..HOURS - 1 /\ v.minute \in 0..MINUTES - 1
                       /\ v = [date |-> v.date, hour |-> v.hour, minute |-> v.minute]
  BY DEF Walls
<1>3. CASE C!MonthOf(w.date) \notin spec.values["month"]
  <2>1. C!Skipped(w) = C!startOfNextMonth(w)
    BY <1>3 DEF C!Skipped
  <2>2. C!startOfNextMonth(w).hour = 0 /\ C!startOfNextMonth(w).minute = 0
    BY DEF C!startOfNextMonth
  <2>3. ASSUME NEW v \in Walls, Before(v, C!Skipped(w)), C!Matches(v) PROVE Before(v, w)
    <3>1. v.date < C!startOfNextMonth(w).date
      BY <1>2, <2>1, <2>2, <2>3, Units DEF Before
    <3>2. ~(w.date <= v.date)
      BY <1>2, <1>3, <2>3, <3>1, MonthAhead DEF C!Matches
    <3> QED
      BY <1>1, <1>2, <3>2 DEF Before
  <2> QED
    BY <2>1, <2>3, MonthAhead DEF Before
<1>4. CASE C!MonthOf(w.date) \in spec.values["month"] /\ ~C!dayMatches(spec, w.date)
  <2>1. C!Skipped(w) = C!startOfNextDay(w)
    BY <1>4 DEF C!Skipped
  <2>2. C!startOfNextDay(w) \in Walls /\ Before(w, C!startOfNextDay(w))
    BY <1>1, Units DEF C!startOfNextDay, Walls, Before
  <2>3. ASSUME NEW v \in Walls, Before(v, C!Skipped(w)), C!Matches(v) PROVE Before(v, w)
    <3>1. v.date <= w.date
      BY <1>1, <1>2, <2>1, <2>3, Units DEF C!startOfNextDay, Before
    <3>2. v.date # w.date
      BY <1>4, <2>3 DEF C!Matches
    <3> QED
      BY <1>1, <1>2, <3>1, <3>2 DEF Before
  <2> QED
    BY <2>1, <2>2, <2>3
<1>5. C!nextHour(w) \in Walls /\ Before(w, C!nextHour(w))
  <2>1. CASE w.hour >= HOURS - 1
    BY <1>1, <2>1, Units DEF C!nextHour, C!startOfNextDay, Walls, Before
  <2>2. CASE ~(w.hour >= HOURS - 1)
    <3>1. C!nextHour(w) = [date |-> w.date, hour |-> w.hour + 1, minute |-> 0]
      BY <1>1, <2>2 DEF C!nextHour
    <3> QED
      BY <1>1, <2>2, <3>1, Units DEF Walls, Before
  <2> QED
    BY <2>1, <2>2
<1>6. \A v \in Walls : Before(v, C!nextHour(w)) => Before(v, w) \/ (v.date = w.date /\ v.hour = w.hour)
  BY <1>1, <1>2, Units DEF C!nextHour, C!startOfNextDay, Before
<1>7. CASE /\ C!MonthOf(w.date) \in spec.values["month"] /\ C!dayMatches(spec, w.date)
           /\ w.hour \notin spec.values["hour"]
  <2>1. C!Skipped(w) = C!nextHour(w)
    BY <1>7 DEF C!Skipped
  <2> QED
    BY <1>5, <1>6, <1>7, <2>1 DEF C!Matches
<1>8. CASE /\ C!MonthOf(w.date) \in spec.values["month"] /\ C!dayMatches(spec, w.date)
           /\ w.hour \in spec.values["hour"]
  <2>1. C!Skipped(w) = C!nextMinute(w)
    BY <1>8 DEF C!Skipped
  <2>2. C!nextMinute(w) \in Walls /\ Before(w, C!nextMinute(w))
    BY <1>1, <1>5, Units DEF C!nextMinute, Walls, Before
  <2>3. ASSUME NEW v \in Walls, Before(v, C!nextMinute(w)) PROVE Before(v, w) \/ v = w
    <3>1. CASE w.minute >= MINUTES - 1
      <4>1. Before(v, C!nextHour(w))
        BY <2>3, <3>1 DEF C!nextMinute
      <4>2. Before(v, w) \/ (v.date = w.date /\ v.hour = w.hour)
        BY <1>6, <4>1
      <4> QED
        BY <1>1, <1>2, <3>1, <4>2, Units DEF Before
    <3>2. CASE ~(w.minute >= MINUTES - 1)
      <4>1. C!nextMinute(w) = [date |-> w.date, hour |-> w.hour, minute |-> w.minute + 1]
        BY <1>1, <3>2 DEF C!nextMinute
      <4> QED
        BY <1>1, <1>2, <2>3, <4>1, Units DEF Before
    <3> QED
      BY <3>1, <3>2
  <2> QED
    BY <2>1, <2>2, <2>3
<1> QED
  BY <1>3, <1>4, <1>7, <1>8

LEMMA ClocksSaid ==
  ASSUME FromIs, NEW s \in Said
  PROVE  /\ C!parseWhen(s, zone, from) \in Int
         /\ C!wallClockAt(zone, from) \in Walls
         /\ \A d \in Nat : C!On(d, s.clock) \in Walls /\ Moment(C!On(d, s.clock)) \in Int
<1>1. s.form \in {"in", "date", "day", "clock"} /\ s.n \in Nat /\ s.clock \in C!Clock
  BY OutsideAssumption DEF C!CalendarAssumption, C!Clock
<1>2. from + C!zoneOffset(zone, from) \in Nat
  BY ZoneIs DEF FromIs
<1>3. C!wallClockAt(zone, from) \in Walls
  BY <1>2, ClockIsWall DEF FromIs
<1>4. \A d \in Nat : C!On(d, s.clock) \in Walls
  BY <1>1 DEF C!On, C!Clock, Walls
<1>5. \A w \in Walls : Moment(w) \in Int
  BY MinutesOfWall, ZoneIs DEF Moment, C!wallClockToInstant, C!zoneOffset, FromIs
<1>6. \A d \in Nat : Moment(C!On(d, s.clock)) \in Int
  BY <1>4, <1>5
<1>7. C!parseWhen(s, zone, from) \in Int
  <2> DEFINE today == C!wallClockAt(zone, from).date
  <2>1. today \in Nat
    BY <1>3 DEF Walls
  <2> HIDE DEF today
  <2>2. CASE s.form = "in"
    <3>1. s.n * TICKS \in Nat
      BY <1>1, Units
    <3> QED
      BY <2>2, <3>1 DEF C!parseWhen, FromIs
  <2>3. CASE s.form = "date"
    BY <1>1, <1>6, <2>3 DEF C!parseWhen, Moment
  <2>4. CASE s.form = "day"
    BY <1>1, <1>6, <2>1, <2>4 DEF C!parseWhen, Moment, today
  <2>5. CASE s.form = "clock"
    BY <1>1, <1>6, <2>1, <2>5 DEF C!parseWhen, Moment, today, C!ComesRound
  <2> QED
    BY <1>1, <2>2, <2>3, <2>4, <2>5
<1> QED
  BY <1>3, <1>4, <1>6, <1>7

LEMMA NotBeforeItself == \A w \in Walls : ~Before(w, w)
BY DEF Before, Walls

LEMMA BeforeFollows ==
  ASSUME NEW a \in Walls, NEW b \in Walls, NEW c \in Walls, ~Before(b, a), Before(b, c)
  PROVE  ~Before(c, a)
BY DEF Before, Walls

LEMMA CalendarStart == C!Init => CalendarInv
<1> SUFFICES ASSUME C!Init PROVE CalendarInv
  OBVIOUS
<1>1. FromIs
  BY OutsideAssumption DEF C!Init, C!CalendarAssumption, FromIs
<1>2. wall = Start0 /\ wall \in Walls
  BY <1>1, StartIs DEF C!Init, Start0
<1>3. CFound = C!Searching
  BY DEF C!Init
<1>4. CASE \E e \in Expressions : spec = C!parseCron(e)
  <2>1. spec.kind = "cron"
    BY <1>4 DEF C!parseCron
  <2>2. Searched /\ ~Before(wall, Start0)
    BY <1>2, NotBeforeItself DEF Searched, Ordered, Before, Walls
  <2> QED
    BY <1>1, <1>2, <1>3, <2>1, <2>2 DEF CalendarInv, CronIs, C!Searching, C!Never
<1>5. CASE \E s \in Said : spec = [kind |-> "once", said |-> s, at |-> C!parseWhen(s, zone, from)]
  BY <1>1, <1>2, <1>3, <1>5, ClocksSaid DEF CalendarInv, OnceIs, C!Searching, C!Never
<1> QED
  BY <1>4, <1>5 DEF C!Init

LEMMA StepHolds == CalendarInv /\ C!Step => CalendarInv'
<1> SUFFICES ASSUME CalendarInv, C!Step PROVE CalendarInv'
  OBVIOUS
<1>1. zone' = zone /\ spec' = spec /\ from' = from /\ CFound = C!Searching /\ spec.kind = "cron"
  BY DEF C!Step
<1>2. FromIs /\ FromIs' /\ wall \in Walls /\ CronIs
  BY <1>1 DEF CalendarInv, FromIs
<1>3. Start0' = Start0 /\ Start0 \in Walls /\ C!Limit' = C!Limit
  BY <1>1, <1>2, StartIs DEF Start0, C!Limit
<1>4. (\A w : Moment(w)' = Moment(w)) /\ (\A w : C!Matches(w)' = C!Matches(w))
  BY <1>1 DEF Moment, C!Matches
<1>5. CASE wall.date > C!Limit /\ CFound' = C!Never /\ wall' = wall
  BY <1>1, <1>2, <1>3, <1>4, <1>5 DEF CalendarInv, CronIs, Searched, C!Never
<1>6. CASE C!Matches(wall) /\ Moment(wall) > from /\ CFound' = Moment(wall) /\ wall' = wall
  <2>1. Moment(wall) \in Int
    BY <1>2, MinutesOfWall, ZoneIs DEF Moment, C!wallClockToInstant, C!zoneOffset, FromIs
  <2>2. CFound' \in Nat
    BY <1>2, <1>6, <2>1 DEF FromIs
  <2> QED
    BY <1>1, <1>2, <1>3, <1>4, <1>6, <2>2 DEF CalendarInv, CronIs, Searched, C!Never
<1>7. CASE ~(C!Matches(wall) /\ Moment(wall) > from) /\ CFound' = CFound /\ wall' = C!Skipped(wall)
  <2>1. C!Skipped(wall) \in Walls /\ Before(wall, C!Skipped(wall))
    BY <1>2, SkippedIs
  <2>2. ~Before(wall', Start0')
    BY <1>2, <1>3, <1>7, <2>1, BeforeFollows DEF CronIs
  <2>3. Moment(wall) \in Int
    BY <1>2, MinutesOfWall, ZoneIs DEF Moment, C!wallClockToInstant, C!zoneOffset, FromIs
  <2>4. ASSUME NEW w \in Walls, ~Before(w, Start0), Before(w, wall'), C!Matches(w) PROVE Moment(w) <= from
    <3>1. Before(w, wall) \/ (w = wall /\ C!Matches(wall))
      BY <1>2, <1>7, <2>4, SkippedIs
    <3> QED
      BY <1>2, <1>7, <2>3, <2>4, <3>1 DEF CronIs, Searched, FromIs
  <2>5. Searched'
    BY <1>1, <1>3, <1>4, <2>4 DEF Searched
  <2> QED
    BY <1>1, <1>2, <1>7, <2>1, <2>2, <2>5 DEF CalendarInv, CronIs, C!Searching, C!Never
<1> QED
  BY <1>5, <1>6, <1>7 DEF C!Step, Moment

LEMMA OnceHolds == CalendarInv /\ C!Once => CalendarInv'
<1> SUFFICES ASSUME CalendarInv, C!Once PROVE CalendarInv'
  OBVIOUS
<1>1. zone' = zone /\ spec' = spec /\ from' = from /\ wall' = wall /\ spec.kind = "once"
  BY DEF C!Once
<1>2. FromIs /\ FromIs' /\ OnceIs
  BY <1>1 DEF CalendarInv, FromIs
<1> QED
  BY <1>1, <1>2 DEF CalendarInv, OnceIs, C!Once, FromIs, C!Never

LEMMA AgainHolds ==
  ASSUME CalendarInv, NEW late \in {0, TICKS + 1}, C!Again(late)
  PROVE  CalendarInv'
<1>1. zone' = zone /\ spec' = spec /\ from' = CFound + late /\ CFound' = C!Searching /\ spec.kind = "cron"
  BY DEF C!Again
<1>2. CFound > from /\ FromIs
  BY <1>1 DEF CalendarInv, CronIs, C!Again
<1>3. FromIs'
  <2>1. zone.before \in Int /\ zone.after \in Int
    BY <1>2, ZoneIs DEF FromIs
  <2>2. CFound \in Nat /\ late \in Nat
    BY Units DEF CalendarInv, C!Again, C!Searching, C!Never
  <2>3. /\ CFound + late \in Nat /\ CFound + late + zone.before \in Nat
        /\ CFound + late + zone.after \in Nat
    BY <1>2, <2>1, <2>2 DEF FromIs
  <2> QED
    BY <1>1, <1>2, <2>3 DEF FromIs
<1>4. wall' = Start0' /\ wall' \in Walls
  <2>1. wall' = C!StartOf(zone', from') /\ wall' = Start0'
    BY DEF C!Again, Start0
  <2>2. C!StartOf(zone', from') \in Walls
    BY <1>3, StartOnWall DEF FromIs
  <2> QED
    BY <2>1, <2>2
<1>5. \A w \in Walls : ~Before(w, w)
  BY NotBeforeItself
<1>6. ~Before(wall', Start0') /\ Searched'
  BY <1>4, <1>5 DEF Searched
<1> QED
  BY <1>1, <1>3, <1>4, <1>6 DEF CalendarInv, CronIs, C!Searching, C!Never

LEMMA CalendarStep == CalendarInv /\ [C!Next]_(C!calendarVars) => CalendarInv'
<1> SUFFICES ASSUME CalendarInv, [C!Next]_(C!calendarVars) PROVE CalendarInv'
  OBVIOUS
<1>1. CASE UNCHANGED C!calendarVars
  BY <1>1 DEF C!calendarVars, CalendarInv, FromIs, CronIs, OnceIs, Searched, Start0, Moment, C!Matches, C!Limit
<1> QED
  BY <1>1, StepHolds, OnceHolds, AgainHolds DEF C!Next

LEMMA CalendarTyped == CalendarInv => C!TypeOK
BY DEF CalendarInv, FromIs, C!TypeOK, Walls

LEMMA FiresWhenShown == CalendarInv => C!FiresOnTheClock
<1> SUFFICES ASSUME CalendarInv, CFound >= 0, spec.kind = "cron", C!Plain(wall)
             PROVE  CFound \in C!Instants(wall)
  BY DEF C!FiresOnTheClock
<1>1. CronIs /\ FromIs /\ wall \in Walls
  BY DEF CalendarInv
<1>2. C!Instants(wall) # {}
  BY <1>1, PlainIs
<1>3. Moment(wall) \in C!Instants(wall)
  BY <1>1, <1>2, ReadsBack DEF FromIs
<1> QED
  BY <1>1, <1>3 DEF CronIs


(* Nothing due is passed over. *)

LEMMA OffsetIs ==
  ASSUME zone \in Zones, NEW i \in Int
  PROVE  /\ zone.before \in Int /\ zone.after \in Int /\ zone.at \in Int
         /\ C!zoneOffset(zone, i) \in Int
         /\ i < zone.at => C!zoneOffset(zone, i) = zone.before
         /\ i >= zone.at => C!zoneOffset(zone, i) = zone.after
BY ZoneIs DEF C!zoneOffset

LEMMA Shown ==
  ASSUME FromIs, NEW i \in Int, i % TICKS = 0, i > from
  PROVE  /\ C!wallClockAt(zone, i) \in Walls
         /\ C!asIfUtc(C!wallClockAt(zone, i)) = i + C!zoneOffset(zone, i)
         /\ i \in C!Instants(C!wallClockAt(zone, i))
<1>1. i + C!zoneOffset(zone, i) \in Nat
  BY ZoneIs DEF FromIs
<1>2. C!wallClockAt(zone, i) \in Walls
  BY <1>1, ClockIsWall DEF FromIs
<1>3. C!asIfUtc(C!wallClockAt(zone, i)) = i + C!zoneOffset(zone, i)
  BY <1>2, ReadsOnTheMinute DEF FromIs
<1>4. i \in {C!asIfUtc(C!wallClockAt(zone, i)) - zone.before, C!asIfUtc(C!wallClockAt(zone, i)) - zone.after}
  BY <1>3, ZoneIs DEF FromIs
<1> QED
  BY <1>2, <1>3, <1>4 DEF C!Instants

LEMMA OneMoment ==
  ASSUME FromIs, NEW i \in Int, i % TICKS = 0, i > from, C!Plain(C!wallClockAt(zone, i))
  PROVE  Moment(C!wallClockAt(zone, i)) = i
<1> DEFINE w == C!wallClockAt(zone, i)
<1>1. w \in Walls /\ i \in C!Instants(w)
  BY Shown
<1>2. Moment(w) \in C!Instants(w)
  BY <1>1, ReadsBack DEF FromIs
<1> QED
  BY <1>1, <1>2, PlainIs

\* The clocks are put back over such a wall.
LEMMA TwoReadings ==
  ASSUME zone \in Zones, NEW w \in Walls, zone.before # zone.after,
         C!asIfUtc(w) - zone.before < zone.at, C!asIfUtc(w) - zone.after >= zone.at
  PROVE  ~C!Plain(w)
<1> DEFINE u == C!asIfUtc(w)
<1>1. zone.before \in Int /\ zone.after \in Int /\ zone.at \in Int /\ u \in Int
  BY ZoneIs, MinutesOfWall
<1>2. C!wallClockAt(zone, u - zone.before) = w
  <2>1. u - zone.before + C!zoneOffset(zone, u - zone.before) = u
    BY <1>1, OffsetIs
  <2> QED
    BY <1>1, <2>1, Reads, Units
<1>3. C!wallClockAt(zone, u - zone.after) = w
  <2>1. u - zone.after + C!zoneOffset(zone, u - zone.after) = u
    BY <1>1, OffsetIs
  <2> QED
    BY <1>1, <2>1, Reads, Units
<1>4. u - zone.before \in C!Instants(w) /\ u - zone.after \in C!Instants(w)
  BY <1>2, <1>3 DEF C!Instants
<1>5. u - zone.before # u - zone.after
  BY <1>1
<1> QED
  BY <1>4, <1>5, PlainIs

\* A wall that is read at i and that the clocks, at an instant before i, are already
\* past, or, at one after i, have still to come to, is shown twice.
LEMMA ShownBefore ==
  ASSUME zone \in Zones, NEW w \in Walls, NEW i \in Int, NEW j \in Int, j <= i,
         C!asIfUtc(w) = i + C!zoneOffset(zone, i), C!asIfUtc(w) < j + C!zoneOffset(zone, j)
  PROVE  ~C!Plain(w)
<1>1. C!asIfUtc(w) \in Int
  BY MinutesOfWall
<1>2. /\ zone.before # zone.after /\ C!asIfUtc(w) - zone.before < zone.at
      /\ C!asIfUtc(w) - zone.after >= zone.at
  BY <1>1, OffsetIs
<1> QED
  BY <1>2, TwoReadings

LEMMA ShownLater ==
  ASSUME zone \in Zones, NEW w \in Walls, NEW i \in Int, NEW j \in Int, i <= j,
         C!asIfUtc(w) = i + C!zoneOffset(zone, i), C!asIfUtc(w) > j + C!zoneOffset(zone, j)
  PROVE  ~C!Plain(w)
<1>1. C!asIfUtc(w) \in Int
  BY MinutesOfWall
<1>2. /\ zone.before # zone.after /\ C!asIfUtc(w) - zone.before < zone.at
      /\ C!asIfUtc(w) - zone.after >= zone.at
  BY <1>1, OffsetIs
<1> QED
  BY <1>2, TwoReadings

LEMMA HourIs ==
  ASSUME NEW w \in Walls
  PROVE  /\ C!asIfUtc(w) = w.date * C!Day + w.hour * (MINUTES * TICKS) + w.minute * TICKS
         /\ C!Day = HOURS * (MINUTES * TICKS) /\ C!Day \in Nat \ {0} /\ C!Day >= MINUTES * TICKS
         /\ w.minute * TICKS \in Nat /\ w.minute * TICKS < MINUTES * TICKS
         /\ w.hour * (MINUTES * TICKS) \in Nat
         /\ w.hour * (MINUTES * TICKS) + MINUTES * TICKS <= C!Day
         /\ w.date * C!Day \in Nat
<1>1. w.date \in Nat /\ w.hour \in 0..HOURS - 1 /\ w.minute \in 0..MINUTES - 1
  BY DEF Walls
<1>2. \A d, h, m, p, q, t \in Int : ((d * p + h) * q + m) * t = d * (p * q * t) + h * (q * t) + m * t
  OBVIOUS
<1>3. \A p, q, t \in Int : p * q * t = p * (q * t)
  OBVIOUS
<1>4. \A n \in Nat \ {0}, s, t \in Nat : s < t => s * n + n <= t * n
  OBVIOUS
<1>5. \A s, t \in Nat : s * t \in Nat
  OBVIOUS
<1>6. C!asIfUtc(w) = w.date * C!Day + w.hour * (MINUTES * TICKS) + w.minute * TICKS
  BY <1>1, <1>2, Units DEF C!asIfUtc, C!Day
<1>7. C!Day = HOURS * (MINUTES * TICKS) /\ C!Day \in Nat \ {0}
  BY <1>3, Units, Products DEF C!Day
<1>8. w.minute * TICKS + TICKS <= MINUTES * TICKS /\ w.minute * TICKS \in Nat
  BY <1>1, <1>4, <1>5, Units
<1> DEFINE n == MINUTES * TICKS
<1>9. n \in Nat \ {0}
  BY Products
<1>10. w.hour * n + n <= HOURS * n /\ w.hour * n \in Nat
  <2> HIDE DEF n
  <2> QED
    BY <1>1, <1>4, <1>5, <1>9, Units
<1>11. w.date * C!Day \in Nat
  <2> HIDE DEF n
  <2> QED
    BY <1>1, <1>5, <1>7
<1>12. HOURS * n >= n
  <2> HIDE DEF n
  <2> QED
    BY <1>9, <1>10, Units
<1>13. w.minute * TICKS < n
  <2> HIDE DEF n
  <2>1. w.minute * TICKS + TICKS <= n
    BY <1>8 DEF n
  <2> DEFINE k == w.minute * TICKS
  <2>2. k \in Nat /\ k + TICKS <= n
    BY <1>8, <2>1
  <2> HIDE DEF k
  <2>3. k < n
    BY <1>9, <2>2, Units
  <2> QED
    BY <2>3 DEF k
<1> QED
  BY <1>6, <1>7, <1>8, <1>10, <1>11, <1>12, <1>13

LEMMA NextMultiple ==
  ASSUME NEW n \in Nat \ {0}, NEW a \in Int, NEW b \in Int, a % n = 0, b % n = 0, a < b
  PROVE  a + n <= b
<1>1. CASE b - a < n
  <2>1. a - b < n
    BY <1>1
  <2>2. a = b
    BY <1>1, <2>1, SameMultiple
  <2> QED
    BY <2>2
<1>2. CASE ~(b - a < n)
  BY <1>2
<1> QED
  BY <1>1, <1>2

\* In an hour the clocks are put forward past, a wall is resolved to after the change,
\* or to before it in the west.
LEMMA InTheGap ==
  ASSUME zone \in Zones, NEW w \in Walls,
         zone.at + zone.before <= C!asIfUtc(w), C!asIfUtc(w) < zone.at + zone.after
  PROVE  /\ C!Instants(w) = {}
         /\ C!asIfUtc(w) < zone.at => Moment(w) = C!asIfUtc(w) - zone.after
         /\ C!asIfUtc(w) >= zone.at => Moment(w) = C!asIfUtc(w) - zone.before
<1> DEFINE u == C!asIfUtc(w)
<1>1. zone.before \in Int /\ zone.after \in Int /\ zone.at \in Int /\ u \in Int
  BY ZoneIs, MinutesOfWall
<1>2. \A i \in {u - zone.before, u - zone.after} : C!wallClockAt(zone, i) # w
  <2> SUFFICES ASSUME NEW i \in {u - zone.before, u - zone.after}, C!wallClockAt(zone, i) = w
               PROVE  FALSE
    OBVIOUS
  <2>1. i \in Int /\ u <= i + C!zoneOffset(zone, i) /\ i + C!zoneOffset(zone, i) < u + TICKS
    BY <1>1, Reads
  <2>2. i = u - zone.before => C!zoneOffset(zone, i) = zone.after
    BY <1>1, OffsetIs
  <2>3. i = u - zone.after => C!zoneOffset(zone, i) = zone.before
    BY <1>1, OffsetIs
  <2>4. zone.after - zone.before >= TICKS
    BY <1>1, MovedByMinutes, Units
  <2> HIDE DEF u
  <2> QED
    BY <1>1, <2>1, <2>2, <2>3, <2>4, Units
<1>3. C!Instants(w) = {}
  BY <1>2 DEF C!Instants
<1>4. u < zone.at => Moment(w) = u - zone.after
  BY <1>1 DEF Moment, C!wallClockToInstant, C!zoneOffset
<1>5. u >= zone.at => Moment(w) = u - zone.before
  BY <1>1 DEF Moment, C!wallClockToInstant, C!zoneOffset
<1> QED
  BY <1>3, <1>4, <1>5

LEMMA Unshown ==
  ASSUME zone \in Zones, NEW w \in Walls, C!Instants(w) = {}
  PROVE  zone.at + zone.before <= C!asIfUtc(w) /\ C!asIfUtc(w) < zone.at + zone.after
<1> DEFINE u == C!asIfUtc(w)
<1>1. zone.before \in Int /\ zone.after \in Int /\ zone.at \in Int /\ u \in Int
  BY ZoneIs, MinutesOfWall
<1>2. u - zone.before >= zone.at
  <2>1. u - zone.before < zone.at => C!wallClockAt(zone, u - zone.before) = w
    BY <1>1, OffsetIs, Reads, Units
  <2> QED
    BY <1>1, <2>1 DEF C!Instants
<1>3. u - zone.after < zone.at
  <2>1. u - zone.after >= zone.at => C!wallClockAt(zone, u - zone.after) = w
    BY <1>1, OffsetIs, Reads, Units
  <2> QED
    BY <1>1, <2>1 DEF C!Instants
<1> QED
  BY <1>1, <1>2, <1>3

\* What the search had not yet come to when it ended is later.
LEMMA NothingEarlier ==
  ASSUME CalendarInv, CronIs, NEW i \in Int, i % TICKS = 0, i > from,
         C!Matches(C!wallClockAt(zone, i)), C!Plain(C!wallClockAt(zone, i))
  PROVE  C!wallClockAt(zone, i) = wall \/ Before(wall, C!wallClockAt(zone, i))
<1> DEFINE w == C!wallClockAt(zone, i)
<1>1. FromIs /\ wall \in Walls /\ zone \in Zones /\ from \in Nat
  BY DEF CalendarInv, FromIs
<1>2. w \in Walls /\ C!asIfUtc(w) = i + C!zoneOffset(zone, i) /\ Moment(w) = i
  BY <1>1, Shown, OneMoment
<1>3. ~Before(w, Start0)
  <2> SUFFICES ASSUME Before(w, Start0) PROVE FALSE
    OBVIOUS
  <2>1. PICK j \in Nat : /\ j > from /\ j <= i /\ Start0 \in Walls
                         /\ C!asIfUtc(Start0) = j + C!zoneOffset(zone, j)
    BY <1>1, StartIs
  <2>2. C!asIfUtc(w) < j + C!zoneOffset(zone, j)
    <3>1. C!asIfUtc(w) + TICKS <= C!asIfUtc(Start0)
      BY <1>2, <2>1, Ordered
    <3> QED
      BY <1>2, <2>1, <3>1, MinutesOfWall, Units
  <2> QED
    BY <1>1, <1>2, <2>1, <2>2, ShownBefore
<1>4. ~Before(w, wall)
  <2>1. Before(w, wall) => Moment(w) <= from
    BY <1>2, <1>3 DEF CronIs, Searched
  <2> QED
    BY <1>1, <1>2, <2>1
<1> QED
  BY <1>1, <1>2, <1>4, Ordered

LEMMA NoneIsDue ==
  ASSUME CalendarInv, spec.kind = "cron", CFound = C!Never,
         NEW i \in Int, i % TICKS = 0, i > from, i <= from + MAX_SCAN_DAYS * C!Day,
         C!Matches(C!wallClockAt(zone, i)), C!Plain(C!wallClockAt(zone, i))
  PROVE  FALSE
<1> DEFINE w == C!wallClockAt(zone, i)
           l == from + MAX_SCAN_DAYS * C!Day
           v == C!wallClockAt(zone, l)
<1>1. FromIs /\ CronIs /\ wall \in Walls /\ zone \in Zones /\ from \in Nat /\ wall.date > v.date
  BY DEF CalendarInv, FromIs, CronIs, C!Limit
<1>2. w \in Walls /\ C!asIfUtc(w) = i + C!zoneOffset(zone, i)
  BY <1>1, Shown
<1>3. w = wall \/ Before(wall, w)
  BY <1>1, NothingEarlier
<1>4. l \in Nat /\ l >= from
  <2>1. MAX_SCAN_DAYS \in Nat /\ C!Day \in Nat
    BY <1>1, HourIs, OutsideAssumption DEF C!CalendarAssumption
  <2>2. MAX_SCAN_DAYS * C!Day \in Nat
    BY <2>1
  <2> DEFINE m == MAX_SCAN_DAYS * C!Day
  <2> HIDE DEF m
  <2>3. from + m \in Nat /\ from + m >= from
    BY <1>1, <2>2 DEF m
  <2> QED
    BY <2>3 DEF m
<1> HIDE DEF l
<1>5. l + C!zoneOffset(zone, l) \in Nat
  BY <1>1, <1>4, ZoneIs DEF FromIs
<1>6. v \in Walls /\ l + C!zoneOffset(zone, l) < C!asIfUtc(v) + TICKS
  <2>1. v \in Walls
    BY <1>1, <1>4, <1>5, ClockIsWall
  <2> QED
    BY <1>1, <1>4, <2>1, Reads
<1>7. Before(v, w)
  BY <1>1, <1>2, <1>3, <1>6 DEF Before, Walls
<1>8. C!asIfUtc(w) > l + C!zoneOffset(zone, l)
  <2>1. C!asIfUtc(v) + TICKS <= C!asIfUtc(w)
    BY <1>2, <1>6, <1>7, Ordered
  <2> QED
    BY <1>2, <1>5, <1>6, <2>1, MinutesOfWall, Units
<1>9. i <= l
  BY DEF l
<1> QED
  BY <1>1, <1>2, <1>4, <1>8, <1>9, ShownLater

LEMMA AnHour ==
  ASSUME C!OneHour(zone), zone \in Zones
  PROVE  /\ zone.before \in Int /\ zone.after \in Int /\ zone.at \in Int
         /\ zone.after - zone.before \in {-(MINUTES * TICKS), 0, MINUTES * TICKS}
         /\ (zone.at + zone.before) % (MINUTES * TICKS) = 0
         /\ zone.before < zone.after /\ zone.before < 0 =>
              zone.after <= 0 /\ (zone.at + zone.before) % C!Day # 0
<1>1. -MINUTES * TICKS = -(MINUTES * TICKS)
  BY Units
<1> QED
  BY <1>1, ZoneIs DEF C!OneHour

\* The only multiple of n within n of what follows a multiple by less than n.
LEMMA MultipleOf ==
  ASSUME NEW n \in Nat \ {0}, NEW c \in Int, NEW m \in Int, c % n = 0, m % n = 0,
         NEW x \in 0..n - 1, m <= c + x, c + x < m + n
  PROVE  c = m
<1>1. m - c < n /\ c - m < n
  OBVIOUS
<1> QED
  BY <1>1, SameMultiple

LEMMA MultipleAfter ==
  ASSUME NEW n \in Nat \ {0}, NEW m \in Int, m % n = 0
  PROVE  (m + n) % n = 0
<1>1. n \in Int /\ n % n = 0
  OBVIOUS
<1>2. \A b \in Int : b % n = 0 => (m + b) % n = 0
  BY SumOfMultiples
<1> QED
  BY <1>1, <1>2, Zenon

\* The hours of two walls no further apart than an hour and a minute from either end
\* of an hour follow each other.
LEMMA HourBefore ==
  ASSUME NEW w \in Walls, NEW v \in Walls, NEW m \in Int, m % (MINUTES * TICKS) = 0,
         m <= C!asIfUtc(v), C!asIfUtc(v) < m + MINUTES * TICKS,
         m + MINUTES * TICKS <= C!asIfUtc(w), C!asIfUtc(w) < m + 2 * (MINUTES * TICKS)
  PROVE  LET g == [v EXCEPT !.minute = w.minute]
         IN g \in Walls /\ C!asIfUtc(g) = C!asIfUtc(w) - MINUTES * TICKS
<1> DEFINE n == MINUTES * TICKS
           p == w.date * HOURS + w.hour
           q == v.date * HOURS + v.hour
           g == [v EXCEPT !.minute = w.minute]
           x == w.minute * TICKS
           y == v.minute * TICKS
<1>1. g \in Walls /\ g.date = v.date /\ g.hour = v.hour /\ g.minute = w.minute
  BY DEF Walls
<1>2. p \in Int /\ q \in Int /\ w.minute \in Int /\ v.minute \in Int
  <2>1. /\ w.date \in Nat /\ w.hour \in Int /\ w.minute \in Int
        /\ v.date \in Nat /\ v.hour \in Int /\ v.minute \in Int
    BY DEF Walls
  <2>2. w.date * HOURS \in Int /\ v.date * HOURS \in Int
    BY <2>1, Units
  <2> QED
    BY <2>1, <2>2
<1>3. \A s, k \in Int : (s * MINUTES + k) * TICKS = n * s + k * TICKS
  BY Units
<1>4. C!asIfUtc(w) = n * p + x /\ C!asIfUtc(v) = n * q + y /\ C!asIfUtc(g) = n * q + x
  <2> HIDE DEF n
  <2> QED
    BY <1>1, <1>2, <1>3 DEF C!asIfUtc
<1>5. n \in Nat \ {0} /\ x \in 0..n - 1 /\ y \in 0..n - 1
  <2>1. x \in Nat /\ x < n /\ y \in Nat /\ y < n
    BY HourIs
  <2>2. n \in Nat \ {0}
    BY Products
  <2> HIDE DEF n, x, y
  <2> QED
    BY <2>1, <2>2
<1> DEFINE c == n * p
           d == n * q
<1>6. c \in Int /\ d \in Int /\ c % n = 0 /\ d % n = 0
  <2> HIDE DEF n, p, q
  <2>1. c \in Int /\ d \in Int /\ 0 \in 0..n - 1
    BY <1>2, <1>5
  <2>2. (n * p + 0) % n = 0 /\ (n * q + 0) % n = 0
    BY <1>2, <1>5, <2>1, DivUnique
  <2> QED
    BY <2>1, <2>2
<1>7. d = m
  <2>1. m % n = 0 /\ m <= d + y /\ d + y < m + n
    BY <1>4
  <2> HIDE DEF c, d, n, y
  <2> QED
    BY <1>5, <1>6, <2>1, MultipleOf
<1>8. c = m + n
  <2>1. m % n = 0
    OBVIOUS
  <2>2. m + n <= c + x /\ c + x < m + 2 * n
    BY <1>4
  <2> HIDE DEF c, d, n, x
  <2>3. (m + n) % n = 0
    BY <1>5, <2>1, MultipleAfter, Zenon
  <2>4. m + n \in Int /\ c + x < (m + n) + n
    BY <1>5, <1>6, <2>2
  <2> QED
    BY <1>5, <1>6, <2>2, <2>3, <2>4, MultipleOf
<1>9. C!asIfUtc(g) = C!asIfUtc(w) - n
  <2>1. C!asIfUtc(w) = c + x /\ C!asIfUtc(g) = d + x
    BY <1>4
  <2> HIDE DEF c, d, x, n, g
  <2> QED
    BY <1>5, <1>6, <1>7, <1>8, <2>1
<1> QED
  BY <1>1, <1>9

LEMMA MomentIs ==
  ASSUME zone \in Zones, NEW w \in Walls
  PROVE  /\ Moment(w) \in {C!asIfUtc(w) - zone.before, C!asIfUtc(w) - zone.after} /\ Moment(w) \in Int
         /\ C!Instants(w) # {} => C!asIfUtc(w) = Moment(w) + C!zoneOffset(zone, Moment(w))
<1>1. zone.before \in Int /\ zone.after \in Int /\ zone.at \in Int /\ C!asIfUtc(w) \in Int
  BY ZoneIs, MinutesOfWall
<1>2. Moment(w) \in {C!asIfUtc(w) - zone.before, C!asIfUtc(w) - zone.after} /\ Moment(w) \in Int
  BY <1>1 DEF Moment, C!wallClockToInstant, C!zoneOffset
<1>3. ASSUME C!Instants(w) # {} PROVE C!asIfUtc(w) = Moment(w) + C!zoneOffset(zone, Moment(w))
  <2> DEFINE j == Moment(w)
             u == C!asIfUtc(w)
  <2>1. j \in Int /\ j \in {u - zone.before, u - zone.after} /\ C!wallClockAt(zone, j) = w
    BY <1>2, <1>3, ReadsBack DEF C!Instants
  <2>2. u <= j + C!zoneOffset(zone, j) /\ j + C!zoneOffset(zone, j) < u + TICKS
    BY <2>1, Reads
  <2>3. C!zoneOffset(zone, j) \in {zone.before, zone.after}
    BY <2>1, ZoneIs
  <2> HIDE DEF j, u
  <2>4. u \in Int
    BY <1>1 DEF u
  <2>5. j + C!zoneOffset(zone, j) = u
    BY <1>1, <2>1, <2>2, <2>3, <2>4, MovedByMinutes, Units
  <2> QED
    BY <2>5 DEF j, u
<1> QED
  BY <1>2, <1>3

\* What the clocks show later in the day than a wall, and yet before the instant the
\* wall is resolved to, follows a change that puts them forward past the wall.
LEMMA OnlyInTheJump ==
  ASSUME FromIs, NEW v \in Walls, NEW i \in Int, i % TICKS = 0, i > from, i < Moment(v),
         C!Plain(C!wallClockAt(zone, i)),
         C!asIfUtc(v) + TICKS <= C!asIfUtc(C!wallClockAt(zone, i))
  PROVE  /\ zone.at + zone.before <= C!asIfUtc(v) /\ C!asIfUtc(v) < zone.at + zone.after
         /\ zone.at <= i /\ i < zone.at + zone.after - zone.before
         /\ C!asIfUtc(C!wallClockAt(zone, i)) = i + zone.after
         /\ C!asIfUtc(v) >= zone.at /\ Moment(v) = C!asIfUtc(v) - zone.before
<1> DEFINE w == C!wallClockAt(zone, i)
           u == C!asIfUtc(v)
           j == Moment(v)
<1>1. /\ zone \in Zones /\ from \in Nat /\ u \in Int /\ C!asIfUtc(w) \in Int /\ j \in Int
      /\ zone.before \in Int /\ zone.after \in Int /\ zone.at \in Int
      /\ w \in Walls /\ C!asIfUtc(w) = i + C!zoneOffset(zone, i)
  BY Shown, MinutesOfWall, MomentIs, ZoneIs DEF FromIs
<1>2. C!Instants(v) = {}
  <2> SUFFICES ASSUME C!Instants(v) # {} PROVE FALSE
    OBVIOUS
  <2>1. C!wallClockAt(zone, j) = v
    BY <1>1, ReadsBack DEF C!Instants
  <2>2. j + C!zoneOffset(zone, j) < u + TICKS
    BY <1>1, <2>1, Reads
  <2>3. C!zoneOffset(zone, j) \in Int
    BY <1>1, OffsetIs
  <2>4. C!asIfUtc(w) > j + C!zoneOffset(zone, j)
    BY <1>1, <2>2, <2>3, Units
  <2> QED
    BY <1>1, <2>4, ShownLater
<1>3. zone.at + zone.before <= u /\ u < zone.at + zone.after
  BY <1>1, <1>2, Unshown
<1> HIDE DEF w
<1>4. u + TICKS <= C!asIfUtc(w)
  BY DEF w
<1>5. i >= zone.at /\ C!asIfUtc(w) = i + zone.after
  <2>1. i < zone.at => C!asIfUtc(w) = i + zone.before
    BY <1>1, OffsetIs
  <2>2. ~(i < zone.at)
    BY <1>1, <1>3, <1>4, <2>1, Units
  <2> QED
    BY <1>1, <2>2, OffsetIs
<1>6. u >= zone.at /\ j = u - zone.before
  <2>1. u < zone.at => j = u - zone.after
    BY <1>1, <1>3, InTheGap
  <2>2. ~(u < zone.at)
    BY <1>1, <1>3, <1>4, <1>5, <2>1, Units
  <2> QED
    BY <1>1, <1>3, <2>2, InTheGap
<1>7. i < zone.at + zone.after - zone.before
  BY <1>1, <1>3, <1>6
<1> QED
  BY <1>3, <1>5, <1>6, <1>7 DEF w

\* No minute of the rule lies between the last occurrence and the one found, but for
\* those overtaken in a place that keeps other clocks.
LEMMA NoneBetween ==
  ASSUME CalendarInv, spec.kind = "cron", CFound >= 0,
         NEW i \in Int, i % TICKS = 0, i > from, i < CFound,
         C!Matches(C!wallClockAt(zone, i)), C!Plain(C!wallClockAt(zone, i))
  PROVE  C!Overtaken(i)
<1> DEFINE w == C!wallClockAt(zone, i)
           u == C!asIfUtc(wall)
           n == MINUTES * TICKS
<1>1. /\ FromIs /\ CronIs /\ wall \in Walls /\ zone \in Zones /\ from \in Nat /\ CFound \in Int
      /\ C!Matches(wall) /\ CFound = Moment(wall)
  BY DEF CalendarInv, FromIs, CronIs, C!Searching, C!Never
<1>2. w \in Walls /\ C!asIfUtc(w) = i + C!zoneOffset(zone, i) /\ Moment(w) = i
  BY <1>1, Shown, OneMoment
<1>3. Before(wall, w)
  BY <1>1, <1>2, NothingEarlier
<1>4. u + TICKS <= C!asIfUtc(w) /\ u \in Int /\ C!asIfUtc(w) \in Int
  BY <1>1, <1>2, <1>3, Ordered, MinutesOfWall
<1>5. /\ zone.at + zone.before <= u /\ u < zone.at + zone.after
      /\ i >= zone.at /\ i < zone.at + zone.after - zone.before
      /\ C!asIfUtc(w) = i + zone.after /\ u >= zone.at /\ CFound = u - zone.before
  BY <1>1, <1>4, OnlyInTheJump
<1>6. zone.at + zone.before <= u /\ u < zone.at + zone.after
  BY <1>5
<1>8. i >= zone.at /\ C!asIfUtc(w) = i + zone.after
  BY <1>5
<1>9. u >= zone.at /\ CFound = u - zone.before
  BY <1>5
<1> SUFFICES ASSUME C!OneHour(zone) PROVE FALSE
  BY <1>5 DEF C!Overtaken
<1>7. /\ zone.before \in Int /\ zone.after \in Int /\ zone.at \in Int /\ n \in Nat \ {0}
      /\ zone.after = zone.before + n
      /\ (zone.at + zone.before) % n = 0 /\ (zone.before < 0 => zone.after <= 0)
  <2>1. /\ zone.before \in Int /\ zone.after \in Int /\ zone.at \in Int /\ n \in Nat \ {0}
        /\ zone.after - zone.before \in {-n, 0, n}
        /\ (zone.at + zone.before) % n = 0
        /\ zone.before < zone.after /\ zone.before < 0 => zone.after <= 0
    BY <1>1, AnHour, Products
  <2>2. zone.before < zone.after
    BY <1>4, <1>6, <2>1
  <2> HIDE DEF n
  <2> QED
    BY <2>1, <2>2
<1> HIDE DEF n
<1> DEFINE m == zone.at + zone.before
           g == [wall EXCEPT !.minute = w.minute]
<1>10. g \in Walls /\ C!asIfUtc(g) = C!asIfUtc(w) - n /\ g.minute = w.minute
  <2>1. m \in Int /\ m % n = 0 /\ m <= u /\ u < m + n
    BY <1>6, <1>7
  <2>2. m + n <= C!asIfUtc(w) /\ C!asIfUtc(w) < m + 2 * n
    <3>1. C!asIfUtc(w) < u - zone.before + zone.after
      BY <1>1, <1>4, <1>7, <1>8, <1>9
    <3> QED
      BY <1>4, <1>6, <1>7, <1>8, <1>9, <3>1
  <2> HIDE DEF m
  <2>3. g \in Walls /\ C!asIfUtc(g) = C!asIfUtc(w) - n
    BY <1>1, <1>2, <2>1, <2>2, HourBefore DEF n
  <2> QED
    BY <1>1, <2>3 DEF Walls
<1>11. zone.at + zone.before <= C!asIfUtc(g) /\ C!asIfUtc(g) < u /\ C!asIfUtc(g) >= zone.at
  BY <1>1, <1>4, <1>6, <1>7, <1>8, <1>9, <1>10
<1>12. Moment(g) = i
  <2>1. C!asIfUtc(g) < zone.at + zone.after
    BY <1>4, <1>6, <1>7, <1>10, <1>11
  <2>2. Moment(g) = C!asIfUtc(g) - zone.before
    BY <1>1, <1>10, <1>11, <2>1, InTheGap
  <2> QED
    BY <1>4, <1>7, <1>8, <1>10, <2>2
<1>13. C!Matches(g)
  BY <1>1, <1>10 DEF C!Matches, Walls
<1>14. Before(g, wall)
  <2>1. ~Before(wall, g) /\ g # wall
    BY <1>1, <1>4, <1>10, <1>11, Ordered, MinutesOfWall, Units
  <2> QED
    BY <1>1, <1>10, <2>1, Ordered
<1>15. ~Before(g, Start0)
  <2> SUFFICES ASSUME Before(g, Start0) PROVE FALSE
    OBVIOUS
  <2>1. PICK j \in Nat : Start0 \in Walls /\ C!asIfUtc(Start0) = j + C!zoneOffset(zone, j)
    BY <1>1, StartIs
  <2>2. C!asIfUtc(g) < C!asIfUtc(Start0) /\ C!asIfUtc(Start0) \in Int /\ C!asIfUtc(g) \in Int
    BY <1>10, <2>1, Ordered, MinutesOfWall, Units
  <2>3. C!asIfUtc(Start0) <= u
    <3>1. ~Before(wall, Start0)
      BY <1>1 DEF CronIs
    <3>2. Start0 = wall \/ Before(Start0, wall)
      BY <1>1, <2>1, <3>1, Ordered
    <3> QED
      BY <1>1, <1>4, <2>1, <2>2, <3>2, Ordered, Units
  <2>4. j < zone.at => C!asIfUtc(Start0) = j + zone.before
    BY <1>1, <2>1, OffsetIs
  <2>5. j >= zone.at => C!asIfUtc(Start0) = j + zone.after
    BY <1>1, <2>1, OffsetIs
  <2> QED
    BY <1>4, <1>6, <1>7, <1>11, <2>1, <2>2, <2>3, <2>4, <2>5
<1>16. Moment(g) <= from
  BY <1>1, <1>10, <1>13, <1>14, <1>15 DEF CronIs, Searched
<1> QED
  BY <1>1, <1>12, <1>16

\* A day's clock times, as ticks from its midnight.
LEMMA OnDays ==
  ASSUME NEW s \in Said
  PROVE  \E x \in 0..C!Day - 1 : \A d \in Nat :
           C!On(d, s.clock) \in Walls /\ C!asIfUtc(C!On(d, s.clock)) = d * C!Day + x
<1>1. s.clock \in C!Clock
  BY OutsideAssumption DEF C!CalendarAssumption, C!Clock
<1>2. \A d \in Nat : /\ C!On(d, s.clock) \in Walls /\ C!On(d, s.clock).date = d
                     /\ C!On(d, s.clock).hour = s.clock.hour /\ C!On(d, s.clock).minute = s.clock.minute
  BY <1>1 DEF C!On, C!Clock, Walls
<1> DEFINE y == s.clock.hour * (MINUTES * TICKS)
           t == s.clock.minute * TICKS
           x == y + t
           n == MINUTES * TICKS
<1>3. C!Day \in Nat \ {0} /\ n \in Nat \ {0} /\ y \in Nat /\ y + n <= C!Day /\ t \in Nat /\ t < n
  <2>1. 0 \in Nat
    OBVIOUS
  <2>2. /\ C!On(0, s.clock) \in Walls /\ C!On(0, s.clock).hour = s.clock.hour
        /\ C!On(0, s.clock).minute = s.clock.minute
    BY <1>2, <2>1
  <2> QED
    BY <2>2, HourIs, Products
<1>4. x \in 0..C!Day - 1
  <2> HIDE DEF y, t, n
  <2> QED
    BY <1>3
<1>5. \A d \in Nat : C!asIfUtc(C!On(d, s.clock)) = d * C!Day + x
  <2> SUFFICES ASSUME NEW d \in Nat PROVE C!asIfUtc(C!On(d, s.clock)) = d * C!Day + x
    OBVIOUS
  <2>1. C!asIfUtc(C!On(d, s.clock)) = d * C!Day + y + t /\ d * C!Day \in Nat
    BY <1>2, HourIs
  <2> DEFINE k == d * C!Day
  <2>2. C!asIfUtc(C!On(d, s.clock)) = k + y + t /\ k \in Nat
    BY <2>1
  <2> HIDE DEF k, y, t
  <2>3. C!asIfUtc(C!On(d, s.clock)) = k + (y + t)
    BY <1>3, <2>2
  <2> QED
    BY <2>3 DEF k
<1> HIDE DEF x
<1> QED
  BY <1>2, <1>4, <1>5


LEMMA WithinToday ==
  ASSUME FromIs
  PROVE  /\ C!wallClockAt(zone, from) \in Walls
         /\ from + C!zoneOffset(zone, from) \in Nat
         /\ LET today == C!wallClockAt(zone, from).date
                f == from + C!zoneOffset(zone, from)
            IN today \in Nat /\ today * C!Day <= f /\ f < today * C!Day + C!Day
<1> DEFINE v == C!wallClockAt(zone, from)
           f == from + C!zoneOffset(zone, from)
           k == v.date * C!Day
           y == v.hour * (MINUTES * TICKS)
           t == v.minute * TICKS
           n == MINUTES * TICKS
<1>1. f \in Nat
  BY ZoneIs DEF FromIs
<1>2. v \in Walls /\ v.date \in Nat
  BY <1>1, ClockIsWall DEF FromIs, Walls
<1>3. C!asIfUtc(v) <= f /\ f < C!asIfUtc(v) + TICKS
  BY <1>2, Reads DEF FromIs
<1>4. C!asIfUtc(v) = k + y + t /\ k \in Nat /\ y \in Nat /\ y + n <= C!Day /\ C!Day \in Nat
  BY <1>2, HourIs
<1>5. t \in Nat /\ t + TICKS <= n /\ n \in Nat
  <2>1. \A d \in Nat \ {0}, a, b \in Nat : a < b => a * d + d <= b * d
    OBVIOUS
  <2>2. v.minute \in 0..MINUTES - 1
    BY <1>2 DEF Walls
  <2>3. v.minute \in Nat /\ v.minute < MINUTES
    BY <2>2, Units
  <2>4. v.minute * TICKS + TICKS <= MINUTES * TICKS
    BY <2>1, <2>3, Units
  <2> QED
    BY <1>2, <2>4, HourIs, Products
<1>6. k <= f /\ f < k + C!Day
  <2> HIDE DEF v, f, k, y, t, n
  <2> QED
    BY <1>1, <1>3, <1>4, <1>5, Units
<1> QED
  BY <1>1, <1>2, <1>6

\* A day is so many hours.
LEMMA DayOfHours ==
  ASSUME NEW d \in Nat
  PROVE  /\ d * C!Day \in Nat /\ (d * C!Day) % (MINUTES * TICKS) = 0 /\ (d * C!Day) % C!Day = 0
         /\ (d + 1) * C!Day = d * C!Day + C!Day
<1> DEFINE n == MINUTES * TICKS
<1>1. n \in Nat \ {0} /\ C!Day \in Nat \ {0} /\ C!Day = HOURS * n
  <2>1. \A p, q, t \in Int : p * q * t = p * (q * t)
    OBVIOUS
  <2> QED
    BY <2>1, Units, Products DEF C!Day
<1>2. 0 \in 0..n - 1 /\ 0 \in 0..C!Day - 1
  BY <1>1
<1>3. d * HOURS \in Nat /\ d * C!Day = n * (d * HOURS) + 0 /\ d * C!Day = C!Day * d + 0
  <2> HIDE DEF n
  <2>1. d * HOURS \in Nat
    BY Units
  <2>2. \A a, b, c \in Int : a * (b * c) = c * (a * b) + 0
    OBVIOUS
  <2>3. d * (HOURS * n) = n * (d * HOURS) + 0
    BY <1>1, <2>2, Units
  <2>4. d * C!Day = C!Day * d + 0
    BY <1>1
  <2> QED
    BY <1>1, <2>1, <2>3, <2>4
<1> HIDE DEF n
<1>4. (n * (d * HOURS) + 0) % n = 0 /\ (C!Day * d + 0) % C!Day = 0
  <2>1. \A a \in Nat \ {0}, b \in Nat : (a * b + 0) % a = 0
    <3> SUFFICES ASSUME NEW a \in Nat \ {0}, NEW b \in Nat PROVE (a * b + 0) % a = 0
      OBVIOUS
    <3>1. 0 \in 0..a - 1
      OBVIOUS
    <3> QED
      BY <3>1, DivUnique
  <2> QED
    BY <1>1, <1>3, <2>1, Zenon
<1>5. (d + 1) * C!Day = d * C!Day + C!Day /\ d * C!Day \in Nat
  BY <1>1
<1> QED
  BY <1>3, <1>4, <1>5 DEF n

\* A wall of a later day than the clocks show is resolved to a later instant.
LEMMA TomorrowIsLater ==
  ASSUME FromIs, C!OneHour(zone), NEW w \in Walls, NEW m \in Int,
         m % (MINUTES * TICKS) = 0, m % C!Day = 0,
         from + C!zoneOffset(zone, from) < m, m <= C!asIfUtc(w)
  PROVE  Moment(w) > from
<1> SUFFICES ASSUME Moment(w) <= from PROVE FALSE
  BY MomentIs DEF FromIs
<1> DEFINE u == C!asIfUtc(w)
           n == MINUTES * TICKS
           j == Moment(w)
           c == zone.at + zone.before
<1>1. zone \in Zones /\ from \in Nat /\ u \in Int /\ j \in Int
  BY MinutesOfWall, MomentIs DEF FromIs
<1>2. /\ zone.before \in Int /\ zone.after \in Int /\ zone.at \in Int
      /\ zone.after - zone.before \in {-n, 0, n} /\ c % n = 0
      /\ zone.before < zone.after /\ zone.before < 0 => c % C!Day # 0
  BY <1>1, AnHour
<1>3. n \in Nat \ {0} /\ m % n = 0
  BY Products
<1>4. (from < zone.at => from + zone.before < m) /\ (from >= zone.at => from + zone.after < m)
  BY <1>1, OffsetIs
<1> HIDE DEF n, u, j
<1>5. CASE C!Instants(w) # {}
  <2>1. u = j + C!zoneOffset(zone, j)
    BY <1>1, <1>5, MomentIs DEF u, j
  <2>2. (j < zone.at => u = j + zone.before) /\ (j >= zone.at => u = j + zone.after)
    BY <1>1, <2>1, OffsetIs
  <2>3. j <= from /\ m <= u
    BY DEF j, u
  <2>4. j < zone.at /\ from >= zone.at /\ u = j + zone.before /\ zone.before = zone.after + n
    <3>1. /\ zone.before \in Int /\ zone.after \in Int /\ zone.at \in Int /\ m \in Int
          /\ zone.after - zone.before \in {-n, 0, n} /\ n \in Nat \ {0}
      BY <1>2, <1>3
    <3>2. j < zone.at /\ from >= zone.at
      BY <1>1, <1>4, <2>2, <2>3, <3>1
    <3>3. u = j + zone.before /\ from + zone.after < m
      BY <1>4, <2>2, <3>2
    <3> QED
      BY <1>1, <2>3, <3>1, <3>2, <3>3
  <2>5. m < c /\ c - m < n
    BY <1>1, <1>2, <1>3, <1>4, <2>3, <2>4 DEF c
  <2>6. m + n <= c
    <3>1. c \in Int
      BY <1>2
    <3> HIDE DEF c
    <3> QED
      BY <1>2, <1>3, <2>5, <3>1, NextMultiple
  <2>7. c \in Int
    BY <1>2
  <2> QED
    BY <1>3, <2>5, <2>6, <2>7
<1>6. CASE C!Instants(w) = {}
  <2>1. c <= u /\ u < zone.at + zone.after
    BY <1>1, <1>6, Unshown DEF u
  <2>2. /\ u < zone.at => j = u - zone.after
        /\ u >= zone.at => j = u - zone.before
    BY <1>1, <2>1, InTheGap DEF u, j
  <2>3. j <= from /\ m <= u
    BY DEF j, u
  <2>4. zone.after = zone.before + n
    BY <1>1, <1>2, <1>3, <2>1
  <2>5. u < zone.at /\ j = u - zone.after /\ from < zone.at /\ from + zone.before < m
    BY <1>1, <1>2, <1>3, <1>4, <2>1, <2>2, <2>3, <2>4
  <2>6. c \in Int /\ zone.before < 0
    BY <1>1, <1>2, <2>1, <2>5
  <2>7. m - c < n /\ c - m < n
    BY <1>1, <1>2, <1>3, <2>1, <2>3, <2>4, <2>5
  <2>8. m = c
    <3> HIDE DEF c
    <3> QED
      BY <1>2, <1>3, <2>6, <2>7, SameMultiple
  <2>9. c % C!Day # 0
    BY <1>2, <1>3, <2>4, <2>6
  <2> QED
    BY <2>8, <2>9
<1> QED
  BY <1>5, <1>6

LEMMA DayHasAMinute == C!Day >= TICKS
<1> DEFINE w == [date |-> 0, hour |-> 0, minute |-> 0]
           t == w.minute * TICKS
           n == MINUTES * TICKS
<1>1. w \in Walls
  BY Units DEF Walls
<1>2. C!Day >= n /\ n \in Nat /\ C!Day \in Nat
  BY <1>1, HourIs, Products
<1>3. \A a \in Nat \ {0}, b \in Nat : a * b >= b
  OBVIOUS
<1>4. n >= TICKS
  BY <1>3, Units
<1> HIDE DEF n
<1> QED
  BY <1>2, <1>4, Units

LEMMA BareTime ==
  ASSUME CalendarInv, spec.kind = "once", spec.said.form = "clock"
  PROVE  /\ spec.at <= from =>
              ~C!OneHour(zone) /\ ~C!Plain(C!On(C!wallClockAt(zone, from).date + 1, spec.said.clock))
         /\ \A i \in Int :
              /\ i % TICKS = 0 /\ i > from /\ i < spec.at
              /\ C!On(C!wallClockAt(zone, i).date, spec.said.clock) = C!wallClockAt(zone, i)
              => ~C!Plain(C!wallClockAt(zone, i)) \/ C!Overtaken(i)
<1> DEFINE s == spec.said
           today == C!wallClockAt(zone, from).date
           Wall(d) == C!On(d, s.clock)
           f == from + C!zoneOffset(zone, from)
           n == MINUTES * TICKS
<1>1. /\ FromIs /\ zone \in Zones /\ from \in Nat /\ s \in Said /\ spec.at \in Int
      /\ spec.at = C!parseWhen(s, zone, from)
  BY DEF CalendarInv, FromIs, OnceIs
<1>2. /\ C!wallClockAt(zone, from) \in Walls /\ f \in Nat
      /\ today \in Nat /\ today * C!Day <= f /\ f < today * C!Day + C!Day
  BY <1>1, WithinToday
<1> HIDE DEF f
<1>3. PICK x \in 0..C!Day - 1 : \A d \in Nat : Wall(d) \in Walls /\ C!asIfUtc(Wall(d)) = d * C!Day + x
  BY <1>1, OnDays
<1> DEFINE p == Moment(Wall(today))
           q == Moment(Wall(today + 1))
           h == today * C!Day
<1>4. /\ today + 1 \in Nat /\ h \in Nat /\ (today + 1) * C!Day = h + C!Day /\ C!Day \in Nat \ {0}
      /\ ((today + 1) * C!Day) % n = 0 /\ ((today + 1) * C!Day) % C!Day = 0
      /\ n \in Nat \ {0} /\ C!Day >= n
  <2>1. today \in Nat /\ today + 1 \in Nat
    BY <1>2
  <2>2. h \in Nat /\ (today + 1) * C!Day = h + C!Day
    BY <2>1, DayOfHours
  <2> DEFINE t == today + 1
  <2>3. t \in Nat
    BY <2>1
  <2> HIDE DEF t
  <2>4. (t * C!Day) % n = 0 /\ (t * C!Day) % C!Day = 0
    BY <2>3, DayOfHours
  <2>5. C!Day \in Nat \ {0} /\ n \in Nat \ {0} /\ C!Day >= n
    BY <1>2, HourIs, Products
  <2> QED
    BY <2>1, <2>2, <2>4, <2>5 DEF t
<1>5. /\ Wall(today) \in Walls /\ C!asIfUtc(Wall(today)) = h + x
      /\ Wall(today + 1) \in Walls /\ C!asIfUtc(Wall(today + 1)) = h + C!Day + x
  BY <1>2, <1>3, <1>4
<1>6. spec.at = C!ComesRound(p, q, from) /\ p \in Int /\ q \in Int
  BY <1>1, <1>5, MomentIs DEF C!parseWhen, Moment
<1>7. C!OneHour(zone) \/ C!Plain(Wall(today + 1)) => q > from
  <2> DEFINE m == (today + 1) * C!Day
  <2>1. m \in Int /\ m = h + C!Day
    BY <1>4
  <2>2. m % n = 0 /\ m % C!Day = 0
    BY <1>4
  <2>3. C!asIfUtc(Wall(today + 1)) = m + x /\ f < m
    BY <1>2, <1>5, <2>1
  <2> HIDE DEF m, h
  <2>4. m <= C!asIfUtc(Wall(today + 1))
    BY <1>3, <1>4, <2>1, <2>3
  <2>5. C!OneHour(zone) => q > from
    BY <1>1, <1>5, <2>1, <2>2, <2>3, <2>4, TomorrowIsLater DEF f
  <2>6. ASSUME C!Plain(Wall(today + 1)), q <= from PROVE FALSE
    <3>1. C!Instants(Wall(today + 1)) # {}
      BY <2>6, PlainIs
    <3>2. C!asIfUtc(Wall(today + 1)) = q + C!zoneOffset(zone, q)
      BY <1>1, <1>5, <3>1, MomentIs
    <3>3. C!asIfUtc(Wall(today + 1)) > from + C!zoneOffset(zone, from)
      <4>1. C!asIfUtc(Wall(today + 1)) \in Int /\ f \in Nat
        BY <1>2, <1>5, MinutesOfWall
      <4>2. C!asIfUtc(Wall(today + 1)) > f
        BY <2>1, <2>3, <2>4, <4>1
      <4> QED
        BY <4>2 DEF f
    <3> QED
      BY <1>1, <1>5, <1>6, <2>6, <3>2, <3>3, ShownLater
  <2> QED
    BY <1>1, <1>6, <2>5, <2>6
<1>8. /\ spec.at \in {p, q} /\ (p > from => spec.at = p) /\ (p <= from => spec.at = q)
      /\ (spec.at <= from => ~C!OneHour(zone) /\ ~C!Plain(Wall(today + 1)))
  BY <1>1, <1>6, <1>7 DEF C!ComesRound
<1>9. ASSUME NEW i \in Int, i % TICKS = 0, i > from, i < spec.at,
             Wall(C!wallClockAt(zone, i).date) = C!wallClockAt(zone, i), C!Plain(C!wallClockAt(zone, i))
      PROVE  C!Overtaken(i)
  <2> DEFINE w == C!wallClockAt(zone, i)
             k == w.date
  <2>1. w \in Walls /\ C!asIfUtc(w) = i + C!zoneOffset(zone, i) /\ Moment(w) = i /\ k \in Nat
    BY <1>1, <1>9, Shown, OneMoment DEF Walls
  <2>3. k >= today
    <3> SUFFICES ASSUME k < today PROVE FALSE
      BY <1>2, <2>1
    <3>1. Before(w, C!wallClockAt(zone, from))
      BY DEF Before
    <3>2. C!asIfUtc(w) + TICKS <= C!asIfUtc(C!wallClockAt(zone, from))
      BY <1>2, <2>1, <3>1, Ordered
    <3>3. C!asIfUtc(C!wallClockAt(zone, from)) <= f
      BY <1>1, <1>2, Reads DEF f
    <3>4. C!asIfUtc(w) < f
      BY <1>2, <2>1, <3>2, <3>3, MinutesOfWall, Units
    <3> QED
      BY <1>1, <1>9, <2>1, <3>4, ShownBefore DEF f
  <2>4. k # today
    BY <1>1, <1>6, <1>8, <1>9, <2>1
  <2>5. PICK v \in Walls : Moment(v) = spec.at /\ C!asIfUtc(v) + C!Day <= C!asIfUtc(w)
    <3>1. \A a, b, c \in Nat : a <= b => a * c <= b * c
      OBVIOUS
    <3>2. C!asIfUtc(w) = k * C!Day + x /\ k * C!Day \in Nat
      BY <1>3, <1>9, <2>1, DayOfHours
    <3>3. k >= today + 1
      BY <1>2, <2>1, <2>3, <2>4
    <3> DEFINE kd == k * C!Day
               t == today + 1
               td == t * C!Day
    <3>4. t \in Nat /\ td = h + C!Day /\ td \in Nat /\ (t + 1) * C!Day = td + C!Day /\ t + 1 \in Nat
      BY <1>4, DayOfHours
    <3>5. td <= kd
      <4> HIDE DEF t, k
      <4>1. t <= k /\ k \in Nat
        BY <2>1, <3>3 DEF t
      <4> QED
        BY <1>4, <3>1, <3>4, <4>1
    <3>6. CASE spec.at = p
      <4>1. Wall(today) \in Walls /\ Moment(Wall(today)) = spec.at
        BY <1>5, <3>6
      <4>2. C!asIfUtc(Wall(today)) + C!Day <= C!asIfUtc(w)
        <5>1. /\ C!asIfUtc(Wall(today)) = h + x /\ C!asIfUtc(w) = kd + x /\ kd \in Nat /\ x \in Int
              /\ h + C!Day <= kd /\ h \in Nat /\ C!Day \in Nat
          BY <1>3, <1>4, <1>5, <3>2, <3>4, <3>5
        <5> HIDE DEF h, kd, w
        <5> QED
          BY <5>1
      <4> QED
        BY <4>1, <4>2
    <3>7. CASE spec.at = q
      <4>1. k # t
        BY <1>6, <1>9, <2>1, <3>7
      <4>2. (t + 1) * C!Day <= kd
        <5> HIDE DEF t, k
        <5>1. t + 1 <= k /\ k \in Nat
          BY <2>1, <3>3, <3>4, <4>1 DEF t
        <5> QED
          BY <1>4, <3>1, <3>4, <5>1
      <4>3. Wall(today + 1) \in Walls /\ Moment(Wall(today + 1)) = spec.at
        BY <1>5, <3>7
      <4>4. C!asIfUtc(Wall(today + 1)) + C!Day <= C!asIfUtc(w)
        <5>1. /\ C!asIfUtc(Wall(today + 1)) = h + C!Day + x /\ C!asIfUtc(w) = kd + x
              /\ kd \in Nat /\ x \in Int /\ h + C!Day + C!Day <= kd /\ h \in Nat /\ C!Day \in Nat
          BY <1>3, <1>4, <1>5, <3>2, <3>4, <4>2
        <5> HIDE DEF h, kd, w
        <5> QED
          BY <5>1
      <4> QED
        BY <4>3, <4>4
    <3> QED
      BY <1>8, <3>6, <3>7
  <2>6. C!asIfUtc(v) \in Int /\ C!asIfUtc(w) \in Int /\ C!Day >= TICKS /\ C!Day \in Nat
    BY <1>4, <2>1, <2>5, MinutesOfWall, DayHasAMinute
  <2>7. C!asIfUtc(v) + TICKS <= C!asIfUtc(w)
    BY <2>5, <2>6, Units
  <2>8. /\ zone.at <= i /\ i < zone.at + zone.after - zone.before
        /\ C!asIfUtc(w) = i + zone.after /\ Moment(v) = C!asIfUtc(v) - zone.before
    BY <1>1, <1>9, <2>5, <2>7, OnlyInTheJump
  <2>9. ~C!OneHour(zone)
    <3> SUFFICES ASSUME C!OneHour(zone) PROVE FALSE
      OBVIOUS
    <3>1. /\ zone.before \in Int /\ zone.after \in Int /\ zone.after - zone.before \in {-n, 0, n}
          /\ n \in Nat \ {0} /\ C!Day >= n
      BY <1>1, <1>4, AnHour
    <3> HIDE DEF w, n
    <3>2. C!asIfUtc(w) < C!asIfUtc(v) + (zone.after - zone.before)
      BY <1>9, <2>5, <2>6, <2>8, <3>1
    <3> QED
      BY <2>5, <2>6, <3>1, <3>2
  <2> QED
    BY <2>8, <2>9 DEF C!Overtaken
<1> QED
  BY <1>8, <1>9

LEMMA NothingIsPassedOver ==
  ASSUME CalendarInv
  PROVE  C!NothingPassedOver
<1>1. ASSUME spec.kind = "cron", CFound # C!Searching,
             NEW i \in C!Minutes(from, IF CFound = C!Never THEN from + MAX_SCAN_DAYS * C!Day ELSE CFound - 1),
             C!Matches(C!wallClockAt(zone, i)), C!Plain(C!wallClockAt(zone, i))
      PROVE  CFound # C!Never /\ C!Overtaken(i)
  <2>1. CASE CFound = C!Never
    <3> DEFINE l == from + MAX_SCAN_DAYS * C!Day
    <3>1. i \in from + 1..l /\ i % TICKS = 0 /\ from \in Nat
      BY <1>1, <2>1 DEF C!Minutes, CalendarInv, FromIs
    <3>2. l \in Int
      BY <3>1, OutsideAssumption, Products DEF C!CalendarAssumption, C!Day
    <3>3. i \in Int /\ i > from /\ i <= l
      <4> HIDE DEF l
      <4> QED
        BY <3>1, <3>2
    <3> QED
      BY <1>1, <2>1, <3>1, <3>3, NoneIsDue
  <2>2. CASE CFound # C!Never
    <3>1. CFound \in Nat /\ from \in Nat
      BY <1>1, <2>2 DEF CalendarInv, FromIs
    <3>2. i \in from + 1..CFound - 1 /\ i % TICKS = 0
      BY <1>1, <2>2 DEF C!Minutes
    <3>3. i \in Int /\ i > from /\ i < CFound /\ CFound >= 0
      BY <3>1, <3>2
    <3> QED
      BY <1>1, <2>2, <3>2, <3>3, NoneBetween
  <2> QED
    BY <2>1, <2>2
<1>2. ASSUME spec.kind = "once", spec.said.form = "clock"
      PROVE  /\ CFound = C!Never =>
                  ~C!OneHour(zone) /\ ~C!Plain(C!On(C!wallClockAt(zone, from).date + 1, spec.said.clock))
             /\ \A i \in C!Minutes(from, spec.at - 1) :
                  LET w == C!wallClockAt(zone, i)
                  IN C!On(w.date, spec.said.clock) = w => ~C!Plain(w) \/ C!Overtaken(i)
  <2>1. OnceIs /\ from \in Nat
    BY <1>2 DEF CalendarInv, FromIs
  <2>2. CFound = C!Never =>
          ~C!OneHour(zone) /\ ~C!Plain(C!On(C!wallClockAt(zone, from).date + 1, spec.said.clock))
    BY <1>2, <2>1, BareTime DEF OnceIs
  <2>3. \A i \in C!Minutes(from, spec.at - 1) : i \in Int /\ i % TICKS = 0 /\ i > from /\ i < spec.at
    BY <2>1 DEF C!Minutes, OnceIs
  <2> QED
    BY <1>2, <2>2, <2>3, BareTime
<1> QED
  BY <1>1, <1>2 DEF C!NothingPassedOver

----------------------------------------------------------------------------
(* The parts together: a behaviour is one of a single part, and every other part
   stays as it began. *)

outsideVars == <<which, egressVars, BVars, KVars, GVars, WVars, CVars, VVars>>

LEMMA StepsOfTheParts ==
  ASSUME [Step]_outsideVars
  PROVE  /\ [Next]_egressVars /\ [B!Next]_(B!browseVars) /\ [K!Next]_(K!callsVars)
         /\ [G!Next]_(G!pluginsVars) /\ [W!Next]_(W!connectionVars) /\ [V!Next]_(V!providersVars)
         /\ [C!Next]_(C!calendarVars)
<1>1. BVars' = BVars => B!browseVars' = B!browseVars
  BY DEF BVars, B!browseVars, B!bridgeVars, B!browserVars
<1>2. KVars' = KVars => K!callsVars' = K!callsVars
  BY DEF KVars, K!callsVars
<1>3. GVars' = GVars => G!pluginsVars' = G!pluginsVars
  BY DEF GVars, G!pluginsVars, G!memory, G!counts
<1>4. WVars' = WVars => W!connectionVars' = W!connectionVars
  BY DEF WVars, W!connectionVars, W!lockVars, W!socketVars, W!messageVars
<1>5. VVars' = VVars => V!providersVars' = V!providersVars
  BY DEF VVars, V!providersVars, V!where, V!mishaps
<1>6. CVars' = CVars => C!calendarVars' = C!calendarVars
  BY DEF CVars, C!calendarVars
<1> QED
  BY <1>1, <1>2, <1>3, <1>4, <1>5, <1>6 DEF Step, outsideVars

LEMMA Behaviours ==
  Sum => /\ Spec
         /\ B!Init /\ [][B!Next]_(B!browseVars)
         /\ K!Init /\ [][K!Next]_(K!callsVars)
         /\ G!Init /\ [][G!Next]_(G!pluginsVars)
         /\ W!Init /\ [][W!Next]_(W!connectionVars)
         /\ V!Init /\ [][V!Next]_(V!providersVars)
         /\ C!Init /\ [][C!Next]_(C!calendarVars)
<1>1. Start => Init /\ B!Init /\ K!Init /\ G!Init /\ W!Init /\ V!Init /\ C!Init
  BY DEF Start
<1>2. [Step]_outsideVars =>
        /\ [Next]_egressVars /\ [B!Next]_(B!browseVars) /\ [K!Next]_(K!callsVars)
        /\ [G!Next]_(G!pluginsVars) /\ [W!Next]_(W!connectionVars) /\ [V!Next]_(V!providersVars)
        /\ [C!Next]_(C!calendarVars)
  BY StepsOfTheParts
<1> QED
  BY <1>1, <1>2, PTL DEF Sum, Spec, outsideVars

(* The line of calls, the files of every request and answer, what the browser is at
   and what is known of each call agree, at any age of any file and through every
   crash: the inductive invariant of Browse. *)
THEOREM BrowseInvariant == Sum => []BrowseInv
<1> QED
  BY BrowseStart, BrowseStep, Behaviours, PTL

(* For any calls, ages and number of crashes: an answer that speaks of a picture is
   found with the picture (browse, and the order in which the browser writes). *)
THEOREM AnswerMeansReadyAlways == Sum => []AnswerMeansReady
<1>1. BrowseInv => AnswerMeansReady
  BY BrowseAnswers DEF AnswerMeansReady
<1> QED
  BY <1>1, BrowseInvariant, PTL

(* What the service has taken up, what lies in calls/ and answers/ and what callPlugin
   made of each call agree, where the bridge may delete in answers/: the inductive
   invariant of Calls. *)
THEOREM CallsInvariant ==
  ASSUME Foreign = FALSE
  PROVE  Sum => []CallsInv
<1>1. CallsInv /\ [K!Next]_(K!callsVars) => CallsInv'
  BY CallsStep
<1> QED
  BY <1>1, CallsStart, Behaviours, PTL

(* For any calls, timeouts and crashes: readPage and callPlugin implement AskContract,
   that what is said of a question is said once and is true for good, step by step. *)
THEOREM ToldTheTruthAlways ==
  ASSUME Foreign = FALSE
  PROVE  Sum => ToldTheTruth
<1>1. BrowseInv /\ CallsInv /\ [B!Next]_(B!browseVars) /\ [K!Next]_(K!callsVars) =>
        [/\ which = "browse" => B!Contract!Next \/ UNCHANGED B!Contract!contractVars
         /\ which = "calls" => K!Contract!Next \/ UNCHANGED K!Contract!contractVars]_<<BVars, KVars>>
  BY BrowseStepMaps, CallsStepMaps
<1>2. B!Init => (which = "browse" => B!Contract!Init)
  BY BrowseStartMaps
<1>3. K!Init => (which = "calls" => K!Contract!Init)
  BY CallsStartMaps
<1> QED
  BY <1>1, <1>2, <1>3, BrowseInvariant, CallsInvariant, Behaviours, PTL DEF ToldTheTruth

(* What was handed to the network and is not excused by a crash or a receipt that
   could not be written has its receipt: the inductive invariant of Plugins. *)
THEOREM PluginsInvariant == Sum => []PluginsInv
<1> QED
  BY PluginsStart, PluginsStep, Behaviours, PTL

(* For any plugin, any names and any limits: an action of one externalId is sent once,
   and once more for each crash or receipt that could not be written. *)
THEOREM OncePerReceiptAlways == Sum => []OncePerReceipt
<1>1. PluginsInv => OncePerReceipt
  BY PluginsPromise DEF OncePerReceipt
<1> QED
  BY <1>1, PluginsInvariant, PTL

(* One socket at most is up, opened or waited for, of a process that is up; and a
   message handed on is known unless the set was emptied: the inductive invariant of
   Connection. *)
THEOREM ConnectionInvariant == Sum => []ConnectionInv
<1> QED
  BY ConnectionStart, ConnectionStep, Behaviours, PTL

(* For any messages, sockets, deliveries and restarts: none is handed on twice unless
   the set of those seen was emptied or the bridge restarted (messages.upsert). *)
THEOREM HandedOnAgainAlways == Sum => HandedOnAgainOnlyWhenForgotten
<1>1. ConnectionInv /\ [W!Next]_(W!connectionVars) =>
        [\A m \in Messages : WHanded'[m] > WHanded[m] /\ WHanded[m] > 0
                               => emptied[m]]_(W!connectionVars)
  BY ConnectionRemembers
<1> QED
  BY <1>1, ConnectionInvariant, Behaviours, PTL
     DEF HandedOnAgainOnlyWhenForgotten, W!HandedOnAgainOnlyWhenForgotten

(* No more is bought than is spent, nor spent than the day allows, and a use that
   ended left what its kind owes: the inductive invariant of Providers. *)
THEOREM ProvidersInvariant == Sum => []ProvidersInv
<1> QED
  BY ProvidersStart, ProvidersStep, Behaviours, PTL

(* For any uses, allowances, keys and crashes: no more is bought than the allowance of
   the day, and whatever becomes of a use its words arrive. *)
THEOREM PaidUsesHoldAlways == Sum => []PaidUsesHold
<1>1. ProvidersInv => PaidUsesHold
  BY ProvidersPays DEF PaidUsesHold
<1> QED
  BY <1>1, ProvidersInvariant, PTL

(* Every matching wall the search has been past was due by the time it started from,
   and what it found is what the wall it stopped at resolves to: the inductive
   invariant of Calendar. *)
THEOREM CalendarInvariant == Sum => []CalendarInv
<1> QED
  BY CalendarStart, CalendarStep, Behaviours, PTL

(* For any zones, expressions and starts: a wall time that comes exactly once is fired
   at the instant the clocks show it (nextOccurrence, wallClockToInstant). *)
THEOREM FiresOnTheClockAlways == Sum => [](C!FiresOnTheClock)
<1> QED
  BY FiresWhenShown, CalendarInvariant, PTL

(* For any zones, expressions and starts: nothing due is passed
   over but minutes overtaken by a change other than of an hour on the hour, no bare
   time is said to have gone by but at such a change, and a rule found to have no
   occurrence has none (nextOccurrence, parseWhen). *)
THEOREM ClockIsKeptAlways == Sum => []ClockIsKept
<1>1. CalendarInv => ClockIsKept
  BY FiresWhenShown, NothingIsPassedOver DEF ClockIsKept
<1> QED
  BY <1>1, CalendarInvariant, PTL

LEMMA CallsTyped ==
  ASSUME K!TypeOK, K!TakenWhileHeard, [K!Next]_(K!callsVars)
  PROVE  K!TypeOK' /\ K!TakenWhileHeard'
<1> USE OutsideAssumption DEF K!CallsAssumption, K!TypeOK, K!TakenWhileHeard, K!Answers
<1> DEFINE Inv == K!TypeOK /\ K!TakenWhileHeard
<1>1. ASSUME NEW k \in Calls, K!Ask(k) PROVE Inv'
  BY <1>1 DEF K!Ask, K!Refused
<1>2. ASSUME NEW k \in Calls, K!awaitAnswer(k) PROVE Inv'
  BY <1>2 DEF K!awaitAnswer, K!Polled, K!Ended, K!interpret
<1>3. ASSUME NEW k \in Calls, K!TakeUp(k) PROVE Inv'
  BY <1>3 DEF K!TakeUp
<1>4. ASSUME NEW k \in Calls, NEW text \in K!Answers, K!Reply(k, text) PROVE Inv'
  BY <1>4 DEF K!Reply
<1>5. CASE K!BridgeRestart
  BY <1>5 DEF K!BridgeRestart
<1>6. CASE UNCHANGED K!callsVars
  BY <1>6 DEF K!callsVars
<1> QED
  BY <1>1, <1>2, <1>3, <1>4, <1>5, <1>6 DEF K!Next

(* For any values of the constants the state of every part has its shape, and a call
   lies there to be taken only while somebody waits for it or because the bridge
   stopped meanwhile: also where a plugin's files are not the bridge's to delete. *)
THEOREM TypesAlways == Sum => []Types
<1>1. Sum => [](K!TypeOK /\ K!TakenWhileHeard)
  <2>1. K!Init => K!TypeOK /\ K!TakenWhileHeard
    BY CallsStart DEF CallsInv
  <2>2. K!TypeOK /\ K!TakenWhileHeard /\ [K!Next]_(K!callsVars) =>
          (K!TypeOK /\ K!TakenWhileHeard)'
    BY CallsTyped
  <2> QED
    BY <2>1, <2>2, Behaviours, PTL
<1>2. IInv => TypeOK
  BY DEF IInv
<1>3. PluginsInv => G!TypeOK
  BY PluginsPromise
<1>4. ProvidersInv => V!TypeOK
  BY ProvidersPays
<1>5. /\ TypeOK /\ B!TypeOK /\ K!TypeOK /\ K!TakenWhileHeard /\ G!TypeOK
      /\ W!TypeOK /\ C!TypeOK /\ V!TypeOK
      => Types
  BY DEF Types
<1> QED
  BY <1>1, <1>2, <1>3, <1>4, <1>5, ProxyInvariant, BrowseInvariant, BrowseTyped, PluginsInvariant,
     ConnectionInvariant, ConnectionTyped, CalendarInvariant, CalendarTyped, ProvidersInvariant,
     Behaviours, PTL

=============================================================================
