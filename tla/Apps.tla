-------------------------------- MODULE Apps --------------------------------
(***************************************************************************)
(* The listing of the apps on the hosting box: fetched over a connection   *)
(* to another machine, kept for a minute, shared by those who ask at once, *)
(* and dressed with the names an agent or an operator gave, which are the  *)
(* bridge's own.  Giving a name forgets the listing, whatever is under way.*)
(***************************************************************************)
EXTENDS FiniteSets, Integers

CONSTANTS
  Labels,          \* what an app may be called here; the model has one app
  TTL,             \* ticks a listing is kept
  MaxNow, MaxFlights, MaxLabelled, MaxBoxes   \* bounds

\* What is assumed of the constants.
AppsAssumption ==
  TTL \in Nat /\ {MaxNow, MaxFlights, MaxLabelled, MaxBoxes} \subseteq Nat /\ MaxBoxes > 0

VARIABLES
  now,
  label,       \* the file of labels
  box,         \* what the box hosts, by version
  cached,      \* the listing kept
  inflight,    \* the call that newcomers join, or 0
  flights,     \* the calls under way, with when each began and what it brings
  labelled     \* labels given so far

vars == <<now, label, box, cached, inflight, flights, labelled>>

Never == -1
NoListing == [at |-> Never, box |-> 0, label |-> CHOOSE l \in Labels : TRUE]
Call == [n : 1..MaxFlights, at : 0..MaxNow, box : 0..MaxBoxes]

TypeOK ==
  /\ now \in 0..MaxNow /\ label \in Labels /\ box \in 1..MaxBoxes
  /\ cached \in [at : Never..MaxNow, box : 0..MaxBoxes, label : Labels]
  /\ inflight \in 0..MaxFlights /\ flights \subseteq Call /\ labelled \in 0..MaxLabelled

Init ==
  /\ now = 0 /\ label \in Labels /\ box = 1
  /\ cached = NoListing /\ inflight = 0 /\ flights = {} /\ labelled = 0

Tick == now < MaxNow /\ now' = now + 1
        /\ UNCHANGED <<label, box, cached, inflight, flights, labelled>>

Deploy == box < MaxBoxes /\ box' = box + 1
          /\ UNCHANGED <<now, label, cached, inflight, flights, labelled>>

Fresh == cached.at # Never /\ now - cached.at < TTL

\* Only who finds neither a listing nor a call under way asks the box.
MustAsk == ~Fresh /\ inflight = 0

ListApps ==
  /\ MustAsk
  /\ \E n \in 1..MaxFlights \ {f.n : f \in flights} :
       /\ flights' = flights \cup {[n |-> n, at |-> now, box |-> 0]}
       /\ inflight' = n
  /\ UNCHANGED <<now, label, box, cached, labelled>>

BoxAnswers(f) ==
  /\ f.box = 0
  /\ flights' = (flights \ {f}) \cup {[f EXCEPT !.box = box]}
  /\ UNCHANGED <<now, label, box, cached, inflight, labelled>>

\* A call that fails leaves the last good listing; whichever call ends, newcomers
\* no longer join one.
Land(f) ==
  /\ \/ f.box # 0 /\ cached' = [at |-> f.at, box |-> f.box, label |-> label]
     \/ f.box = 0 /\ UNCHANGED cached
  /\ inflight' = 0
  /\ flights' = flights \ {f}
  /\ UNCHANGED <<now, label, box, labelled>>

\* What forgetApps leaves of the listing.
Forgotten == NoListing

SetLabel(l) ==
  /\ labelled < MaxLabelled /\ labelled' = labelled + 1
  /\ label' = l
  /\ cached' = Forgotten /\ inflight' = 0
  /\ UNCHANGED <<now, box, flights>>

Next ==
  \/ Tick \/ Deploy \/ ListApps
  \/ \E f \in flights : BoxAnswers(f) \/ Land(f)
  \/ \E l \in Labels : SetLabel(l)

Spec == Init /\ [][Next]_vars

----------------------------------------------------------------------------
\* The listing kept never shows a name that was changed since, though calls that
\* began before the change land after it (labels are read when a call lands).
LabelsAreCurrent == cached.at # Never => cached.label = label

\* Three operators with the page open are not three connections: there is one
\* call at a time, and one more at most once for each label given meanwhile.
CallsAreShared == Cardinality(flights) <= 1 + labelled

=============================================================================
