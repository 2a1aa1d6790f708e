-------------------------------- MODULE Egress --------------------------------
(***************************************************************************)
(* The egress proxy (egress/src): a CONNECT is judged when it arrives,     *)
(* its name is resolved and the address dialled while others come in, and  *)
(* a tunnel ends when either side closes or falls idle.  The count of      *)
(* tunnels is what the limit is asked of.                                  *)
(***************************************************************************)
EXTENDS Naturals, FiniteSets, Sequences

CONSTANTS
  Conns,        \* the CONNECT requests there will be
  Hosts,        \* names a request may ask for, and
  Exact,        \* TULIP_EGRESS_ALLOW: names on the list
  Suffixed,     \* names under a suffix of it
  Any,          \* whether the list has the entry *
  Numeric,      \* names whose last label does not begin with a letter
  Addresses,
  Blocked,      \* addresses of the table of private and reserved ranges
  MAX_TUNNELS,
  Unanswered,   \* how many CONNECTs the clients leave unanswered at once
  MaxExits      \* bound on restarts

ASSUME EgressAssumption ==
  /\ IsFiniteSet(Conns)
  /\ Exact \subseteq Hosts /\ Suffixed \subseteq Hosts /\ Numeric \subseteq Hosts
  /\ Any \in BOOLEAN
  /\ Blocked \subseteq Addresses
  /\ MAX_TUNNELS \in Nat \ {0} /\ Unanswered \in Nat /\ MaxExits \in Nat

VARIABLES
  stage,        \* of each request: unseen, resolving, dialling, open, over
  host,         \* the name it asked for, once it was let through
  dialled,      \* the address its upstream was made with
  client,       \* whether the client's socket is up
  released,     \* the flag of an open tunnel's done()
  openTunnels,
  listening,    \* no signal yet
  exits

egressVars == <<stage, host, dialled, client, released, openTunnels, listening, exits>>

None == "none"
Stages == {"unseen", "resolving", "dialling", "open", "over"}
Waiting == {c \in Conns : stage[c] \in {"resolving", "dialling"}}
Tunnels == {c \in Conns : stage[c] = "open" /\ ~released[c]}

Init ==
  /\ stage = [c \in Conns |-> "unseen"]
  /\ host = [c \in Conns |-> None] /\ dialled = [c \in Conns |-> None]
  /\ client = [c \in Conns |-> FALSE] /\ released = [c \in Conns |-> FALSE]
  /\ openTunnels = 0 /\ listening = TRUE /\ exits = 0

----------------------------------------------------------------------------
(* The decisions.  An operator whose name begins with Mutant is a plausible
   wrong version of the one after it. *)

\* What parseAuthority makes of a request: no hostname, or a name and a port.
Authority == {[host |-> None, port |-> 0]} \cup [host: Hosts, port: {80, 443}]

\* parseAllowlist: a suffix brings its own name in too.
Listed == Exact \cup Suffixed

\* decide
decide(a) ==
  /\ a.host # None /\ a.port = 443
  /\ a.host \in Listed \/ (Any /\ a.host \notin Numeric)

\* blockedReason: neither private, reserved nor unroutable, in either family.
MayDial(address) == address \notin Blocked

\* resolveSafely: the first of the resolved addresses that may be dialled.
resolveSafely(records) ==
  LET good == {i \in DOMAIN records : MayDial(records[i])}
  IN IF good = {} THEN None ELSE records[CHOOSE i \in good : \A j \in good : i <= j]

MutantRoom == openTunnels <= MAX_TUNNELS
Room == openTunnels < MAX_TUNNELS

----------------------------------------------------------------------------
(* One request *)

Over(c) == stage' = [stage EXCEPT ![c] = "over"] /\ client' = [client EXCEPT ![c] = FALSE]

\* The handler of 'connect' up to its await: refused, or resolved.
Connect(c, a) ==
  /\ listening /\ stage[c] = "unseen" /\ Cardinality(Waiting) < Unanswered
  /\ IF Room /\ decide(a)
       THEN /\ stage' = [stage EXCEPT ![c] = "resolving"]
            /\ client' = [client EXCEPT ![c] = TRUE]
            /\ host' = [host EXCEPT ![c] = a.host]
       ELSE Over(c) /\ UNCHANGED host
  /\ UNCHANGED <<dialled, released, openTunnels, listening, exits>>

\* The name is resolved: the upstream is made with the address that was judged.
Dial(c, records) ==
  /\ stage[c] = "resolving"
  /\ LET address == resolveSafely(records) IN
       IF address = None
         THEN Over(c) /\ UNCHANGED dialled
         ELSE /\ stage' = [stage EXCEPT ![c] = "dialling"]
              /\ dialled' = [dialled EXCEPT ![c] = address]
              /\ UNCHANGED client
  /\ UNCHANGED <<host, released, openTunnels, listening, exits>>

\* The upstream times out or fails, or the client fails, before it connects.
shutdown(c) ==
  /\ stage[c] = "dialling"
  /\ Over(c)
  /\ UNCHANGED <<host, dialled, released, openTunnels, listening, exits>>

\* The client leaves without an error while it waits: nobody is told.
ClientLeaves(c) ==
  /\ c \in Waiting /\ client[c]
  /\ client' = [client EXCEPT ![c] = FALSE]
  /\ UNCHANGED <<stage, host, dialled, released, openTunnels, listening, exits>>

Connected(c) ==
  /\ stage[c] = "dialling"
  /\ stage' = [stage EXCEPT ![c] = "open"]
  /\ openTunnels' = openTunnels + 1
  /\ UNCHANGED <<host, dialled, client, released, listening, exits>>

\* done(): of the four events that may end a tunnel the first one counts.  It
\* destroys both sockets, and the close of each comes here again.
MutantLess(c) == openTunnels - 1
Less(c) == IF released[c] THEN openTunnels ELSE openTunnels - 1

done(c) ==
  /\ stage[c] = "open"
  /\ openTunnels' = Less(c)
  /\ released' = [released EXCEPT ![c] = TRUE]
  /\ IF released[c] THEN Over(c) ELSE UNCHANGED <<stage, client>>
  /\ UNCHANGED <<host, dialled, listening, exits>>

----------------------------------------------------------------------------
(* The process *)

\* SIGTERM: no new request; what is open is not waited for beyond two seconds.
Signal ==
  /\ listening /\ exits < MaxExits
  /\ listening' = FALSE /\ exits' = exits + 1
  /\ UNCHANGED <<stage, host, dialled, client, released, openTunnels>>

\* The process ends, and its container starts the next.
Exit ==
  /\ ~listening
  /\ stage' = [c \in Conns |-> IF stage[c] = "unseen" THEN "unseen" ELSE "over"]
  /\ client' = [c \in Conns |-> FALSE] /\ released' = [c \in Conns |-> FALSE]
  /\ openTunnels' = 0 /\ listening' = TRUE
  /\ UNCHANGED <<host, dialled, exits>>

Next ==
  \/ \E c \in Conns :
       \/ \E a \in Authority : Connect(c, a)
       \/ \E n \in 0..2 : \E records \in [1..n -> Addresses] : Dial(c, records)
       \/ shutdown(c) \/ ClientLeaves(c) \/ Connected(c) \/ done(c)
  \/ Signal \/ Exit

\* Node answers each lookup, the handshake has a timeout and so has an idle
\* tunnel; nothing is assumed of clients.
Progress ==
  \/ \E c \in Conns :
       \/ \E n \in 0..2 : \E records \in [1..n -> Addresses] : Dial(c, records)
       \/ shutdown(c) \/ Connected(c) \/ done(c)
  \/ Exit
Fairness == WF_egressVars(Progress)

Spec == Init /\ [][Next]_egressVars

----------------------------------------------------------------------------
(* Properties *)

\* The requests, the flags and the count have their shapes.
TypeOK ==
  /\ stage \in [Conns -> Stages]
  /\ host \in [Conns -> Hosts \cup {None}] /\ dialled \in [Conns -> Addresses \cup {None}]
  /\ client \in [Conns -> BOOLEAN] /\ released \in [Conns -> BOOLEAN]
  /\ openTunnels \in Nat /\ listening \in BOOLEAN /\ exits \in 0..MaxExits

\* The count is the number of tunnels, however many of the four events end each
\* and in whatever order, so that the limit neither fails open nor fills up for
\* good; and since it is asked before the wait and raised after it, it is
\* overrun by no more than what waited when the last place was taken.
LimitBinds ==
  /\ openTunnels = Cardinality(Tunnels)
  /\ openTunnels + Cardinality(Waiting) < MAX_TUNNELS + Unanswered

\* What is dialled was resolved from a listed name and is no private address.
OnlyPublic ==
  \A c \in Conns : stage[c] \in {"dialling", "open"} =>
    /\ dialled[c] \in Addresses \ Blocked
    /\ host[c] \in Listed \cup (IF Any THEN Hosts \ Numeric ELSE {})

\* The count is true and overruns the limit by no more than what waited, and each
\* tunnel goes to a public address of a host that may be reached.
TunnelsHold == LimitBinds /\ OnlyPublic

\* Whatever the clients do, every request that was let through comes to its end,
\* and its place is free again.
Idle == \A c \in Conns : stage[c] \in {"unseen", "over"}
EveryTunnelEnds == []<>(Idle /\ (listening => openTunnels = 0))

=============================================================================
