------------------------------- MODULE Panel -------------------------------
(***************************************************************************)
(* The panel's door (bridge/src/panel.ts, access.ts, privacy.ts): who a    *)
(* request comes from, by the shared token or by an assertion of the       *)
(* access provider, whose keys are fetched and kept; how many failed       *)
(* attempts an address has; and what a viewer is shown once an owner has   *)
(* set some conversations private.  A request may await the keys, and then *)
(* its body, while the privacy settings change under it.  One address; a   *)
(* tick is the finest time that the code measures here.                    *)
(***************************************************************************)
EXTENDS Naturals, FiniteSets

CONSTANTS
  Slots,          \* requests under way at once
  People,         \* those the access provider knows
  Chats,          \* conversations there are
  None,           \* no identity, or no owner
  MAX_FAILURES, WINDOW,   \* failed attempts before an address is refused, and for how long
  JWKS_TTL,       \* how long fetched keys are used
  MaxNow, MaxRequests, MaxRotations   \* bounds

PanelAssumption ==
  /\ {MAX_FAILURES, WINDOW, JWKS_TTL, MaxNow, MaxRequests, MaxRotations} \subseteq Nat
  /\ MAX_FAILURES > 0 /\ MaxNow > 0 /\ None \notin People
  /\ IsFiniteSet(Slots) /\ Slots # {}

VARIABLES
  now,
  newest,        \* the provider signs with this key; it publishes the one before too
  keys,          \* the cache: [at, newest], or NoKeys
  failures,      \* of the address: [count, since], or NoFailures
  privacy,       \* deps.config.privacy
  req,           \* the request in each slot
  amiss,         \* history: what was ever given or refused wrongly
  asked          \* requests so far

doorVars == <<keys, failures>>
worldVars == <<now, newest>>
vars == <<worldVars, doorVars, privacy, req, amiss, asked>>

Naming == {"read", "write"}            \* routes that name a conversation by ?key=
\* Routes that the rule is not asked about: one that names its conversation in the body
\* (say, send, media/delete) or streams the whole feed, and a claim of privacy, whoever
\* owns it.
Unjudged == {"open", "claim"}
Kinds == Naming \cup Unjudged \cup {"settings", "release", "private", "pty"}
Rules == [owner : {None} \cup People, chats : SUBSET Chats]
Credentials ==
  [token : BOOLEAN, mail : {None} \cup People]

NoKeys == [at |-> 0, newest |-> 0]
Stray == 0   \* the key of an assertion that the provider never signed
NoFailures == [count |-> 0, since |-> 0]
Free == [stage |-> "free"]
NoRule == [owner |-> None, chats |-> {}]

Request(stage, kind, chat, cred, kid) ==
  [stage |-> stage, kind |-> kind, chat |-> chat, cred |-> cred, kid |-> kid, who |-> None,
   rule |-> NoRule, since |-> {}, got |-> 0, failed |-> FALSE]

Init ==
  /\ now = 1 /\ newest = 1
  /\ keys = NoKeys /\ failures = NoFailures
  /\ privacy = NoRule
  /\ req = [r \in Slots |-> Free] /\ amiss = {}
  /\ asked = 0

----------------------------------------------------------------------------
(* privacy.ts.  An operator whose name begins with Mutant is a plausible
   wrong version of the one after it. *)

IsOwner(p, who) == p.owner = None \/ who = p.owner

MutantCanSee(p, who, chat) == who = None \/ IsOwner(p, who) \/ chat \notin p.chats
CanSee(p, who, chat) == IsOwner(p, who) \/ chat \notin p.chats

----------------------------------------------------------------------------
(* Failed attempts *)

WindowOver == failures = NoFailures \/ now - failures.since > WINDOW

Throttled == ~WindowOver /\ failures.count >= MAX_FAILURES

Noted ==
  IF WindowOver THEN [count |-> 1, since |-> now]
  ELSE [failures EXCEPT !.count = @ + 1]

----------------------------------------------------------------------------
(* Answers.  Whatever the request was is forgotten with its answer. *)

\* What q asks for is its viewer's to have under rule p.
Entitled(q, p) ==
  /\ q.kind \in Naming => q.chat \notin p.chats \/ p.owner \in {None, q.who}
  /\ q.kind \in {"settings", "release", "private", "pty"} => p.owner \in {None, q.who}

Given(q) ==
  amiss' = IF q.kind \in Unjudged \/ \E p \in q.since : Entitled(q, p)
           THEN amiss ELSE amiss \cup {"given"}

Served(r, q) == Given(q) /\ req' = [req EXCEPT ![r] = Free]
Declined(r) == req' = [req EXCEPT ![r] = Free] /\ UNCHANGED amiss

\* A request that is not answered yet goes on as q.
GoesOn(r, q) == req' = [req EXCEPT ![r] = q] /\ UNCHANGED amiss

\* updateSettings of the section: the file first, and then the running settings.
Saved(p) ==
  \/ privacy' = p
  \/ UNCHANGED privacy   \* the file could not be written: nothing is changed

\* Every request that was admitted lives on under the rule there is now.
Witnessed(rs) ==
  [s \in Slots |-> IF rs[s].stage = "body" THEN [rs[s] EXCEPT !.since = @ \cup {privacy'}]
                   ELSE rs[s]]

Writes(r, q, p) ==
  /\ Saved(p)
  /\ Given(q)
  /\ req' = Witnessed([req EXCEPT ![r] = Free])

\* The provider has rotated twice since it signed, and publishes the key no more.
Retired(kid) == kid + 1 < newest

Refused(r, q) ==
  /\ amiss' = IF q.cred.mail = None \/ q.kid = Stray \/ q.failed \/ Retired(q.kid)
              THEN amiss ELSE amiss \cup {"refused"}
  /\ req' = [req EXCEPT ![r] = Free]
  /\ failures' = IF q.kind = "pty" THEN failures ELSE Noted
  /\ UNCHANGED privacy

\* The rule is read once, here, and kept for as long as the request lives.
Admitted(r, q0, who) ==
  LET q == [q0 EXCEPT !.cred = [token |-> FALSE, mail |-> None], !.kid = 0, !.who = who, !.rule = privacy, !.since = {privacy}]
      owner == IsOwner(privacy, who)
  IN
  /\ UNCHANGED failures
  /\ \/ /\ q.kind \in Naming /\ ~CanSee(privacy, who, q.chat)
        /\ Declined(r) /\ UNCHANGED privacy
     \/ /\ \/ q.kind = "read" /\ CanSee(privacy, who, q.chat)
           \/ q.kind = "open"
        /\ Served(r, q) /\ UNCHANGED privacy
     \/ /\ \/ q.kind = "write" /\ CanSee(privacy, who, q.chat)
           \/ q.kind \in {"settings", "open"}
        /\ GoesOn(r, [q EXCEPT !.stage = "body"]) /\ UNCHANGED privacy
     \/ /\ q.kind = "pty"
        /\ IF owner THEN Served(r, q) ELSE Declined(r)
        /\ UNCHANGED privacy
     \/ /\ q.kind \in {"release", "private"} /\ ~owner
        /\ Declined(r) /\ UNCHANGED privacy
     \/ q.kind = "release" /\ owner /\ Writes(r, q, [privacy EXCEPT !.owner = None])
     \/ /\ q.kind = "private" /\ owner
        /\ \E chats \in {privacy.chats \cup {q.chat}, privacy.chats \ {q.chat}} :
             Writes(r, q, [privacy EXCEPT !.chats = chats])
     \/ /\ q.kind = "claim" /\ who = None
        /\ Declined(r) /\ UNCHANGED privacy
     \/ q.kind = "claim" /\ who # None /\ Writes(r, q, [privacy EXCEPT !.owner = who])

----------------------------------------------------------------------------
(* access.ts: whose assertion it is *)

Fresh == keys # NoKeys /\ now - keys.at < JWKS_TTL
Holds(k, kid) == kid # Stray /\ kid \in {k.newest - 1, k.newest}

Forced(r, q) ==
  GoesOn(r, [q EXCEPT !.stage = "forced"]) /\ UNCHANGED <<failures, privacy>>

\* Without a good assertion: the upgrade to the terminal takes the token then too.
Unverified(r, q) ==
  IF q.kind = "pty" /\ q.cred.token THEN Admitted(r, q, None) ELSE Refused(r, q)

\* verifiedEmail, once publicKeys has given it the keys up to k.
Verified(r, q, k) ==
  IF Holds(k, q.kid) THEN Admitted(r, q, q.cred.mail)
  ELSE IF q.stage = "forced" THEN Unverified(r, q)
  ELSE Forced(r, q)

\* An ordinary request shows the token or is asked for an assertion; the upgrade
\* looks at both, and is not throttled.
Arrive(r, kind, chat, cred, kid) ==
  /\ req[r] = Free /\ asked < MaxRequests
  /\ cred.mail = None => kid = Stray
  /\ LET q == Request("keys", kind, chat, cred, kid) IN
       IF kind # "pty" /\ Throttled
       THEN Declined(r) /\ UNCHANGED <<failures, privacy>>
       ELSE IF cred.token /\ (kind # "pty" \/ cred.mail = None) THEN Admitted(r, q, None)
       ELSE IF cred.mail = None THEN Refused(r, q)
       ELSE IF Fresh THEN Verified(r, q, keys)
       ELSE GoesOn(r, q) /\ UNCHANGED <<failures, privacy>>
  /\ asked' = asked + 1
  /\ UNCHANGED <<worldVars, keys>>

Fetching(r) == req[r].stage \in {"keys", "forced"}

\* The endpoint answers with the keys it publishes.
Serve(r) ==
  /\ Fetching(r) /\ req[r].got = 0
  /\ GoesOn(r, [req[r] EXCEPT !.got = newest])
  /\ UNCHANGED <<worldVars, doorVars, privacy, asked>>

KeysCome(r) ==
  /\ Fetching(r) /\ req[r].got # 0
  /\ keys' = [at |-> now, newest |-> req[r].got]
  /\ Verified(r, [req[r] EXCEPT !.got = 0], keys')
  /\ UNCHANGED <<worldVars, asked>>

\* A failed fetch is not kept: the keys there were are used.
FetchFails(r) ==
  /\ Fetching(r)
  /\ \E q \in {[req[r] EXCEPT !.got = 0, !.failed = TRUE]} :
       IF Holds(keys, q.kid) THEN Admitted(r, q, q.cred.mail)
       ELSE IF q.stage = "forced" THEN Unverified(r, q) ELSE Forced(r, q)
  /\ UNCHANGED <<worldVars, keys, asked>>

----------------------------------------------------------------------------
(* The body *)

BodyComes(r) ==
  LET q == req[r] IN
    /\ q.stage = "body"
    /\ \/ /\ q.kind \in {"write", "open"}
          /\ Served(r, q) /\ UNCHANGED privacy
       \/ /\ q.kind = "settings" /\ ~IsOwner(q.rule, q.who)
          /\ Declined(r) /\ UNCHANGED privacy
       \/ /\ q.kind = "settings" /\ IsOwner(q.rule, q.who)
          /\ Writes(r, q, [privacy EXCEPT !.owner = None])
    /\ UNCHANGED <<worldVars, doorVars, asked>>

\* Too long, not JSON, or cut off.
BodyFails(r) ==
  /\ req[r].stage = "body"
  /\ Declined(r)
  /\ UNCHANGED <<worldVars, doorVars, privacy, asked>>

----------------------------------------------------------------------------
Rotate ==
  /\ newest <= MaxRotations
  /\ newest' = newest + 1 
  /\ UNCHANGED <<now, doorVars, privacy, req, amiss, asked>>

Tick ==
  /\ now < MaxNow
  /\ now' = now + 1 
  /\ UNCHANGED <<newest, doorVars, privacy, req, amiss, asked>>

Next ==
  \/ \E r \in Slots, kind \in Kinds, chat \in Chats, cred \in Credentials, kid \in {Stray, newest} :
       Arrive(r, kind, chat, cred, kid)
  \/ \E r \in Slots : Serve(r) \/ KeysCome(r) \/ FetchFails(r) \/ BodyComes(r) \/ BodyFails(r)
  \/ Rotate \/ Tick

Spec == Init /\ [][Next]_vars

----------------------------------------------------------------------------
\* The state has its shape, and the tries of an address in a window are its
\* limit and at most one more for each request that was let through before the
\* limit was reached and judged after.
TypeOK ==
  /\ now \in 1..MaxNow /\ newest \in 1..(MaxRotations + 1)
  /\ keys \in [at : 0..MaxNow, newest : 0..(MaxRotations + 1)]
  /\ failures \in [count : 0..(MAX_FAILURES + Cardinality(Slots) - 1), since : 0..MaxNow]
  /\ privacy \in Rules
  /\ \A r \in Slots : req[r].stage \in {"free", "keys", "forced", "body"}
  /\ asked \in 0..MaxRequests

\* Whatever a request awaits, and whatever is changed meanwhile, what it is given
\* is what its viewer might have under a rule that was in force while it lived: a
\* request of a route that is judged.  Of those in Unjudged nothing is said.
ServedUnderARuleInForce == "given" \notin amiss

\* Somebody with an assertion of the provider is refused for want of a key only
\* if a fetch made for that very request failed, or if the provider itself has
\* retired the key, however keys are changed.
GenuineIsHeard == "refused" \notin amiss

=============================================================================
