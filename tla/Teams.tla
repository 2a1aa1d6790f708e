--------------------------------- MODULE Teams ---------------------------------
(***************************************************************************)
(* The Teams transport (bridge/src/teams): Microsoft posts each activity   *)
(* to a listener, which verifies its token under keys it fetches and       *)
(* keeps, answers, and only then takes the activity in; what is sent goes  *)
(* to the service the last activity of its chat named, under a token that  *)
(* is fetched and kept too.  Requests wait for the two endpoints side by   *)
(* side.  A tick is FORCED_REFETCH_MIN_MS.                                 *)
(***************************************************************************)
EXTENDS Naturals, FiniteSets

CONSTANTS
  Posts,         \* the requests there will be, redeliveries among them
  Activities,    \* ids of activities, all of one chat
  Services,      \* service urls the bridge would dial; others fail validServiceUrl
  SEEN,          \* how many activity ids are remembered
  JWKS_TTL, TOKEN_MARGIN, TokenLife,   \* in ticks
  MaxNow, MaxRotations, MaxTroubles    \* bounds of the model

\* What is assumed of the constants: a token outlives the tick it may take to arrive.
TeamsAssumption ==
  /\ {SEEN, JWKS_TTL, MaxNow, MaxRotations, MaxTroubles} \subseteq Nat
  /\ MaxNow > 0 /\ TOKEN_MARGIN \in Nat \ {0} /\ TokenLife \in Nat /\ TokenLife > 1

VARIABLES
  now,
  newest,      \* the key Microsoft signs with; it publishes the one before too
  rotatedAt,
  keys,        \* keys: [at, newest], or NoKeys
  lastForcedAt,
  post,        \* of each request: its stage, what it is, and the fetch it awaits
  seen, emitted,
  reference,   \* of the chat, on the state volume: the service it is reached by
  bearer,      \* cached: [expiresAt, issued], or NoToken
  minting,     \* the mint in flight: idle, asked, or [issued]
  vouched,     \* history: services a verified token named
  sentTo,      \* history: services something was sent to
  expired,     \* history: something was sent under a token that was no longer live
  forgotten,   \* history: activities whose id was forgotten since they were emitted
  failedAt, overwritten,  \* history: a fetch failed; newer keys were replaced by older ones
  troubles

keysVars == <<newest, rotatedAt, keys, lastForcedAt, failedAt, overwritten>>
takenVars == <<seen, emitted, reference, forgotten, vouched>>
tokenVars == <<bearer, minting, sentTo, expired>>
teamsVars == <<now, post, keysVars, takenVars, tokenVars, troubles>>

Never == 0            \* times begin at 1
FORCED_REFETCH_MIN == 1
NoKeys == [at |-> Never, newest |-> 0]
NoToken == [expiresAt |-> Never, issued |-> Never]
None == "none"
Stray == 0            \* a kid nobody published
NoFetch == [at |-> Never, got |-> Never]

Unsent == [stage |-> "unsent", activity |-> None, kid |-> Stray, claim |-> None, named |-> None,
           fetch |-> NoFetch]

Init ==
  /\ now = 1 /\ newest = 1 /\ rotatedAt = Never
  /\ keys = NoKeys /\ lastForcedAt = Never /\ failedAt = Never /\ overwritten = FALSE
  /\ post = [p \in Posts |-> Unsent]
  /\ seen = {} /\ emitted = [a \in Activities |-> 0] /\ forgotten = {}
  /\ reference = None /\ vouched = {}
  /\ bearer = NoToken /\ minting = "idle" /\ sentTo = {} /\ expired = FALSE
  /\ troubles = 0

----------------------------------------------------------------------------
(* Verification.  An operator whose name begins with Mutant is a plausible
   wrong version of the one after it. *)

Fresh == keys # NoKeys /\ now - keys.at < JWKS_TTL
Holds(k, kid) == kid # Stray /\ kid \in {k.newest - 1, k.newest}
MayForce == lastForcedAt = Never \/ now - lastForcedAt >= FORCED_REFETCH_MIN

\* serviceUrlMatches and validServiceUrl, of a request whose token is good.
MutantVouches(r) == r.named \in Services
Vouches(r) == r.named \in Services /\ r.claim = r.named

\* Request p, now r, goes to its next stage.
Becomes(p, r, s) == post' = [post EXCEPT ![p] = [r EXCEPT !.stage = s, !.fetch = NoFetch]]
Awaits(p, r, s) == post' = [post EXCEPT ![p] = [r EXCEPT !.stage = s, !.fetch = [at |-> now, got |-> Never]]]

\* The rest of handle: the body is read, judged and answered.
Judged(p, r) == Becomes(p, r, IF Vouches(r) THEN "answered" ELSE "refused")

\* verify, from the moment publicKeys(false) has given it keys.
Forced(p, r) ==
  IF MayForce THEN Awaits(p, r, "forced") /\ lastForcedAt' = now
  ELSE Becomes(p, r, "refused") /\ UNCHANGED lastForcedAt

\* A post arrives, of an activity or again of one.  Its token is signed with the
\* newest key, or is none of Microsoft's; it names the service of the activity,
\* or another.
Arrive(p, a, kid, claim, named) ==
  /\ post[p] = Unsent
  /\ LET r == [Unsent EXCEPT !.activity = a, !.kid = kid, !.claim = claim, !.named = named]
     IN IF ~Fresh THEN Awaits(p, r, "keys") /\ UNCHANGED lastForcedAt
        ELSE IF Holds(keys, kid) THEN Judged(p, r) /\ UNCHANGED lastForcedAt
        ELSE Forced(p, r)
  /\ UNCHANGED <<now, newest, rotatedAt, keys, failedAt, overwritten, takenVars, tokenVars, troubles>>

Fetching(p) == post[p].stage \in {"keys", "forced"}

\* The endpoint answers with what it publishes.
Serve(p) ==
  /\ Fetching(p) /\ post[p].fetch.got = Never
  /\ post' = [post EXCEPT ![p].fetch.got = newest]
  /\ UNCHANGED <<now, keysVars, takenVars, tokenVars, troubles>>

\* publicKeys returns byKid to the request that awaits it.
Returned(p, k) ==
  IF Holds(k, post[p].kid) THEN Judged(p, post[p]) /\ UNCHANGED lastForcedAt
  ELSE IF post[p].stage = "keys" THEN Forced(p, post[p])
  ELSE Becomes(p, post[p], "refused") /\ UNCHANGED lastForcedAt

\* The answer lands: the keys are replaced, dated by when they were asked for.
Land(p) ==
  /\ Fetching(p) /\ post[p].fetch.got # Never
  /\ keys' = [at |-> post[p].fetch.at, newest |-> post[p].fetch.got]
  /\ overwritten' = (overwritten \/ keys'.newest < keys.newest)
  /\ Returned(p, keys')
  /\ UNCHANGED <<now, newest, rotatedAt, failedAt, takenVars, tokenVars, troubles>>

FetchFails(p) ==
  /\ Fetching(p) /\ troubles < MaxTroubles /\ troubles' = troubles + 1
  /\ failedAt' = now
  /\ Returned(p, keys)
  /\ UNCHANGED <<now, newest, rotatedAt, keys, overwritten, takenVars, tokenVars>>

----------------------------------------------------------------------------
(* An activity is taken in *)

New(a) == a \notin seen

\* accept, on the tick after the answer: the reference first, whether or not the
\* activity is new.
Accept(p) ==
  /\ post[p].stage = "answered" /\ Becomes(p, post[p], "accepted")
  /\ reference' = post[p].named /\ vouched' = vouched \cup {post[p].claim}
  /\ LET a == post[p].activity
         full == Cardinality(seen \cup {a}) > SEEN
     IN IF New(a)
          THEN /\ emitted' = [emitted EXCEPT ![a] = @ + 1]
               /\ seen' = IF full THEN {} ELSE seen \cup {a}
               /\ forgotten' = IF full THEN seen \cup {a} \cup forgotten ELSE forgotten \ {a}
          ELSE UNCHANGED <<seen, emitted, forgotten>>
  /\ UNCHANGED <<now, keysVars, tokenVars, troubles>>

----------------------------------------------------------------------------
(* What is sent *)

TokenFresh == bearer # NoToken /\ now < bearer.expiresAt

\* connector.call once it has its token; activitiesUrl asked the reference again.
Posted(issued) ==
  /\ sentTo' = sentTo \cup {reference}
  /\ expired' = (expired \/ now >= issued + TokenLife)

Send ==
  /\ reference # None
  /\ IF TokenFresh THEN Posted(bearer.issued) /\ UNCHANGED minting
     ELSE minting = "idle" /\ minting' = "asked" /\ UNCHANGED <<sentTo, expired>>
  /\ UNCHANGED <<now, post, keysVars, takenVars, bearer, troubles>>

\* The login service issues a token; it lands in time, or mint throws.
Issue ==
  /\ minting = "asked" /\ minting' = "issued"
  /\ bearer' = [expiresAt |-> Never, issued |-> now]
  /\ UNCHANGED <<now, post, keysVars, takenVars, sentTo, expired, troubles>>

Expiry == now + (IF TokenLife > TOKEN_MARGIN THEN TokenLife - TOKEN_MARGIN ELSE 0)

Minted ==
  /\ minting = "issued" /\ minting' = "idle"
  /\ bearer' = [bearer EXCEPT !.expiresAt = Expiry]
  /\ Posted(bearer.issued)
  /\ UNCHANGED <<now, post, keysVars, takenVars, troubles>>

MintFails ==
  /\ minting # "idle" /\ troubles < MaxTroubles /\ troubles' = troubles + 1
  /\ minting' = "idle" /\ bearer' = NoToken
  /\ UNCHANGED <<now, post, keysVars, takenVars, sentTo, expired>>

----------------------------------------------------------------------------
(* The world *)

Rotate ==
  /\ newest <= MaxRotations /\ newest' = newest + 1 /\ rotatedAt' = now
  /\ UNCHANGED <<now, post, keys, lastForcedAt, failedAt, overwritten, takenVars, tokenVars, troubles>>

\* A fetch has a timeout much shorter than a tick, but may cross the end of one.
Tick ==
  /\ now < MaxNow /\ now' = now + 1
  /\ \A p \in Posts : Fetching(p) => post[p].fetch.at = now
  /\ minting = "issued" => bearer.issued = now
  /\ minting # "asked"
  /\ UNCHANGED <<post, keysVars, takenVars, tokenVars, troubles>>

\* The bridge ends and starts again; the references are read back.  A request that
\* was answered and not yet taken in is lost, and is not posted again.
Restart ==
  /\ troubles < MaxTroubles /\ troubles' = troubles + 1
  /\ keys' = NoKeys /\ lastForcedAt' = Never
  /\ post' = [p \in Posts |-> IF Fetching(p) \/ post[p].stage = "answered"
                              THEN [post[p] EXCEPT !.stage = "dropped", !.fetch = NoFetch] ELSE post[p]]
  /\ seen' = {} /\ forgotten' = Activities
  /\ bearer' = NoToken /\ minting' = "idle"
  /\ UNCHANGED <<now, newest, rotatedAt, failedAt, overwritten, emitted, reference, vouched, sentTo, expired>>

Next ==
  \/ \E p \in Posts :
       \/ \E a \in Activities, claim \in Services, named \in Services \cup {None} :
            \/ Arrive(p, a, newest, claim, named)
            \/ claim = named /\ Arrive(p, a, Stray, claim, named)
       \/ Serve(p) \/ Land(p) \/ FetchFails(p) \/ Accept(p)
  \/ Send \/ Issue \/ Minted \/ MintFails
  \/ Rotate \/ Tick \/ Restart

Spec == Init /\ [][Next]_teamsVars

----------------------------------------------------------------------------
(* Properties *)

\* The requests, the keys and the token have their shapes.
TypeOK ==
  /\ now \in 1..MaxNow /\ newest \in 1..MaxRotations + 1
  /\ \A p \in Posts :
       /\ post[p].stage \in {"unsent", "keys", "forced", "answered", "accepted", "refused", "dropped"}
       /\ Fetching(p) = (post[p].fetch # NoFetch)
  /\ keys.newest \in 0..newest /\ lastForcedAt \in 0..now
  /\ seen \subseteq Activities /\ Cardinality(seen) <= SEEN
  /\ reference \in Services \cup {None} /\ minting \in {"idle", "asked", "issued"}

\* What is sent goes only to a service that a verified token named, through
\* restarts, redeliveries and requests that name another.
GoesWhereVouched == {reference} \cup sentTo \subseteq vouched \cup {None}

\* Nothing is sent under a token that has run out, though it was issued before it
\* was received and dated.
TokenIsLive == ~expired

\* A genuine request is turned away only shortly after Microsoft began to sign
\* with another key or a fetch failed, while another request's forced fetch is
\* under way, where keys that were asked for earlier replaced newer ones, or once
\* its own key is published no more.
Recent(t) == t # Never /\ now - t <= FORCED_REFETCH_MIN
GenuineIsRefusedOnlyBriefly ==
  [][\A p \in Posts :
       post'[p].stage = "refused" /\ post[p].stage # "refused" /\ post'[p].kid # Stray /\ Vouches(post'[p])
       => \/ Recent(rotatedAt) \/ Recent(failedAt') \/ overwritten' \/ post'[p].kid + 1 < newest
          \/ \E q \in Posts \ {p} : post[q].stage = "forced"]_teamsVars

\* An activity is handed on a second time only if its id was forgotten since.
HandedOnOnce ==
  [][\A a \in Activities : emitted'[a] > emitted[a] /\ emitted[a] > 0 => a \in forgotten]_teamsVars

=============================================================================
