------------------------------- MODULE Terminal -------------------------------
(***************************************************************************)
(* Typing into the agent's terminal across the shared volume.  The bridge  *)
(* keeps a window of recent keys and a running total and rewrites one      *)
(* request file (bridge/src/panel-api.ts); the supervisor reads it on an   *)
(* interval, types what is new and publishes how far it got                *)
(* (agent/src/supervisor.ts, terminal.ts).  serveTerminal awaits tmux at   *)
(* every step, and the interval does not wait for it.                      *)
(*                                                                         *)
(* There is one chat window, SHARED_WINDOW; beside it runs the console.    *)
(***************************************************************************)
EXTENDS Integers, Sequences

CONSTANTS
  KeyWindow,     \* KEY_WINDOW
  Polls,         \* calls of serveTerminal that may be under way at once
  MaxKeys,       \* bound on keys pressed
  MaxRestarts    \* bound on restarts, of the agent and the bridge together

\* What is assumed of the constants.
TerminalAssumption ==
  /\ KeyWindow \in Nat \ {0} /\ MaxKeys \in Nat
  /\ MaxRestarts \in Nat

VARIABLES
  keySeq, pending,       \* the bridge: keys sent, and the last of them
  aim,                   \* aimWindow
  request,               \* terminal.json
  applied,               \* appliedKeySeq
  poll,                  \* the calls of serveTerminal
  agentRestarts, bridgeRestarts,
  pressed,               \* history: keys pressed
  typed,                 \* history: keys that were typed
  gone,                  \* history: keys that left the window untyped, or were typed
                         \* into a window that was not there
  overlap,               \* history: whether two calls overlapped in this life of the agent
  order                  \* history: what was typed in this life before they did

bridge == <<keySeq, pending, aim>>
restarts == <<agentRestarts, bridgeRestarts>>
vars == <<bridge, request, applied, poll, restarts, pressed, typed, gone, overlap, order>>

Follow == "follow"                      \* a request that names no window
Window == {"main", "console"}
NoAim == Follow
NoRequest == [window |-> Follow, live |-> FALSE, keySeq |-> 0, keys |-> <<>>]
NoPoll == [phase |-> "idle", request |-> NoRequest, window |-> "console", fresh |-> <<>>]

Init ==
  /\ keySeq = 0 /\ pending = <<>> /\ aim = NoAim
  /\ request = NoRequest
  /\ applied = 0 /\ poll = [p \in Polls |-> NoPoll]
  /\ agentRestarts = 0 /\ bridgeRestarts = 0
  /\ pressed = 0 /\ typed = {} /\ gone = {} /\ overlap = FALSE /\ order = <<>>

----------------------------------------------------------------------------
(* The bridge.  An operator whose name begins with Mutant is a plausible wrong
   version of the one after it. *)

\* aim(): the window a write must name, given the aim there is.
Aimed(a, requested) == IF a # NoAim THEN a ELSE requested

\* writeTerminal
Resent(keys) == keys

Write(a, requested, keys, seq) ==
  /\ request' = [window |-> Aimed(a, requested), live |-> TRUE, keySeq |-> seq,
                 keys |-> Resent(keys)]
  /\ aim' = a

\* The last KEY_WINDOW of the keys.
Slide(keys) == SubSeq(keys, IF Len(keys) > KeyWindow THEN Len(keys) - KeyWindow + 1 ELSE 1, Len(keys))

\* terminalKeys: n keys, each a number of its own.
TerminalKeys(requested, n) ==
  LET keys == pending \o [k \in 1..n |-> pressed + k]
      first == keySeq - Len(pending) + 1                \* index of the first of keys
      crowded == {k \in 1..(Len(keys) - Len(Slide(keys))) : first + k - 1 > applied}
      a == IF requested = Follow THEN aim ELSE requested
  IN /\ pressed + n <= MaxKeys
     /\ pressed' = pressed + n
     /\ keySeq' = keySeq + n
     /\ pending' = Slide(keys)
     /\ gone' = gone \cup {keys[k] : k \in crowded}
     /\ Write(a, requested, pending', keySeq')
     /\ UNCHANGED <<applied, poll, restarts, typed, overlap, order>>

\* The panel's terminal: one key into whatever is being followed.
Press == TerminalKeys(Follow, 1)

\* sendToChat: a line and Enter; refused unless the chat's turn is in flight, which
\* may be so whenever it is asked.
SendToChat == TerminalKeys("main", 2)

\* The terminal page renews its watch.
TerminalWatch ==
  /\ Write(aim, Follow, pending, keySeq)
  /\ UNCHANGED <<keySeq, pending, applied, poll, restarts, pressed,
                 typed, gone, overlap, order>>

\* aim() finds AIM_HOLD_MS over, or the agent up to aimSeq in screen.json.
AimExpires ==
  /\ aim # NoAim /\ aim' = NoAim
  /\ UNCHANGED <<keySeq, pending, request, applied, poll, restarts, pressed, typed, gone,
                 overlap, order>>

\* watchUntil is over.
WatchLapses ==
  /\ request.live
  /\ request' = [request EXCEPT !.live = FALSE]
  /\ UNCHANGED <<bridge, applied, poll, restarts, pressed, typed, gone, overlap, order>>

----------------------------------------------------------------------------
(* serveTerminal, one action for each stretch between two awaits *)

ReadRequest(p) ==
  /\ poll[p].phase = "idle"
  /\ request.live
  /\ poll' = [poll EXCEPT ![p].phase = "listing", ![p].request = request]
  /\ overlap' = (overlap \/ \E q \in Polls : poll[q].phase # "idle")
  /\ order' = IF overlap' THEN <<>> ELSE order
  /\ UNCHANGED <<bridge, request, applied, restarts, pressed, typed, gone>>

\* keysToApply: the keys above what has been applied, with their index.
Indexed(r, skip) ==
  [k \in 1..(Len(r.keys) - skip) |->
     [index |-> r.keySeq - Len(r.keys) + skip + k, key |-> r.keys[skip + k]]]
FirstIndex(r) == r.keySeq - Len(r.keys) + 1

MutantResendAll(r, done) == Indexed(r, 0)
KeysToApply(r, done) == Indexed(r, IF done >= FirstIndex(r) THEN done - FirstIndex(r) + 1 ELSE 0)

\* The window asked for if there is one, and otherwise whatever there is: the
\* session used last, or the console.  The shared window is spawned when a turn
\* needs it and closed to be respawned or when idle: whether tmux has it is a free
\* choice whenever it is asked.
ResolveWindow(requested, mainUp) ==
  IF ~mainUp THEN {"console"} ELSE IF requested = "main" THEN {"main"} ELSE Window

ListWindows(p) ==
  /\ poll[p].phase = "listing"
  /\ \E mainUp \in BOOLEAN : \E w \in ResolveWindow(poll[p].request.window, mainUp) :
       poll' = [poll EXCEPT ![p] = [NoPoll EXCEPT !.phase = "typing", !.window = w,
                                                  !.fresh = KeysToApply(poll[p].request, applied)]]
  /\ UNCHANGED <<bridge, request, applied, restarts, pressed, typed, gone, overlap, order>>

\* tmux has typed the key, or found no such window and said nothing of it...
IsThere(window) == IF window = "console" THEN {TRUE} ELSE BOOLEAN

TypeKey(p) ==
  LET k == Head(poll[p].fresh).key
  IN  /\ poll[p].phase = "typing" /\ poll[p].fresh # <<>>
      /\ \E there \in IsThere(poll[p].window) :
           IF there
             THEN /\ typed' = typed \cup {k}
                  /\ order' = IF overlap THEN order ELSE Append(order, k)
                  /\ UNCHANGED gone
             ELSE gone' = gone \cup {k} /\ UNCHANGED <<typed, order>>
      /\ poll' = [poll EXCEPT ![p].phase = "awaiting"]
      /\ UNCHANGED <<bridge, request, applied, restarts, pressed, overlap>>

\* ... and the await of it is over.
KeyTyped(p) ==
  /\ poll[p].phase = "awaiting"
  /\ applied' = Head(poll[p].fresh).index
  /\ poll' = [poll EXCEPT ![p].phase = "typing", ![p].fresh = Tail(@)]
  /\ UNCHANGED <<bridge, request, restarts, pressed, typed, gone, overlap, order>>

\* The screen is captured and published.
EndPoll(p) ==
  /\ poll[p].phase = "typing" /\ poll[p].fresh = <<>>
  /\ poll' = [poll EXCEPT ![p] = NoPoll]
  /\ UNCHANGED <<bridge, request, applied, restarts, pressed, typed, gone, overlap, order>>

----------------------------------------------------------------------------
(* What goes on around it *)

AgentRestart ==
  /\ agentRestarts + bridgeRestarts < MaxRestarts
  /\ agentRestarts' = agentRestarts + 1
  /\ applied' = 0 /\ poll' = [p \in Polls |-> NoPoll]
  /\ overlap' = FALSE /\ order' = <<>>
  /\ UNCHANGED <<bridge, request, bridgeRestarts, pressed, typed, gone>>

BridgeRestart ==
  /\ agentRestarts + bridgeRestarts < MaxRestarts
  /\ bridgeRestarts' = bridgeRestarts + 1
  /\ keySeq' = 0 /\ pending' = <<>> /\ aim' = NoAim
  /\ UNCHANGED <<request, applied, poll, agentRestarts, pressed, typed, gone, overlap, order>>

Step(p) == ReadRequest(p) \/ ListWindows(p) \/ TypeKey(p) \/ KeyTyped(p) \/ EndPoll(p)

Next ==
  \/ Press \/ SendToChat \/ TerminalWatch \/ AimExpires \/ WatchLapses
  \/ \E p \in Polls : Step(p)
  \/ AgentRestart \/ BridgeRestart

Spec == Init /\ [][Next]_vars

\* The interval goes on, tmux answers, and an open terminal page renews its watch
\* before the last one lapses often enough for the agent to read it.
Fairness == WF_vars(TerminalWatch) /\ \A p \in Polls : SF_vars(ReadRequest(p)) /\ WF_vars(Step(p))
FairSpec == Spec /\ Fairness

----------------------------------------------------------------------------
(* Properties *)

KeysOf(keys) == keys \in Seq(1..MaxKeys)

\* The files and both sides' memory have their shape, and the request never holds
\* more keys than the schema allows, numbered without a gap.
TypeOK ==
  /\ keySeq \in 0..MaxKeys /\ pressed \in 0..MaxKeys /\ applied \in 0..MaxKeys
  /\ KeysOf(pending) /\ Len(pending) <= KeyWindow
  /\ \A k \in 1..Len(pending) : pending[k] = pressed - Len(pending) + k
  /\ aim \in Window \cup {NoAim}
  /\ KeysOf(request.keys) /\ Len(request.keys) <= KeyWindow /\ request.keySeq \in 0..MaxKeys
  /\ \A p \in Polls :
       /\ poll[p].phase \in {"idle", "listing", "typing", "awaiting"}
       /\ poll[p].window \in Window /\ Len(poll[p].fresh) <= KeyWindow
       /\ poll[p].phase = "awaiting" => poll[p].fresh # <<>>
  /\ agentRestarts \in 0..MaxRestarts /\ bridgeRestarts \in 0..MaxRestarts
  /\ overlap \in BOOLEAN

\* Exactly-once, per key, and in order: in one life of the agent the keys are typed
\* in the order they were pressed and none twice, however often the window of keys
\* is written and read again and however the bridge restarts in between; unless a
\* call of serveTerminal began while the last was still typing.
TypedInOrder == \A m, n \in 1..Len(order) : m < n => order[m] < order[n]

\* A key the agent will skip as typed before was typed before; or came too late for
\* a window, or after the bridge restarted and began to count again.
Settled(id) == id \in typed \cup gone \/ bridgeRestarts > 0
SkippedMeansTyped ==
  \A k \in 1..Len(pending) : keySeq - Len(pending) + k <= applied => Settled(pending[k])

\* While a terminal page is open, every key is typed in the end, through a restart of
\* the agent too, unless it was crowded out, its window was closed or the bridge
\* restarted.
EveryKeyIsTyped == \A id \in 1..MaxKeys : (pressed >= id) ~> Settled(id)

=============================================================================
