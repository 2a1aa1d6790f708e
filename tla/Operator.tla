------------------------------ MODULE Operator ------------------------------
(***************************************************************************)
(* The operator's hand on a conversation, from the panel: speaking in the  *)
(* agent's name, rewording and retracting what was said.  Each request     *)
(* awaits the network and several may be under way, beside the agent's     *)
(* own; what the phones show (wire) is changed by the network, what the    *)
(* bridge keeps (sent) only once it has answered, and the connection may   *)
(* be lost at any moment between.  The module follows one conversation.    *)
(***************************************************************************)
EXTENDS FiniteSets, Integers, Sequences

CONSTANTS
  Hands,            \* who acts: the operator's requests, and the agent's own
  KEEP_PER_CHAT,    \* messages that stay correctable
  MaxIds, MaxDrops   \* bounds

\* What is assumed of the constants; what nobody has said are nobody's words.
OperatorAssumption ==
  /\ {KEEP_PER_CHAT, MaxIds, MaxDrops} \subseteq Nat
  /\ "none" \notin Hands

VARIABLES
  sent,        \* the bridge's record of what went out, oldest first
  wire,        \* what the phones show of each message
       \* the list each hand has in front of it
  request,     \* what each hand has under way
  crossed,     \* messages corrected twice at once, or with an answer lost
  stored,      \* whether an attachment of this conversation is on the disk
  up, drops    \* the connection, and how often it was lost

record == <<sent, wire, request, crossed, stored>>
line == <<up, drops>>
vars == <<record, line>>

Ids == 1..MaxIds
Unsaid == [words |-> "none", gone |-> FALSE]
Free == [op |-> "free"]
Correction == [op : {"edit", "unsend"}, id : Ids, done : BOOLEAN]
Speech == [op : {"say"}, left : {<<"text">>, <<"file">>, <<"file", "text">>}, id : {0} \cup Ids]

TypeOK ==
  /\ \A i \in DOMAIN sent :
       sent[i] \in [id : Ids, kind : {"text", "file"}, words : {"first"} \cup Hands,
                    unsent : BOOLEAN]
  /\ Len(sent) <= KEEP_PER_CHAT
  /\ wire \in [Ids -> [words : {"none", "first"} \cup Hands, gone : BOOLEAN]]
  /\ \A h \in Hands : request[h] \in {Free} \cup Correction \cup Speech
  /\ crossed \subseteq Ids
  /\ {stored, up} \subseteq BOOLEAN
  /\ drops \in 0..MaxDrops

Init ==
  /\ sent = <<>> /\ wire = [i \in Ids |-> Unsaid]
  /\ request = [h \in Hands |-> Free]
  /\ crossed = {} /\ stored = FALSE
  /\ up = TRUE /\ drops = 0

Set(h, r) == request' = [request EXCEPT ![h] = r]

----------------------------------------------------------------------------
(* The record *)

\* What may still be corrected, counted from the newest: where the nth is.
Recent(nth) ==
  {i \in DOMAIN sent : /\ ~sent[i].unsent
                       /\ Cardinality({j \in i..Len(sent) : ~sent[j].unsent}) = nth}

Kept(log) == SubSeq(log, IF Len(log) > KEEP_PER_CHAT THEN Len(log) - KEEP_PER_CHAT + 1 ELSE 1,
                    Len(log))

\* A correction that came through, folded into the record.
Folded(h, c) ==
  [i \in DOMAIN sent |->
     CASE sent[i].id # c.id -> sent[i]
       [] sent[i].id = c.id /\ c.op = "edit" -> [sent[i] EXCEPT !.words = h]
       [] OTHER -> [sent[i] EXCEPT !.unsent = TRUE]]

UnderWay(id) == {h \in Hands : request[h].op \in {"edit", "unsend"} /\ request[h].id = id}

----------------------------------------------------------------------------
(* Rewording and retracting: a message is named by its position *)

\* The position is resolved when the request arrives, whatever list it was
\* chosen from; a picture or a file can be taken back but not reworded.
Correct(h, nth, op) ==
  /\ request[h] = Free
  /\ \E i \in Recent(nth) :
       /\ op = "edit" => sent[i].kind = "text"
       /\ Set(h, [op |-> op, id |-> sent[i].id, done |-> FALSE])
       /\ crossed' = IF UnderWay(sent[i].id) = {} THEN crossed ELSE crossed \cup {sent[i].id}
  /\ UNCHANGED <<sent, wire, stored, line>>

CorrectionLands(h) ==
  LET c == request[h] IN
    /\ c.op \in {"edit", "unsend"} /\ ~c.done /\ up
    /\ ~wire[c.id].gone
    /\ wire' = IF c.op = "edit" THEN [wire EXCEPT ![c.id].words = h]
                                ELSE [wire EXCEPT ![c.id].gone = TRUE]
    /\ Set(h, [c EXCEPT !.done = TRUE])
    /\ UNCHANGED <<sent, crossed, stored, line>>

\* Nothing is recorded of a correction until the network has answered.
MutantAnswered(c) == TRUE
Answered(c) == c.done

CorrectionAcked(h) ==
  LET c == request[h] IN
    /\ c.op \in {"edit", "unsend"} /\ Answered(c)
    /\ sent' = Folded(h, c)
    /\ Set(h, Free)
    /\ UNCHANGED <<wire, crossed, stored, line>>

\* Refused, as too old or taken back already, or lost with the connection: the
\* operator is told that it was refused in each case.
CorrectionFails(h) ==
  LET c == request[h] IN
    /\ c.op \in {"edit", "unsend"} /\ (c.done => ~up)
    /\ Set(h, Free)
    /\ crossed' = IF c.done THEN crossed \cup {c.id} ELSE crossed
    /\ UNCHANGED <<sent, wire, stored, line>>

----------------------------------------------------------------------------
(* Speaking in the agent's name: attachments first, then the words *)

Attach == ~stored /\ stored' = TRUE
          /\ UNCHANGED <<sent, wire, request, crossed, line>>

DeleteMedia == stored /\ stored' = FALSE
               /\ UNCHANGED <<sent, wire, request, crossed, line>>

Say(h, pieces) ==
  /\ request[h] = Free
  /\ Head(pieces) = "file" => stored
  /\ Set(h, [op |-> "say", left |-> pieces, id |-> 0])
  /\ UNCHANGED <<sent, wire, crossed, stored, line>>

PieceLands(h) ==
  LET s == request[h] IN
    /\ s.op = "say" /\ s.id = 0 /\ up
    /\ Head(s.left) = "file" => stored
    /\ \E i \in Ids :
         /\ wire[i] = Unsaid /\ \A j \in 1..(i - 1) : wire[j] # Unsaid
         /\ wire' = [wire EXCEPT ![i].words = "first"]
         /\ Set(h, [s EXCEPT !.id = i])
    /\ UNCHANGED <<sent, crossed, stored, line>>

PieceAcked(h) ==
  LET s == request[h] IN
    /\ s.op = "say" /\ s.id # 0
    /\ sent' = Kept(Append(sent, [id |-> s.id, kind |-> Head(s.left), words |-> "first",
                                  unsent |-> FALSE]))
    /\ Set(h, IF Len(s.left) = 1 THEN Free ELSE [s EXCEPT !.left = Tail(@), !.id = 0])
    /\ UNCHANGED <<wire, crossed, stored, line>>

\* The rest is not sent, and what was stays.
SayFails(h) ==
  LET s == request[h] IN
    /\ s.op = "say" /\ (s.id # 0 => ~up)
    /\ Set(h, Free)
    /\ crossed' = IF s.id # 0 THEN crossed \cup {s.id} ELSE crossed
    /\ UNCHANGED <<sent, wire, stored, line>>

----------------------------------------------------------------------------
Drop == up /\ drops < MaxDrops /\ up' = FALSE /\ drops' = drops + 1
        /\ UNCHANGED record
Reconnect == ~up /\ up' = TRUE /\ UNCHANGED <<record, drops>>

Next ==
  \/ \E h \in Hands :
       \/ \E nth \in 1..KEEP_PER_CHAT : Correct(h, nth, "edit") \/ Correct(h, nth, "unsend")
       \/ CorrectionLands(h) \/ CorrectionAcked(h) \/ CorrectionFails(h)
       \/ \E pieces \in {<<"text">>, <<"file", "text">>} : Say(h, pieces)
       \/ PieceLands(h) \/ PieceAcked(h) \/ SayFails(h)
  \/ Attach \/ DeleteMedia
  \/ Drop \/ Reconnect

Spec == Init /\ [][Next]_vars

----------------------------------------------------------------------------
\* What the bridge keeps of a message is what the phones show, once nothing is
\* under way for it: however requests of several hands, refusals and lost
\* connections are mixed, unless two corrections of that message overlapped or
\* the network's answer to one was lost.
RecordAgreesWithPhones ==
  \A i \in DOMAIN sent :
    LET r == sent[i] IN
      r.id \notin crossed /\ UnderWay(r.id) = {} =>
        r.words = wire[r.id].words /\ r.unsent = wire[r.id].gone

=============================================================================
