---------------------------- MODULE MCDispatcher ----------------------------
(* Dispatcher on small instances: two chats, one of them with two messages. *)
EXTENDS Dispatcher

CONSTANTS m1, m2, m3, c1, c2

ThreeMessages == {m1, m2, m3}
TwoMessages == {m1, m3}
TwoChats == {c1, c2}

\* m1 and m2 are of the same chat; m3 is of the other.
MsgChat == [m \in Msg |-> IF m = m3 THEN c2 ELSE c1]

\* The order of the files is not the order of the model values in any run.
MsgStamp == [m \in Msg |-> CASE m = m1 -> 2 [] m = m2 -> 1 [] OTHER -> 3]

=============================================================================
