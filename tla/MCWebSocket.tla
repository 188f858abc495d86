----------------------------- MODULE MCWebSocket -----------------------------
(* Instances of WebSocketHandler for TLC *)
EXTENDS WebSocketHandler, MCSubscriptions

Messages == 1 .. 4

Clients == [m \in Messages |-> IF m \in {3, 4} THEN c2 ELSE c1]

Make(id, s) == [id |-> id, method |-> "eth_subscribe", sub |-> s]
GiveUp(id, s) == [id |-> id, method |-> "eth_unsubscribe", sub |-> s]
Ask(id, method) == [id |-> id, method |-> method, sub |-> None]

\* The second newHeads subscription is one too many; the third message tries to give up a
\* subscription of another connection; the last one has an element that is no call.
Batches ==
  << <<Make(1, l1), Ask(2, "other"), Ask(3, "miner"), Ask(4, "other")>>,
     <<Make(1, h1), Make(2, h2), GiveUp(3, l1)>>,
     <<GiveUp(1, l1), Make(2, m1)>>,
     <<Ask(1, "other"), Ask(2, "null")>> >>
=============================================================================
