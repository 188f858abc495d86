--------------------------- MODULE WebSocketHandler ---------------------------
(***************************************************************************)
(* websocket-handler.js over the subscription server: the messages of the  *)
(* clients, each a batch of calls.  A call alone goes the way of a batch   *)
(* of one.                                                                 *)
(*                                                                         *)
(* A message is handled by an async function: it runs on its own until it  *)
(* awaits the RPC, or the miner, and again once that has answered.  In     *)
(* between other messages are handled, connections close, and the monitor  *)
(* polls.  The RPC and the miner are external.                             *)
(***************************************************************************)
EXTENDS SubscriptionServer

CONSTANTS
  Message,   \* the messages of the clients
  From,      \* the connection of each message
  Calls      \* its calls: records with id, method and sub

\* Method "miner" is eth_gasPrice or eth_sendRawTransaction, "other" what the RPC answers,
\* "null" stands for an element null; sub is the subscription that is made or given up.
Method == {"eth_subscribe", "eth_unsubscribe", "miner", "other", "null"}

ASSUME BatchAssumption ==
  \A m \in Message : Calls[m] \in Seq([id : Nat, method : Method, sub : Sub \cup {None}])
ASSUME MessageAssumption ==
  \A m \in Message : \A i, j \in DOMAIN Calls[m] :
    /\ Calls[m][i].method \in Method
    /\ i # j => Calls[m][i].id # Calls[m][j].id
    /\ Calls[m][i].method = "eth_subscribe" =>
         Calls[m][i].sub \in Sub /\ Connection[Calls[m][i].sub] = From[m]
\* The id of a subscription is drawn by the call that makes it.
ASSUME SubscriptionAssumption ==
  \A m, n \in Message : \A i \in DOMAIN Calls[m], j \in DOMAIN Calls[n] :
    Calls[m][i].method = "eth_subscribe" /\ Calls[n][j].method = "eth_subscribe"
    /\ Calls[m][i].sub = Calls[n][j].sub => m = n /\ i = j

VARIABLES
  at,                 \* by message: "new", "rpc" or "miner" awaited, "loop", "done",
                      \*   "thrown" out of the function, "exited" with the process
  i_,                 \* by message: i of the loop that answers
  rpc_response_data,  \* by message: the answers of the RPC
  rpc_index,          \* by message: how many of them are taken
  batch_response,     \* by message: the answers so far
  closed,             \* connections that are closed
  overtaken           \* messages that awaited an answer when their connection closed

handler_vars == <<at, i_, rpc_response_data, rpc_index, batch_response, closed, overtaken>>
wsvars == <<vars, handler_vars>>

WsInit ==
  /\ Init
  /\ at = [m \in Message |-> "new"]
  /\ i_ = [m \in Message |-> 1]
  /\ rpc_response_data = [m \in Message |-> <<>>]
  /\ rpc_index = [m \in Message |-> 0]
  /\ batch_response = [m \in Message |-> <<>>]
  /\ closed = {} /\ overtaken = {}

Result(id, result) == [id |-> id, result |-> result]
Error(id) == [id |-> id, result |-> None]

Call(m) == Calls[m][i_[m]]

\* The calls of the batch that go to the RPC, in one request.
data2(m) == {c \in Range(Calls[m]) : c.method = "other"}

Malformed(m) == \E c \in Range(Calls[m]) : c.method = "null"

\* No function runs: JavaScript has one thread.
Idle == \A m \in Message : at[m] \notin {"loop", "exited"}

-----------------------------------------------------------------------------
(* Up to the answer of the RPC *)

\* The calls are looked at outside of any try: the method of null throws, and the promise
\* that nobody handles ends the process, from version 15 of Node on.
handle_message(m) ==
  /\ Idle /\ at[m] = "new" /\ From[m] \notin closed
  /\ \E next \in (IF Malformed(m) THEN {"thrown", "exited"}
                  ELSE IF data2(m) = {} THEN {"loop"} ELSE {"rpc"}) :
       at' = [at EXCEPT ![m] = next]
  /\ UNCHANGED <<vars, i_, rpc_response_data, rpc_index, batch_response, closed, overtaken>>

\* An array of answers to some of the calls or to all of them, in any order.
RpcAnswers(m) ==
  /\ Idle /\ at[m] = "rpc"
  /\ \E n \in 0 .. Cardinality(data2(m)) : \E order \in [1 .. n -> data2(m)] :
       /\ IsInjective(order)
       /\ rpc_response_data' =
            [rpc_response_data EXCEPT ![m] =
               [x \in DOMAIN order |-> Result(order[x].id, "answer")]]
  /\ at' = [at EXCEPT ![m] = "loop"]
  /\ UNCHANGED <<vars, i_, rpc_index, batch_response, closed, overtaken>>

\* Wrong variant of RpcFails: the error is not caught.
RpcFailsUncaught(m) ==
  /\ Idle /\ at[m] = "rpc"
  /\ at' = [at EXCEPT ![m] = "thrown"]
  /\ UNCHANGED <<vars, i_, rpc_response_data, rpc_index, batch_response, closed, overtaken>>

\* No answer, or one that is no array.
RpcFails(m) ==
  /\ Idle /\ at[m] = "rpc"
  /\ at' = [at EXCEPT ![m] = "loop"]
  /\ UNCHANGED <<vars, i_, rpc_response_data, rpc_index, batch_response, closed, overtaken>>

-----------------------------------------------------------------------------
(* The loop that answers the calls in their order *)

Running(m, method) == at[m] = "loop" /\ i_[m] <= Len(Calls[m]) /\ Call(m).method = method

Respond(m, answer) ==
  /\ batch_response' = [batch_response EXCEPT ![m] = Append(@, answer)]
  /\ i_' = [i_ EXCEPT ![m] = @ + 1]
  /\ UNCHANGED <<rpc_response_data, closed, overtaken>>

Subscribes(m) ==
  /\ Running(m, "eth_subscribe")
  /\ LET s == Call(m).sub
     IN  /\ handle_new_heads(s) \/ handle_logs(s) \/ handle_minedTransactions(s)
         /\ Respond(m, Result(Call(m).id, s))
  /\ UNCHANGED <<at, rpc_index>>

RefusesSubscription(m) ==
  /\ Running(m, "eth_subscribe") /\ ~Allowed(Call(m).sub)
  /\ Respond(m, Error(Call(m).id))
  /\ UNCHANGED <<vars, at, rpc_index>>

\* The subscription must be of the same connection.
Owns(m, s) == s \in Subscribed /\ Connection[s] = From[m]

Unsubscribes(m) ==
  /\ Running(m, "eth_unsubscribe") /\ Owns(m, Call(m).sub)
  /\ handle_unsubscribe(Call(m).sub)
  /\ Respond(m, Result(Call(m).id, "true"))
  /\ UNCHANGED <<at, rpc_index>>

RefusesUnsubscribe(m) ==
  /\ Running(m, "eth_unsubscribe") /\ ~Owns(m, Call(m).sub)
  /\ Respond(m, Error(Call(m).id))
  /\ UNCHANGED <<vars, at, rpc_index>>

AwaitsMiner(m) ==
  /\ Running(m, "miner")
  /\ at' = [at EXCEPT ![m] = "miner"]
  /\ UNCHANGED <<vars, i_, rpc_response_data, rpc_index, batch_response, closed, overtaken>>

MinerAnswers(m) ==
  /\ Idle /\ at[m] = "miner"
  /\ \E answer \in {Result(Call(m).id, "answer"), Error(Call(m).id)} : Respond(m, answer)
  /\ at' = [at EXCEPT ![m] = "loop"]
  /\ UNCHANGED <<vars, rpc_index>>

\* Wrong variants of TakesAnswer: the answer at the place of the call; each call awaits an
\* answer of its own.
TakesAnswerAtPlace(m) ==
  /\ Running(m, "other")
  /\ IF i_[m] <= Len(rpc_response_data[m])
     THEN Respond(m, rpc_response_data[m][i_[m]])
     ELSE Respond(m, Error(Call(m).id))
  /\ UNCHANGED <<vars, at, rpc_index>>

AwaitsOwnAnswer(m) ==
  /\ Running(m, "other")
  /\ at' = [at EXCEPT ![m] = "miner"]
  /\ UNCHANGED <<vars, i_, rpc_response_data, rpc_index, batch_response, closed, overtaken>>

\* The next answer of the RPC, whichever call it is for.
TakesAnswer(m) ==
  /\ Running(m, "other")
  /\ IF rpc_index[m] < Len(rpc_response_data[m])
     THEN /\ Respond(m, rpc_response_data[m][rpc_index[m] + 1])
          /\ rpc_index' = [rpc_index EXCEPT ![m] = @ + 1]
     ELSE /\ Respond(m, Error(Call(m).id))
          /\ UNCHANGED rpc_index
  /\ UNCHANGED <<vars, at>>

Sends(m) ==
  /\ at[m] = "loop" /\ i_[m] > Len(Calls[m])
  /\ at' = [at EXCEPT ![m] = "done"]
  /\ UNCHANGED <<vars, i_, rpc_response_data, rpc_index, batch_response, closed, overtaken>>

-----------------------------------------------------------------------------
handle_close(c) ==
  /\ Idle /\ c \notin closed
  /\ closed' = closed \cup {c}
  /\ overtaken' = overtaken \cup {m \in Message : From[m] = c /\ at[m] \in {"rpc", "miner"}}
  /\ handle_disconnect(c)
  /\ UNCHANGED <<at, i_, rpc_response_data, rpc_index, batch_response>>

Handling(m) ==
  \/ RpcAnswers(m) \/ RpcFails(m)
  \/ Subscribes(m) \/ RefusesSubscription(m)
  \/ Unsubscribes(m) \/ RefusesUnsubscribe(m)
  \/ AwaitsMiner(m) \/ MinerAnswers(m)
  \/ TakesAnswer(m) \/ Sends(m)

\* The monitor runs when no message is handled.
MonitorRuns == Idle /\ (MonitorStep \/ (ChainMoves /\ UNCHANGED server_vars)) /\ UNCHANGED handler_vars

WsNext ==
  \/ \E m \in Message : handle_message(m) \/ Handling(m)
  \/ \E m \in Message : handle_close(From[m])
  \/ MonitorRuns

WsSpec == WsInit /\ [][WsNext]_wsvars

\* What is awaited is answered, or fails, and the function goes on.
FairWsSpec == WsSpec /\ \A m \in Message : WF_wsvars(Handling(m))

-----------------------------------------------------------------------------
\* The RPC has answered the first of its calls, in whatever order, and none after a gap.
GapFree(m) ==
  LET answered(c) == \E x \in DOMAIN rpc_response_data[m] : rpc_response_data[m][x].id = c.id
  IN  \A i, j \in DOMAIN Calls[m] :
        i < j /\ Calls[m][i].method = "other" /\ Calls[m][j].method = "other"
        /\ answered(Calls[m][j]) => answered(Calls[m][i])

\* Once a message has been answered, each of its calls has one answer, however those of
\* the RPC, of the miner and of the subscription server are put together: what is not for
\* the RPC whatever the RPC left out, and what is when the RPC left out the last ones.
AnsweredOnce ==
  \A m \in Message : at[m] = "done" =>
    \A c \in Range(Calls[m]) : c.method # "other" \/ GapFree(m) =>
      Cardinality({j \in DOMAIN batch_response[m] : batch_response[m][j].id = c.id}) = 1

\* A connection that closes takes its subscriptions with it, whatever is on its way, but
\* for those that a message makes which awaited an answer at that time: they stay.
OrphansOvertaken ==
  \A s \in Subscribed : Connection[s] \in closed =>
    \E m \in overtaken : \E c \in Range(Calls[m]) : c.method = "eth_subscribe" /\ c.sub = s

\* A client that is notified has been told the subscription, unless the batch that made it
\* has come to a call for the miner since.
ToldFirst ==
  \A m \in Message : at[m] # "done" =>
    \A j \in DOMAIN Calls[m] :
      Calls[m][j].method = "eth_subscribe" /\ received[Calls[m][j].sub] # <<>> =>
        \E k \in j + 1 .. i_[m] : k <= Len(Calls[m]) /\ Calls[m][k].method = "miner"

\* Every message without an element null is answered, whatever the RPC and the miner do,
\* unless a message with one ends the process.
Responds ==
  \A m \in Message :
    at[m] # "new" /\ ~Malformed(m) ~> at[m] = "done" \/ \E n \in Message : at[n] = "exited"
=============================================================================
