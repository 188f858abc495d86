--------------------------- MODULE WebSocketProofs ---------------------------
(***************************************************************************)
(* Proofs about the websocket proxy, for every chain that its RPC shows    *)
(* and whatever batches the clients send, wherever they await: what a      *)
(* closed connection leaves, that no log is retracted more often than it   *)
(* was sent, that clients are told a subscription before they are          *)
(* notified, and that each call has one answer.                            *)
(***************************************************************************)
EXTENDS WebSocketHandler, SequenceLemmas, FiniteSetTheorems, FunctionTheorems, TLAPS

\* The connection of a message that is being handled is open, or was closed while the
\* message awaited an answer.
UnderWay ==
  \A m \in Message :
    at[m] \in {"rpc", "miner", "loop"} /\ From[m] \in closed => m \in overtaken

HandlerTyped ==
  /\ at \in [Message -> {"new", "rpc", "miner", "loop", "done", "thrown", "exited"}]
  /\ i_ \in [Message -> Nat \ {0}]

OrphansInv == HandlerTyped /\ UnderWay /\ OrphansOvertaken

LEMMA WsInitInv ==
  ASSUME WsInit
  PROVE  OrphansInv
<1>1. HandlerTyped
  BY DEF WsInit, HandlerTyped
<1>2. UnderWay /\ OrphansOvertaken
  BY DEF WsInit, Init, UnderWay, OrphansOvertaken, Subscribed
<1> QED BY <1>1, <1>2 DEF OrphansInv

\* A step that makes no subscription, closes nothing and starts no message.
LEMMA Quiet ==
  ASSUME OrphansInv, Subscribed' \subseteq Subscribed, UNCHANGED <<closed, overtaken>>,
         HandlerTyped',
         \A m \in Message : at'[m] \in {"rpc", "miner", "loop"} =>
                              at[m] \in {"rpc", "miner", "loop"} \/ From[m] \notin closed
  PROVE  OrphansInv'
<1>1. UnderWay'
  BY DEF OrphansInv, UnderWay
<1>2. OrphansOvertaken'
  <2> SUFFICES ASSUME NEW s \in Subscribed', Connection[s] \in closed
               PROVE  \E m \in overtaken' : \E c \in Range(Calls[m]) :
                        c.method = "eth_subscribe" /\ c.sub = s
    BY DEF OrphansOvertaken
  <2> QED BY DEF OrphansInv, OrphansOvertaken
<1> QED BY <1>1, <1>2 DEF OrphansInv

LEMMA AnswersKeep ==
  ASSUME OrphansInv, NEW m \in Message,
         \/ handle_message(m) \/ RpcAnswers(m) \/ RpcFails(m) \/ AwaitsMiner(m) \/ Sends(m)
  PROVE  OrphansInv'
<1>1. UNCHANGED <<vars, closed, overtaken, i_>>
  BY DEF handle_message, RpcAnswers, RpcFails, AwaitsMiner, Sends
<1>2. UNCHANGED Subscribed
  BY <1>1 DEF Subscribed, vars, server_vars, subscriptions
<1>3. HandlerTyped'
  BY <1>1 DEF OrphansInv, HandlerTyped, handle_message, RpcAnswers, RpcFails, AwaitsMiner, Sends
<1>4. ASSUME NEW n \in Message, at'[n] \in {"rpc", "miner", "loop"}
      PROVE  at[n] \in {"rpc", "miner", "loop"} \/ From[n] \notin closed
  BY <1>4 DEF OrphansInv, HandlerTyped, handle_message, RpcAnswers, RpcFails, AwaitsMiner,
       Sends, Running
<1> QED BY <1>1, <1>2, <1>3, <1>4, Quiet

LEMMA LoopKeeps ==
  ASSUME OrphansInv, NEW m \in Message,
         \/ RefusesSubscription(m) \/ RefusesUnsubscribe(m) \/ Unsubscribes(m)
         \/ MinerAnswers(m) \/ TakesAnswer(m)
  PROVE  OrphansInv'
<1>1. \E answer : Respond(m, answer)
  BY DEF RefusesSubscription, RefusesUnsubscribe, Unsubscribes, MinerAnswers, TakesAnswer
<1>2. UNCHANGED <<closed, overtaken>> /\ i_' = [i_ EXCEPT ![m] = @ + 1]
  BY <1>1 DEF Respond
<1>3. at' = at \/ (at[m] = "miner" /\ at' = [at EXCEPT ![m] = "loop"])
  BY DEF RefusesSubscription, RefusesUnsubscribe, Unsubscribes, MinerAnswers, TakesAnswer
<1>4. Subscribed' \subseteq Subscribed
  <2>1. CASE Unsubscribes(m)
    BY <2>1 DEF Unsubscribes, handle_unsubscribe, Leave, Subscribed
  <2>2. CASE UNCHANGED vars
    BY <2>2 DEF vars, server_vars, subscriptions, Subscribed
  <2> QED BY <2>1, <2>2 DEF RefusesSubscription, RefusesUnsubscribe, MinerAnswers, TakesAnswer
<1>5. HandlerTyped'
  <2>1. at' \in [Message -> {"new", "rpc", "miner", "loop", "done", "thrown", "exited"}]
    BY <1>3 DEF OrphansInv, HandlerTyped
  <2>2. i_' \in [Message -> Nat \ {0}]
    BY <1>2 DEF OrphansInv, HandlerTyped
  <2> QED BY <2>1, <2>2 DEF HandlerTyped
<1>6. ASSUME NEW n \in Message, at'[n] \in {"rpc", "miner", "loop"}
      PROVE  at[n] \in {"rpc", "miner", "loop"} \/ From[n] \notin closed
  BY <1>3, <1>6 DEF OrphansInv, HandlerTyped
<1> QED BY <1>2, <1>4, <1>5, <1>6, Quiet

\* The connection of a subscription is that of the message that makes it; when it is
\* closed, it was so while the message awaited.
LEMMA SubscribesKeeps ==
  ASSUME OrphansInv, NEW m \in Message, Subscribes(m)
  PROVE  OrphansInv'
<1> DEFINE c == Call(m)
<1>1. /\ at[m] = "loop" /\ i_[m] <= Len(Calls[m]) /\ c.method = "eth_subscribe"
      /\ Subscribed' \subseteq Subscribed \cup {c.sub}
      /\ UNCHANGED <<at, closed, overtaken>> /\ i_' = [i_ EXCEPT ![m] = @ + 1]
  BY DEF Subscribes, Running, handle_new_heads, handle_logs, handle_minedTransactions,
       Respond, Subscribed
<1>2. HandlerTyped' /\ UnderWay'
  BY <1>1 DEF OrphansInv, HandlerTyped, UnderWay
<1>3. OrphansOvertaken'
  <2> SUFFICES ASSUME NEW s \in Subscribed', Connection[s] \in closed
               PROVE  \E n \in overtaken : \E d \in Range(Calls[n]) :
                        d.method = "eth_subscribe" /\ d.sub = s
    BY <1>1 DEF OrphansOvertaken
  <2>1. CASE s \in Subscribed
    BY <2>1 DEF OrphansInv, OrphansOvertaken
  <2>2. CASE s = c.sub
    <3>1. i_[m] \in DOMAIN Calls[m] /\ c \in Range(Calls[m])
      BY <1>1, BatchAssumption DEF OrphansInv, HandlerTyped, Call, Range
    <3>2. From[m] = Connection[s]
      BY <1>1, <2>2, <3>1, MessageAssumption DEF Call
    <3>3. m \in overtaken
      BY <1>1, <3>2 DEF OrphansInv, UnderWay
    <3> QED BY <1>1, <2>2, <3>1, <3>3
  <2> QED BY <1>1, <2>1, <2>2
<1> QED BY <1>2, <1>3 DEF OrphansInv

\* What the connection had is gone; its messages that are under way await.
LEMMA CloseKeeps ==
  ASSUME OrphansInv, NEW c, handle_close(c)
  PROVE  OrphansInv'
<1>1. /\ \A m \in Message : at[m] # "loop"
      /\ closed' = closed \cup {c}
      /\ overtaken' = overtaken \cup {m \in Message : From[m] = c /\ at[m] \in {"rpc", "miner"}}
      /\ UNCHANGED <<at, i_>>
  BY DEF handle_close, Idle
<1>2. Subscribed' = Subscribed \ OfConnection(c)
  BY DEF handle_close, handle_disconnect, Leave, Subscribed
<1>3. HandlerTyped' /\ UnderWay'
  BY <1>1 DEF OrphansInv, HandlerTyped, UnderWay
<1>4. OrphansOvertaken'
  <2> SUFFICES ASSUME NEW s \in Subscribed', Connection[s] \in closed'
               PROVE  \E n \in overtaken' : \E d \in Range(Calls[n]) :
                        d.method = "eth_subscribe" /\ d.sub = s
    BY DEF OrphansOvertaken
  <2>1. s \in Subscribed /\ Connection[s] # c
    BY <1>2 DEF OfConnection
  <2>2. Connection[s] \in closed
    BY <1>1, <2>1
  <2> QED BY <1>1, <2>1, <2>2 DEF OrphansInv, OrphansOvertaken
<1> QED BY <1>3, <1>4 DEF OrphansInv

LEMMA MonitorKeeps ==
  ASSUME OrphansInv, MonitorRuns \/ UNCHANGED wsvars
  PROVE  OrphansInv'
<1>1. UNCHANGED <<handler_vars, subscriptions>>
  BY DEF MonitorRuns, MonitorStep, wsvars, vars, server_vars
<1>2. UNCHANGED <<at, i_, closed, overtaken, Subscribed>>
  BY <1>1 DEF handler_vars, subscriptions, Subscribed
<1> QED BY <1>2, Quiet DEF OrphansInv, HandlerTyped

LEMMA HandlerInvariant == WsSpec => []OrphansInv
<1>1. WsInit => OrphansInv
  BY WsInitInv
<1>2. OrphansInv /\ [WsNext]_wsvars => OrphansInv'
  <2> SUFFICES ASSUME OrphansInv, [WsNext]_wsvars
               PROVE  OrphansInv'
    OBVIOUS
  <2>1. CASE \E m \in Message : handle_message(m) \/ Handling(m)
    BY <2>1, AnswersKeep, LoopKeeps, SubscribesKeeps DEF Handling
  <2>2. CASE \E m \in Message : handle_close(From[m])
    BY <2>2, CloseKeeps
  <2>3. CASE MonitorRuns \/ UNCHANGED wsvars
    BY <2>3, MonitorKeeps
  <2> QED BY <2>1, <2>2, <2>3 DEF WsNext
<1> QED BY <1>1, <1>2, PTL DEF WsSpec

\* For every set of clients and batches: a connection that closes, which takes its
\* subscriptions with it (websocket-handler.js handle_close), leaves only those that a
\* batch makes which awaited the RPC or the miner at that time.
THEOREM OrphansOnlyOvertaken == WsSpec => []OrphansOvertaken
<1>1. OrphansInv => OrphansOvertaken
  BY DEF OrphansInv
<1> QED BY <1>1, HandlerInvariant, PTL

-----------------------------------------------------------------------------
(* The block monitor: its blocks are blocks of the chain, at some time *)

Block == {id \in Seq(Body) : Len(id) \in 1 .. MaxBlocks}

\* A poll awaits only blocks that have a number.
PollState ==
  {poll \in [at : {"idle", "head", "block", "lib"}, ask : Nat, reply : Block \cup {None, Null},
             last : Block \cup {None}, found_next_block : BOOLEAN, first : BOOLEAN] :
     poll.at = "block" => poll.ask >= 1}

MonitorInv ==
  /\ chain \in Block /\ Len(chain) >= 2
  /\ lib \in Nat /\ lib >= 1
  /\ reversible_blocks \in Seq(Block)
  /\ polls \in [Poll -> PollState]

Event(kind, block) == <<[event |-> kind, block |-> block]>>

\* What a step of the monitor emits.
EmitsBlocks(events) ==
  \/ events = <<>>
  \/ \E block \in Block : events = Event("appended", block) \/ events = Event("forked", block)
  \/ events # <<>> /\ Head(events).event = "removed"

LEMMA LenOfBlock ==
  ASSUME NEW id \in Block
  PROVE  Len(id) \in Nat /\ Len(id) >= 1
BY MonitorAssumption DEF Block

LEMMA NotRunningTyped == NotRunning \in PollState
<1>1. NotRunning \in [at : {"idle", "head", "block", "lib"}, ask : Nat, reply : Block \cup {None, Null},
                     last : Block \cup {None}, found_next_block : BOOLEAN, first : BOOLEAN]
  BY DEF NotRunning
<1>2. NotRunning.at # "block"
  BY DEF NotRunning
<1> QED BY <1>1, <1>2 DEF PollState

LEMMA MonitorInitInv ==
  ASSUME MonitorInit
  PROVE  MonitorInv
<1>1. InitialChain \in Block /\ Len(InitialChain) \in Nat /\ Len(InitialChain) >= 2
  BY MonitorAssumption, LenProperties DEF Block
<1>2. lib \in Nat /\ lib >= 1
  BY <1>1 DEF MonitorInit
<1>3. NotRunning \in PollState
  BY NotRunningTyped
<1>4. <<>> \in Seq(Block)
  BY EmptySeq
<1> QED BY <1>1, <1>2, <1>3, <1>4 DEF MonitorInit, MonitorInv

LEMMA ChainKeepsMonitor ==
  ASSUME MonitorInv, ChainMoves
  PROVE  MonitorInv'
<1>1. /\ chain \in Seq(Body) /\ Len(chain) \in Nat /\ Len(chain) >= 2 /\ Len(chain) <= MaxBlocks
      /\ MaxBlocks \in Nat /\ lib \in Nat /\ lib >= 1
  BY MonitorAssumption, LenProperties DEF MonitorInv, Block
<1>2. SUFFICES chain' \in Block /\ Len(chain') >= 2 /\ lib' \in Nat /\ lib' >= 1
  BY DEF ChainMoves, MonitorInv
<1>3. CASE Extend
  <2>1. PICK e \in Body : chain' = Append(chain, e) /\ lib' = lib /\ Len(chain) < MaxBlocks
    BY <1>3, MonitorAssumption DEF Extend
  <2>2. chain' \in Seq(Body) /\ Len(chain') = Len(chain) + 1
    BY <1>1, <2>1, AppendProperties
  <2> QED BY <1>1, <2>1, <2>2 DEF Block
<1>4. CASE Reorganise
  <2>1. Kept \in Int
    <3>1. CASE ~DeepForks /\ reversible_blocks # <<>>
      <4>1. Head(reversible_blocks) \in Block
        BY <3>1, HeadTailProperties DEF MonitorInv
      <4> QED BY <3>1, <4>1, LenOfBlock DEF Kept
    <3> QED BY <1>1, <3>1, MonitorAssumption DEF Kept
  <2>2. Max({lib, Kept}) \in Int /\ Max({lib, Kept}) >= lib
    BY <1>1, <2>1, MaxOfTwo
  <2>3. PICK k \in Max({lib, Kept}) .. Len(chain) - 1, e \in Body :
          chain' = Append(Prefix(chain, k), e) /\ lib' = lib
    BY <1>4 DEF Reorganise
  <2>4. k \in 0 .. Len(chain) /\ k >= 1 /\ k + 1 <= Len(chain)
    <3> HIDE DEF Max
    <3> QED BY <1>1, <2>2
  <2>5. Prefix(chain, k) \in Seq(Body) /\ Len(Prefix(chain, k)) = k
    BY <1>1, <2>4, PrefixFacts DEF Prefix
  <2>6. chain' \in Seq(Body) /\ Len(chain') = k + 1
    BY <2>3, <2>5, AppendProperties
  <2> QED BY <1>1, <2>3, <2>4, <2>6 DEF Block
<1>5. CASE Finalise
  BY <1>1, <1>5 DEF Finalise, MonitorInv
<1> QED BY <1>3, <1>4, <1>5 DEF ChainMoves

LEMMA AwaitKeeps ==
  ASSUME MonitorInv, NEW p \in Poll, NEW poll \in PollState, NEW at_ \in {"head", "block", "lib"},
         at_ = "block" => poll.ask >= 1, Await(p, at_, poll)
  PROVE  polls' \in [Poll -> PollState]
<1>1. [poll EXCEPT !.at = at_, !.reply = None] \in PollState
  BY DEF PollState
<1> QED BY <1>1 DEF Await, MonitorInv

LEMMA EndKeeps ==
  ASSUME MonitorInv, NEW p \in Poll, NEW blocks \in Seq(Block), EndPoll(p, blocks)
  PROVE  reversible_blocks' \in Seq(Block) /\ polls' \in [Poll -> PollState]
<1>1. NotRunning \in PollState
  BY NotRunningTyped
<1>2. <<>> \in Seq(Block)
  BY EmptySeq
<1> QED BY <1>1, <1>2 DEF EndPoll, MonitorInv

LEMMA AfterLoopKeeps ==
  ASSUME MonitorInv, NEW p \in Poll, AfterLoop(p, polls[p])
  PROVE  reversible_blocks' \in Seq(Block) /\ polls' \in [Poll -> PollState]
<1>1. CASE Await(p, "lib", polls[p]) /\ UNCHANGED reversible_blocks
  <2>1. polls[p] \in PollState /\ "lib" # "block"
    BY DEF MonitorInv
  <2>2. polls' \in [Poll -> PollState]
    BY <1>1, <2>1, AwaitKeeps
  <2> QED BY <1>1, <2>2 DEF MonitorInv
<1>2. CASE EndPoll(p, reversible_blocks)
  BY <1>2, EndKeeps DEF MonitorInv
<1> QED BY <1>1, <1>2 DEF AfterLoop

LEMMA LastBlocks ==
  ASSUME NEW blocks \in Seq(Block), blocks # <<>>
  PROVE  Last(blocks) \in Block /\ Front(blocks) \in Seq(Block)
BY FrontFacts

\* Where a poll leaves the deque and itself, and what it emits.
LEMMA PollMoves ==
  ASSUME MonitorInv, NEW p \in Poll,
         StartPoll(p) \/ Reply(p) \/ PollFails(p) \/ ResumeHead(p) \/ ResumeUnused(p)
  PROVE  /\ reversible_blocks' \in Seq(Block) /\ polls' \in [Poll -> PollState]
         /\ emitted' = <<>>
<1>1. /\ polls[p] \in PollState /\ reversible_blocks \in Seq(Block)
      /\ polls \in [Poll -> PollState]
  BY DEF MonitorInv
<1>2. CASE StartPoll(p)
  <2>1. Back \in Block \cup {None}
    BY <1>1, LastBlocks DEF Back
  <2>2. [NotRunning EXCEPT !.last = Back, !.first = (Back = None)] \in PollState
    BY <2>1, NotRunningTyped DEF PollState
  <2>3. polls' \in [Poll -> PollState]
    BY <1>2, <2>2, AwaitKeeps DEF StartPoll
  <2> QED BY <1>1, <1>2, <2>3 DEF StartPoll
<1>3. CASE Reply(p)
  <2> DEFINE reply == IF polls[p].ask <= Len(chain) THEN Prefix(chain, polls[p].ask) ELSE Null
  <2>1. reply \in Block \cup {Null}
    <3>1. chain \in Seq(Body) /\ Len(chain) \in Nat /\ Len(chain) <= MaxBlocks /\ MaxBlocks \in Nat
      BY MonitorAssumption, LenProperties DEF MonitorInv, Block
    <3>2. polls[p].ask \in Nat /\ polls[p].ask >= 1
      BY <1>1, <1>3 DEF Reply, PollState
    <3>3. CASE polls[p].ask <= Len(chain)
      <4>1. polls[p].ask \in 0 .. Len(chain)
        BY <3>1, <3>2, <3>3
      <4>2. Prefix(chain, polls[p].ask) \in Seq(Body) /\ Len(Prefix(chain, polls[p].ask)) = polls[p].ask
        BY <3>1, <4>1, PrefixFacts DEF Prefix
      <4> QED BY <3>1, <3>2, <3>3, <4>2 DEF Block
    <3> QED BY <3>3
  <2>2. polls' = [polls EXCEPT ![p].reply = reply]
    BY <1>3 DEF Reply
  <2> HIDE DEF reply
  <2>3. [polls[p] EXCEPT !.reply = reply] \in PollState
    BY <1>1, <2>1 DEF PollState
  <2>4. polls' \in [Poll -> PollState]
    BY <1>1, <2>2, <2>3
  <2> QED BY <1>1, <1>3, <2>4 DEF Reply
<1>4. CASE PollFails(p)
  BY <1>1, <1>4, EndKeeps DEF PollFails
<1>5. CASE ResumeHead(p)
  <2>1. CASE polls[p].last = None
    <3>1. Await(p, "block", [polls[p] EXCEPT !.ask = Len(chain) - 1]) /\ UNCHANGED reversible_blocks
      BY <1>5, <2>1 DEF ResumeHead
    <3>2. Len(chain) - 1 \in Nat /\ Len(chain) - 1 >= 1
      BY LenOfBlock DEF MonitorInv
    <3>3. /\ [polls[p] EXCEPT !.ask = Len(chain) - 1] \in PollState
          /\ [polls[p] EXCEPT !.ask = Len(chain) - 1].ask >= 1
      BY <1>1, <3>2 DEF PollState
    <3>4. polls' \in [Poll -> PollState]
      BY <3>1, <3>3, AwaitKeeps
    <3> QED BY <1>1, <1>5, <3>1, <3>4 DEF ResumeHead
  <2>2. CASE polls[p].last # None /\ AfterLoop(p, polls[p])
    BY <1>5, <2>2, AfterLoopKeeps DEF ResumeHead
  <2>3. CASE /\ polls[p].last # None
             /\ Await(p, "block", [polls[p] EXCEPT !.ask = Len(polls[p].last) + 1])
             /\ UNCHANGED reversible_blocks
    <3>1. polls[p].last \in Block
      BY <1>1, <2>3 DEF PollState
    <3>2. Len(polls[p].last) + 1 \in Nat /\ Len(polls[p].last) + 1 >= 1
      BY <3>1, LenOfBlock
    <3>3. /\ [polls[p] EXCEPT !.ask = Len(polls[p].last) + 1] \in PollState
          /\ [polls[p] EXCEPT !.ask = Len(polls[p].last) + 1].ask >= 1
      BY <1>1, <3>2 DEF PollState
    <3>4. polls' \in [Poll -> PollState]
      BY <2>3, <3>3, AwaitKeeps
    <3> QED BY <1>1, <1>5, <2>3, <3>4 DEF ResumeHead
  <2> QED BY <1>5, <2>1, <2>2, <2>3 DEF ResumeHead
<1>6. CASE ResumeUnused(p)
  BY <1>6, AfterLoopKeeps DEF ResumeUnused
<1> QED BY <1>2, <1>3, <1>4, <1>5, <1>6

LEMMA PollAppends ==
  ASSUME MonitorInv, NEW p \in Poll, NEW poll \in PollState, poll.reply \in Block,
         append_new_block(p, poll)
  PROVE  /\ reversible_blocks' \in Seq(Block) /\ polls' \in [Poll -> PollState]
         /\ emitted' = Event("appended", poll.reply)
<1>1. reversible_blocks' \in Seq(Block)
  BY AppendProperties DEF append_new_block, MonitorInv
<1>2. [poll EXCEPT !.last = poll.reply, !.first = FALSE] \in PollState
  BY DEF PollState
<1>3. polls' \in [Poll -> PollState]
  BY <1>2, AwaitKeeps DEF append_new_block
<1> QED BY <1>1, <1>3 DEF append_new_block, Event

LEMMA PollForks ==
  ASSUME MonitorInv, NEW p \in Poll, ResumeForked(p)
  PROVE  /\ reversible_blocks' \in Seq(Block) /\ polls' \in [Poll -> PollState]
         /\ emitted' = <<>> \/ \E block \in Block : emitted' = Event("forked", block)
<1>1. polls[p] \in PollState /\ reversible_blocks \in Seq(Block)
  BY DEF MonitorInv
<1>2. CASE reversible_blocks = <<>>
  <2>1. EndPoll(p, <<>>) /\ emitted' = <<>> /\ <<>> \in Seq(Block)
    BY <1>2, EmptySeq DEF ResumeForked
  <2> QED BY <2>1, EndKeeps
<1>3. CASE reversible_blocks # <<>>
  <2> DEFINE remain == Front(reversible_blocks)
             last   == IF remain = <<>> THEN None ELSE Last(remain)
             after  == [polls[p] EXCEPT !.found_next_block = TRUE, !.last = last]
  <2>1. /\ reversible_blocks' = remain
        /\ emitted' = <<[event |-> "forked", block |-> Back]>>
        /\ Await(p, "head", after)
    BY <1>3 DEF ResumeForked
  <2>2. remain \in Seq(Block) /\ Back \in Block
    BY <1>1, <1>3, LastBlocks DEF Back
  <2>3. last \in Block \cup {None}
    BY <2>2, LastBlocks
  <2> HIDE DEF last
  <2>4. after \in PollState
    BY <1>1, <2>3 DEF PollState
  <2>5. polls' \in [Poll -> PollState]
    <3> HIDE DEF after
    <3> QED BY <2>1, <2>4, AwaitKeeps
  <2> QED BY <2>1, <2>2, <2>5 DEF Event
<1> QED BY <1>2, <1>3

LEMMA PollTrims ==
  ASSUME MonitorInv, NEW p \in Poll, ResumeLib(p)
  PROVE  /\ reversible_blocks' \in Seq(Block) /\ polls' \in [Poll -> PollState]
         /\ emitted' = <<>> \/ (emitted' # <<>> /\ Head(emitted').event = "removed")
<1>0. PICK evm_lib \in 0 .. lib + LibAhead :
        LET k == Removable(evm_lib)
        IN  /\ EndPoll(p, SubSeq(reversible_blocks, k + 1, Len(reversible_blocks)))
            /\ emitted' = [i \in 1 .. k |-> [event |-> "removed", block |-> reversible_blocks[i]]]
  BY DEF ResumeLib
<1> DEFINE k == Removable(evm_lib)
           blocks == SubSeq(reversible_blocks, k + 1, Len(reversible_blocks))
<1>1. reversible_blocks \in Seq(Block) /\ Len(reversible_blocks) \in Nat
  BY LenProperties DEF MonitorInv
<1>2. k \in 0 .. Len(reversible_blocks)
  <2> DEFINE T == {j \in 0 .. Len(reversible_blocks) :
                     j = 0 \/ (/\ Len(reversible_blocks) - j >= Keep
                               /\ \A i \in 1 .. j : Len(reversible_blocks[i]) < evm_lib)}
  <2>1. T \in SUBSET (0 .. Len(reversible_blocks)) /\ 0 \in T
    BY <1>1
  <2>2. Max(T) \in T
    <3> HIDE DEF T
    <3> QED BY <1>1, <2>1, MaxExists
  <2> QED BY <2>1, <2>2 DEF Removable
<1> HIDE DEF k
<1>3. k + 1 \in Int /\ Len(reversible_blocks) \in Int
      /\ \A i \in k + 1 .. Len(reversible_blocks) : reversible_blocks[i] \in Block
  <2>1. \A i \in 1 .. Len(reversible_blocks) : reversible_blocks[i] \in Block
    BY <1>1, ElementOfSeq
  <2> QED BY <1>1, <1>2, <2>1
<1>4. blocks \in Seq(Block)
  BY <1>3, SubSeqProperties
<1> HIDE DEF blocks
<1>5. EndPoll(p, blocks)
      /\ emitted' = [i \in 1 .. k |-> [event |-> "removed", block |-> reversible_blocks[i]]]
  BY <1>0 DEF k, blocks
<1>6. CASE k = 0
  <2>1. emitted' = <<>>
    BY <1>5, <1>6
  <2> QED BY <1>4, <1>5, <2>1, EndKeeps
<1>7. CASE k # 0
  <2>1. 1 \in 1 .. k
    BY <1>1, <1>2, <1>7
  <2>2. emitted' # <<>> /\ Head(emitted') = emitted'[1]
    BY <1>5, <2>1
  <2>3. emitted'[1].event = "removed"
    BY <1>5, <2>1
  <2> QED BY <1>4, <1>5, <2>2, <2>3, EndKeeps
<1> QED BY <1>6, <1>7

LEMMA PollKeepsMonitor ==
  ASSUME MonitorInv, NEW p \in Poll, PollStep(p)
  PROVE  MonitorInv' /\ EmitsBlocks(emitted')
<1>1. polls[p] \in PollState
  BY DEF MonitorInv
<1>2. UNCHANGED <<chain, lib>>
  BY DEF PollStep, StartPoll, Reply, PollFails, ResumeHead, ResumeFirst, ResumeLinked,
       append_new_block, ResumeForked, ResumeUnused, ResumeLib, rpc_vars
<1>3. SUFFICES /\ reversible_blocks' \in Seq(Block) /\ polls' \in [Poll -> PollState]
               /\ EmitsBlocks(emitted')
  BY <1>2 DEF MonitorInv
<1>4. CASE ResumeFirst(p)
  <2>1. polls[p].reply \in Block
    BY <1>1, <1>4 DEF ResumeFirst, PollState
  <2> QED BY <1>1, <1>4, <2>1, PollAppends DEF ResumeFirst, EmitsBlocks
<1>5. CASE ResumeLinked(p)
  <2> DEFINE poll == [polls[p] EXCEPT !.found_next_block = TRUE]
  <2>1. poll \in PollState /\ poll.reply = polls[p].reply
    BY <1>1 DEF PollState
  <2>2. poll.reply \in Block
    BY <1>1, <1>5, <2>1 DEF ResumeLinked, PollState
  <2>3. append_new_block(p, poll)
    BY <1>5 DEF ResumeLinked
  <2> HIDE DEF poll
  <2> QED BY <2>1, <2>2, <2>3, PollAppends DEF EmitsBlocks
<1>6. CASE ResumeForked(p)
  BY <1>6, PollForks DEF EmitsBlocks
<1>7. CASE ResumeLib(p)
  BY <1>7, PollTrims DEF EmitsBlocks
<1> QED BY <1>4, <1>5, <1>6, <1>7, PollMoves DEF PollStep, EmitsBlocks

-----------------------------------------------------------------------------
(* The subscription server *)

Notification == [block : Block, removed : BOOLEAN]

\* Subscriptions are kept by their kind, and are given before they are kept; the logs that
\* are kept to be retracted are those of blocks of their number.
ServerTyped ==
  /\ new_head_subs \subseteq HeadSub /\ logs_subs \subseteq LogSub
  /\ mined_transactions_subs \subseteq MinedSub /\ Subscribed \subseteq given
  /\ received \in [Sub -> Seq(Notification)]
  /\ logs_sent \in [1 .. MaxBlocks -> [LogSub -> Seq(Block)]]
  /\ \A n \in 1 .. MaxBlocks, s \in LogSub : \A i \in DOMAIN logs_sent[n][s] :
       Len(logs_sent[n][s][i]) = n

\* Nothing has been sent to a subscription that has not been made.
SentToGiven ==
  /\ \A s \in Sub : received[s] # <<>> => s \in given
  /\ \A n \in 1 .. MaxBlocks, s \in LogSub : logs_sent[n][s] # <<>> => s \in given

\* How often block is in blocks.
Occurrences(blocks, block) == Cardinality({i \in DOMAIN blocks : blocks[i] = block})

\* What was sent and not retracted yet covers what is kept to be retracted.
Covered ==
  \A s \in LogSub, block \in Block :
    Count(s, block, FALSE) >= Count(s, block, TRUE) + Occurrences(logs_sent[Len(block)][s], block)

SentInv == ServerTyped /\ SentToGiven /\ Covered

\* What the handlers of the events do.
LEMMA EventsHandled ==
  ASSUME NEW events, EmitsBlocks(events), HandleEvents(events)
  PROVE  \/ UNCHANGED <<received, logs_sent>>
         \/ \E block \in Block : handle_block_appended(block) \/ handle_block_forked(block)
         \/ \E blocks : handle_block_removed(blocks)
<1>1. CASE events = <<>>
  BY <1>1 DEF HandleEvents
<1>2. ASSUME NEW block \in Block, events = Event("appended", block)
      PROVE  handle_block_appended(block)
  <2>1. events # <<>> /\ Head(events) = [event |-> "appended", block |-> block]
    BY <1>2 DEF Event
  <2> QED BY <2>1 DEF HandleEvents
<1>3. ASSUME NEW block \in Block, events = Event("forked", block)
      PROVE  handle_block_forked(block)
  <2>1. events # <<>> /\ Head(events) = [event |-> "forked", block |-> block]
    BY <1>3 DEF Event
  <2> QED BY <2>1 DEF HandleEvents
<1>4. CASE events # <<>> /\ Head(events).event = "removed"
  BY <1>4 DEF HandleEvents
<1> QED BY <1>1, <1>2, <1>3, <1>4 DEF EmitsBlocks

-----------------------------------------------------------------------------
(* Occurrences *)

LEMMA PlacesFinite ==
  ASSUME NEW S, NEW s \in Seq(S), NEW x
  PROVE  /\ IsFiniteSet({i \in DOMAIN s : s[i] = x})
         /\ Occurrences(s, x) \in Nat
<1>1. Len(s) \in Nat /\ DOMAIN s = 1 .. Len(s)
  BY LenProperties
<1>2. IsFiniteSet(1 .. Len(s))
  BY <1>1, FS_Interval
<1>3. {i \in DOMAIN s : s[i] = x} \in SUBSET (1 .. Len(s))
  BY <1>1
<1>4. IsFiniteSet({i \in DOMAIN s : s[i] = x})
  BY <1>2, <1>3, FS_Subset
<1> QED BY <1>4, FS_CardinalityType DEF Occurrences

LEMMA OccurrencesNone ==
  ASSUME NEW s, NEW x, \A i \in DOMAIN s : s[i] # x
  PROVE  Occurrences(s, x) = 0
<1>1. {i \in DOMAIN s : s[i] = x} = {}
  OBVIOUS
<1> QED BY <1>1, FS_EmptySet DEF Occurrences

LEMMA OccurrencesAppend ==
  ASSUME NEW S, NEW s \in Seq(S), NEW e \in S, NEW x
  PROVE  Occurrences(Append(s, e), x) = IF e = x THEN Occurrences(s, x) + 1 ELSE Occurrences(s, x)
<1> DEFINE t == Append(s, e)
           I == {i \in DOMAIN s : s[i] = x}
           J == {i \in DOMAIN t : t[i] = x}
<1>1. Len(s) \in Nat /\ DOMAIN s = 1 .. Len(s) /\ IsFiniteSet(I)
  <2>1. IsFiniteSet(I)
    BY PlacesFinite
  <2> QED BY <2>1, LenProperties
<1>2. /\ t \in Seq(S) /\ Len(t) = Len(s) + 1
      /\ \A i \in 1 .. Len(s) : t[i] = s[i]
      /\ t[Len(s) + 1] = e
  BY AppendProperties
<1>3. DOMAIN t = 1 .. Len(s) + 1
  BY <1>2, LenProperties
<1> HIDE DEF t
<1>4. J = IF e = x THEN I \cup {Len(s) + 1} ELSE I
  <2>1. 1 .. Len(s) + 1 = 1 .. Len(s) \cup {Len(s) + 1}
    BY <1>1
  <2> QED BY <1>1, <1>2, <1>3, <2>1
<1>5. Len(s) + 1 \notin I
  BY <1>1
<1> HIDE DEF I, J
<1>6. Cardinality(I \cup {Len(s) + 1}) = Cardinality(I) + 1
  BY <1>1, <1>5, FS_AddElement
<1> QED BY <1>4, <1>6 DEF Occurrences, I, J, t

LEMMA OccurrencesConcat ==
  ASSUME NEW S, NEW s \in Seq(S), NEW t \in Seq(S), NEW x
  PROVE  Occurrences(s \o t, x) = Occurrences(s, x) + Occurrences(t, x)
<1> DEFINE n == Len(s)
           u == s \o t
           I == {i \in DOMAIN s : s[i] = x}
           J == {i \in DOMAIN t : t[i] = x}
           K == {i \in DOMAIN u : u[i] = x}
           M == {n + j : j \in J}
           f == [j \in J |-> n + j]
<1>1. n \in Nat /\ Len(t) \in Nat /\ DOMAIN s = 1 .. n /\ DOMAIN t = 1 .. Len(t)
  BY LenProperties
<1>2. /\ u \in Seq(S) /\ Len(u) = n + Len(t)
      /\ \A i \in 1 .. n + Len(t) : u[i] = IF i <= n THEN s[i] ELSE t[i - n]
  BY ConcatProperties
<1>3. DOMAIN u = 1 .. n + Len(t)
  BY <1>2, LenProperties
<1>4. IsFiniteSet(I) /\ IsFiniteSet(J)
  BY PlacesFinite
<1> HIDE DEF u, n
<1>5. K = I \cup M
  <2>1. \A i \in DOMAIN s : i \in DOMAIN u /\ u[i] = s[i]
    BY <1>1, <1>2, <1>3
  <2>2. \A j \in DOMAIN t : n + j \in DOMAIN u /\ u[n + j] = t[j]
    BY <1>1, <1>2, <1>3
  <2>3. \A i \in DOMAIN u : i \notin DOMAIN s => i - n \in DOMAIN t /\ i = n + (i - n)
    BY <1>1, <1>2, <1>3
  <2> QED BY <2>1, <2>2, <2>3
<1>6. I \cap M = {}
  BY <1>1
<1>7. IsFiniteSet(M) /\ Cardinality(M) = Cardinality(J)
  <2>1. \A j, k \in J : n + j = n + k => j = k
    BY <1>1
  <2>2. f \in Bijection(J, M)
    BY <2>1 DEF Bijection, Injection, Surjection, IsInjective
  <2>3. ExistsBijection(J, M)
    BY <2>2 DEF ExistsBijection
  <2> QED BY <1>4, <2>3, FS_Bijection
<1>8. Cardinality(I) \in Nat /\ Cardinality(J) \in Nat
  BY <1>4, FS_CardinalityType
<1> HIDE DEF I, J, K, M
<1>9. Cardinality(I \cup M) = Cardinality(I) + Cardinality(M) - Cardinality({})
  BY <1>4, <1>6, <1>7, FS_Union
<1>10. Cardinality({}) = 0
  BY FS_EmptySet
<1>11. Cardinality(K) = Cardinality(I) + Cardinality(J)
  BY <1>5, <1>7, <1>8, <1>9, <1>10
<1> QED BY <1>11 DEF Occurrences, I, J, K, u

-----------------------------------------------------------------------------
(* The handlers of events and requests *)

LEMMA CountIsOccurrences ==
  ASSUME NEW s, NEW block, NEW removed
  PROVE  Count(s, block, removed) = Occurrences(received[s], [block |-> block, removed |-> removed])
BY DEF Count, Occurrences

LEMMA AddresseesAreGiven ==
  ASSUME ServerTyped, NEW block, NEW removed
  PROVE  /\ Addressees(block) \subseteq LogSub \cap given
         /\ MinedAddressees(block, removed) \subseteq MinedSub \cap given
         /\ new_head_subs \subseteq given
BY DEF ServerTyped, Subscribed, Addressees, MinedAddressees

LEMMA AppendedKeeps ==
  ASSUME SentInv, NEW block \in Block, handle_block_appended(block),
         UNCHANGED <<subscriptions, given>>
  PROVE  SentInv'
<1> DEFINE subs    == new_head_subs \cup Addressees(block) \cup MinedAddressees(block, FALSE)
           message == [block |-> block, removed |-> FALSE]
           number  == Len(block)
           logs    == [s \in LogSub |-> IF s \in Addressees(block)
                                        THEN Append(logs_sent[number][s], block)
                                        ELSE logs_sent[number][s]]
<1>1. subs \subseteq given /\ Addressees(block) \subseteq LogSub \cap subs
  BY AddresseesAreGiven DEF SentInv
<1>2. message \in Notification /\ number \in 1 .. MaxBlocks
  BY DEF Notification, Block
<1>3. /\ received \in [Sub -> Seq(Notification)]
      /\ logs_sent \in [1 .. MaxBlocks -> [LogSub -> Seq(Block)]]
      /\ LogSub \subseteq Sub
  BY DEF SentInv, ServerTyped, Sub
<1>4. /\ received' = [s \in Sub |-> IF s \in subs THEN Append(received[s], message) ELSE received[s]]
      /\ logs_sent' = [logs_sent EXCEPT ![number] = logs]
  BY DEF handle_block_appended, Send
<1>5. /\ UNCHANGED <<new_head_subs, logs_subs, mined_transactions_subs, given, Subscribed>>
  BY DEF subscriptions, Subscribed
<1> HIDE DEF message, number, subs
<1>6. received' \in [Sub -> Seq(Notification)]
  <2>1. \A s \in Sub : Append(received[s], message) \in Seq(Notification)
    BY <1>2, <1>3, AppendProperties
  <2> QED BY <1>3, <1>4, <2>1
<1>7. logs \in [LogSub -> Seq(Block)]
  <2>1. \A s \in LogSub : Append(logs_sent[number][s], block) \in Seq(Block)
    BY <1>2, <1>3, AppendProperties
  <2> QED BY <1>2, <1>3, <2>1
<1>8. logs_sent' \in [1 .. MaxBlocks -> [LogSub -> Seq(Block)]]
  BY <1>3, <1>4, <1>7
<1>9. ASSUME NEW n \in 1 .. MaxBlocks, NEW s \in LogSub
      PROVE  logs_sent'[n][s] = IF n = number /\ s \in Addressees(block)
                                THEN Append(logs_sent[n][s], block) ELSE logs_sent[n][s]
  BY <1>2, <1>3, <1>4
<1>10. ASSUME NEW n \in 1 .. MaxBlocks, NEW s \in LogSub, NEW i \in DOMAIN logs_sent'[n][s]
       PROVE  Len(logs_sent'[n][s][i]) = n
  <2>1. CASE n = number /\ s \in Addressees(block)
    <3>1. /\ logs_sent[n][s] \in Seq(Block) /\ Len(logs_sent[n][s]) \in Nat
          /\ DOMAIN logs_sent[n][s] = 1 .. Len(logs_sent[n][s])
      BY <1>3, LenProperties
    <3>2. /\ logs_sent'[n][s] \in Seq(Block)
          /\ Len(logs_sent'[n][s]) = Len(logs_sent[n][s]) + 1
          /\ \A j \in 1 .. Len(logs_sent[n][s]) : logs_sent'[n][s][j] = logs_sent[n][s][j]
          /\ logs_sent'[n][s][Len(logs_sent[n][s]) + 1] = block
      <4>1. logs_sent'[n][s] = Append(logs_sent[n][s], block)
        BY <1>9, <2>1
      <4> QED BY <3>1, <4>1, AppendProperties
    <3>3. i \in 1 .. Len(logs_sent[n][s]) \/ i = Len(logs_sent[n][s]) + 1
      <4>1. i \in 1 .. Len(logs_sent[n][s]) + 1
        BY <3>2, LenProperties
      <4> QED BY <3>1, <4>1
    <3>4. \A j \in DOMAIN logs_sent[n][s] : Len(logs_sent[n][s][j]) = n
      BY DEF SentInv, ServerTyped
    <3> QED BY <2>1, <3>1, <3>2, <3>3, <3>4 DEF number
  <2>2. CASE ~(n = number /\ s \in Addressees(block))
    BY <1>9, <2>2 DEF SentInv, ServerTyped
  <2> QED BY <2>1, <2>2
<1>11. ServerTyped'
  BY <1>5, <1>6, <1>8, <1>10 DEF SentInv, ServerTyped
<1>12. SentToGiven'
  BY <1>1, <1>3, <1>4, <1>5, <1>9 DEF SentInv, SentToGiven
<1>13. Covered'
  <2> SUFFICES ASSUME NEW s \in LogSub, NEW b \in Block
               PROVE  Occurrences(received'[s], [block |-> b, removed |-> FALSE])
                        >= Occurrences(received'[s], [block |-> b, removed |-> TRUE])
                           + Occurrences(logs_sent'[Len(b)][s], b)
    <3>1. \A s_1, b_1, r_1 :
            Count(s_1, b_1, r_1)' = Occurrences(received'[s_1], [block |-> b_1, removed |-> r_1])
      BY DEF Count, Occurrences
    <3>2. \A b_1, s_1 : Occurrences(logs_sent[Len(b_1)][s_1], b_1)'
                         = Occurrences(logs_sent'[Len(b_1)][s_1], b_1)
      BY DEF Occurrences
    <3> QED BY <3>1, <3>2 DEF Covered
  <2> DEFINE sent      == [block |-> b, removed |-> FALSE]
             retracted == [block |-> b, removed |-> TRUE]
             kept      == logs_sent[Len(b)][s]
  <2>1. Len(b) \in 1 .. MaxBlocks /\ kept \in Seq(Block) /\ received[s] \in Seq(Notification)
    BY <1>3 DEF Block
  <2>2. /\ Occurrences(received[s], sent) \in Nat /\ Occurrences(received[s], retracted) \in Nat
        /\ Occurrences(kept, b) \in Nat
    <3> HIDE DEF sent, retracted, kept
    <3> QED BY <2>1, PlacesFinite
  <2>3. Occurrences(received[s], sent) >= Occurrences(received[s], retracted) + Occurrences(kept, b)
    BY CountIsOccurrences DEF SentInv, Covered
  <2>4. Occurrences(received'[s], retracted) = Occurrences(received[s], retracted)
    <3>1. CASE s \in subs
      <4>1. received'[s] = Append(received[s], message)
        BY <1>3, <1>4, <3>1
      <4>2. message # retracted
        BY DEF message
      <4> HIDE DEF retracted
      <4> QED BY <1>2, <2>1, <4>1, <4>2, OccurrencesAppend
    <3>2. CASE s \notin subs
      BY <1>3, <1>4, <3>2
    <3> QED BY <3>1, <3>2
  <2>5. Occurrences(received'[s], sent) =
          IF s \in subs /\ b = block THEN Occurrences(received[s], sent) + 1
                                     ELSE Occurrences(received[s], sent)
    <3>1. CASE s \in subs
      <4>1. received'[s] = Append(received[s], message)
        BY <1>3, <1>4, <3>1
      <4>2. message = sent <=> b = block
        BY DEF message
      <4> HIDE DEF sent
      <4> QED BY <1>2, <2>1, <3>1, <4>1, <4>2, OccurrencesAppend
    <3>2. CASE s \notin subs
      BY <1>3, <1>4, <3>2
    <3> QED BY <3>1, <3>2
  <2>6. Occurrences(logs_sent'[Len(b)][s], b) = Occurrences(kept, b)
        \/ /\ s \in subs /\ b = block
           /\ Occurrences(logs_sent'[Len(b)][s], b) = Occurrences(kept, b) + 1
    <3>1. CASE Len(b) = number /\ s \in Addressees(block)
      <4>1. logs_sent'[Len(b)][s] = Append(kept, block)
        BY <1>9, <2>1, <3>1
      <4> HIDE DEF kept
      <4>2. Occurrences(Append(kept, block), b) =
              IF block = b THEN Occurrences(kept, b) + 1 ELSE Occurrences(kept, b)
        BY <2>1, OccurrencesAppend
      <4> QED BY <1>1, <3>1, <4>1, <4>2
    <3>2. CASE ~(Len(b) = number /\ s \in Addressees(block))
      BY <1>9, <2>1, <3>2
    <3> QED BY <3>1, <3>2
  <2> HIDE DEF sent, retracted, kept
  <2>7. Occurrences(received'[s], sent)
          >= Occurrences(received'[s], retracted) + Occurrences(logs_sent'[Len(b)][s], b)
    BY <2>2, <2>3, <2>4, <2>5, <2>6
  <2> QED BY <2>7 DEF sent, retracted
<1> QED BY <1>11, <1>12, <1>13 DEF SentInv

\* A block that is forked: what was kept for it is retracted, and forgotten.
LEMMA ForkedKeeps ==
  ASSUME SentInv, NEW block \in Block, handle_block_forked(block),
         UNCHANGED <<subscriptions, given>>
  PROVE  SentInv'
<1> DEFINE number == Len(block)
           mined(s) == s \in MinedAddressees(block, TRUE)
           retracted(s) == IF s \in LogSub THEN logs_sent[number][s] ELSE <<>>
           removals(s) == [i \in DOMAIN retracted(s) |->
                             [block |-> retracted(s)[i], removed |-> TRUE]]
           own(s) == IF mined(s) THEN <<[block |-> block, removed |-> TRUE]>> ELSE <<>>
<1>1. /\ received' = [s \in Sub |-> received[s] \o removals(s) \o own(s)]
      /\ logs_sent' = [logs_sent EXCEPT ![number] = NoneSent]
  BY DEF handle_block_forked, Retractions
<1>2. number \in 1 .. MaxBlocks /\ MinedAddressees(block, TRUE) \subseteq MinedSub \cap given
  BY AddresseesAreGiven DEF Block, SentInv
<1>3. /\ received \in [Sub -> Seq(Notification)]
      /\ logs_sent \in [1 .. MaxBlocks -> [LogSub -> Seq(Block)]]
      /\ LogSub \subseteq Sub /\ LogSub \cap MinedSub = {}
  BY KindAssumption DEF SentInv, ServerTyped, Sub
<1>4. NoneSent \in [LogSub -> Seq(Block)] /\ \A s \in LogSub : NoneSent[s] = <<>>
  BY EmptySeq DEF NoneSent
<1>5. UNCHANGED <<new_head_subs, logs_subs, mined_transactions_subs, given, Subscribed>>
  BY DEF subscriptions, Subscribed
<1>6. ASSUME NEW s \in Sub
      PROVE  retracted(s) \in Seq(Block) /\ removals(s) \in Seq(Notification)
             /\ own(s) \in Seq(Notification) /\ received[s] \in Seq(Notification)
  <2>1. retracted(s) \in Seq(Block)
    BY <1>2, <1>3, EmptySeq
  <2> HIDE DEF retracted
  <2>2. /\ Len(retracted(s)) \in Nat /\ DOMAIN retracted(s) = 1 .. Len(retracted(s))
        /\ \A i \in 1 .. Len(retracted(s)) :
             [block |-> retracted(s)[i], removed |-> TRUE] \in Notification
    BY <2>1, LenProperties, ElementOfSeq DEF Notification
  <2>3. removals(s) \in Seq(Notification)
    BY <2>2, SeqDef
  <2>4. own(s) \in Seq(Notification)
    <3>1. [block |-> block, removed |-> TRUE] \in Notification
      BY DEF Notification
    <3>2. \A e \in Notification : <<e>> \in Seq(Notification)
      OBVIOUS
    <3>3. <<>> \in Seq(Notification)
      BY EmptySeq
    <3> QED BY <3>1, <3>2, <3>3
  <2> QED BY <1>3, <2>1, <2>3, <2>4
<1>7. ASSUME NEW s \in LogSub
      PROVE  received'[s] = received[s] \o removals(s)
  <2>1. s \in Sub /\ ~mined(s)
    BY <1>2, <1>3
  <2>2. received[s] \o removals(s) \in Seq(Notification)
    <3> HIDE DEF removals
    <3> QED BY <1>6, <2>1, ConcatProperties
  <2>3. received'[s] = received[s] \o removals(s) \o own(s)
    BY <1>1, <2>1
  <2> HIDE DEF removals
  <2> QED BY <2>1, <2>2, <2>3, ConcatEmptySeq
<1>8. received' \in [Sub -> Seq(Notification)]
  <2> HIDE DEF removals, own
  <2>1. \A s \in Sub : received[s] \o removals(s) \o own(s) \in Seq(Notification)
    BY <1>6, ConcatProperties
  <2> QED BY <1>1, <2>1
<1>9. logs_sent' \in [1 .. MaxBlocks -> [LogSub -> Seq(Block)]]
  BY <1>1, <1>3, <1>4
<1>10. ASSUME NEW n \in 1 .. MaxBlocks, NEW s \in LogSub
       PROVE  logs_sent'[n][s] = IF n = number THEN <<>> ELSE logs_sent[n][s]
  BY <1>1, <1>2, <1>3, <1>4
<1>11. ServerTyped'
  <2>1. ASSUME NEW n \in 1 .. MaxBlocks, NEW s \in LogSub, NEW i \in DOMAIN logs_sent'[n][s]
        PROVE  Len(logs_sent'[n][s][i]) = n
    <3>1. n # number
      BY <1>10, <2>1
    <3>2. logs_sent'[n][s] = logs_sent[n][s]
      BY <1>10, <3>1
    <3> QED BY <2>1, <3>2 DEF SentInv, ServerTyped
  <2> QED BY <1>5, <1>8, <1>9, <2>1 DEF SentInv, ServerTyped
<1>12. SentToGiven'
  <2>1. ASSUME NEW s \in Sub, s \notin given
        PROVE  received'[s] = <<>>
    <3>1. received[s] = <<>> /\ retracted(s) = <<>>
      BY <1>2, <2>1 DEF SentInv, SentToGiven
    <3>2. ~mined(s)
      BY <1>2, <2>1
    <3>3. removals(s) = <<>> /\ own(s) = <<>>
      BY <3>1, <3>2
    <3>4. <<>> \o <<>> = <<>>
      BY EmptySeq, ConcatEmptySeq
    <3> HIDE DEF removals, own
    <3> QED BY <1>1, <3>1, <3>3, <3>4
  <2> QED BY <1>5, <1>10, <2>1 DEF SentInv, SentToGiven
<1>13. Covered'
  <2> SUFFICES ASSUME NEW s \in LogSub, NEW b \in Block
               PROVE  Occurrences(received'[s], [block |-> b, removed |-> FALSE])
                        >= Occurrences(received'[s], [block |-> b, removed |-> TRUE])
                           + Occurrences(logs_sent'[Len(b)][s], b)
    <3>1. \A s_1, b_1, r_1 :
            Count(s_1, b_1, r_1)' = Occurrences(received'[s_1], [block |-> b_1, removed |-> r_1])
      BY DEF Count, Occurrences
    <3>2. \A b_1, s_1 : Occurrences(logs_sent[Len(b_1)][s_1], b_1)'
                         = Occurrences(logs_sent'[Len(b_1)][s_1], b_1)
      BY DEF Occurrences
    <3> QED BY <3>1, <3>2 DEF Covered
  <2> DEFINE sent == [block |-> b, removed |-> FALSE]
             gone == [block |-> b, removed |-> TRUE]
             kept == logs_sent[Len(b)][s]
             logs == logs_sent[number][s]
  <2>1. s \in Sub /\ retracted(s) = logs
    BY <1>3
  <2>2. /\ Len(b) \in 1 .. MaxBlocks /\ kept \in Seq(Block) /\ logs \in Seq(Block)
        /\ received[s] \in Seq(Notification) /\ removals(s) \in Seq(Notification)
    BY <1>2, <1>3, <1>6, <2>1 DEF Block
  <2>3. /\ Occurrences(received[s], sent) \in Nat /\ Occurrences(received[s], gone) \in Nat
        /\ Occurrences(kept, b) \in Nat
    <3> HIDE DEF sent, gone, kept
    <3> QED BY <2>2, PlacesFinite
  <2>4. Occurrences(received[s], sent) >= Occurrences(received[s], gone) + Occurrences(kept, b)
    BY CountIsOccurrences DEF SentInv, Covered
  <2>5. Occurrences(removals(s), sent) = 0
    <3>1. \A i \in DOMAIN removals(s) : removals(s)[i] # sent
      OBVIOUS
    <3> HIDE DEF removals, sent
    <3> QED BY <3>1, OccurrencesNone
  <2>6. Occurrences(removals(s), gone) = Occurrences(logs, b)
    <3>1. DOMAIN removals(s) = DOMAIN logs
      BY <2>1
    <3>2. \A i \in DOMAIN logs : removals(s)[i] = gone <=> logs[i] = b
      BY <2>1
    <3>3. {i \in DOMAIN removals(s) : removals(s)[i] = gone} = {i \in DOMAIN logs : logs[i] = b}
      <4> HIDE DEF removals, gone, logs
      <4> QED BY <3>1, <3>2
    <3> HIDE DEF removals, gone, logs
    <3> QED BY <3>3 DEF Occurrences
  <2>7. /\ Occurrences(received'[s], sent) = Occurrences(received[s], sent)
        /\ Occurrences(received'[s], gone) = Occurrences(received[s], gone) + Occurrences(logs, b)
    <3> HIDE DEF removals, sent, gone, logs
    <3>1. \A x : Occurrences(received[s] \o removals(s), x)
                  = Occurrences(received[s], x) + Occurrences(removals(s), x)
      BY <2>2, OccurrencesConcat
    <3>2. received'[s] = received[s] \o removals(s)
      BY <1>7
    <3>3. /\ Occurrences(received'[s], sent) = Occurrences(received[s], sent) + 0
          /\ Occurrences(received'[s], gone) = Occurrences(received[s], gone) + Occurrences(logs, b)
      BY <2>5, <2>6, <3>1, <3>2
    <3> QED BY <2>3, <3>3
  <2>8. CASE Len(b) = number
    <3>1. kept = logs /\ logs_sent'[Len(b)][s] = <<>>
      BY <1>10, <2>2, <2>8
    <3>2. Occurrences(<<>>, b) = 0
      BY OccurrencesNone
    <3> HIDE DEF sent, gone, kept, logs
    <3>3. Occurrences(received'[s], sent)
            >= Occurrences(received'[s], gone) + Occurrences(logs_sent'[Len(b)][s], b)
      BY <2>3, <2>4, <2>7, <3>1, <3>2
    <3> QED BY <3>3 DEF sent, gone
  <2>9. CASE Len(b) # number
    <3>1. logs_sent'[Len(b)][s] = kept
      BY <1>10, <2>2, <2>9
    <3>2. Occurrences(logs, b) = 0
      <4>1. \A i \in DOMAIN logs : logs[i] # b
        BY <1>2, <2>9 DEF SentInv, ServerTyped
      <4> QED BY <4>1, OccurrencesNone
    <3> HIDE DEF sent, gone, kept, logs
    <3>3. Occurrences(received'[s], sent)
            >= Occurrences(received'[s], gone) + Occurrences(logs_sent'[Len(b)][s], b)
      BY <2>3, <2>4, <2>7, <3>1, <3>2
    <3> QED BY <3>3 DEF sent, gone
  <2> QED BY <2>8, <2>9
<1> QED BY <1>11, <1>12, <1>13 DEF SentInv

\* A block that is trimmed: nothing is kept for its number any more.
LEMMA RemovedKeeps ==
  ASSUME SentInv, NEW blocks, handle_block_removed(blocks), UNCHANGED <<subscriptions, given>>
  PROVE  SentInv'
<1>1. /\ received \in [Sub -> Seq(Notification)] /\ received' = received
      /\ logs_sent \in [1 .. MaxBlocks -> [LogSub -> Seq(Block)]]
      /\ LogSub \subseteq Sub
  BY DEF SentInv, ServerTyped, Sub, handle_block_removed
<1>2. NoneSent \in [LogSub -> Seq(Block)] /\ \A s \in LogSub : NoneSent[s] = <<>>
  BY EmptySeq DEF NoneSent
<1>3. UNCHANGED <<new_head_subs, logs_subs, mined_transactions_subs, given, Subscribed>>
  BY DEF subscriptions, Subscribed
<1>4. /\ logs_sent' \in [1 .. MaxBlocks -> [LogSub -> Seq(Block)]]
      /\ \A n \in 1 .. MaxBlocks, s \in LogSub :
           logs_sent'[n][s] = <<>> \/ logs_sent'[n][s] = logs_sent[n][s]
  BY <1>1, <1>2 DEF handle_block_removed
<1>5. ServerTyped'
  <2>1. ASSUME NEW n \in 1 .. MaxBlocks, NEW s \in LogSub, NEW i \in DOMAIN logs_sent'[n][s]
        PROVE  Len(logs_sent'[n][s][i]) = n
    BY <1>4, <2>1 DEF SentInv, ServerTyped
  <2> QED BY <1>1, <1>3, <1>4, <2>1 DEF SentInv, ServerTyped
<1>6. SentToGiven'
  BY <1>1, <1>3, <1>4 DEF SentInv, SentToGiven
<1>7. Covered'
  <2> SUFFICES ASSUME NEW s \in LogSub, NEW b \in Block
               PROVE  Count(s, b, FALSE)
                        >= Count(s, b, TRUE) + Occurrences(logs_sent'[Len(b)][s], b)
    <3>1. \A s_1, b_1, r_1 : Count(s_1, b_1, r_1)' = Count(s_1, b_1, r_1)
      BY <1>1 DEF Count
    <3>2. \A b_1, s_1 : Occurrences(logs_sent[Len(b_1)][s_1], b_1)'
                         = Occurrences(logs_sent'[Len(b_1)][s_1], b_1)
      BY DEF Occurrences
    <3> QED BY <3>1, <3>2 DEF Covered
  <2>1. /\ Len(b) \in 1 .. MaxBlocks /\ logs_sent[Len(b)][s] \in Seq(Block)
        /\ received[s] \in Seq(Notification)
    BY <1>1 DEF Block
  <2>2. \A x : Occurrences(received[s], x) \in Nat
    BY <2>1, PlacesFinite
  <2>3. Occurrences(logs_sent[Len(b)][s], b) \in Nat
    BY <2>1, PlacesFinite
  <2>4. Count(s, b, FALSE) >= Count(s, b, TRUE) + Occurrences(logs_sent[Len(b)][s], b)
    BY DEF SentInv, Covered
  <2>5. Count(s, b, FALSE) \in Nat /\ Count(s, b, TRUE) \in Nat
    BY <2>2, CountIsOccurrences
  <2>6. Occurrences(<<>>, b) = 0
    BY OccurrencesNone
  <2>7. logs_sent'[Len(b)][s] = <<>> \/ logs_sent'[Len(b)][s] = logs_sent[Len(b)][s]
    BY <1>4, <2>1
  <2>8. Occurrences(logs_sent'[Len(b)][s], b) \in {0, Occurrences(logs_sent[Len(b)][s], b)}
    BY <2>6, <2>7
  <2>9. \A x, y, z \in Nat : x >= y + z => \A w \in {0, z} : x >= y + w
    OBVIOUS
  <2> QED BY <2>3, <2>4, <2>5, <2>8, <2>9, Zenon
<1> QED BY <1>5, <1>6, <1>7 DEF SentInv

\* Requests send nothing; they may make a subscription.
LEMMA NothingSent ==
  ASSUME SentInv, UNCHANGED <<received, logs_sent>>, given \subseteq given',
         new_head_subs' \subseteq HeadSub, logs_subs' \subseteq LogSub,
         mined_transactions_subs' \subseteq MinedSub, Subscribed' \subseteq given'
  PROVE  SentInv'
<1>1. ServerTyped'
  BY DEF SentInv, ServerTyped
<1>2. SentToGiven'
  BY DEF SentInv, SentToGiven
<1>3. Covered'
  <2>1. \A s, b, r : Count(s, b, r)' = Count(s, b, r)
    BY DEF Count
  <2>2. \A s, b : Occurrences(logs_sent[Len(b)][s], b)' = Occurrences(logs_sent[Len(b)][s], b)
    BY DEF Occurrences
  <2> QED BY <2>1, <2>2 DEF SentInv, Covered
<1> QED BY <1>1, <1>2, <1>3 DEF SentInv

ServerInv == MonitorInv /\ SentInv

LEMMA MonitorStepKeeps ==
  ASSUME ServerInv, MonitorStep
  PROVE  ServerInv'
<1>1. MonitorInv' /\ EmitsBlocks(emitted')
  BY PollKeepsMonitor DEF ServerInv, MonitorStep
<1>2. HandleEvents(emitted') /\ UNCHANGED <<subscriptions, given>>
  BY DEF MonitorStep
<1>3. SentInv'
  <2>1. CASE UNCHANGED <<received, logs_sent>>
    BY <1>2, <2>1, NothingSent DEF ServerInv, SentInv, ServerTyped, subscriptions, Subscribed
  <2>2. ASSUME NEW block \in Block, handle_block_appended(block) \/ handle_block_forked(block)
        PROVE  SentInv'
    BY <1>2, <2>2, AppendedKeeps, ForkedKeeps DEF ServerInv
  <2>3. ASSUME NEW blocks, handle_block_removed(blocks)
        PROVE  SentInv'
    BY <1>2, <2>3, RemovedKeeps DEF ServerInv
  <2>4. \/ UNCHANGED <<received, logs_sent>>
        \/ \E block \in Block : handle_block_appended(block) \/ handle_block_forked(block)
        \/ \E blocks : handle_block_removed(blocks)
    <3>1. ASSUME NEW events, EmitsBlocks(events), HandleEvents(events)
          PROVE  \/ UNCHANGED <<received, logs_sent>>
                 \/ \E block \in Block : handle_block_appended(block) \/ handle_block_forked(block)
                 \/ \E blocks : handle_block_removed(blocks)
      BY <3>1, EventsHandled
    <3> QED BY <1>1, <1>2, <3>1
  <2> QED BY <2>1, <2>2, <2>3, <2>4
<1> QED BY <1>1, <1>3 DEF ServerInv

LEMMA ChainKeepsServer ==
  ASSUME ServerInv, ChainMoves, UNCHANGED server_vars
  PROVE  ServerInv'
<1>1. MonitorInv'
  BY ChainKeepsMonitor DEF ServerInv
<1>2. SentInv'
  BY NothingSent DEF ServerInv, SentInv, ServerTyped, server_vars, subscriptions, Subscribed
<1> QED BY <1>1, <1>2 DEF ServerInv

LEMMA SubscribeKeeps ==
  ASSUME ServerInv, NEW s, handle_new_heads(s) \/ handle_logs(s) \/ handle_minedTransactions(s)
  PROVE  ServerInv' /\ given' = given \cup {s} /\ UNCHANGED received
<1>1. Subscribe(s)
  BY DEF handle_new_heads, handle_logs, handle_minedTransactions
<1>2. /\ UNCHANGED <<chain, lib, reversible_blocks, polls, received, logs_sent>>
      /\ given' = given \cup {s}
  BY <1>1 DEF Subscribe, check_start_monitor, start, rpc_vars
<1>3. MonitorInv'
  BY <1>2 DEF ServerInv, MonitorInv
<1>4. /\ new_head_subs' \subseteq HeadSub /\ logs_subs' \subseteq LogSub
      /\ mined_transactions_subs' \subseteq MinedSub /\ Subscribed' \subseteq given'
  BY <1>2 DEF ServerInv, SentInv, ServerTyped, Subscribed, handle_new_heads, handle_logs,
       handle_minedTransactions
<1>5. SentInv'
  BY <1>2, <1>4, NothingSent DEF ServerInv
<1> QED BY <1>2, <1>3, <1>5 DEF ServerInv

LEMMA LeaveKeeps ==
  ASSUME ServerInv, NEW subs, Leave(subs)
  PROVE  ServerInv' /\ UNCHANGED <<given, received>>
<1>1. UNCHANGED <<chain, lib, reversible_blocks, polls, received, logs_sent, given>>
  BY DEF Leave, check_stop_monitor, stop, rpc_vars
<1>2. MonitorInv'
  BY <1>1 DEF ServerInv, MonitorInv
<1>3. /\ new_head_subs' \subseteq HeadSub /\ logs_subs' \subseteq LogSub
      /\ mined_transactions_subs' \subseteq MinedSub /\ Subscribed' \subseteq given'
  BY <1>1 DEF ServerInv, SentInv, ServerTyped, Subscribed, Leave
<1>4. SentInv'
  BY <1>1, <1>3, NothingSent DEF ServerInv
<1> QED BY <1>1, <1>2, <1>4 DEF ServerInv

LEMMA ServerInitInv ==
  ASSUME Init
  PROVE  ServerInv
<1>1. MonitorInv
  BY MonitorInitInv DEF Init
<1>2. /\ received = [s \in Sub |-> <<>>]
      /\ logs_sent = [n \in 1 .. MaxBlocks |-> NoneSent]
      /\ LogSub \subseteq Sub
  BY DEF Init, Sub
<1>3. \A n \in 1 .. MaxBlocks, s \in LogSub : logs_sent[n][s] = <<>>
  BY <1>2 DEF NoneSent
<1>4. ServerTyped
  <2>1. received \in [Sub -> Seq(Notification)]
    BY <1>2, EmptySeq
  <2>2. logs_sent \in [1 .. MaxBlocks -> [LogSub -> Seq(Block)]]
    BY <1>2, EmptySeq DEF NoneSent
  <2>3. \A n \in 1 .. MaxBlocks, s \in LogSub : DOMAIN logs_sent[n][s] = {}
    BY <1>3
  <2> QED BY <2>1, <2>2, <2>3 DEF Init, ServerTyped, Subscribed
<1>5. SentToGiven
  BY <1>2, <1>3 DEF SentToGiven
<1>6. Covered
  <2> SUFFICES ASSUME NEW s \in LogSub, NEW b \in Block
               PROVE  Count(s, b, FALSE)
                        >= Count(s, b, TRUE) + Occurrences(logs_sent[Len(b)][s], b)
    BY DEF Covered
  <2>1. Len(b) \in 1 .. MaxBlocks /\ s \in Sub
    BY <1>2 DEF Block
  <2>2. \A x : Occurrences(<<>>, x) = 0
    BY OccurrencesNone
  <2>3. received[s] = <<>> /\ logs_sent[Len(b)][s] = <<>>
    BY <1>2, <1>3, <2>1
  <2>4. /\ Count(s, b, FALSE) = 0 /\ Count(s, b, TRUE) = 0
        /\ Occurrences(logs_sent[Len(b)][s], b) = 0
    BY <2>2, <2>3, CountIsOccurrences
  <2>5. 0 >= 0 + 0
    OBVIOUS
  <2> QED BY <2>4, <2>5
<1> QED BY <1>1, <1>4, <1>5, <1>6 DEF ServerInv, SentInv

\* For every chain that the RPC may show, in any number of overlapping polls, with any
\* subscriptions that come and go: a log is retracted (subscription-server.js
\* handle_block_forked) at most as often as it was sent.
THEOREM NeverRetractedTwice == Spec => []RetractedOnce
<1>1. Init => ServerInv
  BY ServerInitInv
<1>2. ServerInv /\ [Next]_vars => ServerInv'
  <2> SUFFICES ASSUME ServerInv, [Next]_vars
               PROVE  ServerInv'
    OBVIOUS
  <2>1. CASE MonitorStep
    BY <2>1, MonitorStepKeeps
  <2>2. CASE Request
    BY <2>2, SubscribeKeeps, LeaveKeeps DEF Request, handle_unsubscribe, handle_disconnect
  <2>3. CASE ChainMoves /\ UNCHANGED server_vars
    BY <2>3, ChainKeepsServer
  <2>4. CASE UNCHANGED vars
    <3>1. MonitorInv'
      BY <2>4 DEF ServerInv, MonitorInv, vars, monitor_vars, rpc_vars
    <3>2. SentInv'
      BY <2>4, NothingSent DEF ServerInv, SentInv, ServerTyped, vars, server_vars,
           subscriptions, Subscribed
    <3> QED BY <3>1, <3>2 DEF ServerInv
  <2> QED BY <2>1, <2>2, <2>3, <2>4 DEF Next
<1>3. ServerInv => RetractedOnce
  <2> SUFFICES ASSUME ServerInv, NEW s \in LogSub, NEW i \in DOMAIN received[s]
               PROVE  Count(s, received[s][i].block, FALSE) >= Count(s, received[s][i].block, TRUE)
    BY DEF RetractedOnce
  <2> DEFINE b == received[s][i].block
  <2>1. received[s] \in Seq(Notification)
    BY DEF ServerInv, SentInv, ServerTyped, Sub
  <2>2. b \in Block
    <3>1. received[s][i] \in Notification
      BY <2>1, LenProperties, ElementOfSeq
    <3> QED BY <3>1 DEF Notification
  <2> HIDE DEF b
  <2>3. Len(b) \in 1 .. MaxBlocks /\ logs_sent[Len(b)][s] \in Seq(Block)
    <3>1. Len(b) \in 1 .. MaxBlocks
      BY <2>2 DEF Block
    <3>2. logs_sent \in [1 .. MaxBlocks -> [LogSub -> Seq(Block)]]
      BY DEF ServerInv, SentInv, ServerTyped
    <3> QED BY <3>1, <3>2
  <2>4. Occurrences(logs_sent[Len(b)][s], b) \in Nat
    BY <2>3, PlacesFinite
  <2>5. \A x : Occurrences(received[s], x) \in Nat
    BY <2>1, PlacesFinite
  <2>6. Count(s, b, FALSE) \in Nat /\ Count(s, b, TRUE) \in Nat
    BY <2>5, CountIsOccurrences
  <2>7. Count(s, b, FALSE) >= Count(s, b, TRUE) + Occurrences(logs_sent[Len(b)][s], b)
    BY <2>2 DEF ServerInv, SentInv, Covered
  <2>8. \A x, y, z \in Nat : x >= y + z => x >= y
    OBVIOUS
  <2>9. Count(s, b, FALSE) >= Count(s, b, TRUE)
    BY <2>4, <2>6, <2>7, <2>8, Zenon
  <2> QED BY <2>9 DEF b
<1> QED BY <1>1, <1>2, <1>3, PTL DEF Spec

-----------------------------------------------------------------------------
(* What the clients are told first *)

\* Calls are handled in their order: while the RPC is awaited, or after an exception, none
\* has been, the miner is awaited at a call for it, and subscriptions are made at their turn.
InOrder ==
  /\ \A m \in Message : at[m] \in {"new", "rpc", "thrown", "exited"} => i_[m] = 1
  /\ \A m \in Message : at[m] = "miner" => i_[m] <= Len(Calls[m]) /\ Call(m).method = "miner"
  /\ \A m \in Message : \A j \in DOMAIN Calls[m] :
       Calls[m][j].method = "eth_subscribe" /\ Calls[m][j].sub \in given => j < i_[m]

ToldInv == ServerInv /\ InOrder /\ ToldFirst

\* The state of a message, next to that of the server.
LEMMA CallsAhead ==
  ASSUME HandlerTyped, NEW m \in Message
  PROVE  /\ i_[m] \in Nat /\ i_[m] >= 1
         /\ Len(Calls[m]) \in Nat /\ DOMAIN Calls[m] = 1 .. Len(Calls[m])
BY BatchAssumption, LenProperties DEF HandlerTyped

\* The loop goes on, by at most one call, and sends nothing.
LEMMA LoopTells ==
  ASSUME HandlerTyped, ToldFirst, UNCHANGED received, NEW m \in Message,
         \A n \in Message : n # m => at'[n] = at[n] /\ i_'[n] = i_[n],
         i_'[m] = i_[m] \/ i_'[m] = i_[m] + 1,
         at'[m] # "done" => at[m] # "done"
  PROVE  ToldFirst'
<1> SUFFICES ASSUME NEW n \in Message, at'[n] # "done", NEW j \in DOMAIN Calls[n],
                    Calls[n][j].method = "eth_subscribe", received[Calls[n][j].sub] # <<>>
             PROVE  \E k \in j + 1 .. i_'[n] : k <= Len(Calls[n]) /\ Calls[n][k].method = "miner"
  BY DEF ToldFirst
<1>1. PICK k \in j + 1 .. i_[n] : k <= Len(Calls[n]) /\ Calls[n][k].method = "miner"
  BY DEF ToldFirst
<1>2. i_[n] \in Nat /\ j \in Nat /\ (i_'[n] = i_[n] \/ i_'[n] = i_[n] + 1)
  BY CallsAhead
<1>3. k \in j + 1 .. i_'[n]
  BY <1>2
<1> QED BY <1>1, <1>3

\* A step that makes no subscription, or only that of the call at hand.
LEMMA LoopInOrder ==
  ASSUME HandlerTyped, InOrder, NEW m \in Message,
         \A n \in Message : n # m => at'[n] = at[n] /\ i_'[n] = i_[n],
         i_'[m] = i_[m] \/ i_'[m] = i_[m] + 1,
         at'[m] \in {"new", "rpc", "thrown", "exited"} =>
           at[m] \in {"new", "rpc", "thrown", "exited"} /\ i_'[m] = i_[m],
         at'[m] = "miner" => i_'[m] <= Len(Calls[m]) /\ Calls[m][i_'[m]].method = "miner",
         \/ given' = given
         \/ /\ Running(m, "eth_subscribe") /\ i_'[m] = i_[m] + 1
            /\ given' = given \cup {Call(m).sub}
  PROVE  InOrder'
<1>1. ASSUME NEW n \in Message, at'[n] \in {"new", "rpc", "thrown", "exited"}
      PROVE  i_'[n] = 1
  BY <1>1 DEF InOrder
<1>2. ASSUME NEW n \in Message, at'[n] = "miner"
      PROVE  i_'[n] <= Len(Calls[n]) /\ Calls[n][i_'[n]].method = "miner"
  BY <1>2 DEF InOrder, Call
<1>3. ASSUME NEW n \in Message, NEW j \in DOMAIN Calls[n],
             Calls[n][j].method = "eth_subscribe", Calls[n][j].sub \in given'
      PROVE  j < i_'[n]
  <2>1. /\ i_[n] \in Nat /\ j \in Nat /\ (i_'[n] = i_[n] \/ i_'[n] = i_[n] + 1)
    BY CallsAhead
  <2>2. CASE Calls[n][j].sub \in given
    <3>1. j < i_[n]
      BY <1>3, <2>2 DEF InOrder
    <3> QED BY <2>1, <3>1
  <2>3. CASE Calls[n][j].sub \notin given
    <3>1. /\ Running(m, "eth_subscribe") /\ i_'[m] = i_[m] + 1
          /\ Calls[n][j].sub = Call(m).sub
      BY <1>3, <2>3
    <3>2. i_[m] \in DOMAIN Calls[m] /\ Call(m).method = "eth_subscribe"
      BY <3>1, CallsAhead DEF Running
    <3>3. n = m /\ j = i_[m]
      BY <1>3, <3>1, <3>2, SubscriptionAssumption DEF Call
    <3> QED BY <2>1, <3>1, <3>3
  <2> QED BY <2>2, <2>3
<1> QED BY <1>1, <1>2, <1>3 DEF InOrder, Call

LEMMA ServerStutters ==
  ASSUME ServerInv, UNCHANGED vars
  PROVE  ServerInv' /\ UNCHANGED <<received, given>>
<1>1. MonitorInv'
  BY DEF ServerInv, MonitorInv, vars, monitor_vars, rpc_vars
<1>2. SentInv' /\ UNCHANGED <<received, given>>
  BY NothingSent DEF ServerInv, SentInv, ServerTyped, vars, server_vars, subscriptions, Subscribed
<1> QED BY <1>1, <1>2 DEF ServerInv

LEMMA AnswersTell ==
  ASSUME HandlerTyped, ToldInv, NEW m \in Message,
         \/ handle_message(m) \/ RpcAnswers(m) \/ RpcFails(m) \/ AwaitsMiner(m) \/ Sends(m)
  PROVE  ToldInv'
<1>1. UNCHANGED <<vars, i_>>
  BY DEF handle_message, RpcAnswers, RpcFails, AwaitsMiner, Sends
<1>2. ServerInv' /\ UNCHANGED <<received, given>>
  BY <1>1, ServerStutters DEF ToldInv
<1>3. /\ \A n \in Message : n # m => at'[n] = at[n]
      /\ at'[m] \in {"new", "rpc", "thrown", "exited"} =>
           at[m] \in {"new", "rpc", "thrown", "exited"}
      /\ at'[m] = "miner" => i_[m] <= Len(Calls[m]) /\ Calls[m][i_[m]].method = "miner"
      /\ at'[m] # "done" => at[m] # "done"
  BY DEF HandlerTyped, handle_message, RpcAnswers, RpcFails, AwaitsMiner, Sends, Running, Call
<1>4. ToldFirst'
  BY <1>1, <1>2, <1>3, LoopTells DEF ToldInv
<1>5. InOrder'
  BY <1>1, <1>2, <1>3, LoopInOrder DEF ToldInv
<1> QED BY <1>2, <1>4, <1>5 DEF ToldInv

LEMMA RespondsTell ==
  ASSUME HandlerTyped, ToldInv, NEW m \in Message,
         \/ Subscribes(m) \/ RefusesSubscription(m) \/ RefusesUnsubscribe(m) \/ Unsubscribes(m)
         \/ MinerAnswers(m) \/ TakesAnswer(m)
  PROVE  ToldInv'
<1>1. \E answer : Respond(m, answer)
  BY DEF Subscribes, RefusesSubscription, RefusesUnsubscribe, Unsubscribes, MinerAnswers, TakesAnswer
<1>2. i_'[m] = i_[m] + 1 /\ \A n \in Message : n # m => i_'[n] = i_[n]
  BY <1>1 DEF Respond, HandlerTyped
<1>3. /\ at'[m] = "loop" /\ at[m] \in {"loop", "miner"}
      /\ \A n \in Message : n # m => at'[n] = at[n]
  BY DEF HandlerTyped, Subscribes, RefusesSubscription, RefusesUnsubscribe, Unsubscribes,
       MinerAnswers, TakesAnswer, Running
<1>4. /\ ServerInv' /\ UNCHANGED received
      /\ \/ given' = given
         \/ Running(m, "eth_subscribe") /\ given' = given \cup {Call(m).sub}
  <2>1. CASE Subscribes(m)
    BY <2>1, SubscribeKeeps DEF Subscribes, ToldInv
  <2>2. CASE Unsubscribes(m)
    BY <2>2, LeaveKeeps DEF Unsubscribes, handle_unsubscribe, ToldInv
  <2>3. CASE UNCHANGED vars
    BY <2>3, ServerStutters DEF ToldInv
  <2> QED BY <2>1, <2>2, <2>3 DEF RefusesSubscription, RefusesUnsubscribe, MinerAnswers, TakesAnswer
<1>5. ToldFirst'
  BY <1>2, <1>3, <1>4, LoopTells DEF ToldInv
<1>6. InOrder'
  BY <1>2, <1>3, <1>4, LoopInOrder DEF ToldInv
<1> QED BY <1>4, <1>5, <1>6 DEF ToldInv

\* What does not concern the messages, and sends nothing.
LEMMA CloseTells ==
  ASSUME ToldInv, NEW c, handle_close(c) \/ UNCHANGED wsvars
  PROVE  ToldInv'
<1>1. UNCHANGED <<at, i_>>
  BY DEF handle_close, wsvars, handler_vars
<1>2. ServerInv' /\ UNCHANGED <<given, received>>
  BY LeaveKeeps, ServerStutters DEF handle_close, handle_disconnect, wsvars, ToldInv
<1> QED BY <1>1, <1>2 DEF ToldInv, InOrder, ToldFirst, Call

\* Something is sent only while every message awaits an answer, or has not been received,
\* or has been answered.
LEMMA MonitorTells ==
  ASSUME HandlerTyped, ToldInv, MonitorRuns
  PROVE  ToldInv'
<1>1. UNCHANGED <<at, i_, given>> /\ \A m \in Message : at[m] # "loop"
  BY DEF MonitorRuns, Idle, MonitorStep, handler_vars, server_vars
<1>2. ServerInv'
  BY MonitorStepKeeps, ChainKeepsServer DEF MonitorRuns, ToldInv
<1>3. InOrder'
  BY <1>1 DEF ToldInv, InOrder, Call
<1>4. ToldFirst'
  <2> SUFFICES ASSUME NEW m \in Message, at[m] # "done", NEW j \in DOMAIN Calls[m],
                      Calls[m][j].method = "eth_subscribe", received'[Calls[m][j].sub] # <<>>
               PROVE  \E k \in j + 1 .. i_[m] : k <= Len(Calls[m]) /\ Calls[m][k].method = "miner"
    BY <1>1 DEF ToldFirst
  <2>1. Calls[m][j].sub \in Sub
    BY MessageAssumption
  <2>2. Calls[m][j].sub \in given
    BY <1>1, <1>2, <2>1 DEF ServerInv, SentInv, SentToGiven
  <2>3. j < i_[m] /\ j \in Nat /\ j >= 1 /\ i_[m] \in Nat
    BY <2>2, CallsAhead DEF ToldInv, InOrder
  <2>4. at[m] = "miner"
    BY <1>1, <2>3 DEF HandlerTyped, ToldInv, InOrder
  <2>5. i_[m] <= Len(Calls[m]) /\ Calls[m][i_[m]].method = "miner"
    BY <2>4 DEF ToldInv, InOrder, Call
  <2>6. i_[m] \in j + 1 .. i_[m]
    BY <2>3
  <2> QED BY <2>5, <2>6
<1> QED BY <1>2, <1>3, <1>4 DEF ToldInv

\* For every set of batches: a client that is notified of something has had the answer to
\* the call that made the subscription, unless its batch awaited the miner in between
\* (websocket-handler.js sends the answers of a batch together).
THEOREM ToldBeforeNotified == WsSpec => []ToldFirst
<1>1. WsInit => ToldInv
  <2> SUFFICES ASSUME WsInit
               PROVE  ToldInv
    OBVIOUS
  <2>1. ServerInv
    BY ServerInitInv DEF WsInit
  <2>2. InOrder
    BY DEF WsInit, Init, InOrder
  <2>3. ToldFirst
    <3>1. \A s \in Sub : received[s] = <<>>
      BY DEF WsInit, Init
    <3> QED BY <3>1, MessageAssumption DEF ToldFirst
  <2> QED BY <2>1, <2>2, <2>3 DEF ToldInv
<1>2. HandlerTyped /\ ToldInv /\ [WsNext]_wsvars => ToldInv'
  <2> SUFFICES ASSUME HandlerTyped, ToldInv, [WsNext]_wsvars
               PROVE  ToldInv'
    OBVIOUS
  <2>1. CASE \E m \in Message : handle_message(m) \/ Handling(m)
    BY <2>1, AnswersTell, RespondsTell DEF Handling
  <2>2. CASE \E m \in Message : handle_close(From[m])
    BY <2>2, CloseTells
  <2>3. CASE MonitorRuns
    BY <2>3, MonitorTells
  <2>4. CASE UNCHANGED wsvars
    BY <2>4, CloseTells
  <2> QED BY <2>1, <2>2, <2>3, <2>4 DEF WsNext
<1>3. OrphansInv => HandlerTyped
  BY DEF OrphansInv
<1>4. ToldInv => ToldFirst
  BY DEF ToldInv
<1> QED BY <1>1, <1>2, <1>3, <1>4, HandlerInvariant, PTL DEF WsSpec

-----------------------------------------------------------------------------
(* The calls of a batch that go to the RPC, by their rank *)

OthersTo(m, p) == {q \in 1 .. p : Calls[m][q].method = "other"}

Rank(m, p) == Cardinality(OthersTo(m, p))

LEMMA CallsTyped ==
  ASSUME NEW m \in Message
  PROVE  /\ Len(Calls[m]) \in Nat /\ DOMAIN Calls[m] = 1 .. Len(Calls[m])
         /\ \A p \in 1 .. Len(Calls[m]) :
              Calls[m][p] \in [id : Nat, method : Method, sub : Sub \cup {None}]
         /\ \A p, q \in 1 .. Len(Calls[m]) : Calls[m][p].id = Calls[m][q].id => p = q
<1>1. Calls[m] \in Seq([id : Nat, method : Method, sub : Sub \cup {None}])
  BY BatchAssumption
<1>2. Len(Calls[m]) \in Nat /\ DOMAIN Calls[m] = 1 .. Len(Calls[m])
  BY <1>1, LenProperties
<1>3. \A p \in 1 .. Len(Calls[m]) :
        Calls[m][p] \in [id : Nat, method : Method, sub : Sub \cup {None}]
  BY <1>1, ElementOfSeq
<1>4. \A p, q \in 1 .. Len(Calls[m]) : Calls[m][p].id = Calls[m][q].id => p = q
  BY <1>2, MessageAssumption
<1> QED BY <1>2, <1>3, <1>4

LEMMA OthersFinite ==
  ASSUME NEW m, NEW p \in Nat
  PROVE  IsFiniteSet(OthersTo(m, p)) /\ Rank(m, p) \in Nat
<1>1. IsFiniteSet(1 .. p)
  BY FS_Interval
<1>2. OthersTo(m, p) \in SUBSET (1 .. p)
  BY DEF OthersTo
<1>3. IsFiniteSet(OthersTo(m, p))
  BY <1>1, <1>2, FS_Subset
<1> QED BY <1>3, FS_CardinalityType DEF Rank

LEMMA RankOfNone ==
  ASSUME NEW m
  PROVE  Rank(m, 0) = 0
<1>1. OthersTo(m, 0) = {}
  BY DEF OthersTo
<1> QED BY <1>1, FS_EmptySet DEF Rank

LEMMA RankStep ==
  ASSUME NEW m, NEW p \in Nat
  PROVE  Rank(m, p + 1) = IF Calls[m][p + 1].method = "other" THEN Rank(m, p) + 1 ELSE Rank(m, p)
<1>1. 1 .. p + 1 = 1 .. p \cup {p + 1} /\ p + 1 \notin 1 .. p
  OBVIOUS
<1>2. CASE Calls[m][p + 1].method = "other"
  <2>1. OthersTo(m, p + 1) = OthersTo(m, p) \cup {p + 1} /\ p + 1 \notin OthersTo(m, p)
    BY <1>1, <1>2 DEF OthersTo
  <2>2. IsFiniteSet(OthersTo(m, p))
    BY OthersFinite
  <2>3. Cardinality(OthersTo(m, p) \cup {p + 1}) = Cardinality(OthersTo(m, p)) + 1
    BY <2>1, <2>2, FS_AddElement
  <2> QED BY <1>2, <2>1, <2>3 DEF Rank
<1>3. CASE Calls[m][p + 1].method # "other"
  <2>1. OthersTo(m, p + 1) = OthersTo(m, p)
    BY <1>1, <1>3 DEF OthersTo
  <2> QED BY <1>3, <2>1 DEF Rank
<1> QED BY <1>2, <1>3

LEMMA RankGrows ==
  ASSUME NEW m, NEW p \in Nat, NEW q \in Nat, p < q
  PROVE  /\ Rank(m, p) <= Rank(m, q)
         /\ Calls[m][q].method = "other" => Rank(m, p) < Rank(m, q)
<1>1. OthersTo(m, p) \in SUBSET OthersTo(m, q) /\ IsFiniteSet(OthersTo(m, q))
  <2>1. OthersTo(m, p) \subseteq OthersTo(m, q)
    BY DEF OthersTo
  <2> QED BY <2>1, OthersFinite
<1>2. /\ Rank(m, p) <= Rank(m, q)
      /\ Rank(m, q) = Rank(m, p) => OthersTo(m, q) = OthersTo(m, p)
  BY <1>1, FS_Subset DEF Rank
<1>3. Rank(m, p) \in Nat /\ Rank(m, q) \in Nat
  BY OthersFinite
<1>4. Calls[m][q].method = "other" => q \in OthersTo(m, q) /\ q \notin OthersTo(m, p)
  BY DEF OthersTo
<1>5. \A x, y \in Nat : x <= y /\ y # x => x < y
  OBVIOUS
<1> QED BY <1>2, <1>3, <1>4, <1>5

\* The request to the RPC has so many calls as there are in the batch.
LEMMA RankOfAll ==
  ASSUME NEW m \in Message
  PROVE  IsFiniteSet(data2(m)) /\ Cardinality(data2(m)) = Rank(m, Len(Calls[m]))
<1> DEFINE S == OthersTo(m, Len(Calls[m]))
           f == [q \in S |-> Calls[m][q]]
<1>1. data2(m) = {Calls[m][q] : q \in S}
  BY CallsTyped DEF data2, OthersTo, Range
<1>2. \A p, q \in S : Calls[m][p] = Calls[m][q] => p = q
  BY CallsTyped DEF OthersTo
<1> HIDE DEF S
<1>3. f \in [S -> data2(m)] /\ (\A p, q \in S : f[p] = f[q] => p = q)
      /\ \A c \in data2(m) : \E q \in S : f[q] = c
  BY <1>1, <1>2
<1>4. f \in Bijection(S, data2(m))
  <2> HIDE DEF f
  <2> QED BY <1>3, Fun_IsBij
<1>5. ExistsBijection(S, data2(m)) /\ IsFiniteSet(S)
  BY <1>4, CallsTyped, OthersFinite DEF ExistsBijection, S
<1> QED BY <1>5, FS_Bijection DEF Rank, S

-----------------------------------------------------------------------------
(* Every call of a batch is answered once *)

Answer == [id : Nat, result : Sub \cup {None, "answer", "true"}]

\* The answers of the RPC, to different calls, in some order; the calls before i have taken
\* them one after the other, and those that found none left have an answer of their own.
Taken(m, i, data, index, answers) ==
  \E order \in Injection(1 .. Len(data), data2(m)) :
    /\ \A x \in 1 .. Len(data) : data[x] = Result(order[x].id, "answer")
    /\ index = IF Rank(m, i - 1) <= Len(data) THEN Rank(m, i - 1) ELSE Len(data)
    /\ \A p \in 1 .. i - 1 : Calls[m][p].method = "other" =>
         answers[p].id = IF Rank(m, p) <= Len(data) THEN order[Rank(m, p)].id ELSE Calls[m][p].id

\* The calls of m before i are answered, those that do not go to the RPC with their own id.
Answers(m, i, data, index, answers) ==
  /\ i \in 1 .. Len(Calls[m]) + 1
  /\ answers \in Seq(Answer) /\ Len(answers) = i - 1
  /\ \A p \in 1 .. i - 1 : Calls[m][p].method # "other" => answers[p].id = Calls[m][p].id
  /\ Taken(m, i, data, index, answers)

\* A call is answered with its own id: one that is not for the RPC, or one that finds all
\* answers of the RPC taken.
LEMMA OwnAnswer ==
  ASSUME NEW m \in Message, NEW i, NEW data \in Seq(Answer), NEW index, NEW answers,
         NEW answer \in Answer,
         Answers(m, i, data, index, answers), i <= Len(Calls[m]), answer.id = Calls[m][i].id,
         Calls[m][i].method # "other" \/ ~ (index < Len(data))
  PROVE  Answers(m, i + 1, data, index, Append(answers, answer))
<1> DEFINE longer == Append(answers, answer)
<1>1. Len(Calls[m]) \in Nat /\ i \in Nat /\ i >= 1 /\ i \in 1 .. Len(Calls[m])
      /\ Len(data) \in Nat
  BY CallsTyped, LenProperties DEF Answers
<1>2. /\ longer \in Seq(Answer) /\ Len(longer) = i
      /\ \A p \in 1 .. i - 1 : longer[p] = answers[p]
      /\ longer[i] = answer
  <2>1. answers \in Seq(Answer) /\ Len(answers) = i - 1 /\ (i - 1) + 1 = i
    BY <1>1 DEF Answers
  <2> QED BY <2>1, AppendProperties
<1> HIDE DEF longer
<1>3. (i + 1) - 1 = i /\ i + 1 \in 1 .. Len(Calls[m]) + 1 /\ 1 .. i = 1 .. i - 1 \cup {i}
  BY <1>1
<1>4. ASSUME NEW p \in 1 .. i, Calls[m][p].method # "other"
      PROVE  longer[p].id = Calls[m][p].id
  BY <1>2, <1>3, <1>4 DEF Answers
<1>5. Taken(m, i + 1, data, index, longer)
  <2>1. PICK order \in Injection(1 .. Len(data), data2(m)) :
          /\ \A x \in 1 .. Len(data) : data[x] = Result(order[x].id, "answer")
          /\ index = IF Rank(m, i - 1) <= Len(data) THEN Rank(m, i - 1) ELSE Len(data)
          /\ \A p \in 1 .. i - 1 : Calls[m][p].method = "other" =>
               answers[p].id = IF Rank(m, p) <= Len(data) THEN order[Rank(m, p)].id
                               ELSE Calls[m][p].id
    BY DEF Answers, Taken
  <2>2. /\ Rank(m, i - 1) \in Nat /\ Rank(m, i) \in Nat
        /\ Rank(m, i) = IF Calls[m][i].method = "other" THEN Rank(m, i - 1) + 1 ELSE Rank(m, i - 1)
    <3>1. i - 1 \in Nat /\ (i - 1) + 1 = i
      BY <1>1
    <3>2. Rank(m, (i - 1) + 1) = IF Calls[m][(i - 1) + 1].method = "other"
                                  THEN Rank(m, i - 1) + 1 ELSE Rank(m, i - 1)
      BY <3>1, RankStep
    <3>3. Rank(m, i - 1) \in Nat /\ Rank(m, i) \in Nat
      BY <1>1, <3>1, OthersFinite
    <3> QED BY <3>1, <3>2, <3>3
  <2>3. Calls[m][i].method = "other" => Rank(m, i - 1) >= Len(data) /\ ~ (Rank(m, i) <= Len(data))
    BY <1>1, <2>1, <2>2
  <2>4. index = IF Rank(m, i) <= Len(data) THEN Rank(m, i) ELSE Len(data)
    BY <1>1, <2>1, <2>2, <2>3
  <2>5. ASSUME NEW p \in 1 .. i, Calls[m][p].method = "other"
        PROVE  longer[p].id = IF Rank(m, p) <= Len(data) THEN order[Rank(m, p)].id
                              ELSE Calls[m][p].id
    <3>1. CASE p = i
      BY <1>2, <2>3, <2>5, <3>1
    <3>2. CASE p \in 1 .. i - 1
      BY <1>2, <2>1, <2>5, <3>2
    <3> QED BY <1>3, <3>1, <3>2
  <2> QED BY <1>3, <2>1, <2>4, <2>5 DEF Taken
<1>6. Answers(m, i + 1, data, index, longer)
  BY <1>2, <1>3, <1>4, <1>5 DEF Answers
<1> QED BY <1>6 DEF longer

\* A call is answered with the next answer of the RPC.
LEMMA NextAnswer ==
  ASSUME NEW m \in Message, NEW i, NEW data \in Seq(Answer), NEW index, NEW answers,
         Answers(m, i, data, index, answers), i <= Len(Calls[m]),
         Calls[m][i].method = "other", index < Len(data)
  PROVE  /\ index \in Nat /\ data[index + 1] \in Answer
         /\ Answers(m, i + 1, data, index + 1, Append(answers, data[index + 1]))
<1>1. /\ Len(Calls[m]) \in Nat /\ i \in Nat /\ i >= 1 /\ i \in 1 .. Len(Calls[m])
      /\ Len(data) \in Nat
  BY CallsTyped, LenProperties DEF Answers
<1>2. PICK order \in Injection(1 .. Len(data), data2(m)) :
        /\ \A x \in 1 .. Len(data) : data[x] = Result(order[x].id, "answer")
        /\ index = IF Rank(m, i - 1) <= Len(data) THEN Rank(m, i - 1) ELSE Len(data)
        /\ \A p \in 1 .. i - 1 : Calls[m][p].method = "other" =>
             answers[p].id = IF Rank(m, p) <= Len(data) THEN order[Rank(m, p)].id
                             ELSE Calls[m][p].id
  BY DEF Answers, Taken
<1>3. /\ index \in Nat /\ Rank(m, i) = index + 1 /\ Rank(m, i) <= Len(data)
      /\ index + 1 \in 1 .. Len(data)
  <2>1. i - 1 \in Nat /\ (i - 1) + 1 = i
    BY <1>1
  <2>2. Rank(m, (i - 1) + 1) = IF Calls[m][(i - 1) + 1].method = "other"
                                THEN Rank(m, i - 1) + 1 ELSE Rank(m, i - 1)
    BY <2>1, RankStep
  <2>3. Rank(m, i - 1) \in Nat
    BY <2>1, OthersFinite
  <2>4. index = Rank(m, i - 1)
    BY <1>1, <1>2, <2>3
  <2>5. Rank(m, i) = index + 1
    BY <2>1, <2>2, <2>4
  <2>6. index \in Nat
    BY <2>3, <2>4
  <2>7. index + 1 <= Len(data)
    BY <1>1, <2>6
  <2> QED BY <1>1, <2>5, <2>6, <2>7
<1>4. data[index + 1] \in Answer
  BY <1>3, ElementOfSeq
<1>5. data[index + 1].id = order[Rank(m, i)].id
  <2>1. data[index + 1] = Result(order[index + 1].id, "answer")
    BY <1>2, <1>3
  <2> QED BY <1>3, <2>1 DEF Result
<1> DEFINE longer == Append(answers, data[index + 1])
<1>6. /\ longer \in Seq(Answer) /\ Len(longer) = i
      /\ \A p \in 1 .. i - 1 : longer[p] = answers[p]
      /\ longer[i] = data[index + 1]
  <2>1. answers \in Seq(Answer) /\ Len(answers) = i - 1 /\ (i - 1) + 1 = i
    BY <1>1 DEF Answers
  <2> QED BY <1>4, <2>1, AppendProperties
<1> HIDE DEF longer
<1>7. (i + 1) - 1 = i /\ i + 1 \in 1 .. Len(Calls[m]) + 1 /\ 1 .. i = 1 .. i - 1 \cup {i}
  BY <1>1
<1>8. \A p \in 1 .. i : Calls[m][p].method # "other" => longer[p].id = Calls[m][p].id
  BY <1>6, <1>7 DEF Answers
<1>9. ASSUME NEW p \in 1 .. i, Calls[m][p].method = "other"
      PROVE  longer[p].id = IF Rank(m, p) <= Len(data) THEN order[Rank(m, p)].id
                            ELSE Calls[m][p].id
  <2>1. CASE p = i
    BY <1>3, <1>5, <1>6, <2>1
  <2>2. CASE p \in 1 .. i - 1
    BY <1>2, <1>6, <1>9, <2>2
  <2> QED BY <1>7, <2>1, <2>2
<1>10. Taken(m, i + 1, data, index + 1, longer)
  BY <1>2, <1>3, <1>7, <1>9 DEF Taken
<1>11. Answers(m, i + 1, data, index + 1, longer)
  BY <1>6, <1>7, <1>8, <1>10 DEF Answers
<1> QED BY <1>3, <1>4, <1>11 DEF longer

AnswersTo(answers, id) == {j \in DOMAIN answers : answers[j].id = id}

\* A call of the batch that the RPC has answered, when it has left no gap, is among the
\* first that went to it.
LEMMA AnsweredFirst ==
  ASSUME NEW m \in Message, GapFree(m),
         NEW order \in Injection(1 .. Len(rpc_response_data[m]), data2(m)),
         rpc_response_data[m] \in Seq(Answer),
         \A x \in 1 .. Len(rpc_response_data[m]) :
           rpc_response_data[m][x] = Result(order[x].id, "answer"),
         NEW y \in 1 .. Len(rpc_response_data[m]), NEW q \in 1 .. Len(Calls[m]),
         Calls[m][q] = order[y]
  PROVE  Rank(m, q) <= Len(rpc_response_data[m])
<1> DEFINE data == rpc_response_data[m]
           X == 1 .. Len(data)
           S == OthersTo(m, q)
           f == [o \in S |-> CHOOSE x \in X : order[x] = Calls[m][o]]
<1>1. /\ Len(data) \in Nat /\ DOMAIN data = X /\ Len(Calls[m]) \in Nat
      /\ DOMAIN Calls[m] = 1 .. Len(Calls[m])
      /\ \A o, n \in 1 .. Len(Calls[m]) : Calls[m][o].id = Calls[m][n].id => o = n
  BY LenProperties, CallsTyped
<1>2. order \in [X -> data2(m)]
  BY Fun_InjectionProperties
<1>3. Calls[m][q].method = "other" /\ \E x \in X : data[x].id = Calls[m][q].id
  <2>1. order[y] \in data2(m)
    BY <1>2
  <2>2. data[y].id = Calls[m][q].id
    <3>1. data[y] = Result(order[y].id, "answer")
      OBVIOUS
    <3> QED BY <3>1 DEF Result
  <2> QED BY <2>1, <2>2 DEF data2
<1>4. ASSUME NEW o \in S
      PROVE  \E x \in X : order[x] = Calls[m][o]
  <2>1. o \in 1 .. Len(Calls[m]) /\ o <= q /\ Calls[m][o].method = "other"
    BY <1>1 DEF OthersTo
  <2>2. PICK x \in X : data[x].id = Calls[m][o].id
    <3>1. CASE o = q
      BY <1>3, <3>1
    <3>2. CASE o < q
      BY <1>1, <1>3, <2>1, <3>2 DEF GapFree
    <3> QED BY <2>1, <3>1, <3>2
  <2>3. order[x].id = Calls[m][o].id
    <3>1. data[x] = Result(order[x].id, "answer")
      OBVIOUS
    <3> QED BY <2>2, <3>1 DEF Result
  <2>4. PICK n \in 1 .. Len(Calls[m]) : order[x] = Calls[m][n]
    <3>1. order[x] \in data2(m)
      <4> HIDE DEF X
      <4> QED BY <1>2, <2>2
    <3>2. order[x] \in Range(Calls[m])
      BY <3>1 DEF data2
    <3> QED BY <1>1, <3>2 DEF Range
  <2>5. n = o
    BY <1>1, <2>1, <2>3, <2>4
  <2> QED BY <2>4, <2>5
<1>5. \A o \in S : f[o] \in X /\ order[f[o]] = Calls[m][o]
  <2> HIDE DEF S, X
  <2> QED BY <1>4
<1>6. \A o, n \in S : f[o] = f[n] => o = n
  <2>1. \A o, n \in S : f[o] = f[n] => Calls[m][o] = Calls[m][n]
    <3> HIDE DEF f, S, X
    <3> QED BY <1>5
  <2>2. S \subseteq 1 .. Len(Calls[m])
    BY <1>1 DEF OthersTo
  <2> HIDE DEF f, S
  <2> QED BY <1>1, <2>1, <2>2
<1>7. f \in Injection(S, X)
  <2>1. f \in [S -> X]
    <3> HIDE DEF S, X
    <3> QED BY <1>5
  <2> HIDE DEF f, S, X
  <2> QED BY <1>6, <2>1, Fun_IsInj
<1>8. IsFiniteSet(X) /\ Cardinality(X) = Len(data)
  <2> DEFINE n == Len(data)
  <2>1. n \in Nat
    BY <1>1
  <2> HIDE DEF n
  <2>2. 1 \in Int /\ n \in Int
    BY <2>1
  <2>3. IsFiniteSet(1 .. n) /\ Cardinality(1 .. n) = IF 1 > n THEN 0 ELSE n - 1 + 1
    BY ONLY <2>2, FS_Interval
  <2>4. (IF 1 > n THEN 0 ELSE n - 1 + 1) = n
    BY <2>1
  <2> QED BY <2>3, <2>4 DEF n
<1>9. Cardinality(S) <= Cardinality(X)
  <2> HIDE DEF f, S, X
  <2> QED BY <1>7, <1>8, FS_Injection
<1> QED BY <1>8, <1>9 DEF Rank

\* When all calls are answered, each answer is that to some call: the answer at the place
\* of a call that is not for the RPC is its own, the others are those to the calls that
\* are for it, in some order, when the RPC has left no gap.
LEMMA AllAnswered ==
  ASSUME NEW m \in Message, rpc_response_data[m] \in Seq(Answer), NEW index, NEW answers,
         Answers(m, Len(Calls[m]) + 1, rpc_response_data[m], index, answers),
         NEW c \in Range(Calls[m]), c.method # "other" \/ GapFree(m)
  PROVE  Cardinality(AnswersTo(answers, c.id)) = 1
<1> DEFINE data == rpc_response_data[m]
           L == 1 .. Len(Calls[m])
           place(d) == CHOOSE q \in L : Calls[m][q] = d
<1>1. Len(Calls[m]) \in Nat /\ (Len(Calls[m]) + 1) - 1 = Len(Calls[m]) /\ DOMAIN answers = L
      /\ DOMAIN Calls[m] = L /\ Len(data) \in Nat
  <2>1. Len(Calls[m]) \in Nat /\ DOMAIN Calls[m] = L
    BY CallsTyped
  <2>2. (Len(Calls[m]) + 1) - 1 = Len(Calls[m])
    BY <2>1
  <2>3. answers \in Seq(Answer) /\ Len(answers) = Len(Calls[m])
    BY <2>2 DEF Answers
  <2> QED BY <2>1, <2>2, <2>3, LenProperties
<1>2. \A p \in L : Calls[m][p].method # "other" => answers[p].id = Calls[m][p].id
  BY <1>1 DEF Answers
<1>3. PICK order \in Injection(1 .. Len(data), data2(m)) :
        /\ \A x \in 1 .. Len(data) : data[x] = Result(order[x].id, "answer")
        /\ \A p \in L : Calls[m][p].method = "other" =>
             answers[p].id = IF Rank(m, p) <= Len(data) THEN order[Rank(m, p)].id
                             ELSE Calls[m][p].id
  BY <1>1 DEF Answers, Taken
<1>4. /\ order \in [1 .. Len(data) -> data2(m)]
      /\ \A x, y \in 1 .. Len(data) : order[x] = order[y] => x = y
  BY Fun_InjectionProperties
<1> DEFINE taken(p) == Calls[m][p].method = "other" /\ Rank(m, p) <= Len(data)
           pi == [p \in L |-> IF taken(p) THEN place(order[Rank(m, p)]) ELSE p]
<1>5. \A p \in L : taken(p) => Rank(m, p) \in 1 .. Len(data)
  <2> SUFFICES ASSUME NEW p \in L, taken(p)
               PROVE  Rank(m, p) \in 1 .. Len(data)
    OBVIOUS
  <2>1. p \in Nat /\ p > 0
    BY <1>1
  <2>2. Rank(m, p) \in Nat
    BY <2>1, OthersFinite
  <2>3. 0 < Rank(m, p)
    <3>1. Rank(m, 0) < Rank(m, p)
      BY <2>1, RankGrows
    <3> QED BY <3>1, RankOfNone
  <2> QED BY <1>1, <2>2, <2>3
<1>6. \A p, q \in L : Calls[m][p].method = "other" /\ Calls[m][q].method = "other"
        /\ Rank(m, p) = Rank(m, q) => p = q
  <2>1. \A p, q \in L : Calls[m][q].method = "other" /\ p < q => Rank(m, p) < Rank(m, q)
    <3>1. \A p \in L : p \in Nat
      BY <1>1
    <3> QED BY <3>1, RankGrows
  <2>2. \A p \in L : Rank(m, p) \in Nat /\ p \in Nat
    BY <1>1, OthersFinite
  <2>3. \A p, q \in L : p < q \/ q < p \/ p = q
    BY <1>1
  <2>4. \A x, y \in Nat : x < y => x # y
    OBVIOUS
  <2> QED BY <2>1, <2>2, <2>3, <2>4
<1>7. \A d \in data2(m) : place(d) \in L /\ Calls[m][place(d)] = d /\ d.method = "other"
  <2> SUFFICES ASSUME NEW d \in data2(m)
               PROVE  place(d) \in L /\ Calls[m][place(d)] = d /\ d.method = "other"
    OBVIOUS
  <2>1. d.method = "other" /\ \E q \in L : Calls[m][q] = d
    BY <1>1 DEF data2, Range
  <2> QED BY <2>1
<1> HIDE DEF place
<1>8. \A p \in L : /\ pi[p] \in L
                   /\ taken(p) => /\ order[Rank(m, p)] \in data2(m)
                                  /\ Calls[m][pi[p]] = order[Rank(m, p)]
                                  /\ Calls[m][pi[p]].method = "other"
                   /\ ~taken(p) => pi[p] = p
  <2> SUFFICES ASSUME NEW p \in L
               PROVE  /\ pi[p] \in L
                      /\ taken(p) => /\ order[Rank(m, p)] \in data2(m)
                                     /\ Calls[m][pi[p]] = order[Rank(m, p)]
                                     /\ Calls[m][pi[p]].method = "other"
                      /\ ~taken(p) => pi[p] = p
    OBVIOUS
  <2>1. CASE taken(p)
    <3>1. order[Rank(m, p)] \in data2(m)
      BY <1>4, <1>5, <2>1
    <3>2. pi[p] = place(order[Rank(m, p)])
      BY <2>1
    <3> QED BY <1>7, <2>1, <3>1, <3>2
  <2>2. CASE ~taken(p)
    BY <2>2
  <2> QED BY <2>1, <2>2
<1>9. pi \in [L -> L]
  BY <1>8
<1> HIDE DEF pi
<1>10. \A p \in L : answers[p].id = Calls[m][pi[p]].id
  BY <1>2, <1>3, <1>8
<1>11. \A j, k \in L : Calls[m][j].id = Calls[m][k].id => j = k
  BY CallsTyped
<1>12. PICK q \in L : c = Calls[m][q]
  BY <1>1 DEF Range
<1>13. \A j \in L : answers[j].id = c.id <=> pi[j] = q
  <2> HIDE DEF L
  <2> QED BY <1>8, <1>10, <1>11, <1>12
<1>14. \E p \in L : \A j \in L : pi[j] = q <=> j = p
  <2>1. CASE c.method # "other"
    <3>1. \A j \in L : pi[j] = q <=> j = q
      BY <1>8, <1>12, <2>1
    <3> QED BY <3>1
  <2>2. CASE GapFree(m)
    <3>1. \A p, k \in L : taken(p) /\ pi[k] = pi[p] => taken(k)
      <4> SUFFICES ASSUME NEW p \in L, NEW k \in L, taken(p), pi[k] = pi[p], ~taken(k)
                   PROVE  FALSE
        OBVIOUS
      <4>1. Calls[m][k] = order[Rank(m, p)] /\ Calls[m][k].method = "other"
        BY <1>8
      <4>2. Rank(m, k) <= Len(rpc_response_data[m])
        BY <1>3, <1>5, <2>2, <4>1, AnsweredFirst
      <4> QED BY <4>1, <4>2
    <3>2. \A p, k \in L : pi[p] = pi[k] => p = k
      <4> SUFFICES ASSUME NEW p \in L, NEW k \in L, pi[p] = pi[k]
                   PROVE  p = k
        OBVIOUS
      <4>1. CASE taken(p) /\ taken(k)
        <5>1. order[Rank(m, p)] = order[Rank(m, k)]
          BY <1>8, <4>1
        <5>2. Rank(m, p) = Rank(m, k)
          BY <1>4, <1>5, <4>1, <5>1
        <5> QED BY <1>6, <4>1, <5>2
      <4>2. CASE ~taken(p) /\ ~taken(k)
        BY <1>8, <4>2
      <4> QED BY <3>1, <4>1, <4>2
    <3>3. pi \in Injection(L, L)
      <4> HIDE DEF L
      <4> QED BY <1>9, <3>2, Fun_IsInj
    <3>4. pi \in Surjection(L, L)
      <4>1. IsFiniteSet(L)
        BY <1>1, FS_Interval
      <4> HIDE DEF L
      <4> QED BY <3>3, <4>1, FS_Injection
    <3>5. PICK p \in L : pi[p] = q
      <4> HIDE DEF L
      <4> QED BY <3>4, Fun_SurjectionProperties
    <3>6. \A j \in L : pi[j] = q <=> j = p
      <4> HIDE DEF L
      <4> QED BY <3>2, <3>5
    <3> QED BY <3>6
  <2> QED BY <2>1, <2>2
<1>15. PICK p \in L : \A j \in L : pi[j] = q <=> j = p
  BY <1>14
<1>16. AnswersTo(answers, c.id) = {p}
  <2> HIDE DEF L
  <2> QED BY <1>1, <1>13, <1>15 DEF AnswersTo
<1> QED BY <1>16, FS_Singleton

AnsweredInv ==
  /\ rpc_response_data \in [Message -> Seq(Answer)]
  /\ rpc_index \in [Message -> Nat]
  /\ batch_response \in [Message -> Seq(Answer)]
  /\ \A m \in Message :
       /\ Answers(m, i_[m], rpc_response_data[m], rpc_index[m], batch_response[m])
       /\ at[m] \in {"new", "rpc"} => i_[m] = 1
       /\ at[m] = "miner" => i_[m] <= Len(Calls[m]) /\ Call(m).method = "miner"
       /\ at[m] = "done" => i_[m] = Len(Calls[m]) + 1

LEMMA AnsweredInitially ==
  ASSUME WsInit
  PROVE  AnsweredInv
<1>1. <<>> \in Seq(Answer) /\ Len(<<>>) = 0
  BY EmptySeq
<1>2. ASSUME NEW m \in Message
      PROVE  Answers(m, 1, <<>>, 0, <<>>)
  <2>1. 1 \in 1 .. Len(Calls[m]) + 1 /\ 1 .. 1 - 1 = {} /\ 1 - 1 = 0 /\ 1 .. 0 = {}
    BY CallsTyped
  <2>2. [x \in 1 .. 0 |-> x] \in Injection(1 .. 0, data2(m))
    BY <2>1, Fun_IsInj
  <2>3. Taken(m, 1, <<>>, 0, <<>>)
    BY <1>1, <2>1, <2>2, RankOfNone DEF Taken
  <2> QED BY <1>1, <2>1, <2>3 DEF Answers
<1> QED BY <1>1, <1>2 DEF WsInit, AnsweredInv

\* The answers stay, and the loop stays where it is.
LEMMA AnsweringStays ==
  ASSUME HandlerTyped, AnsweredInv, NEW m \in Message,
         \/ handle_message(m) \/ RpcFails(m) \/ AwaitsMiner(m) \/ Sends(m)
  PROVE  AnsweredInv'
<1>1. UNCHANGED <<i_, rpc_response_data, rpc_index, batch_response>>
  BY DEF handle_message, RpcFails, AwaitsMiner, Sends
<1>2. ASSUME NEW n \in Message
      PROVE  /\ at'[n] \in {"new", "rpc"} => i_[n] = 1
             /\ at'[n] = "miner" => i_[n] <= Len(Calls[n]) /\ Calls[n][i_[n]].method = "miner"
             /\ at'[n] = "done" => i_[n] = Len(Calls[n]) + 1
  <2>1. i_[n] \in 1 .. Len(Calls[n]) + 1 /\ Len(Calls[n]) \in Nat
    BY CallsTyped DEF AnsweredInv, Answers
  <2>2. i_[n] > Len(Calls[n]) => i_[n] = Len(Calls[n]) + 1
    BY <2>1
  <2> QED BY <2>2 DEF HandlerTyped, AnsweredInv, handle_message, RpcFails, AwaitsMiner, Sends,
               Running, Call
<1> QED BY <1>1, <1>2 DEF AnsweredInv, Call

LEMMA RpcAnswersAll ==
  ASSUME HandlerTyped, AnsweredInv, NEW m \in Message, RpcAnswers(m)
  PROVE  AnsweredInv'
<1>0. PICK n \in 0 .. Cardinality(data2(m)) : \E order \in [1 .. n -> data2(m)] :
        /\ IsInjective(order)
        /\ rpc_response_data' = [rpc_response_data EXCEPT ![m] =
                                   [x \in DOMAIN order |-> Result(order[x].id, "answer")]]
  BY DEF RpcAnswers
<1>1. PICK order \in [1 .. n -> data2(m)] :
        /\ IsInjective(order)
        /\ rpc_response_data' = [rpc_response_data EXCEPT ![m] =
                                   [x \in 1 .. n |-> Result(order[x].id, "answer")]]
  BY <1>0
<1> DEFINE data == [x \in 1 .. n |-> Result(order[x].id, "answer")]
<1>2. order \in Injection(1 .. n, data2(m))
  BY <1>1 DEF Injection
<1>3. data \in Seq(Answer) /\ Len(data) = n
  <2>1. \A x \in 1 .. n : order[x].id \in Nat
    <3> SUFFICES ASSUME NEW x \in 1 .. n
                 PROVE  order[x].id \in Nat
      OBVIOUS
    <3>1. order[x] \in data2(m)
      BY <1>1
    <3>2. PICK p \in 1 .. Len(Calls[m]) : order[x] = Calls[m][p]
      BY <3>1, CallsTyped DEF data2, Range
    <3>3. Calls[m][p] \in [id : Nat, method : Method, sub : Sub \cup {None}]
      BY CallsTyped
    <3> QED BY <3>2, <3>3
  <2>2. \A x \in 1 .. n : Result(order[x].id, "answer") \in Answer
    BY <2>1 DEF Result, Answer
  <2>3. n \in Nat
    BY RankOfAll, CallsTyped, OthersFinite
  <2>4. data \in Seq(Answer)
    BY <2>2, <2>3, SeqDef
  <2>5. DOMAIN data = 1 .. n
    OBVIOUS
  <2> HIDE DEF data
  <2> QED BY <2>3, <2>4, <2>5, LenProperties
<1>4. i_[m] = 1 /\ rpc_index[m] = 0
  <2>1. i_[m] = 1 /\ 1 - 1 = 0
    BY DEF RpcAnswers, AnsweredInv
  <2>2. rpc_response_data[m] \in Seq(Answer)
    BY DEF AnsweredInv
  <2>3. Len(rpc_response_data[m]) \in Nat
    BY <2>2, LenProperties
  <2> QED BY <2>1, <2>3, RankOfNone DEF AnsweredInv, Answers, Taken
<1>5. Answers(m, 1, data, 0, batch_response[m])
  <2>1. 1 .. 1 - 1 = {} /\ 1 - 1 = 0 /\ Len(data) \in Nat /\ Len(data) >= 0
    BY <1>3, LenProperties
  <2>2. \A x \in 1 .. Len(data) : data[x] = Result(order[x].id, "answer")
    BY <1>3
  <2> HIDE DEF data
  <2>3. Taken(m, 1, data, 0, batch_response[m])
    BY <1>2, <1>3, <2>1, <2>2, RankOfNone DEF Taken
  <2> QED BY <1>4, <2>1, <2>3 DEF AnsweredInv, Answers
<1>6. /\ rpc_response_data' = [rpc_response_data EXCEPT ![m] = data]
      /\ UNCHANGED <<i_, rpc_index, batch_response>>
      /\ at' = [at EXCEPT ![m] = "loop"]
  BY <1>1 DEF RpcAnswers
<1> HIDE DEF data
<1>7. ASSUME NEW k \in Message
      PROVE  /\ Answers(k, i_[k], rpc_response_data'[k], rpc_index[k], batch_response[k])
             /\ at'[k] \in {"new", "rpc"} => i_[k] = 1
             /\ at'[k] = "miner" => i_[k] <= Len(Calls[k]) /\ Calls[k][i_[k]].method = "miner"
             /\ at'[k] = "done" => i_[k] = Len(Calls[k]) + 1
  <2>1. CASE k = m
    BY <1>3, <1>4, <1>5, <1>6, <2>1 DEF AnsweredInv, HandlerTyped
  <2>2. CASE k # m
    BY <1>6, <2>2 DEF AnsweredInv, HandlerTyped, Call
  <2> QED BY <2>1, <2>2
<1> QED BY <1>3, <1>6, <1>7 DEF AnsweredInv, Call

\* A call that does not take an answer of the RPC, or finds none left.
LEMMA RespondsOwn ==
  ASSUME HandlerTyped, AnsweredInv, NEW m \in Message, NEW answer \in Answer,
         Respond(m, answer), answer.id = Call(m).id, i_[m] <= Len(Calls[m]),
         Call(m).method # "other" \/ ~ (rpc_index[m] < Len(rpc_response_data[m])),
         UNCHANGED rpc_index, at' = [at EXCEPT ![m] = "loop"]
  PROVE  AnsweredInv'
<1>1. /\ i_' = [i_ EXCEPT ![m] = i_[m] + 1]
      /\ batch_response' = [batch_response EXCEPT ![m] = Append(batch_response[m], answer)]
      /\ UNCHANGED <<rpc_response_data, rpc_index>>
  BY DEF Respond
<1>2. Answers(m, i_[m] + 1, rpc_response_data[m], rpc_index[m], Append(batch_response[m], answer))
  BY OwnAnswer DEF AnsweredInv, Call
<1>3. Append(batch_response[m], answer) \in Seq(Answer)
  BY <1>2 DEF Answers
<1> HIDE DEF Answers
<1> QED BY <1>1, <1>2, <1>3 DEF AnsweredInv, HandlerTyped, Call

LEMMA TakesAnswerKeeps ==
  ASSUME HandlerTyped, AnsweredInv, NEW m \in Message, TakesAnswer(m)
  PROVE  AnsweredInv'
<1>1. /\ at[m] = "loop" /\ i_[m] <= Len(Calls[m]) /\ Call(m).method = "other" /\ at' = at
      /\ i_[m] \in 1 .. Len(Calls[m]) + 1 /\ Len(Calls[m]) \in Nat
  BY CallsTyped DEF TakesAnswer, Running, AnsweredInv, Answers
<1>2. CASE ~ (rpc_index[m] < Len(rpc_response_data[m]))
  <2>2. Respond(m, Error(Call(m).id)) /\ UNCHANGED rpc_index
    BY <1>2 DEF TakesAnswer
  <2>3. Error(Call(m).id) \in Answer /\ Error(Call(m).id).id = Call(m).id
    <3>1. i_[m] \in 1 .. Len(Calls[m])
      BY <1>1
    <3>2. Call(m) \in [id : Nat, method : Method, sub : Sub \cup {None}]
      BY <3>1, CallsTyped DEF Call
    <3> QED BY <3>2 DEF Error, Answer
  <2>4. at' = [at EXCEPT ![m] = "loop"]
    BY <1>1 DEF HandlerTyped
  <2> QED BY <1>1, <1>2, <2>2, <2>3, <2>4, RespondsOwn
<1>3. CASE rpc_index[m] < Len(rpc_response_data[m])
  <2> DEFINE next == rpc_response_data[m][rpc_index[m] + 1]
  <2>1. /\ rpc_index[m] \in Nat
        /\ Answers(m, i_[m] + 1, rpc_response_data[m], rpc_index[m] + 1,
                   Append(batch_response[m], next))
    <3>1. Calls[m][i_[m]].method = "other"
      BY <1>1 DEF Call
    <3> QED BY <1>1, <1>3, <3>1, NextAnswer DEF AnsweredInv
  <2>2. /\ i_' = [i_ EXCEPT ![m] = i_[m] + 1]
        /\ batch_response' = [batch_response EXCEPT ![m] = Append(batch_response[m], next)]
        /\ rpc_index' = [rpc_index EXCEPT ![m] = rpc_index[m] + 1]
        /\ UNCHANGED rpc_response_data
    BY <1>3 DEF TakesAnswer, Respond
  <2>3. Append(batch_response[m], next) \in Seq(Answer)
    BY <2>1 DEF Answers
  <2> HIDE DEF next
  <2>4. ASSUME NEW n \in Message
        PROVE  /\ Answers(n, i_'[n], rpc_response_data[n], rpc_index'[n], batch_response'[n])
               /\ at[n] \in {"new", "rpc"} => i_'[n] = 1
               /\ at[n] = "miner" => i_'[n] <= Len(Calls[n]) /\ Calls[n][i_'[n]].method = "miner"
               /\ at[n] = "done" => i_'[n] = Len(Calls[n]) + 1
    <3>1. CASE n = m
      BY <1>1, <2>1, <2>2, <3>1 DEF AnsweredInv, HandlerTyped
    <3>2. CASE n # m
      BY <2>2, <3>2 DEF AnsweredInv, HandlerTyped, Call
    <3> QED BY <3>1, <3>2
  <2>5. rpc_index' \in [Message -> Nat] /\ batch_response' \in [Message -> Seq(Answer)]
    BY <2>1, <2>2, <2>3 DEF AnsweredInv
  <2> QED BY <1>1, <2>2, <2>4, <2>5 DEF AnsweredInv, Call
<1> QED BY <1>2, <1>3

LEMMA RespondsKeeps ==
  ASSUME HandlerTyped, AnsweredInv, NEW m \in Message,
         \/ Subscribes(m) \/ RefusesSubscription(m) \/ Unsubscribes(m) \/ RefusesUnsubscribe(m)
         \/ MinerAnswers(m)
  PROVE  AnsweredInv'
<1>1. /\ i_[m] <= Len(Calls[m]) /\ Call(m).method # "other"
      /\ UNCHANGED rpc_index /\ at' = [at EXCEPT ![m] = "loop"]
      /\ i_[m] \in 1 .. Len(Calls[m]) + 1 /\ Len(Calls[m]) \in Nat
  <2>1. i_[m] \in 1 .. Len(Calls[m]) + 1 /\ Len(Calls[m]) \in Nat
    BY CallsTyped DEF AnsweredInv, Answers
  <2>2. i_[m] <= Len(Calls[m]) /\ Call(m).method # "other"
    BY DEF AnsweredInv, Subscribes, RefusesSubscription, Unsubscribes, RefusesUnsubscribe,
         MinerAnswers, Running
  <2>3. UNCHANGED rpc_index /\ at' = [at EXCEPT ![m] = "loop"]
    BY DEF HandlerTyped, Subscribes, RefusesSubscription, Unsubscribes, RefusesUnsubscribe,
         MinerAnswers, Running
  <2> QED BY <2>1, <2>2, <2>3
<1>2. Call(m) \in [id : Nat, method : Method, sub : Sub \cup {None}]
  <2>1. i_[m] \in 1 .. Len(Calls[m])
    BY <1>1
  <2> QED BY <2>1, CallsTyped DEF Call
<1>3. PICK result \in Sub \cup {None, "answer", "true"} : Respond(m, Result(Call(m).id, result))
  <2>1. CASE Subscribes(m)
    <3>1. Call(m).sub \in Sub
      BY <2>1 DEF Subscribes, handle_new_heads, handle_logs, handle_minedTransactions, Sub
    <3> QED BY <2>1, <3>1 DEF Subscribes
  <2>2. CASE Unsubscribes(m)
    BY <2>2 DEF Unsubscribes
  <2>3. CASE RefusesSubscription(m) \/ RefusesUnsubscribe(m)
    <3>1. Respond(m, Error(Call(m).id)) /\ Error(Call(m).id) = Result(Call(m).id, None)
      BY <2>3 DEF RefusesSubscription, RefusesUnsubscribe, Error, Result
    <3> QED BY <3>1
  <2>4. CASE MinerAnswers(m)
    <3>1. Error(Call(m).id) = Result(Call(m).id, None)
      BY DEF Error, Result
    <3> QED BY <2>4, <3>1 DEF MinerAnswers
  <2> QED BY <2>1, <2>2, <2>3, <2>4
<1>4. Result(Call(m).id, result) \in Answer /\ Result(Call(m).id, result).id = Call(m).id
  BY <1>2 DEF Result, Answer
<1> QED BY <1>1, <1>3, <1>4, RespondsOwn

\* For every set of batches, whatever the RPC and the miner answer and in whatever order:
\* when a batch has been handled, each of its calls has one answer, but for calls that the
\* RPC left out before one that it has answered (websocket-handler.js handle_message, which
\* takes the answers of the RPC one after the other, lines 253-262).
THEOREM EachCallAnswered == WsSpec => []AnsweredOnce
<1>1. HandlerTyped /\ AnsweredInv /\ [WsNext]_wsvars => AnsweredInv'
  <2> SUFFICES ASSUME HandlerTyped, AnsweredInv, [WsNext]_wsvars
               PROVE  AnsweredInv'
    OBVIOUS
  <2>1. CASE \E m \in Message : handle_message(m) \/ Handling(m)
    BY <2>1, AnsweringStays, RpcAnswersAll, TakesAnswerKeeps, RespondsKeeps DEF Handling
  <2>2. CASE (\E m \in Message : handle_close(From[m])) \/ MonitorRuns \/ UNCHANGED wsvars
    <3>1. UNCHANGED <<at, i_, rpc_response_data, rpc_index, batch_response>>
      BY <2>2 DEF handle_close, MonitorRuns, wsvars, handler_vars
    <3> QED BY <3>1 DEF AnsweredInv, Call
  <2> QED BY <2>1, <2>2 DEF WsNext
<1>2. AnsweredInv => AnsweredOnce
  <2> SUFFICES ASSUME AnsweredInv, NEW m \in Message, at[m] = "done", NEW c \in Range(Calls[m]),
                      c.method # "other" \/ GapFree(m)
               PROVE  Cardinality({j \in DOMAIN batch_response[m] :
                                     batch_response[m][j].id = c.id}) = 1
    BY DEF AnsweredOnce
  <2>1. Answers(m, Len(Calls[m]) + 1, rpc_response_data[m], rpc_index[m], batch_response[m])
    BY DEF AnsweredInv
  <2>2. rpc_response_data[m] \in Seq(Answer)
    BY DEF AnsweredInv
  <2>3. Cardinality(AnswersTo(batch_response[m], c.id)) = 1
    BY <2>1, <2>2, AllAnswered
  <2> QED BY <2>3 DEF AnswersTo
<1>3. OrphansInv => HandlerTyped
  BY DEF OrphansInv
<1>4. WsInit => AnsweredInv
  BY AnsweredInitially
<1> QED BY <1>1, <1>2, <1>3, <1>4, HandlerInvariant, PTL DEF WsSpec
=============================================================================
