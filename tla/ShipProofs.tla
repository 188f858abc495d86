------------------------------ MODULE ShipProofs ------------------------------
(***************************************************************************)
(* Facts about the native chain, its stream and ship_receiver_plugin that  *)
(* the proofs about the receiver and about the whole node share.           *)
(***************************************************************************)
EXTENDS ShipReceiver, SequenceLemmas

Bodies == [slot : Nat, actions : {p.actions : p \in Payload},
           new_config : {p.new_config : p \in Payload}]

Histories == Seq(Bodies)

\* What the proofs assume of the parameters: blocks carry actions and configchanges,
\* and the ids of native blocks are the histories and the id of what is below them.
HistoriesAreIds ==
  /\ Payload \subseteq [actions : Seq(NativeAction), new_config : Optional(Config)]
  /\ Histories \cup {Ancestor} \subseteq NativeId

StreamTypeOK ==
  /\ best \in Histories /\ lib \in Nat /\ produced \in Nat
  /\ sent \in Histories /\ behind \in 0 .. StartBlockNum

ReceiverTypeOK ==
  /\ conn \in {"closed", "connecting", "reading", "quit"}
  /\ retry_count \in Nat /\ failures \in Nat
  /\ last_lib \in Nat /\ last_block_num \in Nat /\ stored_num \in Nat

ShipTypeOK == StreamTypeOK /\ ReceiverTypeOK

-----------------------------------------------------------------------------
(* Types *)

LEMMA PrefixType ==
  ASSUME NEW id \in Histories, NEW k \in 0 .. Len(id)
  PROVE  Prefix(id, k) \in Histories /\ Len(Prefix(id, k)) = k
BY PrefixFacts DEF Prefix, Histories

LEMMA SlotType ==
  ASSUME NEW id \in Histories
  PROVE  SlotOf(id) \in Nat
<1>1. CASE id = <<>>
  BY <1>1, NodeosAssumption DEF SlotOf
<1>2. CASE id # <<>>
  <2>1. Last(id) \in Bodies
    BY <1>2, FrontFacts DEF Histories
  <2> QED BY <1>2, <2>1 DEF SlotOf, Bodies
<1> QED BY <1>1, <1>2

LEMMA BodyType ==
  ASSUME NEW id \in Histories, NEW skip \in Slots, NEW payload \in Payload
  PROVE  Body(SlotOf(id) + skip, payload) \in Bodies
<1>1. SlotOf(id) + skip \in Nat
  BY SlotType, NodeosAssumption
<1> QED BY <1>1 DEF Body, Bodies

LEMMA InitShipTyped == NodeosInit /\ ReceiverInit => ShipTypeOK
<1>1. <<>> \in Histories
  BY EmptySeq DEF Histories
<1> QED BY <1>1, NodeosAssumption, ChannelAssumption
        DEF NodeosInit, ReceiverInit, ShipTypeOK, StreamTypeOK, ReceiverTypeOK

LEMMA ProduceTyped ==
  ASSUME StreamTypeOK, NEW k \in 0 .. Len(best), NEW skip \in Slots, NEW payload \in Payload,
         Produce(k, skip, payload)
  PROVE  StreamTypeOK' /\ best' = Append(Prefix(best, k), Body(SlotOf(Prefix(best, k)) + skip, payload))
<1> DEFINE base == Prefix(best, k)
           body == Body(SlotOf(base) + skip, payload)
<1>1. base \in Histories
  BY PrefixType DEF StreamTypeOK
<1>2. body \in Bodies
  <2> HIDE DEF base
  <2> QED BY <1>1, BodyType
<1>3. best' = Append(base, body) /\ produced' = produced + 1 /\ UNCHANGED <<lib, sent, behind>>
  BY DEF Produce, session_vars
<1> HIDE DEF body
<1>4. Append(base, body) \in Histories
  BY <1>1, <1>2, AppendProperties DEF Histories
<1> QED BY <1>3, <1>4 DEF StreamTypeOK, body

LEMMA AdvanceTyped == StreamTypeOK /\ AdvanceLib => StreamTypeOK'
BY DEF StreamTypeOK, AdvanceLib, session_vars

\* The number of the block before the one that a connection asks for.
ResumeAfter == IF last_lib > 0 THEN Min({last_lib, last_block_num}) ELSE stored_num

LEMMA ResumeFacts ==
  ASSUME ReceiverTypeOK
  PROVE  /\ ResumeAfter \in Nat
         /\ start_from = ResumeAfter + 1
         /\ last_lib > 0 => ResumeAfter <= last_lib /\ ResumeAfter <= last_block_num
<1>1. last_lib \in Nat /\ last_block_num \in Nat /\ stored_num \in Nat
  BY DEF ReceiverTypeOK
<1>2. Min({last_lib, last_block_num}) = IF last_lib <= last_block_num THEN last_lib ELSE last_block_num
  BY <1>1, MinOfTwo
<1> QED BY <1>1, <1>2 DEF ResumeAfter, start_from

\* What a new session leaves to be sent.
LEMMA SessionFacts ==
  ASSUME ShipTypeOK, OpenSession(start_from)
  PROVE  /\ UNCHANGED chain_vars
         /\ behind' = IF ResumeAfter >= StartBlockNum THEN 0 ELSE StartBlockNum - ResumeAfter
         /\ \E n \in 0 .. Len(best) :
              /\ sent' = Prefix(best, n)
              /\ ResumeAfter - StartBlockNum \in 0 .. Len(best) => n = ResumeAfter - StartBlockNum
              /\ ResumeAfter <= StartBlockNum => n = 0
<1> DEFINE after == start_from - 1 - StartBlockNum
           from  == Max({after, 0})
           n     == Min({from, Len(best)})
<1>1. after = ResumeAfter - StartBlockNum /\ ResumeAfter \in Nat /\ after \in Int
  BY ResumeFacts, ChannelAssumption DEF ShipTypeOK
<1>2. Len(best) \in Nat
  BY LenProperties DEF ShipTypeOK, StreamTypeOK, Histories
<1>3. UNCHANGED chain_vars /\ sent' = Prefix(best, n) /\ behind' = Max({-after, 0})
  BY DEF OpenSession
<1> HIDE DEF after
<1>4. from = IF after >= 0 THEN after ELSE 0
  BY <1>1, MaxOfTwo
<1>5. Max({-after, 0}) = IF -after >= 0 THEN -after ELSE 0
  <2>1. -after \in Int
    BY <1>1
  <2> QED BY <2>1, MaxOfTwo
<1>6. from \in Int
  BY <1>1, <1>4
<1> HIDE DEF from
<1>7. n = IF from <= Len(best) THEN from ELSE Len(best)
  BY <1>2, <1>6, MinOfTwo
<1> HIDE DEF n
<1>8. n \in 0 .. Len(best)
  BY <1>1, <1>2, <1>4, <1>7
<1>9. /\ ResumeAfter - StartBlockNum \in 0 .. Len(best) => n = ResumeAfter - StartBlockNum
      /\ ResumeAfter <= StartBlockNum => n = 0
  BY <1>1, <1>2, <1>4, <1>7, ChannelAssumption
<1>10. behind' = IF ResumeAfter >= StartBlockNum THEN 0 ELSE StartBlockNum - ResumeAfter
  BY <1>1, <1>3, <1>5, ChannelAssumption
<1> QED BY <1>3, <1>8, <1>9, <1>10

LEMMA ConnectTyped ==
  ASSUME ShipTypeOK, Connect \/ InitialReadFails \/ NotAvailable
  PROVE  ShipTypeOK'
<1>1. CASE sync
  <2>1. OpenSession(start_from)
    BY <1>1 DEF sync
  <2>2. PICK n \in 0 .. Len(best) : sent' = Prefix(best, n)
    BY <2>1, SessionFacts
  <2>3. sent' \in Histories
    BY <2>2, PrefixType DEF ShipTypeOK, StreamTypeOK
  <2>4. behind' \in 0 .. StartBlockNum
    <3>1. ResumeAfter \in Nat
      BY ResumeFacts DEF ShipTypeOK
    <3> QED BY <2>1, <3>1, SessionFacts, ChannelAssumption
  <2>5. UNCHANGED chain_vars
    BY <2>1, SessionFacts
  <2> QED BY <1>1, <2>3, <2>4, <2>5
          DEF ShipTypeOK, StreamTypeOK, ReceiverTypeOK, sync, chain_vars
<1>2. CASE Startup \/ ConnectionFails \/ ReadFails \/ InitialReadFails \/ NotAvailable
  BY <1>2 DEF Startup, ConnectionFails, ReadFails, InitialReadFails, NotAvailable,
     reset_connection, ShipTypeOK, StreamTypeOK, ReceiverTypeOK, nodeos_vars, chain_vars,
     session_vars
<1> QED BY <1>1, <1>2 DEF Connect

-----------------------------------------------------------------------------
(* What is sent *)

\* The branch that has been sent and the best branch agree on their first c blocks.
Agree(c) == c \in 0 .. Len(sent) /\ c <= Len(best) /\ Prefix(sent, c) = Prefix(best, c)

LEMMA CommonFacts ==
  ASSUME StreamTypeOK
  PROVE  Agree(Common) /\ \A c \in Nat : Agree(c) => c <= Common
<1> DEFINE C == {k \in 0 .. Len(sent) : k <= Len(best) /\ Prefix(sent, k) = Prefix(best, k)}
<1>1. Len(sent) \in Nat /\ Len(best) \in Nat
  BY LenProperties DEF StreamTypeOK, Histories
<1>2. 0 \in C
  <2>1. Prefix(sent, 0) = <<>> /\ Prefix(best, 0) = <<>>
    BY SubSeqEmpty DEF Prefix
  <2> QED BY <1>1, <2>1
<1>3. C \in SUBSET (0 .. Len(sent)) /\ C # {}
  BY <1>2
<1>4. Common = Max(C)
  BY DEF Common
<1>5. \A c : Agree(c) <=> c \in C
  BY DEF Agree
<1> HIDE DEF C
<1>6. Max(C) \in C /\ \A y \in C : Max(C) >= y
  BY <1>1, <1>3, MaxExists
<1> QED BY <1>1, <1>3, <1>4, <1>5, <1>6

LEMMA ToNativeType ==
  ASSUME HistoriesAreIds, StreamTypeOK, NEW id \in Histories, id # <<>>
  PROVE  ToNative(id) \in NativeBlock
<1>1. Len(id) \in Nat /\ StartBlockNum + Len(id) \in Nat
  BY LenProperties, ChannelAssumption DEF Histories
<1>2. Front(id) \in Histories /\ Last(id) \in Bodies
  BY FrontFacts DEF Histories
<1>3. id \in NativeId /\ Front(id) \in NativeId
  BY <1>2 DEF HistoriesAreIds
<1>4. Last(id).actions \in Seq(NativeAction) /\ Last(id).new_config \in Optional(Config)
  BY <1>2 DEF Bodies, HistoriesAreIds
<1>5. SlotOf(id) \in Nat /\ lib \in Nat
  BY SlotType DEF StreamTypeOK
<1> QED BY <1>1, <1>3, <1>4, <1>5 DEF ToNative, NativeBlock

LEMMA OldBlockType ==
  ASSUME HistoriesAreIds, StreamTypeOK, behind > 0
  PROVE  OldBlock(behind) \in NativeBlock
<1>1. behind \in 1 .. StartBlockNum
  BY ChannelAssumption DEF StreamTypeOK
<1>2. StartBlockNum + 1 - behind \in Nat /\ StartSlot + 1 - behind \in Int
  BY <1>1, ChannelAssumption, NodeosAssumption
<1>3. Max({StartSlot + 1 - behind, 0}) \in Nat
  BY <1>2, MaxOfTwo
<1>4. <<>> \in Histories /\ <<>> \in Seq(NativeAction)
  BY EmptySeq DEF Histories
<1>5. (IF behind = 1 THEN <<>> ELSE Ancestor) \in NativeId /\ Ancestor \in NativeId
  BY <1>4 DEF HistoriesAreIds
<1> QED BY <1>2, <1>3, <1>4, <1>5 DEF OldBlock, NativeBlock, Optional, StreamTypeOK

\* The two kinds of message.
SendsOld(nb) ==
  /\ behind > 0 /\ nb = OldBlock(behind) /\ nb.block_num = StartBlockNum + 1 - behind
  /\ behind' = behind - 1 /\ UNCHANGED sent

SendsNext(nb) ==
  /\ behind = 0 /\ UNCHANGED behind
  /\ Common + 1 \in 1 .. Len(best)
  /\ sent' = Prefix(best, Common + 1) /\ sent' \in Histories /\ Len(sent') = Common + 1
  /\ nb.id = sent' /\ nb.prev = Prefix(best, Common)
  /\ nb.block_num = StartBlockNum + Common + 1

LEMMA ReadFacts ==
  ASSUME HistoriesAreIds, ShipTypeOK, NEW nb, ReadBlock(nb)
  PROVE  /\ nb \in NativeBlock
         /\ UNCHANGED chain_vars
         /\ nb.lib = lib
         /\ SendsOld(nb) \/ SendsNext(nb)
<1>1. CASE SendOld(nb)
  <2>1. nb = OldBlock(behind) /\ behind > 0
    BY <1>1 DEF SendOld
  <2>2. nb \in NativeBlock
    BY <2>1, OldBlockType DEF ShipTypeOK
  <2> QED BY <1>1, <2>1, <2>2 DEF SendOld, SendsOld, OldBlock
<1>2. CASE SendNext(nb)
  <2>1. Len(best) \in Nat /\ Len(sent) \in Nat /\ best \in Histories
    BY LenProperties DEF ShipTypeOK, StreamTypeOK, Histories
  <2>2. Common \in 0 .. Len(sent) /\ Common < Len(best)
    BY <1>2, CommonFacts DEF Agree, ShipTypeOK, SendNext, CanSend
  <2>3. Common + 1 \in 0 .. Len(best) /\ Common + 1 \in 1 .. Len(best) /\ Common \in 0 .. Len(best) - 1
    BY <2>1, <2>2
  <2>4. Prefix(best, Common + 1) \in Histories /\ Len(Prefix(best, Common + 1)) = Common + 1
    BY <2>1, <2>3, PrefixType
  <2>5. sent' = Prefix(best, Common + 1) /\ nb = ToNative(sent') /\ UNCHANGED <<chain_vars, behind>>
    BY <1>2 DEF SendNext
  <2>6. Prefix(best, Common + 1) # <<>>
    <3>1. Len(Prefix(best, Common + 1)) # 0
      BY <2>3, <2>4
    <3> QED BY <3>1
  <2>7. nb \in NativeBlock
    BY <2>4, <2>5, <2>6, ToNativeType DEF ShipTypeOK
  <2>8. Front(Prefix(best, Common + 1)) = Prefix(best, Common)
    BY <2>1, <2>3, FrontOfPrefix DEF Prefix, Histories
  <2>9. /\ nb.id = sent' /\ nb.prev = Front(sent') /\ nb.lib = lib
        /\ nb.block_num = StartBlockNum + Len(sent')
    BY <2>5 DEF ToNative
  <2>10. nb.block_num = StartBlockNum + Common + 1
    BY <2>2, <2>4, <2>5, <2>9, ChannelAssumption
  <2>11. behind = 0
    BY <1>2 DEF SendNext
  <2> QED BY <2>3, <2>4, <2>5, <2>7, <2>8, <2>9, <2>10, <2>11 DEF SendsNext
<1> QED BY <1>1, <1>2 DEF ReadBlock, Send

LEMMA ReadTyped ==
  ASSUME HistoriesAreIds, ShipTypeOK, NEW nb, ReadBlock(nb)
  PROVE  ShipTypeOK'
<1>1. nb \in NativeBlock /\ UNCHANGED chain_vars /\ (SendsOld(nb) \/ SendsNext(nb))
  BY ReadFacts
<1>2. sent' \in Histories /\ behind' \in 0 .. StartBlockNum
  BY <1>1, ChannelAssumption DEF SendsOld, SendsNext, ShipTypeOK, StreamTypeOK
<1>3. StreamTypeOK'
  BY <1>1, <1>2 DEF chain_vars, ShipTypeOK, StreamTypeOK
<1>4. ReceiverTypeOK'
  BY <1>1 DEF ReadBlock, ShipTypeOK, ReceiverTypeOK, NativeBlock
<1> QED BY <1>3, <1>4 DEF ShipTypeOK
=============================================================================
