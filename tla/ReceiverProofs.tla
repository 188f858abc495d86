---------------------------- MODULE ReceiverProofs ----------------------------
(***************************************************************************)
(* What ship_receiver_plugin publishes, for every native chain, however    *)
(* often its connection breaks: no gap, and nothing irreversible twice.    *)
(***************************************************************************)
EXTENDS ReceiverOverShip, ShipProofs

-----------------------------------------------------------------------------
(* The inductive invariant *)

Received(id, R) == \E j \in DOMAIN R : R[j].id = id

\* Every block of the history id was published.
AllReceived(id, R) == \A k \in 1 .. Len(id) : Received(Prefix(id, k), R)

ReceivedTypeOK == ShipTypeOK /\ received \in Seq(NativeBlock) /\ stored_num = StartBlockNum

\* The irreversible block of a message is irreversible, the last one's is the latest.
LibsKnown ==
  /\ last_lib <= lib
  /\ \A i \in DOMAIN received : received[i].lib <= lib

\* The block that a new connection resumes after is on the best branch, published with
\* all its ancestors; so is the last block sent.
ResumeInv ==
  /\ AllReceived(sent, received)
  /\ ResumeAfter > StartBlockNum =>
       /\ ResumeAfter - StartBlockNum <= Len(best)
       /\ AllReceived(Prefix(best, ResumeAfter - StartBlockNum), received)

\* The number up to which a block, when it was published, was known to be irreversible.
Settled(nb) == IF nb.lib <= nb.block_num THEN nb.lib ELSE nb.block_num

\* A new connection resumes above everything that is settled, and the current one goes on
\* above it, whatever fork comes.
SettledInv ==
  \A i \in DOMAIN received :
    LET n == Settled(received[i])
    IN  /\ n <= ResumeAfter
        /\ behind > 0 => n <= StartBlockNum - behind
        /\ behind = 0 /\ n > StartBlockNum => Agree(n - StartBlockNum)

ReceiverInv == ReceivedTypeOK /\ LibsKnown /\ ResumeInv /\ SettledInv

-----------------------------------------------------------------------------
(* The chain moves *)

\* Fork points are not below the last irreversible block.
LEMMA ProduceFacts ==
  ASSUME StreamTypeOK, NEW k \in 0 .. Len(best), NEW skip \in Slots, NEW payload \in Payload,
         Produce(k, skip, payload)
  PROVE  /\ Len(best') = k + 1
         /\ \A n \in 0 .. k : Prefix(best', n) = Prefix(best, n)
         /\ k = Len(best) \/ StartBlockNum + k >= lib
<1> DEFINE base == Prefix(best, k)
           body == Body(SlotOf(base) + skip, payload)
<1>1. base \in Histories /\ Len(base) = k
  BY PrefixType DEF StreamTypeOK
<1>2. body \in Bodies
  <2> HIDE DEF base
  <2> QED BY <1>1, BodyType
<1>3. best' = Append(base, body)
  BY ProduceTyped
<1> HIDE DEF body
<1>4. Len(best') = k + 1
  BY <1>1, <1>2, <1>3, AppendProperties DEF Histories
<1>5. ASSUME NEW n \in 0 .. k PROVE Prefix(best', n) = Prefix(best, n)
  <2>1. SubSeq(Append(base, body), 1, n) = SubSeq(base, 1, n)
    BY <1>1, <1>2, PrefixOfAppend DEF Histories
  <2>2. SubSeq(base, 1, n) = SubSeq(best, 1, n)
    BY PrefixOfPrefix DEF Prefix, StreamTypeOK, Histories
  <2> QED BY <1>3, <2>1, <2>2 DEF Prefix
<1> QED BY <1>4, <1>5 DEF Produce, ForkPoint

LEMMA ProduceKeeps ==
  ASSUME ReceiverInv, NEW k \in 0 .. Len(best), NEW skip \in Slots, NEW payload \in Payload,
         Produce(k, skip, payload), UNCHANGED <<receiver_vars, received>>
  PROVE  ReceiverInv'
<1>1. StreamTypeOK /\ received \in Seq(NativeBlock) /\ ReceiverTypeOK
  BY DEF ReceiverInv, ReceivedTypeOK, ShipTypeOK
<1>2. UNCHANGED <<lib, sent, behind>>
  BY DEF Produce, session_vars
<1>3. /\ Len(best) \in Nat /\ Len(best') = k + 1
      /\ \A n \in 0 .. k : Prefix(best', n) = Prefix(best, n)
      /\ k = Len(best) \/ StartBlockNum + k >= lib
  BY <1>1, ProduceFacts, LenProperties DEF StreamTypeOK, Histories
<1>4. ResumeAfter' = ResumeAfter /\ ResumeAfter \in Nat /\ StartBlockNum \in Nat
  BY <1>1, ResumeFacts, ChannelAssumption DEF ResumeAfter, receiver_vars
<1>5. ReceivedTypeOK'
  BY <1>1, ProduceTyped DEF ReceiverInv, ReceivedTypeOK, ShipTypeOK, ReceiverTypeOK, receiver_vars
<1>6. LibsKnown'
  BY <1>2 DEF ReceiverInv, LibsKnown, receiver_vars
<1>7. ResumeInv'
  <2>1. AllReceived(sent', received')
    BY <1>2 DEF ReceiverInv, ResumeInv
  <2>2. ASSUME ResumeAfter > StartBlockNum
        PROVE  /\ ResumeAfter - StartBlockNum \in 0 .. k
               /\ AllReceived(Prefix(best, ResumeAfter - StartBlockNum), received)
    <3>1. ResumeAfter <= lib
      <4>1. last_lib > 0
        BY <2>2, <1>1, ChannelAssumption DEF ResumeAfter, ReceiverInv, ReceivedTypeOK, ReceiverTypeOK
      <4> QED BY <1>1, <4>1, ResumeFacts DEF ReceiverInv, LibsKnown, ReceiverTypeOK, StreamTypeOK
    <3>2. ResumeAfter - StartBlockNum <= Len(best)
      BY <2>2 DEF ReceiverInv, ResumeInv
    <3> QED BY <1>1, <1>3, <1>4, <2>2, <3>1, <3>2 DEF ReceiverInv, ResumeInv, StreamTypeOK
  <2>3. ASSUME ResumeAfter' > StartBlockNum
        PROVE  /\ ResumeAfter' - StartBlockNum <= Len(best')
               /\ AllReceived(Prefix(best', ResumeAfter' - StartBlockNum), received')
    BY <1>3, <1>4, <2>2, <2>3
  <2> QED BY <2>1, <2>3 DEF ResumeInv
<1>8. SettledInv'
  <2> SUFFICES ASSUME NEW i \in DOMAIN received, NEW n, n = Settled(received[i])
               PROVE  /\ n <= ResumeAfter
                      /\ behind > 0 => n <= StartBlockNum - behind
                      /\ behind = 0 /\ n > StartBlockNum => Agree(n - StartBlockNum)'
    BY <1>2, <1>4 DEF SettledInv
  <2>1. /\ n <= ResumeAfter
        /\ behind > 0 => n <= StartBlockNum - behind
        /\ behind = 0 /\ n > StartBlockNum => Agree(n - StartBlockNum)
    BY DEF ReceiverInv, SettledInv
  <2>2. received[i] \in NativeBlock /\ received[i].lib <= lib
    BY <1>1, ElementOfSeq, LenProperties DEF ReceiverInv, LibsKnown
  <2>3. n \in Nat /\ n <= lib
    BY <1>1, <2>2 DEF Settled, NativeBlock, StreamTypeOK
  <2>4. ASSUME behind = 0, n > StartBlockNum PROVE Agree(n - StartBlockNum)'
    <3>1. Agree(n - StartBlockNum)
      BY <2>1, <2>4
    <3>2. n - StartBlockNum \in 0 .. k
      BY <1>1, <1>3, <1>4, <2>3, <2>4, <3>1 DEF Agree, StreamTypeOK
    <3> QED BY <1>2, <1>3, <3>1, <3>2 DEF Agree
  <2> QED BY <2>1, <2>4
<1> QED BY <1>5, <1>6, <1>7, <1>8 DEF ReceiverInv

LEMMA AdvanceKeeps ==
  ASSUME ReceiverInv, AdvanceLib, UNCHANGED <<receiver_vars, received>>
  PROVE  ReceiverInv'
<1>1. UNCHANGED <<best, produced, sent, behind>> /\ lib' = lib + 1
  BY DEF AdvanceLib, session_vars
<1>2. ReceivedTypeOK'
  BY AdvanceTyped DEF ReceiverInv, ReceivedTypeOK, ShipTypeOK, ReceiverTypeOK, receiver_vars
<1>3. LibsKnown'
  <2>1. lib \in Nat /\ last_lib \in Nat /\ received \in Seq(NativeBlock)
    BY DEF ReceiverInv, ReceivedTypeOK, ShipTypeOK, StreamTypeOK, ReceiverTypeOK
  <2>2. ASSUME NEW i \in DOMAIN received PROVE received[i].lib \in Nat
    <3>1. received[i] \in NativeBlock
      BY <2>1, ElementOfSeq, LenProperties
    <3> QED BY <3>1 DEF NativeBlock
  <2> QED BY <1>1, <2>1, <2>2 DEF ReceiverInv, LibsKnown, receiver_vars
<1>4. ResumeInv' /\ SettledInv'
  BY <1>1 DEF ReceiverInv, ResumeInv, SettledInv, ResumeAfter, Agree, receiver_vars
<1> QED BY <1>2, <1>3, <1>4 DEF ReceiverInv

-----------------------------------------------------------------------------
(* The connection breaks, and another one is made *)

LEMMA SyncKeeps ==
  ASSUME ReceiverInv, sync, UNCHANGED received
  PROVE  ReceiverInv'
<1>1. /\ ShipTypeOK /\ StreamTypeOK /\ OpenSession(start_from)
      /\ UNCHANGED <<retry_count, last_lib, last_block_num, stored_num, failures>>
  BY DEF sync, ReceiverInv, ReceivedTypeOK, ShipTypeOK
<1>2. PICK n \in 0 .. Len(best) :
        /\ sent' = Prefix(best, n)
        /\ ResumeAfter - StartBlockNum \in 0 .. Len(best) => n = ResumeAfter - StartBlockNum
        /\ ResumeAfter <= StartBlockNum => n = 0
  BY <1>1, SessionFacts
<1>3. /\ UNCHANGED <<best, lib, produced>>
      /\ behind' = IF ResumeAfter >= StartBlockNum THEN 0 ELSE StartBlockNum - ResumeAfter
  BY <1>1, SessionFacts DEF chain_vars
<1>4. /\ ResumeAfter' = ResumeAfter /\ ResumeAfter \in Nat /\ StartBlockNum \in Nat
      /\ Len(best) \in Nat
  BY <1>1, ResumeFacts, ChannelAssumption, LenProperties
     DEF ResumeAfter, ShipTypeOK, StreamTypeOK, Histories
<1>5. ResumeAfter > StartBlockNum =>
        /\ ResumeAfter - StartBlockNum <= Len(best)
        /\ AllReceived(Prefix(best, ResumeAfter - StartBlockNum), received)
  BY DEF ReceiverInv, ResumeInv
<1>6. ReceivedTypeOK'
  <2>1. ShipTypeOK'
    BY <1>1, ConnectTyped DEF Connect
  <2> QED BY <1>1, <2>1 DEF ReceiverInv, ReceivedTypeOK
<1>7. LibsKnown'
  BY <1>1, <1>3 DEF ReceiverInv, LibsKnown
<1>8. ResumeInv'
  <2>1. AllReceived(sent', received)
    <3>1. CASE ResumeAfter > StartBlockNum
      <4>1. n = ResumeAfter - StartBlockNum
        BY <1>2, <1>4, <1>5, <3>1
      <4> QED BY <1>2, <1>5, <3>1, <4>1
    <3>2. CASE ResumeAfter <= StartBlockNum
      <4>1. Len(sent') = 0
        BY <1>1, <1>2, <3>2, PrefixType DEF StreamTypeOK
      <4> QED BY <4>1 DEF AllReceived
    <3> QED BY <1>4, <3>1, <3>2
  <2> QED BY <1>3, <1>4, <1>5, <2>1 DEF ResumeInv
<1>9. SettledInv'
  <2> SUFFICES ASSUME NEW i \in DOMAIN received, NEW m, m = Settled(received[i])
               PROVE  /\ m <= ResumeAfter
                      /\ behind' > 0 => m <= StartBlockNum - behind'
                      /\ behind' = 0 /\ m > StartBlockNum => Agree(m - StartBlockNum)'
    BY <1>3, <1>4 DEF SettledInv
  <2>1. m <= ResumeAfter
    BY DEF ReceiverInv, SettledInv
  <2>2. received[i] \in NativeBlock
    BY ElementOfSeq, LenProperties DEF ReceiverInv, ReceivedTypeOK
  <2>3. m \in Nat
    BY <2>2 DEF Settled, NativeBlock
  <2>4. behind' > 0 => m <= StartBlockNum - behind'
    BY <1>3, <1>4, <2>1, <2>3
  <2>5. ASSUME m > StartBlockNum PROVE Agree(m - StartBlockNum)'
    <3>1. n = ResumeAfter - StartBlockNum
      BY <1>2, <1>4, <1>5, <2>1, <2>3, <2>5
    <3>2. m - StartBlockNum \in 0 .. n
      BY <1>4, <2>1, <2>3, <2>5, <3>1
    <3>3. Len(sent') = n
      BY <1>1, <1>2, PrefixType DEF StreamTypeOK
    <3>4. Prefix(sent', m - StartBlockNum) = Prefix(best, m - StartBlockNum)
      BY <1>1, <1>2, <3>2, PrefixOfPrefix DEF Prefix, StreamTypeOK, Histories
    <3> QED BY <1>2, <1>3, <1>4, <3>2, <3>3, <3>4 DEF Agree
  <2> QED BY <2>1, <2>4, <2>5
<1> QED BY <1>6, <1>7, <1>8, <1>9 DEF ReceiverInv

LEMMA ReconnectKeeps ==
  ASSUME ReceiverInv, Reconnects
  PROVE  ReceiverInv'
<1>1. CASE sync
  BY <1>1, SyncKeeps DEF Reconnects
<1>2. CASE Startup \/ ConnectionFails \/ ReadFails \/ InitialReadFails \/ NotAvailable
  <2>1. UNCHANGED <<nodeos_vars, last_lib, last_block_num, stored_num, received>>
    BY <1>2 DEF Reconnects, Startup, ConnectionFails, ReadFails, InitialReadFails,
       NotAvailable, reset_connection
  <2>2. ShipTypeOK'
    BY <1>2, ConnectTyped DEF ReceiverInv, ReceivedTypeOK, Connect
  <2> QED BY <2>1, <2>2 DEF ReceiverInv, ReceivedTypeOK, LibsKnown, ResumeInv, SettledInv,
       ResumeAfter, Agree, nodeos_vars, chain_vars, session_vars
<1> QED BY <1>1, <1>2 DEF Reconnects, Connect

-----------------------------------------------------------------------------
(* A block is published *)

LEMMA AppendReceived ==
  ASSUME NEW R \in Seq(NativeBlock), NEW nb \in NativeBlock
  PROVE  /\ Append(R, nb) \in Seq(NativeBlock)
         /\ DOMAIN Append(R, nb) = 1 .. Len(R) + 1 /\ DOMAIN R = 1 .. Len(R) /\ Len(R) \in Nat
         /\ \A i \in DOMAIN R : Append(R, nb)[i] = R[i]
         /\ Append(R, nb)[Len(R) + 1] = nb
         /\ Received(nb.id, Append(R, nb))
         /\ \A id : Received(id, R) => Received(id, Append(R, nb))
<1> DEFINE Q == Append(R, nb)
<1>1. /\ Q \in Seq(NativeBlock) /\ Len(Q) = Len(R) + 1
      /\ \A i \in 1 .. Len(R) : Q[i] = R[i]
      /\ Q[Len(R) + 1] = nb
  BY AppendProperties
<1>2. DOMAIN R = 1 .. Len(R) /\ Len(R) \in Nat
  BY LenProperties
<1> HIDE DEF Q
<1>3. DOMAIN Q = 1 .. Len(R) + 1
  BY <1>1, LenProperties
<1>4. Received(nb.id, Q)
  <2>1. Len(R) + 1 \in DOMAIN Q
    BY <1>2, <1>3
  <2> QED BY <1>1, <2>1 DEF Received
<1>5. \A id : Received(id, R) => Received(id, Q)
  <2>1. \A i \in DOMAIN R : i \in DOMAIN Q /\ Q[i] = R[i]
    BY <1>1, <1>2, <1>3
  <2> QED BY <2>1 DEF Received
<1> QED BY <1>1, <1>2, <1>3, <1>4, <1>5 DEF Q

LEMMA PublishKeepsResume ==
  ASSUME HistoriesAreIds, ReceiverInv, NEW nb, ReadBlock(nb), received' = Append(received, nb)
  PROVE  ResumeInv'
<1>1. /\ nb \in NativeBlock /\ nb.lib = lib /\ UNCHANGED <<best, lib>>
      /\ SendsOld(nb) \/ SendsNext(nb)
  BY ReadFacts DEF ReceiverInv, ReceivedTypeOK, chain_vars
<1>2. /\ received \in Seq(NativeBlock) /\ ShipTypeOK /\ StreamTypeOK /\ stored_num = StartBlockNum
      /\ best \in Histories /\ lib \in Nat /\ StartBlockNum \in Nat /\ behind \in Nat
  BY ChannelAssumption DEF ReceiverInv, ReceivedTypeOK, ShipTypeOK, StreamTypeOK
<1>3. /\ Received(nb.id, received')
      /\ \A id : Received(id, received) => Received(id, received')
  BY <1>1, <1>2, AppendReceived
<1>4. /\ last_lib' = lib /\ last_block_num' = nb.block_num /\ stored_num' = StartBlockNum
      /\ nb.block_num \in Nat
  BY <1>1, <1>2 DEF ReadBlock, NativeBlock
<1>5. ResumeAfter' = IF lib > 0 THEN Settled(nb) ELSE StartBlockNum
  BY <1>1, <1>2, <1>4, MinOfTwo DEF ResumeAfter, Settled
<1>6. CASE SendsOld(nb)
  <2>1. sent' = sent /\ nb.block_num <= StartBlockNum
    BY <1>2, <1>6 DEF SendsOld
  <2>2. ResumeAfter' <= StartBlockNum
    BY <1>1, <1>2, <1>4, <1>5, <2>1 DEF Settled
  <2>3. AllReceived(sent', received')
    BY <1>3, <2>1 DEF ReceiverInv, ResumeInv, AllReceived
  <2>4. ResumeAfter' \in Nat
    BY <1>1, <1>2, <1>4, <1>5 DEF Settled
  <2> QED BY <1>2, <2>2, <2>3, <2>4 DEF ResumeInv
<1>7. CASE SendsNext(nb)
  <2> DEFINE c == Common
  <2>1. /\ c + 1 \in 1 .. Len(best) /\ sent' = Prefix(best, c + 1) /\ Len(sent') = c + 1
        /\ nb.id = sent' /\ nb.block_num = StartBlockNum + c + 1
    BY <1>7 DEF SendsNext
  <2>2. Agree(c) /\ Len(best) \in Nat /\ Len(sent) \in Nat
    BY <1>2, CommonFacts, LenProperties DEF StreamTypeOK, Histories
  <2> HIDE DEF c
  <2>3. c \in 0 .. Len(sent) /\ Prefix(sent, c) = Prefix(best, c)
    BY <2>2 DEF Agree
  <2>4. \A k \in 1 .. c + 1 : Received(Prefix(best, k), received')
    <3> TAKE k \in 1 .. c + 1
    <3>1. CASE k = c + 1
      BY <1>3, <2>1, <3>1
    <3>2. CASE k # c + 1
      <4>1. k \in 0 .. c /\ k \in 1 .. Len(sent) /\ c \in 0 .. Len(best)
        BY <2>1, <2>2, <2>3, <3>2
      <4>2. Prefix(best, k) = Prefix(Prefix(best, c), k)
        BY <1>2, <4>1, PrefixOfPrefix DEF Prefix, Histories
      <4>3. Prefix(sent, k) = Prefix(Prefix(sent, c), k)
        BY <1>2, <2>3, <4>1, PrefixOfPrefix DEF Prefix, StreamTypeOK, Histories
      <4>4. Received(Prefix(sent, k), received)
        BY <4>1 DEF ReceiverInv, ResumeInv, AllReceived
      <4> QED BY <1>3, <2>3, <4>2, <4>3, <4>4
    <3> QED BY <3>1, <3>2
  <2>5. ASSUME NEW n \in 0 .. c + 1 PROVE AllReceived(Prefix(best, n), received')
    <3>1. n \in 0 .. Len(best)
      BY <2>1, <2>2
    <3>2. Len(Prefix(best, n)) = n
      BY <1>2, <3>1, PrefixType
    <3> SUFFICES ASSUME NEW k \in 1 .. n PROVE Received(Prefix(Prefix(best, n), k), received')
      BY <3>2 DEF AllReceived
    <3>3. k \in 0 .. n /\ k \in 1 .. c + 1
      BY <2>1, <2>2
    <3>4. Prefix(Prefix(best, n), k) = Prefix(best, k)
      BY <1>2, <3>1, <3>3, PrefixOfPrefix DEF Prefix, Histories
    <3> QED BY <2>4, <3>3, <3>4
  <2>6. AllReceived(sent', received')
    BY <2>1, <2>3, <2>5
  <2>7. ASSUME ResumeAfter' > StartBlockNum
        PROVE  ResumeAfter' - StartBlockNum \in 0 .. c + 1
    BY <1>1, <1>2, <1>5, <2>1, <2>2, <2>3, <2>7 DEF Settled
  <2>8. ASSUME ResumeAfter' > StartBlockNum
        PROVE  /\ ResumeAfter' - StartBlockNum <= Len(best')
               /\ AllReceived(Prefix(best', ResumeAfter' - StartBlockNum), received')
    <3>1. ResumeAfter' - StartBlockNum \in 0 .. c + 1
      BY <2>7, <2>8
    <3> QED BY <1>1, <2>1, <2>2, <2>5, <3>1
  <2> QED BY <2>6, <2>8 DEF ResumeInv
<1> QED BY <1>1, <1>6, <1>7

LEMMA PublishKeepsSettled ==
  ASSUME HistoriesAreIds, ReceiverInv, NEW nb, ReadBlock(nb), received' = Append(received, nb)
  PROVE  /\ SettledInv'
         /\ \A i \in DOMAIN received : Settled(received[i]) < nb.block_num
<1>1. /\ nb \in NativeBlock /\ nb.lib = lib /\ UNCHANGED <<best, lib>>
      /\ SendsOld(nb) \/ SendsNext(nb)
  BY ReadFacts DEF ReceiverInv, ReceivedTypeOK, chain_vars
<1>2. /\ received \in Seq(NativeBlock) /\ ShipTypeOK /\ StreamTypeOK /\ stored_num = StartBlockNum
      /\ best \in Histories /\ lib \in Nat /\ StartBlockNum \in Nat /\ behind \in Nat
      /\ Len(best) \in Nat
  BY ChannelAssumption, LenProperties
     DEF ReceiverInv, ReceivedTypeOK, ShipTypeOK, StreamTypeOK, Histories
<1>3. /\ DOMAIN received' = 1 .. Len(received) + 1 /\ DOMAIN received = 1 .. Len(received)
      /\ \A i \in DOMAIN received : received'[i] = received[i]
      /\ received'[Len(received) + 1] = nb /\ Len(received) \in Nat
  BY <1>1, <1>2, AppendReceived
<1>4. /\ last_lib' = lib /\ last_block_num' = nb.block_num /\ stored_num' = StartBlockNum
      /\ nb.block_num \in Nat
  BY <1>1, <1>2 DEF ReadBlock, NativeBlock
<1>5. ResumeAfter' = IF lib > 0 THEN Settled(nb) ELSE StartBlockNum
  BY <1>1, <1>2, <1>4, MinOfTwo DEF ResumeAfter, Settled
<1>6. ASSUME NEW i \in DOMAIN received
      PROVE  /\ Settled(received[i]) \in Nat /\ Settled(received[i]) <= lib
             /\ Settled(received[i]) <= ResumeAfter
             /\ behind > 0 => Settled(received[i]) <= StartBlockNum - behind
             /\ behind = 0 /\ Settled(received[i]) > StartBlockNum
                  => Agree(Settled(received[i]) - StartBlockNum)
  <2>1. received[i] \in NativeBlock /\ received[i].lib <= lib
    BY <1>2, <1>3, ElementOfSeq DEF ReceiverInv, LibsKnown
  <2>2. Settled(received[i]) \in Nat /\ Settled(received[i]) <= lib
    BY <1>2, <2>1 DEF Settled, NativeBlock
  <2> QED BY <2>2 DEF ReceiverInv, SettledInv
<1>7. Settled(nb) \in Nat /\ Settled(nb) <= nb.block_num /\ Settled(nb) <= lib
  BY <1>1, <1>2, <1>4 DEF Settled
\* What is published now is above what was settled.
<1>8. ASSUME NEW i \in DOMAIN received PROVE Settled(received[i]) < nb.block_num
  <2>1. CASE SendsOld(nb)
    BY <1>2, <1>6, <2>1 DEF SendsOld
  <2>2. CASE SendsNext(nb)
    <3>1. /\ behind = 0 /\ nb.block_num = StartBlockNum + Common + 1
          /\ Common + 1 \in 1 .. Len(best) /\ Common \in Nat
      BY <1>2, <2>2, CommonFacts, LenProperties DEF SendsNext, Agree, StreamTypeOK, Histories
    <3>2. CASE Settled(received[i]) > StartBlockNum
      <4>1. Settled(received[i]) - StartBlockNum \in Nat
        BY <1>2, <1>6, <3>2
      <4>2. Settled(received[i]) - StartBlockNum <= Common
        BY <1>2, <1>6, <3>1, <3>2, <4>1, CommonFacts
      <4> QED BY <1>2, <1>6, <3>1, <4>1, <4>2
    <3>3. CASE Settled(received[i]) <= StartBlockNum
      BY <1>2, <1>6, <3>1, <3>3
    <3> QED BY <1>2, <1>6, <3>2, <3>3
  <2> QED BY <1>1, <2>1, <2>2
<1>9. ASSUME NEW i \in DOMAIN received', NEW n, n = Settled(received'[i])
      PROVE  /\ n <= ResumeAfter'
             /\ behind' > 0 => n <= StartBlockNum - behind'
             /\ behind' = 0 /\ n > StartBlockNum => Agree(n - StartBlockNum)'
  <2>1. n \in Nat /\ n <= lib /\ n <= nb.block_num
    <3>1. CASE i \in DOMAIN received
      BY <1>3, <1>4, <1>6, <1>8, <1>9, <3>1
    <3>2. CASE i \notin DOMAIN received
      BY <1>3, <1>7, <1>9, <3>2
    <3> QED BY <3>1, <3>2
  <2>2. n <= ResumeAfter'
    BY <1>1, <1>2, <1>4, <1>5, <2>1 DEF Settled
  <2>3. CASE SendsOld(nb)
    BY <1>2, <1>4, <2>1, <2>2, <2>3 DEF SendsOld
  <2>4. CASE SendsNext(nb)
    <3>1. /\ behind' = 0 /\ sent' = Prefix(best, Common + 1) /\ Len(sent') = Common + 1
          /\ nb.block_num = StartBlockNum + Common + 1 /\ Common + 1 \in 1 .. Len(best)
          /\ Common \in Nat
      BY <1>2, <2>4, CommonFacts, LenProperties DEF SendsNext, Agree, StreamTypeOK, Histories
    <3>2. ASSUME n > StartBlockNum PROVE Agree(n - StartBlockNum)'
      <4>1. n - StartBlockNum \in 0 .. Common + 1 /\ Common + 1 \in 0 .. Len(best)
        BY <1>2, <2>1, <3>1, <3>2
      <4>2. Prefix(sent', n - StartBlockNum) = Prefix(best, n - StartBlockNum)
        BY <1>2, <3>1, <4>1, PrefixOfPrefix DEF Prefix, Histories
      <4> QED BY <1>1, <1>2, <3>1, <4>1, <4>2 DEF Agree
    <3> QED BY <2>2, <3>1, <3>2
  <2> QED BY <1>1, <2>3, <2>4
<1>10. SettledInv'
  BY <1>9 DEF SettledInv
<1> QED BY <1>8, <1>10

LEMMA PublishKeeps ==
  ASSUME HistoriesAreIds, ReceiverInv, NEW nb, ReadBlock(nb), received' = Append(received, nb)
  PROVE  ReceiverInv'
<1>1. nb \in NativeBlock /\ nb.lib = lib /\ lib' = lib /\ ShipTypeOK'
  BY ReadFacts, ReadTyped DEF ReceiverInv, ReceivedTypeOK, chain_vars
<1>2. received \in Seq(NativeBlock) /\ lib \in Nat
  BY DEF ReceiverInv, ReceivedTypeOK, ShipTypeOK, StreamTypeOK
<1>3. /\ received' \in Seq(NativeBlock)
      /\ DOMAIN received' = 1 .. Len(received) + 1 /\ DOMAIN received = 1 .. Len(received)
      /\ \A i \in DOMAIN received : received'[i] = received[i]
      /\ received'[Len(received) + 1] = nb /\ Len(received) \in Nat
  BY <1>1, <1>2, AppendReceived
<1>4. ReceivedTypeOK'
  BY <1>1, <1>3 DEF ReceiverInv, ReceivedTypeOK, ReadBlock
<1>5. LibsKnown'
  <2>1. \A i \in DOMAIN received' : i \in DOMAIN received \/ i = Len(received) + 1
    BY <1>3
  <2>2. last_lib' = lib
    BY <1>1 DEF ReadBlock
  <2> QED BY <1>1, <1>2, <1>3, <2>1, <2>2 DEF ReceiverInv, LibsKnown
<1> QED BY <1>4, <1>5, PublishKeepsResume, PublishKeepsSettled DEF ReceiverInv

-----------------------------------------------------------------------------
(* The theorems *)

LEMMA InitReceiver == ShipInit => ReceiverInv
<1> SUFFICES ASSUME ShipInit PROVE ReceiverInv
  OBVIOUS
<1>1. ShipTypeOK
  BY InitShipTyped DEF ShipInit
<1>2. /\ received = <<>> /\ sent = <<>> /\ last_lib = 0 /\ lib = InitLib
      /\ stored_num = StartBlockNum
  BY DEF ShipInit, NodeosInit, ReceiverInit
<1>3. received \in Seq(NativeBlock) /\ DOMAIN received = {} /\ Len(sent) = 0
  BY <1>2, EmptySeq
<1>4. ResumeAfter = StartBlockNum
  BY <1>2 DEF ResumeAfter
<1> QED BY <1>1, <1>2, <1>3, <1>4, NodeosAssumption, ChannelAssumption
        DEF ReceiverInv, ReceivedTypeOK, LibsKnown, ResumeInv, SettledInv, AllReceived

LEMMA NextReceiver == HistoriesAreIds /\ ReceiverInv /\ [ShipNext]_shipvars => ReceiverInv'
<1> SUFFICES ASSUME HistoriesAreIds, ReceiverInv, [ShipNext]_shipvars PROVE ReceiverInv'
  OBVIOUS
<1>1. CASE ChainMoves
  BY <1>1, ProduceKeeps, AdvanceKeeps DEF ChainMoves
<1>2. CASE Reconnects
  BY <1>2, ReconnectKeeps
<1>3. CASE Publishes
  BY <1>3, PublishKeeps DEF Publishes
<1>4. CASE UNCHANGED shipvars
  BY <1>4 DEF ReceiverInv, ReceivedTypeOK, ShipTypeOK, StreamTypeOK, ReceiverTypeOK, LibsKnown,
     ResumeInv, SettledInv, ResumeAfter, Agree, shipvars, nodeos_vars, chain_vars,
     session_vars, receiver_vars
<1> QED BY <1>1, <1>2, <1>3, <1>4 DEF ShipNext

\* Steps other than Publishes leave received alone.
LEMMA ReceivedStep ==
  ASSUME [ShipNext]_shipvars
  PROVE  \/ UNCHANGED received
         \/ \E nb : ReadBlock(nb) /\ received' = Append(received, nb)
BY DEF ShipNext, ChainMoves, Reconnects, Publishes, shipvars

LEMMA NextParents ==
  ASSUME HistoriesAreIds, ReceiverInv, ParentsReceived, [ShipNext]_shipvars
  PROVE  ParentsReceived'
<1>1. CASE UNCHANGED received
  BY <1>1 DEF ParentsReceived
<1>2. ASSUME NEW nb, ReadBlock(nb), received' = Append(received, nb) PROVE ParentsReceived'
  <2>1. nb \in NativeBlock /\ (SendsOld(nb) \/ SendsNext(nb))
    BY <1>2, ReadFacts DEF ReceiverInv, ReceivedTypeOK
  <2>2. /\ DOMAIN received' = 1 .. Len(received) + 1 /\ DOMAIN received = 1 .. Len(received)
        /\ \A i \in DOMAIN received : received'[i] = received[i]
        /\ received'[Len(received) + 1] = nb /\ Len(received) \in Nat
    BY <1>2, <2>1, AppendReceived DEF ReceiverInv, ReceivedTypeOK
  <2>3. ASSUME nb.block_num > StartBlockNum
        PROVE  nb.prev = <<>> \/ Received(nb.prev, received)
    <3>1. CASE SendsOld(nb)
      <4>1. behind \in Nat /\ behind > 0 /\ nb.block_num = StartBlockNum + 1 - behind
        BY <3>1, ChannelAssumption DEF SendsOld, ReceiverInv, ReceivedTypeOK, ShipTypeOK, StreamTypeOK
      <4> QED BY <2>3, <4>1, ChannelAssumption
    <3>2. CASE SendsNext(nb)
      <4>1. nb.prev = Prefix(best, Common) /\ Agree(Common)
        BY <3>2, CommonFacts DEF SendsNext, ReceiverInv, ReceivedTypeOK, ShipTypeOK
      <4>2. nb.prev = Prefix(sent, Common) /\ Common \in 0 .. Len(sent)
        BY <4>1 DEF Agree
      <4>3. CASE Common = 0
        BY <4>2, <4>3, SubSeqEmpty DEF Prefix
      <4>4. CASE Common # 0
        <5>1. Len(sent) \in Nat
          BY LenProperties DEF ReceiverInv, ReceivedTypeOK, ShipTypeOK, StreamTypeOK, Histories
        <5>2. Common \in 1 .. Len(sent)
          BY <4>2, <4>4, <5>1
        <5> QED BY <4>2, <5>2 DEF ReceiverInv, ResumeInv, AllReceived
      <4> QED BY <4>3, <4>4
    <3> QED BY <2>1, <3>1, <3>2
  <2>4. ASSUME NEW i \in DOMAIN received', received'[i].block_num > StartBlockNum
        PROVE  \/ received'[i].prev = <<>>
               \/ \E j \in 1 .. i - 1 : received'[j].id = received'[i].prev
    <3>1. CASE i = Len(received) + 1
      BY <2>2, <2>3, <2>4, <3>1 DEF Received
    <3>2. CASE i # Len(received) + 1
      <4>1. i \in DOMAIN received /\ \A j \in 1 .. i - 1 : j \in DOMAIN received
        BY <2>2, <3>2
      <4> QED BY <2>2, <2>4, <4>1 DEF ParentsReceived
    <3> QED BY <3>1, <3>2
  <2> QED BY <2>4 DEF ParentsReceived
<1> QED BY <1>1, <1>2, ReceivedStep

LEMMA NextTwice ==
  ASSUME HistoriesAreIds, ReceiverInv, NothingIrreversibleTwice, [ShipNext]_shipvars
  PROVE  NothingIrreversibleTwice'
<1>1. CASE UNCHANGED received
  BY <1>1 DEF NothingIrreversibleTwice
<1>2. ASSUME NEW nb, ReadBlock(nb), received' = Append(received, nb)
      PROVE  NothingIrreversibleTwice'
  <2>1. nb \in NativeBlock /\ \A i \in DOMAIN received : Settled(received[i]) < nb.block_num
    BY <1>2, ReadFacts, PublishKeepsSettled DEF ReceiverInv, ReceivedTypeOK
  <2>2. /\ DOMAIN received' = 1 .. Len(received) + 1 /\ DOMAIN received = 1 .. Len(received)
        /\ \A i \in DOMAIN received : received'[i] = received[i]
        /\ received'[Len(received) + 1] = nb /\ Len(received) \in Nat
    BY <1>2, <2>1, AppendReceived DEF ReceiverInv, ReceivedTypeOK
  <2>3. ASSUME NEW i \in DOMAIN received
        PROVE  /\ Min({received[i].lib, received[i].block_num}) = Settled(received[i])
               /\ Settled(received[i]) \in Nat
    <3>1. received[i] \in NativeBlock
      BY <2>2, ElementOfSeq DEF ReceiverInv, ReceivedTypeOK
    <3>2. received[i].lib \in Nat /\ received[i].block_num \in Nat
      BY <3>1 DEF NativeBlock
    <3> QED BY <3>2, MinOfTwo DEF Settled
  <2>4. nb.block_num \in Nat
    BY <2>1 DEF NativeBlock
  <2>5. ASSUME NEW j \in DOMAIN received', NEW i \in 1 .. j - 1
        PROVE  received'[j].block_num > Min({received'[i].lib, received'[i].block_num})
    <3>1. i \in DOMAIN received
      BY <2>2
    <3>2. CASE j = Len(received) + 1
      BY <2>1, <2>2, <2>3, <2>4, <3>1, <3>2
    <3>3. CASE j # Len(received) + 1
      <4>1. j \in DOMAIN received
        BY <2>2, <3>3
      <4> QED BY <2>2, <3>1, <4>1 DEF NothingIrreversibleTwice
    <3> QED BY <3>2, <3>3
  <2> QED BY <2>5 DEF NothingIrreversibleTwice
<1> QED BY <1>1, <1>2, ReceivedStep

\* For every native chain and every sequence of failures, forks and reconnections, the
\* handler gets each block after its parent.
THEOREM NoGap == ASSUME HistoriesAreIds PROVE ShipSpec => []ParentsReceived
<1>1. ShipInit => ReceiverInv /\ ParentsReceived
  <2>1. ShipInit => DOMAIN received = {}
    BY DEF ShipInit
  <2> QED BY <2>1, InitReceiver DEF ParentsReceived
<1>2. ReceiverInv /\ ParentsReceived /\ [ShipNext]_shipvars => ReceiverInv' /\ ParentsReceived'
  BY NextReceiver, NextParents
<1> QED BY <1>1, <1>2, PTL DEF ShipSpec

\* For every native chain and every sequence of failures, forks and reconnections, no
\* block is asked for again that was known to be irreversible when it was read.
THEOREM NoRereading == ASSUME HistoriesAreIds PROVE ShipSpec => []NothingIrreversibleTwice
<1>1. ShipInit => ReceiverInv /\ NothingIrreversibleTwice
  <2>1. ShipInit => DOMAIN received = {}
    BY DEF ShipInit
  <2> QED BY <2>1, InitReceiver DEF NothingIrreversibleTwice
<1>2. ReceiverInv /\ NothingIrreversibleTwice /\ [ShipNext]_shipvars
        => ReceiverInv' /\ NothingIrreversibleTwice'
  BY NextReceiver, NextTwice
<1> QED BY <1>1, <1>2, PTL DEF ShipSpec
=============================================================================
