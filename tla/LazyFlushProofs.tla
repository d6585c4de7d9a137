------------------------- MODULE LazyFlushProofs --------------------------
(***************************************************************************)
(* Proofs about the lazy-flush consumer of module LazyFlush, for every     *)
(* value of its constants.                                                 *)
(***************************************************************************)
EXTENDS LazyFlush, TLAPS, FiniteSetTheorems, SequenceTheorems

-----------------------------------------------------------------------------
(* Lemmas about the sets and sequences the model is built from.            *)

\* a set of entry ids below a bound is finite, and has a card >= 1 if nonempty
LEMMA IdSetFinite ==
  ASSUME NEW n \in Nat, NEW P \in SUBSET (1..n)
  PROVE  /\ IsFiniteSet(P)
         /\ Cardinality(P) \in Nat
         /\ P # {} => Cardinality(P) >= 1
<1>0. IsFiniteSet(1..n)
  BY FS_Interval
<1>1. IsFiniteSet(P)
  BY <1>0, FS_Subset
<1>2. Cardinality(P) \in Nat
  BY <1>1, FS_CardinalityType
<1>3. P # {} => Cardinality(P) # 0
  BY <1>1, FS_EmptySet
<1>4. QED
  BY <1>1, <1>2, <1>3

\* every published event is a nonempty sequence of records
LEMMA StreamEntries ==
  ASSUME TypeOK, NEW k \in 1..Len(stream)
  PROVE  /\ stream[k] \in Seq(Records)
         /\ Len(stream[k]) \in Nat \ {0}
<1>1. stream[k] \in Payloads
  BY DEF TypeOK
<1>2. stream[k] \in Seq(Records) /\ stream[k] # <<>>
  BY <1>1, PayloadsAssumption
<1>3. QED
  BY <1>2, LenProperties, EmptySeq

\* the records of one event, as positions, are published positions
LEMMA EventPositionsType ==
  ASSUME TypeOK, NEW k \in 1..Len(stream)
  PROVE  EventPositions(k) \in Seq(PublishedPositions)
<1>1. Len(stream[k]) \in Nat
  BY StreamEntries
<1>2. \A j \in 1..Len(stream[k]) : <<k, j>> \in PublishedPositions
  BY DEF PublishedPositions, PositionsOf
<1>3. QED
  BY <1>1, <1>2 DEF EventPositions

\* appending an event keeps the positions of the earlier ones
LEMMA AppendKeepsPositions ==
  ASSUME TypeOK, NEW p \in Payloads, stream' = Append(stream, p)
  PROVE  /\ \A k \in 1..Len(stream) : PositionsOf(k)' = PositionsOf(k)
         /\ PublishedPositions \subseteq PublishedPositions'
         /\ Len(stream') = Len(stream) + 1
<1>1. stream \in Seq(Payloads)
  BY DEF TypeOK
<1>2. /\ Len(stream') = Len(stream) + 1
      /\ \A k \in 1..Len(stream) : stream'[k] = stream[k]
  BY <1>1, AppendProperties
<1>3. \A k \in 1..Len(stream) : PositionsOf(k)' = PositionsOf(k)
  BY <1>2 DEF PositionsOf
<1>4. PublishedPositions \subseteq PublishedPositions'
  BY <1>2, <1>3 DEF PublishedPositions
<1>5. QED
  BY <1>2, <1>3, <1>4

\* the elements of a sequence over S lie in S
LEMMA SeqElemsType ==
  ASSUME NEW S, NEW sq \in Seq(S)
  PROVE  SeqElems(sq) \subseteq S
BY LenProperties DEF SeqElems

\* a function on 1..n is a sequence
LEMMA FunIsSeq ==
  ASSUME NEW S, NEW n \in Nat, NEW f \in [1..n -> S]
  PROVE  f \in Seq(S)
OBVIOUS

\* the last-delivered id is a natural number
LEMMA LastDeliveredNat ==
  ASSUME TypeOK
  PROVE  /\ lastDelivered \in Nat
         /\ Len(stream) \in Nat
BY LenProperties DEF TypeOK

\* the positions are a function of the stream alone
LEMMA SameStreamSamePositions ==
  ASSUME stream' = stream
  PROVE  PublishedPositions' = PublishedPositions
BY DEF PublishedPositions, PositionsOf

\* Consume's acknowledgement of the whole batch keeps the broker typed
LEMMA AckAllType ==
  ASSUME TypeOK, AckAll
  PROVE  /\ stream' = stream /\ lastDelivered' = lastDelivered
         /\ pending' \subseteq 1..lastDelivered
         /\ acked' \subseteq 1..lastDelivered
<1>1. SeqElems(events) \subseteq 1..lastDelivered
  BY SeqElemsType DEF TypeOK
<1>2. QED
  BY <1>1 DEF TypeOK, AckAll

\* the deferred Ack of the isolated loop, or its panic, keeps the state typed
LEMMA AckAtType ==
  ASSUME TypeOK, NEW i \in Nat \ {0}, AckAt(i)
  PROVE  /\ stream' = stream /\ lastDelivered' = lastDelivered
         /\ pending' \subseteq 1..lastDelivered
         /\ acked' \subseteq 1..lastDelivered
         /\ pc' \in {"idle", "unserialize", "batch", "isolated"}
         /\ events' \in Seq(1..lastDelivered)
         /\ lazyEvents' \in Seq(PublishedPositions)
         /\ idx' \in Nat \ {0}
         /\ batchErr' \in Errors \cup {NoError}
<1>1. CASE i \in DOMAIN events
  <2>1. events[i] \in 1..lastDelivered
    BY <1>1, LenProperties DEF TypeOK
  <2>2. /\ pending' = pending \ {events[i]}
        /\ acked' = acked \cup {events[i]}
        /\ idx' = i + 1
        /\ stream' = stream /\ lastDelivered' = lastDelivered /\ pc' = pc
        /\ events' = events /\ lazyEvents' = lazyEvents
        /\ batchErr' = batchErr
    BY <1>1 DEF AckAt
  <2>3. pending' \subseteq 1..lastDelivered /\ acked' \subseteq 1..lastDelivered
    BY <2>1, <2>2 DEF TypeOK
  <2>4. QED
    BY <2>2, <2>3 DEF TypeOK
<1>2. CASE i \notin DOMAIN events
  <2>1. ResetLocals /\ UNCHANGED brokerVars
    BY <1>2 DEF AckAt
  <2>2. QED
    BY <2>1, EmptySeq DEF TypeOK, ResetLocals, brokerVars
<1>3. QED
  BY <1>1, <1>2

-----------------------------------------------------------------------------
(* Type correctness.                                                       *)

LEMMA InitTypeOK == Init => TypeOK
BY BoundsAssumption DEF Init, TypeOK, PublishedPositions

LEMMA NextTypeOK == TypeOK /\ [Next]_vars => TypeOK'
<1> SUFFICES ASSUME TypeOK, [Next]_vars PROVE TypeOK'
  OBVIOUS
<1>1. ASSUME NEW p \in Payloads, PublishLazy(p) PROVE TypeOK'
  <2>1. stream' \in Seq(Payloads)
    BY <1>1, AppendProperties DEF TypeOK, PublishLazy
  <2>2. PublishedPositions \subseteq PublishedPositions'
        /\ Len(stream') = Len(stream) + 1
    BY <1>1, AppendKeepsPositions DEF PublishLazy
  <2>3. /\ lastDelivered' \in 0..Len(stream')
        /\ Len(stream') <= MaxEvents
    BY <1>1, <2>2, LastDeliveredNat, BoundsAssumption DEF TypeOK, PublishLazy
  <2>4. /\ written' \subseteq PublishedPositions'
        /\ resolved' \subseteq PublishedPositions'
        /\ cacheFlushed' \subseteq PublishedPositions'
    BY <1>1, <2>2 DEF TypeOK, PublishLazy, dbVars
  <2>5. lazyEvents' \in Seq(PublishedPositions')
    <3>1. lazyEvents \in Seq(PublishedPositions)
      BY DEF TypeOK
    <3>2. lazyEvents' = lazyEvents
      BY <1>1 DEF PublishLazy, localVars
    <3>3. QED
      BY <2>2, <3>1, <3>2, LenProperties
  <2>6. QED
    BY <1>1, <2>1, <2>3, <2>4, <2>5 DEF TypeOK, PublishLazy, localVars
<1>2. CASE Digest
  <2>1. /\ IsFiniteSet(pending)
        /\ Cardinality(pending) \in Nat
        /\ pending # {} => Cardinality(pending) >= 1
    BY IdSetFinite, LastDeliveredNat DEF TypeOK
  <2>2. PublishedPositions' = PublishedPositions
    BY <1>2, SameStreamSamePositions DEF Digest, ReadPending, ReadNew
  <2>3. CASE ReadPending
    <3>1. events' \in Seq(1..lastDelivered)
      <4> DEFINE n == Min2(Cardinality(pending), BatchSize)
      <4>1. n \in Nat
        BY <2>1, BoundsAssumption DEF Min2
      <4>2. PICK s \in [1..n -> pending] : events' = s
        BY <2>3 DEF ReadPending
      <4>3. QED
        BY <4>1, <4>2, FunIsSeq DEF TypeOK
    <3>2. QED
      BY <1>2, <2>2, <2>3, <3>1 DEF TypeOK, Digest, ReadPending, dbVars
  <2>4. CASE ReadNew
    BY <1>2, <2>2, <2>4, BoundsAssumption
       DEF TypeOK, Digest, ReadNew, Min2, dbVars
  <2>5. QED
    BY <1>2, <2>3, <2>4 DEF Digest
<1>3. CASE Unserialize
  <2>1. events[idx] \in 1..Len(stream)
    BY <1>3 DEF TypeOK, Unserialize
  <2>2. EventPositions(events[idx]) \in Seq(PublishedPositions)
    BY <2>1, EventPositionsType
  <2>3. PublishedPositions' = PublishedPositions
    BY <1>3, SameStreamSamePositions DEF Unserialize, brokerVars
  <2>4. lazyEvents' \in Seq(PublishedPositions)
    BY <1>3, <2>2, ConcatProperties DEF TypeOK, Unserialize
  <2>5. QED
    BY <1>3, <2>3, <2>4 DEF TypeOK, Unserialize, brokerVars, dbVars
<1>4. CASE BatchExecute
  <2>1. PublishedPositions' = PublishedPositions
    BY <1>4, SameStreamSamePositions DEF BatchExecute, brokerVars
  <2>2. QED
    BY <1>4, <2>1 DEF TypeOK, BatchExecute, brokerVars
<1>5. CASE BatchQueryError
  <2>1. PublishedPositions' = PublishedPositions
    BY <1>5, SameStreamSamePositions DEF BatchQueryError, brokerVars
  <2>2. Rec(lazyEvents[idx]) \in Records
    BY <1>5, ErrorAssumption DEF BatchQueryError
  <2>3. QED
    BY <1>5, <2>1, <2>2, ErrorAssumption
       DEF TypeOK, BatchQueryError, brokerVars, dbVars
<1>6. CASE BatchDone
  <2>1. PublishedPositions' = PublishedPositions
    BY <1>6, SameStreamSamePositions DEF BatchDone, AckAll
  <2>2. QED
    <3>1. SeqElems(lazyEvents) \subseteq PublishedPositions
      BY SeqElemsType DEF TypeOK
    <3>2. QED
      BY <1>6, <2>1, <3>1, AckAllType, EmptySeq
         DEF TypeOK, BatchDone, ResetLocals
<1>7. CASE IsolatedExecute
  <2>1. PublishedPositions' = PublishedPositions
    BY <1>7, SameStreamSamePositions DEF IsolatedExecute, AckAt, brokerVars
  <2>2. QED
    <3>1. lazyEvents[idx] \in PublishedPositions
      BY <1>7, LenProperties DEF TypeOK, IsolatedExecute
    <3>2. QED
      BY <1>7, <2>1, <3>1, AckAtType DEF TypeOK, IsolatedExecute
<1>8. CASE IsolatedResolve
  <2>1. PublishedPositions' = PublishedPositions
    BY <1>8, SameStreamSamePositions DEF IsolatedResolve, AckAt, brokerVars
  <2>2. QED
    <3>1. lazyEvents[idx] \in PublishedPositions
      BY <1>8, LenProperties DEF TypeOK, IsolatedResolve
    <3>2. QED
      BY <1>8, <2>1, <3>1, AckAtType DEF TypeOK, IsolatedResolve
<1>9. CASE IsolatedUnresolved
  <2>1. PublishedPositions' = PublishedPositions
    BY <1>9, SameStreamSamePositions DEF IsolatedUnresolved, brokerVars
  <2>2. QED
    BY <1>9, <2>1
       DEF TypeOK, IsolatedUnresolved, ResetLocals, brokerVars, dbVars
<1>10. CASE IsolatedDone
  <2>1. PublishedPositions' = PublishedPositions
    BY <1>10, SameStreamSamePositions DEF IsolatedDone, AckAll
  <2>2. QED
    BY <1>10, <2>1, AckAllType, EmptySeq
       DEF TypeOK, IsolatedDone, ResetLocals, dbVars
<1>11. CASE Kill
  <2>1. PublishedPositions' = PublishedPositions
    BY <1>11, SameStreamSamePositions DEF Kill, brokerVars
  <2>2. QED
    BY <1>11, <2>1, BoundsAssumption
       DEF TypeOK, Kill, ResetLocals, brokerVars, dbVars
<1>12. CASE UNCHANGED vars
  <2>1. PublishedPositions' = PublishedPositions
    BY <1>12, SameStreamSamePositions DEF vars, brokerVars
  <2>2. QED
    BY <1>12, <2>1 DEF TypeOK, vars, brokerVars, dbVars, localVars
<1>13. QED
  BY <1>1, <1>2, <1>3, <1>4, <1>5, <1>6, <1>7, <1>8, <1>9, <1>10,
     <1>11, <1>12 DEF Next, Consumer

\* The lazy-flush state keeps its type: stream, broker, positions and the
\* consumer's locals stay well formed through every step.
THEOREM TypeCorrect == Spec => []TypeOK
BY InitTypeOK, NextTypeOK, PTL DEF Spec


-----------------------------------------------------------------------------
(* Acks in stream order.                                                   *)

\* the group's pending entries are exactly the delivered, unacked ids
PendingExact == pending = (1..lastDelivered) \ acked

\* every id below an event of the batch is acked or an earlier event of it
EventsBelow ==
  \A i \in DOMAIN events : \A k \in 1..(events[i] - 1) :
    k \in acked \/ \E j \in 1..(i - 1) : events[j] = k

\* the isolated loop has acked the events before idx
IsoAcked ==
  pc = "isolated" => \A j \in 1..(idx - 1) : j \in DOMAIN events => events[j] \in acked

OrderInv == TypeOK /\ PendingExact /\ AckedInStreamOrder /\ EventsBelow /\ IsoAcked

\* no step but an ack changes acked, and the batch only by a new read
LEMMA OrderUnchanged ==
  ASSUME OrderInv, TypeOK',
         UNCHANGED <<lastDelivered, pending, acked>>,
         events' = events \/ events' = <<>>,
         pc' # "isolated" \/ UNCHANGED <<pc, idx, events>> \/ idx' = 1
  PROVE  OrderInv'
BY EmptySeq DEF OrderInv, PendingExact, AckedInStreamOrder, EventsBelow, IsoAcked

\* Consume's ack of the whole batch, with the handler's locals reset
LEMMA AckAllOrder ==
  ASSUME OrderInv, TypeOK', AckAll, ResetLocals
  PROVE  OrderInv'
<1>1. SeqElems(events) \subseteq 1..lastDelivered
  BY SeqElemsType DEF OrderInv, TypeOK
<1>2. PendingExact'
  BY <1>1 DEF OrderInv, PendingExact, AckAll
<1>3. AckedInStreamOrder'
  <2> SUFFICES ASSUME NEW k \in acked', NEW k2 \in 1..k PROVE k2 \in acked'
    BY DEF AckedInStreamOrder
  <2>1. CASE k \in acked
    BY <2>1 DEF OrderInv, AckedInStreamOrder, AckAll
  <2>2. CASE k \notin acked
    <3>1. PICK i \in DOMAIN events : events[i] = k
      BY <2>2 DEF AckAll, SeqElems
    <3>2. CASE k2 = k
      BY <3>2 DEF AckAll
    <3>3. CASE k2 # k
      <4>0. events[i] \in Nat
        BY LenProperties DEF OrderInv, TypeOK
      <4>1. k2 \in 1..(events[i] - 1)
        BY <3>1, <3>3, <4>0
      <4>2. k2 \in acked \/ \E j \in 1..(i - 1) : events[j] = k2
        BY <4>1 DEF OrderInv, EventsBelow
      <4>3. \A j \in 1..(i - 1) : j \in DOMAIN events
        BY DEF OrderInv, TypeOK
      <4>4. QED
        BY <4>2, <4>3 DEF AckAll, SeqElems
    <3>4. QED
      BY <3>2, <3>3
  <2>3. QED
    BY <2>1, <2>2
<1>4. (EventsBelow /\ IsoAcked)'
  BY EmptySeq DEF ResetLocals, EventsBelow, IsoAcked
<1>5. QED
  BY <1>2, <1>3, <1>4 DEF OrderInv

\* the isolated loop's deferred Ack of events[idx], or its panic
LEMMA AckAtOrder ==
  ASSUME OrderInv, TypeOK', pc = "isolated", AckAt(idx)
  PROVE  OrderInv'
<1>1. CASE idx \in DOMAIN events
  <2>1. /\ pending' = pending \ {events[idx]}
        /\ acked' = acked \cup {events[idx]}
        /\ idx' = idx + 1
        /\ UNCHANGED <<lastDelivered, pc, events>>
    BY <1>1 DEF AckAt
  <2>2. idx \in Nat \ {0} /\ events[idx] \in 1..lastDelivered
    BY <1>1, LenProperties DEF OrderInv, TypeOK
  <2>3. PendingExact'
    BY <2>1, <2>2 DEF OrderInv, PendingExact
  <2>4. AckedInStreamOrder'
    <3> SUFFICES ASSUME NEW k2 \in 1..(events[idx] - 1) PROVE k2 \in acked
      BY <2>1, <2>2 DEF OrderInv, AckedInStreamOrder
    <3>1. k2 \in acked \/ \E j \in 1..(idx - 1) : events[j] = k2
      BY <1>1 DEF OrderInv, EventsBelow
    <3>2. \A j \in 1..(idx - 1) : j \in DOMAIN events
      BY <1>1, <2>2 DEF OrderInv, TypeOK
    <3>3. QED
      BY <3>1, <3>2 DEF OrderInv, IsoAcked
  <2>5. EventsBelow'
    BY <2>1 DEF OrderInv, EventsBelow
  <2>6. IsoAcked'
    BY <2>1, <2>2 DEF OrderInv, IsoAcked
  <2>7. QED
    BY <2>3, <2>4, <2>5, <2>6 DEF OrderInv
<1>2. CASE idx \notin DOMAIN events
  <2>1. ResetLocals /\ UNCHANGED brokerVars
    BY <1>2 DEF AckAt
  <2>2. QED
    BY <2>1, OrderUnchanged DEF ResetLocals, brokerVars
<1>3. QED
  BY <1>1, <1>2

\* Consume hands out the lowest pending ids in order, or the next new ones:
\* every id below one of them is acked or handed out before it
LEMMA DigestOrder ==
  ASSUME OrderInv, TypeOK', Digest
  PROVE  OrderInv'
<1>1. lastDelivered \in Nat /\ pc' = "unserialize"
  BY LastDeliveredNat DEF OrderInv, Digest
<1>2. IsoAcked'
  BY <1>1 DEF IsoAcked
<1>3. CASE ReadPending
  <2> DEFINE n == Min2(Cardinality(pending), BatchSize)
  <2>1. n \in Nat
    BY <1>1, IdSetFinite, BoundsAssumption DEF OrderInv, TypeOK, Min2
  <2>2. PICK sq \in [1..n -> pending] :
          /\ \A i, j \in 1..n : i < j => sq[i] < sq[j]
          /\ \A x \in pending \ SeqElems(sq) : x > sq[n]
          /\ events' = sq
    BY <1>3 DEF ReadPending
  <2>3. UNCHANGED <<lastDelivered, pending, acked>>
    BY <1>3 DEF ReadPending
  <2>4. pending \subseteq 1..lastDelivered
    BY DEF OrderInv, TypeOK
  <2>5. EventsBelow'
    <3> SUFFICES ASSUME NEW i \in 1..n, NEW k \in 1..(sq[i] - 1), k \notin acked
                 PROVE  \E j \in 1..(i - 1) : sq[j] = k
      BY <2>1, <2>2, <2>3 DEF EventsBelow
    <3>0. n \in 1..n
      BY <2>1
    <3>a. sq[i] \in pending /\ sq[n] \in pending
      BY <3>0, <2>2
    <3>1. sq[i] \in 1..lastDelivered /\ sq[n] \in 1..lastDelivered /\ n \in 1..n
      BY <3>0, <3>a, <2>4
    <3>2. k \in pending
      <4>1. k \in 1..lastDelivered
        BY <3>1, <1>1
      <4>2. QED
        BY <4>1 DEF OrderInv, PendingExact
    <3>3. sq[i] <= sq[n]
      <4>1. CASE i = n
        BY <4>1, <3>1
      <4>2. CASE i # n
        <5>1. i < n
          BY <4>2, <2>1
        <5>2. QED
          BY <5>1, <2>2, <3>1, <1>1
      <4>3. QED
        BY <4>1, <4>2
    <3>4. k \in SeqElems(sq)
      <4>1. k < sq[n]
        BY <3>1, <3>3, <1>1
      <4>2. ~(k > sq[n])
        BY <4>1, <3>1, <1>1
      <4>3. QED
        BY <2>2, <3>2, <4>2
    <3>5. PICK j \in 1..n : sq[j] = k
      BY <3>4 DEF SeqElems
    <3>6. j < i
      BY <2>1, <2>2, <3>1, <3>5, <2>4
    <3>7. QED
      BY <3>5, <3>6
  <2>6. QED
    BY <1>2, <2>3, <2>5 DEF OrderInv, PendingExact, AckedInStreamOrder
<1>4. CASE ReadNew
  <2> DEFINE n == Min2(Len(stream) - lastDelivered, BatchSize)
  <2>1. /\ pending = {}
        /\ events' = [i \in 1..n |-> lastDelivered + i]
        /\ pending' = lastDelivered + 1 .. lastDelivered + n
        /\ lastDelivered' = lastDelivered + n
        /\ acked' = acked
    BY <1>4 DEF ReadNew
  <2>2. n \in Nat
    BY <1>1, <1>4, LastDeliveredNat, BoundsAssumption DEF OrderInv, ReadNew, Min2
  <2>3. acked = 1..lastDelivered
    BY <2>1 DEF OrderInv, PendingExact, TypeOK
  <2>4. PendingExact'
    BY <1>1, <2>1, <2>2, <2>3 DEF PendingExact
  <2>5. AckedInStreamOrder'
    BY <1>1, <2>1, <2>3 DEF AckedInStreamOrder
  <2>6. EventsBelow'
    <3>1. ASSUME NEW i \in 1..n, NEW k \in 1..(lastDelivered + i - 1)
          PROVE  k \in acked \/ \E j \in 1..(i - 1) : lastDelivered + j = k
      <4>1. CASE k \in 1..lastDelivered
        BY <4>1, <2>3
      <4>2. CASE k \notin 1..lastDelivered
        <5>1. k - lastDelivered \in 1..(i - 1)
          BY <4>2, <1>1, <2>2
        <5>2. QED
          BY <5>1, <1>1
      <4>3. QED
        BY <4>1, <4>2
    <3>2. DOMAIN events' = 1..n /\ \A i \in 1..n : events'[i] = lastDelivered + i
      BY <2>1
    <3>3. ASSUME NEW i \in DOMAIN events', NEW k \in 1..(events'[i] - 1)
          PROVE  k \in acked' \/ \E j \in 1..(i - 1) : events'[j] = k
      <4>1. i \in 1..n /\ events'[i] = lastDelivered + i
        BY <3>2
      <4>a. k \in 1..(lastDelivered + i - 1)
        BY <4>1, <1>1
      <4>2. k \in acked \/ \E j \in 1..(i - 1) : lastDelivered + j = k
        BY <4>1, <4>a, <3>1
      <4>3. \A j \in 1..(i - 1) : events'[j] = lastDelivered + j
        BY <4>1, <3>2, <2>2
      <4>4. QED
        BY <4>2, <4>3, <2>1
    <3>4. QED
      BY <3>3 DEF EventsBelow
  <2>7. QED
    BY <1>2, <2>4, <2>5, <2>6 DEF OrderInv
<1>5. QED
  BY <1>3, <1>4 DEF Digest

LEMMA NextOrder == OrderInv /\ [Next]_vars => OrderInv'
<1> SUFFICES ASSUME OrderInv, [Next]_vars PROVE OrderInv'
  OBVIOUS
<1>0. TypeOK'
  BY NextTypeOK DEF OrderInv
<1>1. ASSUME NEW p \in Payloads, PublishLazy(p) PROVE OrderInv'
  BY <1>0, <1>1, OrderUnchanged DEF PublishLazy, localVars
<1>2. CASE Digest
  BY <1>0, <1>2, DigestOrder
<1>3. CASE Unserialize \/ BatchExecute \/ BatchQueryError
  BY <1>0, <1>3, OrderUnchanged DEF Unserialize, BatchExecute, BatchQueryError,
                                    brokerVars
<1>4. CASE IsolatedUnresolved \/ Kill
  BY <1>0, <1>4, OrderUnchanged DEF IsolatedUnresolved, Kill, ResetLocals,
                                    brokerVars
<1>5. CASE BatchDone \/ IsolatedDone
  BY <1>0, <1>5, AckAllOrder DEF BatchDone, IsolatedDone
<1>6. CASE IsolatedExecute \/ IsolatedResolve
  BY <1>0, <1>6, AckAtOrder DEF IsolatedExecute, IsolatedResolve
<1>7. CASE UNCHANGED vars
  BY <1>0, <1>7, OrderUnchanged DEF vars, brokerVars, localVars
<1>8. QED
  BY <1>1, <1>2, <1>3, <1>4, <1>5, <1>6, <1>7 DEF Next, Consumer

\* Lazy flushes are acknowledged in stream order, for every batch size,
\* payload set, resolver list and number of kills: Consume's pending-first
\* reads and the isolated loop's per-index acks never ack an event before
\* an earlier one.
THEOREM AckOrder == Spec => []AckedInStreamOrder
<1>1. Init => OrderInv
  BY InitTypeOK DEF Init, OrderInv, PendingExact, AckedInStreamOrder, EventsBelow,
                    IsoAcked
<1>2. OrderInv => AckedInStreamOrder
  BY DEF OrderInv
<1>3. QED
  BY <1>1, <1>2, NextOrder, PTL DEF Spec

\* a batch Consume hands out holds no acknowledged id: pending entries are
\* exactly the delivered ids not acked, new ones lie above every delivered id
LEMMA DigestUnacked ==
  ASSUME OrderInv, Digest
  PROVE  \A i \in DOMAIN events' : events'[i] \notin acked
<1>1. CASE ReadPending
  <2> DEFINE n == Min2(Cardinality(pending), BatchSize)
  <2>1. PICK sq \in [1..n -> pending] : events' = sq
    BY <1>1 DEF ReadPending
  <2>2. QED
    BY <2>1 DEF OrderInv, PendingExact
<1>2. CASE ReadNew
  <2> DEFINE n == Min2(Len(stream) - lastDelivered, BatchSize)
  <2>1. lastDelivered \in Nat
    BY LastDeliveredNat DEF OrderInv
  <2>2. events' = [i \in 1..n |-> lastDelivered + i]
    BY <1>2 DEF ReadNew
  <2>3. acked \subseteq 1..lastDelivered
    BY DEF OrderInv, TypeOK
  <2>4. QED
    BY <2>1, <2>2, <2>3
<1>3. QED
  BY <1>1, <1>2 DEF Digest

\* No acknowledged lazy flush is replayed, for every payload set, batch size,
\* resolver list and number of kills: after a crash or a panic Digest
\* re-reads the group's pending entries, from which Ack removed every acked id.
THEOREM NoRedelivery == Spec => NoAckedRedelivery
<1>1. Init => OrderInv
  BY InitTypeOK DEF Init, OrderInv, PendingExact, AckedInStreamOrder, EventsBelow,
                    IsoAcked
<1>2. OrderInv => (Digest => \A i \in DOMAIN events' : events'[i] \notin acked)
  BY DigestUnacked
<1>3. QED
  BY <1>1, <1>2, NextOrder, PTL DEF Spec, NoAckedRedelivery

-----------------------------------------------------------------------------
(* No acked write lost, when every lazy flush carries one record.          *)

\* FlushLazy of one entity: every event holds exactly one record
SingleRecordPayloads == \A p \in Payloads : Len(p) = 1

\* the records handed to the flusher are those of the batch's events, in
\* order, one per event
LazyMatch ==
  \A i \in DOMAIN lazyEvents : i \in DOMAIN events /\ lazyEvents[i] = <<events[i], 1>>

\* how far Digest's loops have got
LoopsOK ==
  /\ pc = "unserialize" => Len(lazyEvents) = idx - 1 /\ idx - 1 <= Len(events)
  /\ pc \in {"batch", "isolated"} => Len(lazyEvents) = Len(events)
  /\ pc = "batch" =>
       /\ idx \in 1..(Len(lazyEvents) + 1)
       /\ \A j \in 1..(idx - 1) : lazyEvents[j] \in written
  /\ pc = "isolated" =>
       /\ idx \in 1..(Len(lazyEvents) + 1)
       /\ \A j \in 1..(idx - 1) : lazyEvents[j] \in written \cup resolved

WriteInv == TypeOK /\ NoAckedWriteLost /\ LazyMatch /\ LoopsOK

\* with one record per event, an event's only position is its first
LEMMA SinglePositions ==
  ASSUME TypeOK, SingleRecordPayloads, NEW k \in 1..Len(stream)
  PROVE  /\ PositionsOf(k) = {<<k, 1>>}
         /\ EventPositions(k) = <<<<k, 1>>>>
<1>1. Len(stream[k]) = 1
  BY DEF TypeOK, SingleRecordPayloads
<1>2. QED
  BY <1>1 DEF PositionsOf, EventPositions

\* the locals reset, with nothing acked, written or published
LEMMA ResetWrite ==
  ASSUME WriteInv, TypeOK', ResetLocals, UNCHANGED <<stream, acked, written, resolved>>
  PROVE  WriteInv'
BY EmptySeq DEF WriteInv, ResetLocals, NoAckedWriteLost, LazyMatch, LoopsOK,
                PositionsOf

\* when the flusher has covered every record of the batch, so has every
\* event of it
LEMMA BatchCovered ==
  ASSUME WriteInv, SingleRecordPayloads, pc \in {"batch", "isolated"},
         \A j \in 1..Len(lazyEvents) : lazyEvents[j] \in written \cup resolved
  PROVE  \A k \in SeqElems(events) : PositionsOf(k) \subseteq written \cup resolved
<1> SUFFICES ASSUME NEW i \in DOMAIN events
             PROVE  PositionsOf(events[i]) \subseteq written \cup resolved
  BY DEF SeqElems
<1>1. events \in Seq(1..lastDelivered) /\ lastDelivered <= Len(stream)
  BY DEF WriteInv, TypeOK
<1>2. events[i] \in 1..Len(stream)
  BY <1>1, LastDeliveredNat, LenProperties DEF WriteInv
<1>3. i \in 1..Len(lazyEvents) /\ lazyEvents[i] = <<events[i], 1>>
  BY <1>1, LenProperties DEF WriteInv, LoopsOK, LazyMatch, TypeOK
<1>4. QED
  BY <1>2, <1>3, SinglePositions DEF WriteInv

\* Consume's ack of a fully covered batch
LEMMA AckAllWrite ==
  ASSUME WriteInv, SingleRecordPayloads, TypeOK', pc \in {"batch", "isolated"},
         \A j \in 1..Len(lazyEvents) : lazyEvents[j] \in written \cup resolved,
         AckAll, ResetLocals, UNCHANGED <<written, resolved>>
  PROVE  WriteInv'
<1>1. \A k \in SeqElems(events) : PositionsOf(k) \subseteq written \cup resolved
  BY BatchCovered
<1>2. NoAckedWriteLost'
  BY <1>1 DEF WriteInv, NoAckedWriteLost, AckAll, PositionsOf
<1>3. (LazyMatch /\ LoopsOK)'
  BY EmptySeq DEF ResetLocals, LazyMatch, LoopsOK
<1>4. QED
  BY <1>2, <1>3 DEF WriteInv

\* the isolated loop covers lazyEvents[idx], then acks events[idx]
LEMMA AckAtWrite ==
  ASSUME WriteInv, SingleRecordPayloads, TypeOK', pc = "isolated",
         idx \in DOMAIN lazyEvents,
         written \subseteq written', resolved \subseteq resolved',
         lazyEvents[idx] \in written' \cup resolved',
         AckAt(idx)
  PROVE  WriteInv'
<1>1. idx \in DOMAIN events /\ lazyEvents[idx] = <<events[idx], 1>>
  BY DEF WriteInv, LazyMatch
<1>2. /\ acked' = acked \cup {events[idx]}
      /\ idx' = idx + 1
      /\ UNCHANGED <<stream, pc, events, lazyEvents>>
  BY <1>1 DEF AckAt
<1>3. events[idx] \in 1..Len(stream)
  <2>1. events \in Seq(1..lastDelivered) /\ lastDelivered <= Len(stream)
    BY DEF WriteInv, TypeOK
  <2>2. QED
    BY <1>1, <2>1, LastDeliveredNat, LenProperties DEF WriteInv
<1>4. NoAckedWriteLost'
  <2>1. PositionsOf(events[idx]) = {lazyEvents[idx]}
    BY <1>1, <1>3, SinglePositions DEF WriteInv
  <2>2. QED
    BY <1>2, <2>1 DEF WriteInv, NoAckedWriteLost, PositionsOf
<1>5. LazyMatch'
  BY <1>2 DEF WriteInv, LazyMatch
<1>6. LoopsOK'
  <2>1. idx \in 1..Len(lazyEvents) /\ idx' \in 1..(Len(lazyEvents) + 1)
    BY <1>2, LenProperties DEF WriteInv, TypeOK
  <2>2. \A j \in 1..(idx' - 1) : lazyEvents'[j] \in written' \cup resolved'
    BY <1>2, <2>1 DEF WriteInv, LoopsOK
  <2>3. Len(lazyEvents) = Len(events)
    BY DEF WriteInv, LoopsOK
  <2>4. QED
    BY <1>2, <2>1, <2>2, <2>3 DEF LoopsOK
<1>7. QED
  BY <1>4, <1>5, <1>6 DEF WriteInv

LEMMA NextWrite ==
  ASSUME SingleRecordPayloads
  PROVE  WriteInv /\ [Next]_vars => WriteInv'
<1> SUFFICES ASSUME WriteInv, [Next]_vars PROVE WriteInv'
  OBVIOUS
<1>0. TypeOK'
  BY NextTypeOK DEF WriteInv
<1>1. ASSUME NEW p \in Payloads, PublishLazy(p) PROVE WriteInv'
  <2>1. \A k \in 1..Len(stream) : PositionsOf(k)' = PositionsOf(k)
    BY <1>1, AppendKeepsPositions DEF WriteInv, PublishLazy
  <2>2. acked \subseteq 1..Len(stream)
    BY LastDeliveredNat DEF WriteInv, TypeOK
  <2>3. NoAckedWriteLost'
    BY <1>1, <2>1, <2>2 DEF WriteInv, NoAckedWriteLost, PublishLazy, dbVars
  <2>4. QED
    BY <1>0, <1>1, <2>3 DEF WriteInv, PublishLazy, localVars, dbVars, LazyMatch,
                            LoopsOK
<1>2. CASE Digest
  <2>1. UNCHANGED <<stream, acked, written, resolved>>
    BY <1>2 DEF Digest, ReadPending, ReadNew, dbVars
  <2>2. events' \in Seq(1..lastDelivered') /\ lazyEvents' = <<>> /\ idx' = 1
        /\ pc' = "unserialize"
    BY <1>0, <1>2 DEF Digest, TypeOK
  <2>3. Len(events') \in Nat
    BY <2>2, LenProperties
  <2>4. QED
    BY <1>0, <2>1, <2>2, <2>3, EmptySeq DEF WriteInv, NoAckedWriteLost, PositionsOf,
                                      LazyMatch, LoopsOK
<1>3. CASE Unserialize
  <2>1. /\ pc = "unserialize" /\ idx \in DOMAIN events
        /\ lazyEvents' = lazyEvents \o EventPositions(events[idx])
        /\ pc' = IF idx < Len(events) THEN "unserialize" ELSE "batch"
        /\ idx' = IF idx < Len(events) THEN idx + 1 ELSE 1
        /\ UNCHANGED <<stream, acked, written, resolved, events>>
    BY <1>3 DEF Unserialize, brokerVars, dbVars
  <2>2. events \in Seq(1..lastDelivered) /\ lastDelivered <= Len(stream)
        /\ lazyEvents \in Seq(PublishedPositions) /\ idx \in Nat \ {0}
    BY DEF WriteInv, TypeOK
  <2>3. events[idx] \in 1..Len(stream)
    BY <2>1, <2>2, LastDeliveredNat, LenProperties DEF WriteInv
  <2>4. lazyEvents' = Append(lazyEvents, <<events[idx], 1>>)
    <3>1. EventPositions(events[idx]) = <<<<events[idx], 1>>>>
          /\ PositionsOf(events[idx]) = {<<events[idx], 1>>}
      BY <2>3, SinglePositions DEF WriteInv
    <3>2. <<events[idx], 1>> \in PublishedPositions
      BY <2>3, <3>1 DEF PublishedPositions
    <3>3. QED
      BY <2>1, <2>2, <3>1, <3>2, AppendIsConcat
  <2>5. Len(lazyEvents) = idx - 1
    BY <2>1 DEF WriteInv, LoopsOK
  <2>6. /\ Len(lazyEvents') = idx
        /\ \A i \in 1..(idx - 1) : lazyEvents'[i] = lazyEvents[i]
        /\ lazyEvents'[idx] = <<events[idx], 1>>
    BY <2>2, <2>4, <2>5, AppendProperties
  <2>7. LazyMatch'
    <3>1. DOMAIN lazyEvents' = 1..idx /\ DOMAIN lazyEvents = 1..(idx - 1)
      <4>1. lazyEvents' \in Seq(PublishedPositions')
        BY <1>0 DEF TypeOK
      <4>2. QED
        BY <4>1, <2>2, <2>5, <2>6, LenProperties DEF WriteInv, TypeOK
    <3>2. ASSUME NEW i \in 1..idx
          PROVE  i \in DOMAIN events /\ lazyEvents'[i] = <<events[i], 1>>
      <4>1. CASE i = idx
        BY <4>1, <2>1, <2>6
      <4>2. CASE i # idx
        <5>1. i \in 1..(idx - 1)
          BY <4>2, <2>2
        <5>2. QED
          BY <5>1, <3>1, <2>6 DEF WriteInv, LazyMatch
      <4>3. QED
        BY <4>1, <4>2
    <3>3. QED
      BY <3>1, <3>2, <2>1 DEF LazyMatch
  <2>8. LoopsOK'
    BY <2>1, <2>2, <2>6, LenProperties DEF LoopsOK
  <2>9. QED
    BY <1>0, <2>1, <2>7, <2>8 DEF WriteInv, NoAckedWriteLost, PositionsOf
<1>4. CASE BatchExecute
  <2>1. /\ pc = "batch" /\ idx \in DOMAIN lazyEvents
        /\ written' = written \cup {lazyEvents[idx]} /\ idx' = idx + 1
        /\ UNCHANGED <<stream, acked, resolved, pc, events, lazyEvents>>
    BY <1>4 DEF BatchExecute, brokerVars
  <2>2. idx \in 1..Len(lazyEvents)
    BY <2>1, LenProperties DEF WriteInv, TypeOK
  <2>3. LoopsOK'
    BY <2>1, <2>2 DEF WriteInv, LoopsOK
  <2>4. QED
    BY <1>0, <2>1, <2>3 DEF WriteInv, NoAckedWriteLost, PositionsOf, LazyMatch
<1>5. CASE BatchQueryError
  <2>1. /\ pc = "batch" /\ pc' = "isolated" /\ idx' = 1
        /\ UNCHANGED <<stream, acked, written, resolved, events, lazyEvents>>
    BY <1>5 DEF BatchQueryError, brokerVars, dbVars
  <2>2. Len(lazyEvents) \in Nat
    BY LenProperties DEF WriteInv, TypeOK
  <2>3. QED
    BY <1>0, <2>1, <2>2 DEF WriteInv, NoAckedWriteLost, PositionsOf, LazyMatch,
                            LoopsOK
<1>6. CASE BatchDone
  <2>1. /\ pc = "batch" /\ idx = Len(lazyEvents) + 1
        /\ AckAll /\ ResetLocals /\ UNCHANGED <<written, resolved>>
    BY <1>6 DEF BatchDone
  <2>2. \A j \in 1..Len(lazyEvents) : lazyEvents[j] \in written \cup resolved
    BY <2>1 DEF WriteInv, LoopsOK
  <2>3. QED
    BY <1>0, <2>1, <2>2, AckAllWrite
<1>7. CASE IsolatedExecute
  <2>1. /\ pc = "isolated" /\ idx \in DOMAIN lazyEvents
        /\ written' = written \cup {lazyEvents[idx]} /\ AckAt(idx)
        /\ UNCHANGED resolved
    BY <1>7 DEF IsolatedExecute
  <2>2. QED
    BY <1>0, <2>1, AckAtWrite
<1>8. CASE IsolatedResolve
  <2>1. /\ pc = "isolated" /\ idx \in DOMAIN lazyEvents
        /\ resolved' = resolved \cup {lazyEvents[idx]} /\ AckAt(idx)
        /\ UNCHANGED written
    BY <1>8 DEF IsolatedResolve
  <2>2. QED
    BY <1>0, <2>1, AckAtWrite
<1>9. CASE IsolatedUnresolved \/ Kill
  BY <1>0, <1>9, ResetWrite DEF IsolatedUnresolved, Kill, brokerVars, dbVars
<1>10. CASE IsolatedDone
  <2>1. /\ pc = "isolated" /\ idx = Len(lazyEvents) + 1
        /\ AckAll /\ ResetLocals /\ UNCHANGED <<written, resolved>>
    BY <1>10 DEF IsolatedDone, dbVars
  <2>2. \A j \in 1..Len(lazyEvents) : lazyEvents[j] \in written \cup resolved
    BY <2>1 DEF WriteInv, LoopsOK
  <2>3. QED
    BY <1>0, <2>1, <2>2, AckAllWrite
<1>11. CASE UNCHANGED vars
  BY <1>0, <1>11 DEF WriteInv, vars, brokerVars, dbVars, localVars,
                     NoAckedWriteLost, PositionsOf, LazyMatch, LoopsOK
<1>12. QED
  BY <1>1, <1>2, <1>3, <1>4, <1>5, <1>6, <1>7, <1>8, <1>9, <1>10, <1>11
     DEF Next, Consumer

\* No acked write is lost when every lazy flush carries one entity (as
\* FlushLazy of one entity publishes): for every batch size, resolver list
\* and number of kills, an event Consume or the isolated loop acks has its
\* record committed or resolved.  With two records in one event the isolated
\* loop's events[i] for the i-th record breaks this (run lazy_lost_write).
THEOREM NoLostWriteSingle ==
  ASSUME SingleRecordPayloads
  PROVE  Spec => []NoAckedWriteLost
<1>1. Init => WriteInv
  BY InitTypeOK DEF Init, WriteInv, NoAckedWriteLost, LazyMatch, LoopsOK
<1>2. WriteInv /\ [Next]_vars => WriteInv'
  BY NextWrite
<1>3. WriteInv => NoAckedWriteLost
  BY DEF WriteInv
<1>4. QED
  BY <1>1, <1>2, <1>3, PTL DEF Spec

--------------------------------------------------------------------------------------------------------------------------------
(* Refinement of the abstract queue LazyQueue.                             *)

\* Consume hands the handler its entries in id order
EventsIncreasing ==
  \A i, j \in DOMAIN events : i < j => events[i] < events[j]

\* the acknowledged ids are a prefix 1..a of the delivered ones
AckedPrefix == \E a \in 0..lastDelivered : acked = 1..a

RefInv == OrderInv /\ WriteInv /\ EventsIncreasing /\ AckedPrefix

\* an acked set closed downwards and bounded by one of its members (or 0)
\* is the prefix up to that bound
LEMMA PrefixFrom ==
  ASSUME TypeOK', AckedInStreamOrder', NEW b \in Nat,
         acked' \subseteq 1..b, b = 0 \/ b \in acked'
  PROVE  AckedPrefix'
<1>1. b \in 0..lastDelivered'
  BY LastDeliveredNat DEF TypeOK
<1>2. 1..b \subseteq acked'
  BY DEF AckedInStreamOrder
<1>3. QED
  BY <1>1, <1>2 DEF AckedPrefix

\* acking a set of ids whose largest is m keeps the acked ids a prefix
LEMMA PrefixAdd ==
  ASSUME TypeOK', AckedInStreamOrder', NEW a \in Nat, acked = 1..a,
         NEW S, NEW m \in Nat, S \subseteq 1..m, m \in S, acked' = acked \cup S
  PROVE  AckedPrefix'
<1>1. CASE m <= a
  <2>1. acked' \subseteq 1..a
    BY <1>1
  <2>2. a = 0 \/ a \in acked'
    OBVIOUS
  <2>3. QED
    BY <2>1, <2>2, PrefixFrom
<1>2. CASE a < m
  <2>1. acked' \subseteq 1..m
    BY <1>2
  <2>2. QED
    BY <2>1, PrefixFrom
<1>3. QED
  BY <1>1, <1>2

\* every step but Digest keeps the batch or drops it
LEMMA EventsKeptOrDropped ==
  ASSUME [Next]_vars, ~Digest
  PROVE  events' = events \/ events' = <<>>
<1>1. CASE (\E p \in Payloads : PublishLazy(p)) \/ Unserialize \/ BatchExecute
           \/ BatchQueryError \/ UNCHANGED vars
  BY <1>1 DEF PublishLazy, Unserialize, BatchExecute, BatchQueryError, vars,
              localVars
<1>2. CASE BatchDone \/ IsolatedDone \/ IsolatedUnresolved \/ Kill
  BY <1>2 DEF BatchDone, IsolatedDone, IsolatedUnresolved, Kill, ResetLocals
<1>3. CASE IsolatedExecute \/ IsolatedResolve
  <2>1. AckAt(idx)
    BY <1>3 DEF IsolatedExecute, IsolatedResolve
  <2>2. QED
    BY <2>1 DEF AckAt, ResetLocals
<1>4. QED
  BY <1>1, <1>2, <1>3 DEF Next, Consumer

\* Consume's batches are increasing, pending-first or new
LEMMA NextIncreasing ==
  ASSUME TypeOK, EventsIncreasing, [Next]_vars
  PROVE  EventsIncreasing'
<1>1. CASE Digest
  <2>1. CASE ReadPending
    <3> DEFINE n == Min2(Cardinality(pending), BatchSize)
    <3>1. PICK sq \in [1..n -> pending] :
                 /\ \A i, j \in 1..n : i < j => sq[i] < sq[j]
                 /\ events' = sq
      BY <2>1 DEF ReadPending
    <3>2. QED
      BY <3>1 DEF EventsIncreasing
  <2>2. CASE ReadNew
    <3> DEFINE n == Min2(Len(stream) - lastDelivered, BatchSize)
    <3>1. lastDelivered \in Nat
      BY LastDeliveredNat
    <3>2. events' = [i \in 1..n |-> lastDelivered + i]
      BY <2>2 DEF ReadNew
    <3>3. QED
      BY <3>1, <3>2 DEF EventsIncreasing
  <2>3. QED
    BY <1>1, <2>1, <2>2 DEF Digest
<1>2. CASE ~Digest
  <2>1. events' = events \/ events' = <<>>
    BY <1>2, EventsKeptOrDropped
  <2>2. QED
    BY <2>1 DEF EventsIncreasing
<1>3. QED
  BY <1>1, <1>2

\* the acked ids stay a prefix: acks come in stream order and are bounded
\* by the largest id acked
LEMMA NextPrefix ==
  ASSUME TypeOK, AckedPrefix, EventsIncreasing, [Next]_vars,
         TypeOK', AckedInStreamOrder'
  PROVE  AckedPrefix'
<1>1. PICK a \in 0..lastDelivered : acked = 1..a
  BY DEF AckedPrefix
<1>0. lastDelivered \in Nat /\ lastDelivered' \in Nat
  BY LenProperties DEF TypeOK
<1>2. ASSUME acked' = acked, lastDelivered <= lastDelivered'
      PROVE  AckedPrefix'
  BY <1>0, <1>1, <1>2 DEF AckedPrefix
<1>3. ASSUME AckAt(idx) PROVE AckedPrefix'
  <2>1. CASE idx \in DOMAIN events
    <3>1. acked' = acked \cup {events[idx]} /\ events[idx] \in Nat \ {0}
      BY <1>3, <2>1 DEF AckAt, TypeOK
    <3>2. /\ a \in Nat
          /\ {events[idx]} \subseteq 1..events[idx]
          /\ events[idx] \in {events[idx]}
      BY <1>0, <3>1
    <3>3. QED
      BY <1>1, <3>1, <3>2, PrefixAdd
  <2>2. CASE idx \notin DOMAIN events
    BY <1>0, <1>2, <1>3, <2>2 DEF AckAt, brokerVars
  <2>3. QED
    BY <2>1, <2>2
<1>4. ASSUME AckAll PROVE AckedPrefix'
  <2>1. CASE events = <<>>
    BY <1>0, <1>2, <1>4, <2>1 DEF AckAll, SeqElems
  <2>2. CASE events # <<>>
    <3> DEFINE m == events[Len(events)]
    <3>1. Len(events) \in DOMAIN events /\ events \in Seq(Nat)
      BY <2>2, EmptySeq, LenProperties DEF TypeOK
    <3>2. m \in Nat /\ m \in SeqElems(events)
      BY <3>1 DEF SeqElems
    <3>3. SeqElems(events) \subseteq 1..m
      <4> SUFFICES ASSUME NEW i \in DOMAIN events PROVE events[i] \in 1..m
        BY DEF SeqElems
      <4>1. i = Len(events) \/ i < Len(events)
        BY <3>1
      <4>2. events[i] >= 1
        BY DEF TypeOK
      <4>3. QED
        BY <3>1, <4>1, <4>2 DEF EventsIncreasing
    <3>4. QED
      BY <1>1, <1>4, <3>2, <3>3, PrefixAdd DEF AckAll
  <2>3. QED
    BY <2>1, <2>2
<1>5. CASE (\E p \in Payloads : PublishLazy(p)) \/ Unserialize \/ BatchExecute
           \/ BatchQueryError \/ IsolatedUnresolved \/ Kill \/ UNCHANGED vars
  BY <1>0, <1>2, <1>5 DEF PublishLazy, Unserialize, BatchExecute, BatchQueryError,
                    IsolatedUnresolved, Kill, vars, brokerVars
<1>6. CASE Digest
  <2>1. acked' = acked /\ lastDelivered <= lastDelivered'
    <3>1. CASE ReadPending
      BY <1>0, <3>1 DEF ReadPending
    <3>2. CASE ReadNew
      BY <1>0, <3>2, BoundsAssumption, LenProperties DEF ReadNew, Min2, TypeOK
    <3>3. QED
      BY <1>6, <3>1, <3>2 DEF Digest
  <2>2. QED
    BY <1>2, <2>1
<1>7. CASE BatchDone \/ IsolatedDone
  BY <1>4, <1>7 DEF BatchDone, IsolatedDone
<1>8. CASE IsolatedExecute \/ IsolatedResolve
  BY <1>3, <1>8 DEF IsolatedExecute, IsolatedResolve
<1>9. QED
  BY <1>5, <1>6, <1>7, <1>8 DEF Next, Consumer

\* a consumer step keeps the stream and only adds acks, commits and
\* resolutions
LEMMA ConsumerGrows ==
  ASSUME [Next]_vars, ~\E p \in Payloads : PublishLazy(p)
  PROVE  /\ stream' = stream
         /\ acked \subseteq acked'
         /\ written \subseteq written'
         /\ resolved \subseteq resolved'
<1>1. CASE Digest
  BY <1>1 DEF Digest, ReadPending, ReadNew, dbVars
<1>2. CASE Unserialize \/ BatchExecute \/ BatchQueryError \/ IsolatedUnresolved
           \/ Kill \/ UNCHANGED vars
  BY <1>2 DEF Unserialize, BatchExecute, BatchQueryError, IsolatedUnresolved,
              Kill, vars, brokerVars, dbVars
<1>3. CASE BatchDone \/ IsolatedDone
  BY <1>3 DEF BatchDone, IsolatedDone, AckAll, dbVars
<1>4. CASE IsolatedExecute \/ IsolatedResolve
  <2>1. stream' = stream /\ acked \subseteq acked'
    <3>1. AckAt(idx)
      BY <1>4 DEF IsolatedExecute, IsolatedResolve
    <3>2. QED
      BY <3>1 DEF AckAt, brokerVars
  <2>2. QED
    BY <1>4, <2>1 DEF IsolatedExecute, IsolatedResolve
<1>5. QED
  BY <1>1, <1>2, <1>3, <1>4 DEF Next, Consumer

\* a consumer step is a Handle step of the queue: what it commits or
\* resolves belongs to unacked events, and the acked prefix it reaches has
\* every record applied
LEMMA HandleStep ==
  ASSUME TypeOK, NoAckedWriteLost, TypeOK', NoAckedWriteLost', AckedPrefix',
         stream' = stream, acked \subseteq acked', written \subseteq written',
         resolved \subseteq resolved'
  PROVE  Queue!Handle
<1> DEFINE new == (written' \cup resolved') \ (written \cup resolved)
<1>1. PICK n \in 0..lastDelivered' : acked' = 1..n
  BY DEF AckedPrefix
<1>2. n \in 0..Len(stream)
  BY <1>1, LenProperties DEF TypeOK
<1>3. new \subseteq Queue!OpenRecords
  <2> SUFFICES ASSUME NEW p \in new PROVE p \in Queue!OpenRecords
    OBVIOUS
  <2>1. p \in PublishedPositions
    BY SameStreamSamePositions DEF TypeOK
  <2>2. PICK k \in 1..Len(stream) : p \in PositionsOf(k)
    BY <2>1 DEF PublishedPositions
  <2>3. k \notin acked
    BY <2>2 DEF NoAckedWriteLost
  <2>4. QED
    BY <2>2, <2>3 DEF Queue!OpenRecords, Queue!EventRecords, PositionsOf
<1>4. \A k \in 1..n : Queue!EventRecords(k) \subseteq (written \cup resolved)'
  <2> SUFFICES ASSUME NEW k \in 1..n
               PROVE  Queue!EventRecords(k) \subseteq (written \cup resolved)'
    OBVIOUS
  <2>1. k \in acked'
    BY <1>1
  <2>2. PositionsOf(k)' = Queue!EventRecords(k)
    BY DEF PositionsOf, Queue!EventRecords
  <2>3. QED
    BY <2>1, <2>2 DEF NoAckedWriteLost
<1>5. /\ acked \subseteq 1..n
      /\ (written \cup resolved)' = (written \cup resolved) \cup new
  BY <1>1
<1>6. QED
  BY <1>1, <1>2, <1>3, <1>4, <1>5 DEF Queue!Handle

LEMMA NextRefInv ==
  ASSUME SingleRecordPayloads
  PROVE  RefInv /\ [Next]_vars => RefInv'
<1> SUFFICES ASSUME RefInv, [Next]_vars PROVE RefInv'
  OBVIOUS
<1>1. OrderInv'
  BY NextOrder DEF RefInv
<1>2. WriteInv'
  BY NextWrite DEF RefInv
<1>3. EventsIncreasing'
  BY NextIncreasing DEF RefInv, OrderInv
<1>4. AckedPrefix'
  BY <1>1, NextPrefix DEF RefInv, OrderInv
<1>5. QED
  BY <1>1, <1>2, <1>3, <1>4 DEF RefInv

\* every step of the consumer, the broker or the producers is a step of the
\* abstract queue or leaves it alone
LEMMA StepRefines ==
  ASSUME RefInv, RefInv', [Next]_vars
  PROVE  [Queue!Next]_Queue!qvars
<1>1. CASE \E p \in Payloads : PublishLazy(p)
  <2>1. PICK p \in Payloads : PublishLazy(p)
    BY <1>1
  <2>2. Queue!Publish(p)
    BY <2>1 DEF PublishLazy, Queue!Publish, dbVars
  <2>3. QED
    BY <2>2 DEF Queue!Next
<1>2. CASE ~\E p \in Payloads : PublishLazy(p)
  <2>1. /\ stream' = stream
        /\ acked \subseteq acked'
        /\ written \subseteq written'
        /\ resolved \subseteq resolved'
    BY <1>2, ConsumerGrows
  <2>2. Queue!Handle
    BY <2>1, HandleStep DEF RefInv, OrderInv, WriteInv
  <2>3. QED
    BY <2>2 DEF Queue!Next
<1>3. QED
  BY <1>1, <1>2

\* When every lazy flush carries one entity, the consumer implements the
\* abstract queue LazyQueue: each Digest, batch or isolated step, crash and
\* redelivery only applies records of events not yet acknowledged, and
\* XACKs the stream in order, each event once its record reached MySQL or a
\* resolver.  For every batch size, resolver list and number of kills.
THEOREM Refinement ==
  ASSUME SingleRecordPayloads
  PROVE  Spec => QueueSpec
<1>1. Init => RefInv
  BY InitTypeOK DEF Init, RefInv, OrderInv, WriteInv, PendingExact,
                    AckedInStreamOrder, EventsBelow, IsoAcked, NoAckedWriteLost,
                    LazyMatch, LoopsOK, EventsIncreasing, AckedPrefix
<1>2. Init => Queue!Init
  BY DEF Init, Queue!Init
<1>3. RefInv /\ [Next]_vars => RefInv'
  BY NextRefInv
<1>4. RefInv /\ RefInv' /\ [Next]_vars => [Queue!Next]_Queue!qvars
  BY StepRefines
<1>5. QED
  BY <1>1, <1>2, <1>3, <1>4, PTL DEF Spec, QueueSpec, Queue!Spec

=============================================================================
