----------------------------- MODULE LazyFlush -----------------------------
(***************************************************************************)
(* The lazy-flush pipeline: FlushLazy publishes the flush records of the   *)
(* tracked entities as one event of the lazy-flush stream, and the         *)
(* LazyFlushConsumer (src/unnamed/part_002) replays them against MySQL.    *)
(*                                                                         *)
(* Digest reads a batch of events through the consumer group, concatenates *)
(* their records and executes them as one flush ("batch").  On a MySQL     *)
(* error it recovers and replays every record on its own ("isolated"),     *)
(* acknowledging events[i] for the i-th record, and calls the registered   *)
(* error resolvers with the error of the batch.  An unresolved error       *)
(* panics out of Digest; the consumer is restarted and the group's pending *)
(* entries are delivered again.                                            *)
(*                                                                         *)
(* The consumer group (Consume, Ack) and the flusher are not under src/:   *)
(* they follow spec.md sections 4.3 and 4.5.  A write is identified by its *)
(* position <<k, j>>: the j-th record of the k-th event of the stream.     *)
(***************************************************************************)
EXTENDS Naturals, Sequences, FiniteSets

CONSTANTS
  Records,    \* the flush records a lazy flush may carry (entity changes)
  Payloads,   \* what one FlushLazyMany call publishes: a sequence of records
  CanFail,    \* the records MySQL may reject (constraint, deadlock, ...)
  Errors,     \* MySQL error numbers
  ErrCode,    \* ErrCode[r]: the error number MySQL answers when it rejects r
  Resolvers,  \* registered resolvers, in order; Resolvers[i] = codes it accepts
  NoError,    \* no MySQL error recovered yet
  BatchSize,  \* the count Digest passes to Consume
  MaxEvents,  \* bound: number of lazy flushes published
  MaxKills    \* bound: number of times the consumer process is killed

ASSUME PayloadsAssumption ==
  /\ Payloads \subseteq Seq(Records) \ {<<>>}
  /\ IsFiniteSet(Payloads)
ASSUME ErrorAssumption ==
  /\ CanFail \subseteq Records
  /\ ErrCode \in [Records -> Errors]
  /\ NoError \notin Errors
  /\ Resolvers \in Seq(SUBSET Errors)
ASSUME BoundsAssumption ==
  /\ BatchSize \in Nat \ {0}
  /\ MaxEvents \in Nat
  /\ MaxKills \in Nat

VARIABLES
  stream,        \* the lazy-flush stream: Seq(Payloads), append-only
  lastDelivered, \* the group's last-delivered id
  pending,       \* the group's pending-entries list: delivered, not acked
  acked,         \* history: the ids XACKed so far
  written,       \* positions whose SQL statement MySQL committed
  resolved,      \* positions a resolver accepted instead of committing
  cacheFlushed,  \* positions whose cache-setter effects reached Redis
  pc,            \* where the consumer is in Digest/handleEvents
  events,        \* the batch Consume handed to the handler (event ids)
  lazyEvents,    \* the concatenated records of the batch (positions)
  idx,           \* loop index over events or lazyEvents
  batchErr,      \* rec: the MySQL error recovered from the batch flush
  kills          \* number of process kills so far

brokerVars == <<stream, lastDelivered, pending, acked>>
dbVars == <<written, resolved, cacheFlushed>>
localVars == <<pc, events, lazyEvents, idx, batchErr>>
vars == <<brokerVars, dbVars, localVars, kills>>

-----------------------------------------------------------------------------
(* Positions and the records at them.                                      *)

\* mutant: one record too many is unserialized from an event
EventPositionsLong(k) == [j \in 1..Len(stream[k]) + 1 |-> <<k, j>>]

EventPositions(k) == [j \in 1..Len(stream[k]) |-> <<k, j>>]
PositionsOf(k) == {<<k, j>> : j \in 1..Len(stream[k])}
PublishedPositions == UNION {PositionsOf(k) : k \in 1..Len(stream)}
Rec(p) == stream[p[1]][p[2]]
SeqElems(s) == {s[i] : i \in DOMAIN s}

\* some registered resolver returns nil for this MySQL error
ResolverAccepts(err) == \E i \in DOMAIN Resolvers : err \in Resolvers[i]

Min2(a, b) == IF a < b THEN a ELSE b

\* the consumer goroutine leaves handleEvents: returns, panics or is killed
ResetLocals ==
  /\ pc' = "idle"
  /\ events' = <<>>
  /\ lazyEvents' = <<>>
  /\ idx' = 1
  /\ batchErr' = NoError

\* Mutant: the batch is marked acknowledged but stays in the pending list.
AckAllKeepPending ==
  /\ pending' = pending
  /\ acked' = acked \cup SeqElems(events)
  /\ UNCHANGED <<stream, lastDelivered>>

\* Consume acknowledges the whole batch after the handler returned
AckAll ==
  /\ pending' = pending \ SeqElems(events)
  /\ acked' = acked \cup SeqElems(events)
  /\ UNCHANGED <<stream, lastDelivered>>

\* mutant: the isolated loop acks the event after the i-th
AckAtNext(i) ==
  IF i + 1 \in DOMAIN events
  THEN /\ pending' = pending \ {events[i + 1]}
       /\ acked' = acked \cup {events[i + 1]}
       /\ idx' = i + 1
       /\ UNCHANGED <<stream, lastDelivered, pc, events, lazyEvents, batchErr>>
  ELSE /\ ResetLocals
       /\ UNCHANGED brokerVars

\* the deferred events[i].Ack() of the isolated loop; i past the end of
\* events is an index-out-of-range panic that leaves Digest
AckAt(i) ==
  IF i \in DOMAIN events
  THEN /\ pending' = pending \ {events[i]}
       /\ acked' = acked \cup {events[i]}
       /\ idx' = i + 1
       /\ UNCHANGED <<stream, lastDelivered, pc, events, lazyEvents, batchErr>>
  ELSE /\ ResetLocals
       /\ UNCHANGED brokerVars

-----------------------------------------------------------------------------
Init ==
  /\ stream = <<>>
  /\ lastDelivered = 0
  /\ pending = {}
  /\ acked = {}
  /\ written = {}
  /\ resolved = {}
  /\ cacheFlushed = {}
  /\ pc = "idle"
  /\ events = <<>>
  /\ lazyEvents = <<>>
  /\ idx = 1
  /\ batchErr = NoError
  /\ kills = 0

\* FlushLazy / FlushLazyMany / DeleteLazy: one event carrying the records
PublishLazy(p) ==
  /\ Len(stream) < MaxEvents
  /\ stream' = Append(stream, p)
  /\ UNCHANGED <<lastDelivered, pending, acked, dbVars, localVars, kills>>

\* Consume: the consumer's own pending entries first, in id order, up to
\* BatchSize of them; when there are none, up to BatchSize new entries
ReadPending ==
  LET n == Min2(Cardinality(pending), BatchSize) IN
  /\ pending # {}
  /\ \E s \in [1..n -> pending] :
       /\ \A i, j \in 1..n : i < j => s[i] < s[j]
       /\ \A x \in pending \ SeqElems(s) : x > s[n]
       /\ events' = s
  /\ UNCHANGED <<stream, lastDelivered, pending, acked>>

ReadNew ==
  LET n == Min2(Len(stream) - lastDelivered, BatchSize) IN
  /\ pending = {}
  /\ lastDelivered < Len(stream)
  /\ events' = [i \in 1..n |-> lastDelivered + i]
  /\ pending' = lastDelivered + 1 .. lastDelivered + n
  /\ lastDelivered' = lastDelivered + n
  /\ UNCHANGED <<stream, acked>>

Digest ==
  /\ pc = "idle"
  /\ ReadPending \/ ReadNew
  /\ pc' = "unserialize"
  /\ lazyEvents' = <<>>
  /\ idx' = 1
  /\ UNCHANGED <<dbVars, batchErr, kills>>

\* the loop of Digest's handler: Unserialize each event, append its records
Unserialize ==
  /\ pc = "unserialize"
  /\ idx \in DOMAIN events
  /\ lazyEvents' = lazyEvents \o EventPositions(events[idx])
  /\ pc' = IF idx < Len(events) THEN "unserialize" ELSE "batch"
  /\ idx' = IF idx < Len(events) THEN idx + 1 ELSE 1
  /\ UNCHANGED <<brokerVars, dbVars, events, batchErr, kills>>

\* f.execute over lazyEvents, one statement after the other
BatchExecute ==
  /\ pc = "batch"
  /\ idx \in DOMAIN lazyEvents
  /\ written' = written \cup {lazyEvents[idx]}
  /\ idx' = idx + 1
  /\ UNCHANGED <<brokerVars, resolved, cacheFlushed, pc, events, lazyEvents,
                 batchErr, kills>>

\* a statement fails: execute panics with a MySQL error, the deferred
\* recover of handleEvents keeps it as rec and starts the isolated loop
BatchQueryError ==
  /\ pc = "batch"
  /\ idx \in DOMAIN lazyEvents
  /\ Rec(lazyEvents[idx]) \in CanFail
  /\ batchErr' = ErrCode[Rec(lazyEvents[idx])]
  /\ pc' = "isolated"
  /\ idx' = 1
  /\ UNCHANGED <<brokerVars, dbVars, events, lazyEvents, kills>>

\* mutant: Consume acks the batch while statements are still to be executed
BatchDoneEarly ==
  /\ pc = "batch"
  /\ idx \in 1..Len(lazyEvents) + 1
  /\ cacheFlushed' = cacheFlushed \cup SeqElems(lazyEvents)
  /\ AckAll
  /\ ResetLocals
  /\ UNCHANGED <<written, resolved, kills>>

\* execute returned: flushCacheSetters, then Consume acks the batch
BatchDone ==
  /\ pc = "batch"
  /\ idx = Len(lazyEvents) + 1
  /\ cacheFlushed' = cacheFlushed \cup SeqElems(lazyEvents)
  /\ AckAll
  /\ ResetLocals
  /\ UNCHANGED <<written, resolved, kills>>

\* isolated flusher for lazyEvents[idx] succeeds; the deferred Ack follows
IsolatedExecute ==
  /\ pc = "isolated"
  /\ idx \in DOMAIN lazyEvents
  /\ written' = written \cup {lazyEvents[idx]}
  /\ AckAt(idx)
  /\ UNCHANGED <<resolved, cacheFlushed, kills>>

\* mutant: the resolver loop lacks its return and panics after accepting
IsolatedResolvePanics ==
  /\ pc = "isolated"
  /\ idx \in DOMAIN lazyEvents
  /\ Rec(lazyEvents[idx]) \in CanFail
  /\ ResolverAccepts(batchErr)
  /\ resolved' = resolved \cup {lazyEvents[idx]}
  /\ ResetLocals
  /\ UNCHANGED <<brokerVars, written, cacheFlushed, kills>>

\* it fails again; a resolver, called with rec, returns nil
IsolatedResolve ==
  /\ pc = "isolated"
  /\ idx \in DOMAIN lazyEvents
  /\ Rec(lazyEvents[idx]) \in CanFail
  /\ ResolverAccepts(batchErr)
  /\ resolved' = resolved \cup {lazyEvents[idx]}
  /\ AckAt(idx)
  /\ UNCHANGED <<written, cacheFlushed, kills>>

\* mutant: an unresolved error is swallowed and the event acked
IsolatedUnresolvedAcks ==
  /\ pc = "isolated"
  /\ idx \in DOMAIN lazyEvents
  /\ Rec(lazyEvents[idx]) \in CanFail
  /\ ~ResolverAccepts(batchErr)
  /\ AckAt(idx)
  /\ UNCHANGED <<dbVars, kills>>

\* it fails again and every resolver declines: panic(rec2) leaves Digest
IsolatedUnresolved ==
  /\ pc = "isolated"
  /\ idx \in DOMAIN lazyEvents
  /\ Rec(lazyEvents[idx]) \in CanFail
  /\ ~ResolverAccepts(batchErr)
  /\ ResetLocals
  /\ UNCHANGED <<brokerVars, dbVars, kills>>

\* the loop ended: the recovered handler returns and Consume acks the batch
IsolatedDone ==
  /\ pc = "isolated"
  /\ idx = Len(lazyEvents) + 1
  /\ AckAll
  /\ ResetLocals
  /\ UNCHANGED <<dbVars, kills>>

\* the consumer process dies anywhere inside a Digest call
Kill ==
  /\ pc # "idle"
  /\ kills < MaxKills
  /\ kills' = kills + 1
  /\ ResetLocals
  /\ UNCHANGED <<brokerVars, dbVars>>

Consumer ==
  \/ Digest
  \/ Unserialize
  \/ BatchExecute
  \/ BatchQueryError
  \/ BatchDone
  \/ IsolatedExecute
  \/ IsolatedResolve
  \/ IsolatedUnresolved
  \/ IsolatedDone

Next ==
  \/ \E p \in Payloads : PublishLazy(p)
  \/ Consumer
  \/ Kill

\* The consumer runs Digest in a loop and is restarted after a panic;
\* producers and process kills get no fairness.
Spec == Init /\ [][Next]_vars /\ WF_vars(Consumer)

-----------------------------------------------------------------------------
(* Properties.                                                             *)

TypeOK ==
  /\ stream \in Seq(Payloads)
  /\ Len(stream) <= MaxEvents
  /\ lastDelivered \in 0..Len(stream)
  /\ pending \subseteq 1..lastDelivered
  /\ acked \subseteq 1..lastDelivered
  /\ written \subseteq PublishedPositions
  /\ resolved \subseteq PublishedPositions
  /\ cacheFlushed \subseteq PublishedPositions
  /\ pc \in {"idle", "unserialize", "batch", "isolated"}
  /\ events \in Seq(1..lastDelivered)
  /\ lazyEvents \in Seq(PublishedPositions)
  /\ idx \in Nat \ {0}
  /\ batchErr \in Errors \cup {NoError}
  /\ kills \in 0..MaxKills

\* Once the consumer group holds an event as acknowledged it is never
\* delivered again, so each of its records must already be committed to
\* MySQL or accepted by a resolver (handleEvents' isolated loop and Ack).
NoAckedWriteLost ==
  \A k \in acked : PositionsOf(k) \subseteq written \cup resolved

\* Lazy flushes are acknowledged in stream order: an event is acked only
\* after every earlier event, through batches, resolver acks, panics,
\* restarts and redelivery of pending entries (Digest over Consume).
AckedInStreamOrder ==
  \A k \in acked : \A k2 \in 1..k : k2 \in acked

\* Digest is never handed an event the group already acknowledged: after a
\* crash or a panic it reads the group's pending entries again, and Ack has
\* taken the acknowledged ones out of them, so no acked flush is replayed.
NoAckedRedelivery ==
  [][Digest => \A i \in DOMAIN events' : events'[i] \notin acked]_vars

\* spec 4.6: after a successful batch or a full isolated replay, the cache
\* setters queued by the replayed flush are sent to Redis; so every
\* committed record of an acknowledged event had its cache effects flushed.
CacheFlushedWhenAcked ==
  \A k \in acked : PositionsOf(k) \cap written \subseteq cacheFlushed

\* A resolver drops a record only for an error it accepts: the error it is
\* handed in the isolated loop is the one that record's own replay raised.
ResolvedOnlyOnOwnError ==
  \A p \in resolved : ResolverAccepts(ErrCode[Rec(p)])

\* Every lazy flush is eventually acknowledged by the lazy consumer, when
\* every MySQL error it can meet is accepted by a resolver (Digest loop).
EventuallyAcked ==
  \A k \in 1..MaxEvents : (k <= Len(stream)) ~> (k \in acked)

-----------------------------------------------------------------------------
(* Refinement.  The stream is the abstract queue, a position is applied    *)
(* once MySQL committed it or a resolver accepted it, and the consumer     *)
(* group's acknowledged ids are the abstract acknowledgements.             *)

Queue == INSTANCE LazyQueue WITH queue <- stream, applied <- written \cup resolved

\* The consumer implements the lazy-flush promise: every step of Digest,
\* handleEvents, Consume's acks, publishing and kills is a LazyQueue step or
\* a stutter, so acks come in stream order, only after every record of the
\* event was committed or resolved, and no record of an acked event is
\* executed again after a restart or redelivery.
QueueSpec == Queue!Spec
=============================================================================
