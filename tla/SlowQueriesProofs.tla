------------------------- MODULE SlowQueriesProofs -------------------------
(***************************************************************************)
(* Proofs about the metrics limit of the query-log handler of module       *)
(* SlowQueries, for every set of goroutines, logs and limits.              *)
(***************************************************************************)
EXTENDS SlowQueries, TLAPS, FiniteSetTheorems

\* the goroutines inside the locked map update, past the limit check
Updating == {h \in Handlers : hpc[h] = "update"}

\* the part of the state the limit argument reads
MetricsTypeOK ==
  /\ hpc \in [Handlers -> HandlerStates]
  /\ limit \in Int
  /\ IsFiniteSet(DOMAIN queries)

\* every new entry of ml.queries used up one unit of mySQLMetricsLimits
LimitAccounting == limit + Cardinality(DOMAIN queries) = MetricsLimit

\* each goroutine between the check and the update may take the limit one
\* below what it saw; all but one of them may find it already used up
ReservedLimit ==
  limit >= Cardinality(Updating) + 1 - Cardinality(Handlers)

\* a goroutine passes the check only if the limit was ever positive
UpdatingNeedsLimit == Updating # {} => MetricsLimit >= 1

MetricsInv == MetricsTypeOK /\ LimitAccounting /\ ReservedLimit /\ UpdatingNeedsLimit

-----------------------------------------------------------------------------

\* the goroutines are finitely many, and every set of them is finite
LEMMA HandlerCounts ==
  ASSUME NEW S \in SUBSET Handlers
  PROVE  /\ IsFiniteSet(S)
         /\ Cardinality(S) \in Nat
         /\ Cardinality(S) <= Cardinality(Handlers)
         /\ Cardinality(Handlers) >= 1
<1>1. IsFiniteSet(Handlers) /\ Handlers # {}
  BY HandlersAssumption
<1>2. IsFiniteSet(S) /\ Cardinality(S) <= Cardinality(Handlers)
  BY <1>1, FS_Subset
<1>3. Cardinality(Handlers) \in Nat /\ Cardinality(Handlers) # 0
  BY <1>1, FS_CardinalityType, FS_EmptySet
<1>4. QED
  BY <1>1, <1>2, <1>3, FS_CardinalityType

LEMMA InitMetrics == Init => MetricsInv
<1> SUFFICES ASSUME Init PROVE MetricsInv
  OBVIOUS
<1>1. DOMAIN queries = {} /\ limit = MetricsLimit
  BY DEF Init
<1>2. Updating = {}
  BY DEF Init, Updating
<1>3. Cardinality(DOMAIN queries) = 0 /\ IsFiniteSet(DOMAIN queries)
  BY <1>1, FS_EmptySet
<1>4. Cardinality(Updating) = 0
  BY <1>2, FS_EmptySet
<1>5. Cardinality(Handlers) \in Nat /\ Cardinality(Handlers) >= 1
  BY HandlerCounts
<1>6. MetricsTypeOK
  BY <1>1, <1>3, LimitsAssumption DEF Init, MetricsTypeOK, HandlerStates
<1>7. QED
  BY <1>1, <1>2, <1>3, <1>4, <1>5, <1>6, LimitsAssumption
     DEF MetricsInv, LimitAccounting, ReservedLimit, UpdatingNeedsLimit

\* a step of goroutine h outside the metrics check and update, or of
\* ClearMySQLSlowQueries, leaves the map and the limit alone and moves no
\* goroutine into or out of the update
LEMMA OtherMove ==
  ASSUME MetricsInv, UNCHANGED <<queries, limit>>,
         \/ hpc' = hpc
         \/ \E h \in Handlers, x \in HandlerStates \ {"update"} :
               /\ hpc[h] # "update"
               /\ hpc' = [hpc EXCEPT ![h] = x]
  PROVE  MetricsInv'
<1>1. Updating' = Updating /\ hpc' \in [Handlers -> HandlerStates]
  BY DEF MetricsInv, MetricsTypeOK, Updating
<1>2. QED
  BY <1>1 DEF MetricsInv, MetricsTypeOK, LimitAccounting, ReservedLimit,
              UpdatingNeedsLimit

\* the limit check, read without ml.m: a goroutine enters the update only
\* when it saw a positive limit, and takes one of the units left
LEMMA CheckStep ==
  ASSUME MetricsInv, NEW h \in Handlers, MetricsCheck(h)
  PROVE  MetricsInv'
<1>1. /\ hpc[h] = "metrics"
      /\ UNCHANGED <<queries, limit>>
      /\ \/ hpc' = [hpc EXCEPT ![h] = "idle"]
         \/ limit > 0 /\ hpc' = [hpc EXCEPT ![h] = "update"]
  BY DEF MetricsCheck, Goto, MetricsInv, MetricsTypeOK
<1>2. CASE hpc' = [hpc EXCEPT ![h] = "idle"]
  BY <1>1, <1>2, OtherMove DEF HandlerStates
<1>3. CASE limit > 0 /\ hpc' = [hpc EXCEPT ![h] = "update"]
  <2>1. Updating' = Updating \cup {h} /\ h \notin Updating
    BY <1>1, <1>3 DEF Updating, MetricsInv, MetricsTypeOK
  <2>2. Updating \subseteq Handlers \ {h}
    BY <2>1 DEF Updating
  <2>3. /\ Cardinality(Handlers \ {h}) = Cardinality(Handlers) - 1
        /\ IsFiniteSet(Handlers \ {h})
    BY HandlersAssumption, FS_RemoveElement
  <2>4. Cardinality(Updating) <= Cardinality(Handlers) - 1
    BY <2>2, <2>3, FS_Subset
  <2>5. Cardinality(Updating') = Cardinality(Updating) + 1
    <3>1. IsFiniteSet(Updating)
      BY HandlerCounts DEF Updating
    <3>2. QED
      BY <2>1, <3>1, FS_AddElement
  <2>6. /\ Cardinality(Updating) \in Nat /\ Cardinality(Handlers) \in Nat
        /\ Cardinality(DOMAIN queries) \in Nat
    BY HandlerCounts, FS_CardinalityType DEF MetricsInv, MetricsTypeOK, Updating
  <2>7. hpc' \in [Handlers -> HandlerStates]
    BY <1>3 DEF MetricsInv, MetricsTypeOK, HandlerStates
  <2>8. QED
    BY <1>1, <1>3, <2>4, <2>5, <2>6, <2>7
       DEF MetricsInv, MetricsTypeOK, LimitAccounting, ReservedLimit,
           UpdatingNeedsLimit
<1>4. QED
  BY <1>1, <1>2, <1>3

\* the locked update: a new key uses up one unit, and the goroutine leaves
LEMMA UpdateStep ==
  ASSUME MetricsInv, NEW h \in Handlers, MetricsUpdate(h)
  PROVE  MetricsInv'
<1> DEFINE l == hlog[h]
           c == Classify(l.op, l.words)
           key == <<l.pool, c.type, c.table, l.lazy>>
<1>1. /\ hpc[h] = "update"
      /\ DOMAIN queries' = DOMAIN queries \cup {key}
      /\ limit' = IF key \in DOMAIN queries THEN limit ELSE limit - 1
      /\ hpc' = [hpc EXCEPT ![h] = "idle"]
  BY DEF MetricsUpdate, Goto
<1>2. /\ IsFiniteSet(DOMAIN queries')
      /\ Cardinality(DOMAIN queries') =
           IF key \in DOMAIN queries THEN Cardinality(DOMAIN queries)
           ELSE Cardinality(DOMAIN queries) + 1
  BY <1>1, FS_AddElement DEF MetricsInv, MetricsTypeOK
<1>3. Updating' = Updating \ {h} /\ h \in Updating
  BY <1>1 DEF Updating, MetricsInv, MetricsTypeOK
<1>4. Cardinality(Updating') = Cardinality(Updating) - 1
  <2>1. IsFiniteSet(Updating)
    BY HandlerCounts DEF Updating
  <2>2. QED
    BY <1>3, <2>1, FS_RemoveElement
<1>5. /\ Cardinality(Updating) \in Nat /\ Cardinality(Handlers) \in Nat
      /\ Cardinality(DOMAIN queries) \in Nat
  BY HandlerCounts, FS_CardinalityType DEF MetricsInv, MetricsTypeOK, Updating
<1>6. hpc' \in [Handlers -> HandlerStates]
  BY <1>1 DEF MetricsInv, MetricsTypeOK, HandlerStates
<1>7. UpdatingNeedsLimit'
  BY <1>3, LimitsAssumption DEF MetricsInv, UpdatingNeedsLimit
<1>8. QED
  BY <1>1, <1>2, <1>4, <1>5, <1>6, <1>7
     DEF MetricsInv, MetricsTypeOK, LimitAccounting, ReservedLimit

\* ClearMySQLStats empties the map and gives the whole limit back
LEMMA ClearStatsStep ==
  ASSUME MetricsInv, ClearMySQLStats
  PROVE  MetricsInv'
<1>1. DOMAIN queries' = {} /\ limit' = MetricsLimit /\ hpc' = hpc
  BY DEF ClearMySQLStats
<1>2. Updating' = Updating
  BY <1>1 DEF Updating
<1>3. Cardinality(DOMAIN queries') = 0 /\ IsFiniteSet(DOMAIN queries')
  BY <1>1, FS_EmptySet
<1>4. /\ Cardinality(Updating) \in Nat /\ Cardinality(Handlers) \in Nat
      /\ Cardinality(Updating) <= Cardinality(Handlers)
      /\ Cardinality(Handlers) >= 1
  BY HandlerCounts DEF Updating
<1>5. CASE Updating = {}
  <2>1. Cardinality(Updating) = 0
    BY <1>5, FS_EmptySet
  <2>2. QED
    BY <1>1, <1>2, <1>3, <1>4, <1>5, <2>1, LimitsAssumption
       DEF MetricsInv, MetricsTypeOK, LimitAccounting, ReservedLimit,
           UpdatingNeedsLimit
<1>6. CASE Updating # {}
  BY <1>1, <1>2, <1>3, <1>4, <1>6, LimitsAssumption
     DEF MetricsInv, MetricsTypeOK, LimitAccounting, ReservedLimit,
         UpdatingNeedsLimit
<1>7. QED
  BY <1>5, <1>6

\* a step of goroutine h from a state other than the update to one other
\* than the update, the map and the limit left alone
LEMMA MoveTo ==
  ASSUME MetricsInv, NEW h \in Handlers, NEW x \in HandlerStates \ {"update"},
         hpc[h] # "update", hpc' = [hpc EXCEPT ![h] = x],
         UNCHANGED <<queries, limit>>
  PROVE  MetricsInv'
BY OtherMove

\* the steps of Handle before the metrics check: the slow-query tree, its
\* counter and the eviction, which touch neither ml.queries nor the limit
LEMMA TreeSteps ==
  ASSUME MetricsInv, NEW h \in Handlers,
         \/ \E l \in Logs : Start(h, l)
         \/ Check(h)
         \/ hpc[h] = "insertRead" /\ InsertRead(h, "insertWrite")
         \/ hpc[h] = "insertWrite" /\ InsertWrite(h, "setRoot")
         \/ SetRoot(h)
         \/ IncRead(h)
         \/ IncWrite(h)
         \/ FindMinStep(h)
         \/ Unlink(h)
         \/ hpc[h] = "reinsertRead" /\ InsertRead(h, "reinsertWrite")
         \/ Reinserted(h)
  PROVE  MetricsInv'
<1>1. CASE \E l \in Logs : Start(h, l)
  <2>1. PICK l \in Logs : Start(h, l)
    BY <1>1
  <2>2. PICK x \in {"check", "metrics"} : hpc' = [hpc EXCEPT ![h] = x]
    BY <2>1 DEF Start, Goto
  <2>3. hpc[h] = "idle" /\ UNCHANGED <<queries, limit>>
    BY <2>1 DEF Start
  <2>4. QED
    BY <2>2, <2>3, MoveTo DEF HandlerStates
<1>2. CASE Check(h)
  <2>1. PICK x \in {"insertRead", "findMin", "metrics"} :
               hpc' = [hpc EXCEPT ![h] = x]
    BY <1>2 DEF Check, Goto
  <2>2. hpc[h] = "check" /\ UNCHANGED <<queries, limit>>
    BY <1>2 DEF Check
  <2>3. QED
    BY <2>1, <2>2, MoveTo DEF HandlerStates
<1>3. CASE hpc[h] = "insertRead" /\ InsertRead(h, "insertWrite")
  BY <1>3, MoveTo DEF InsertRead, Goto, HandlerStates
<1>4. CASE hpc[h] = "insertWrite" /\ InsertWrite(h, "setRoot")
  BY <1>4, MoveTo DEF InsertWrite, Goto, HandlerStates
<1>5. CASE SetRoot(h)
  BY <1>5, MoveTo DEF SetRoot, Goto, HandlerStates
<1>6. CASE IncRead(h)
  BY <1>6, MoveTo DEF IncRead, Goto, HandlerStates
<1>7. CASE IncWrite(h)
  BY <1>7, MoveTo DEF IncWrite, Goto, HandlerStates
<1>8. CASE FindMinStep(h)
  <2>1. PICK x \in {"idle", "unlink", "metrics"} : hpc' = [hpc EXCEPT ![h] = x]
    BY <1>8 DEF FindMinStep, Goto
  <2>2. hpc[h] = "findMin" /\ UNCHANGED <<queries, limit>>
    BY <1>8 DEF FindMinStep
  <2>3. QED
    BY <2>1, <2>2, MoveTo DEF HandlerStates
<1>9. CASE Unlink(h)
  <2>1. PICK x \in {"idle", "reinsertRead"} : hpc' = [hpc EXCEPT ![h] = x]
    BY <1>9 DEF Unlink, Goto
  <2>2. hpc[h] = "unlink" /\ UNCHANGED <<queries, limit>>
    BY <1>9 DEF Unlink
  <2>3. QED
    BY <2>1, <2>2, MoveTo DEF HandlerStates
<1>10. CASE hpc[h] = "reinsertRead" /\ InsertRead(h, "reinsertWrite")
  BY <1>10, MoveTo DEF InsertRead, Goto, HandlerStates
<1>11. CASE Reinserted(h)
  BY <1>11, MoveTo DEF Reinserted, InsertWrite, Goto, HandlerStates
<1>12. QED
  BY <1>1, <1>2, <1>3, <1>4, <1>5, <1>6, <1>7, <1>8, <1>9, <1>10, <1>11

LEMMA NextMetrics == MetricsInv /\ [Next]_vars => MetricsInv'
<1> SUFFICES ASSUME MetricsInv, [Next]_vars PROVE MetricsInv'
  OBVIOUS
<1>1. ASSUME NEW h \in Handlers, Handle(h) PROVE MetricsInv'
  <2>1. CASE MetricsCheck(h)
    BY <2>1, CheckStep
  <2>2. CASE MetricsUpdate(h)
    BY <2>2, UpdateStep
  <2>3. QED
    BY <1>1, <2>1, <2>2, TreeSteps DEF Handle
<1>2. CASE ClearMySQLStats
  BY <1>2, ClearStatsStep
<1>3. CASE ClearMySQLSlowQueries \/ UNCHANGED vars
  BY <1>3, OtherMove DEF ClearMySQLSlowQueries, vars
<1>4. QED
  BY <1>1, <1>2, <1>3 DEF Next

\* For every set of goroutines, logs and limits, ml.queries holds at most
\* mySQLMetricsLimits entries plus one per goroutine but the first: the
\* limit Handle reads without ml.m can be used up by the goroutines that
\* passed the check before it, each adding one entry more.
THEOREM MetricsBounded == Spec => []MetricsWithinBound
<1>1. MetricsInv => MetricsWithinBound
  <2> SUFFICES ASSUME MetricsInv PROVE MetricsWithinBound
    OBVIOUS
  <2>1. /\ Cardinality(Updating) \in Nat /\ Cardinality(Handlers) \in Nat
        /\ Cardinality(DOMAIN queries) \in Nat
    BY HandlerCounts, FS_CardinalityType DEF MetricsInv, MetricsTypeOK, Updating
  <2>2. QED
    BY <2>1, LimitsAssumption
       DEF MetricsInv, MetricsTypeOK, LimitAccounting, ReservedLimit,
           MetricsWithinBound
<1>2. QED
  BY <1>1, InitMetrics, NextMetrics, PTL DEF Spec

\* With one goroutine logging through the handler, ml.queries never holds
\* more than mySQLMetricsLimits entries (Handle's limit check and the
\* decrement for each new entry), whatever ClearMySQLStats does meanwhile.
THEOREM MetricsLimitSingle ==
  ASSUME Cardinality(Handlers) = 1
  PROVE  Spec => []MetricsWithinLimit
<1>1. MetricsWithinBound => MetricsWithinLimit
  BY LimitsAssumption DEF MetricsWithinBound, MetricsWithinLimit
<1>2. QED
  BY <1>1, MetricsBounded, PTL

=============================================================================
