---------------------------- MODULE SlowQueries ----------------------------
(***************************************************************************)
(* The MySQL query-log handler of the simple_metrics plugin                *)
(* (src/plugins/metrics/simple_metrics.go).  One mySQLLogHandler is        *)
(* registered on every engine, so goroutines using different engines call  *)
(* Handle concurrently.  Handle keeps the slowest queries in a binary tree *)
(* of mySqlSlowQueryTreeNode with no lock, and counts queries per pool,    *)
(* operation, table and lazy flag under ml.m, up to a limit read outside   *)
(* the lock.                                                               *)
(*                                                                         *)
(* The tree lives in a heap of nodes (id 0 is nil).  Every read and write  *)
(* of shared state that the code does unlocked is a step of its own, so    *)
(* that TLC explores the orders a data race can produce; a section under   *)
(* ml.m is one step.  A query is its lower-cased text split on spaces.     *)
(***************************************************************************)
EXTENDS Integers, Sequences, FiniteSets, TLC

CONSTANTS
  Handlers,      \* goroutines logging queries through the shared handler
  Logs,          \* log entries: [t, lazy, pool, op, words]
  SlowLimit,     \* options.mySQLSlowQueriesLimit
  MetricsLimit,  \* options.mySQLMetricsLimits
  MaxCalls,      \* bound: number of Handle calls
  MaxClears      \* bound: number of Clear* calls

ASSUME LimitsAssumption ==
  /\ SlowLimit \in Nat /\ MetricsLimit \in Nat
  /\ MaxCalls \in Nat /\ MaxClears \in Nat
\* the plugin's handler serves a finite, nonempty set of goroutines
ASSUME HandlersAssumption == IsFiniteSet(Handlers) /\ Handlers # {}

VARIABLES
  heap,       \* the tree nodes allocated so far: heap[n] = [v, l, r]
  root,       \* ml.slowQueries
  counter,    \* ml.slowQueriesCounter
  queries,    \* ml.queries: key <<pool, type, table, lazy>> -> mySQLQuery
  limit,      \* ml.mySQLMetricsLimits, decremented per new key
  hpc,        \* where each goroutine is in Handle
  hlog,       \* the log entry each goroutine is handling
  loc,        \* each goroutine's locals: node, min, parent, path, tmp, slow
  seen,       \* history: durations of the non-lazy queries handled
  calls,      \* number of Handle calls
  clears,     \* number of Clear* calls
  panics,     \* number of Handle calls that panicked
  cleared     \* history: the nodes in the tree at the last ClearMySQLSlowQueries

vars == <<heap, root, counter, queries, limit, hpc, hlog, loc, seen, calls,
          clears, panics, cleared>>

NoLocals == [node |-> 0, min |-> 0, parent |-> 0, path |-> <<>>, tmp |-> 0,
             slow |-> FALSE]

-----------------------------------------------------------------------------
(* The tree.                                                               *)

\* the number of steps a walk of the tree may take: a walk of a tree never
\* visits a node twice, and one of a cycle that a race linked stops there
Fuel == Len(heap) + 1
NodeIds == 0..Len(heap)

\* mutant: insert compares the wrong way round
InsertPathFlipped(n, t) ==
  LET p[f \in 0..Fuel, m \in NodeIds] ==
        IF m = 0 \/ f = 0 THEN <<>>
        ELSE LET side == IF t < heap[m].v THEN "r" ELSE "l"
             IN <<<<m, side, heap[m][side]>>>> \o p[f - 1, heap[m][side]]
  IN p[Fuel, n]

\* the path insert descends from n: <<node, side, child read>>, ending at
\* the nil child the new node is linked to
InsertPath(n, t) ==
  LET p[f \in 0..Fuel, m \in NodeIds] ==
        IF m = 0 \/ f = 0 THEN <<>>
        ELSE LET side == IF t < heap[m].v THEN "l" ELSE "r"
             IN <<<<m, side, heap[m][side]>>>> \o p[f - 1, heap[m][side]]
  IN p[Fuel, n]

\* insert returns: every n.left = n.left.insert(value) on the way back
\* writes the child it read on the way down, the last one the new node
WritePath(h, path, new) ==
  [n \in DOMAIN h |->
     IF \E i \in DOMAIN path : path[i][1] = n
     THEN LET i == CHOOSE i \in DOMAIN path : path[i][1] = n
              c == IF i = Len(path) THEN new ELSE path[i][3]
          IN [h[n] EXCEPT ![path[i][2]] = c]
     ELSE h[n]]

\* mutant: findMin stops at the node it is called on
FindMinRoot(n, p) == IF n = 0 THEN <<0, 0>> ELSE <<n, p>>

\* findMin: the leftmost node below n and its parent (0 for none)
FindMin(n, p) ==
  LET fm[f \in 0..Fuel, m \in NodeIds, q \in NodeIds] ==
        IF m = 0 THEN <<0, 0>>
        ELSE IF heap[m].l # 0 /\ f > 0 THEN fm[f - 1, heap[m].l, m]
        ELSE <<m, q>>
  IN fm[Fuel, n, p]

\* getChildren: right subtree, node, left subtree (fuel bounds a cycle)
Children(n, fuel) ==
  LET c[f \in 0..fuel, m \in NodeIds] ==
        IF m = 0 \/ f = 0 THEN <<>>
        ELSE c[f - 1, heap[m].r] \o <<heap[m].v>> \o c[f - 1, heap[m].l]
  IN c[fuel, n]

GetChildren == Children(root, Fuel)

\* the ids of the nodes getChildren visits
NodesBelow(n, fuel) ==
  LET nb[f \in 0..fuel, m \in NodeIds] ==
        IF m = 0 \/ f = 0 THEN {}
        ELSE {m} \cup nb[f - 1, heap[m].r] \cup nb[f - 1, heap[m].l]
  IN nb[fuel, n]

-----------------------------------------------------------------------------
(* Classifying a query for the metrics (Handle, lines 155-206).            *)

\* splitQuery[i] (0-based) exists
Has(ws, i) == i < Len(ws)
At(ws, i) == ws[i + 1]

\* the outcome of the switch: a query type and table, or an index out of
\* range
Panicked == [type |-> "panic", table |-> "unknown"]

SelectKey(ws) ==
  LET froms == {k \in 2..Len(ws) - 1 : At(ws, k) = "from"}
      k == CHOOSE k \in froms : \A j \in froms : k <= j
  IN IF ~Has(ws, 1) THEN Panicked
     ELSE IF froms = {} THEN [type |-> "Query", table |-> "unknown"]
     ELSE IF ~Has(ws, k + 1) THEN Panicked
     ELSE [type |-> "Query", table |-> At(ws, k + 1)]

ShowKey(ws) ==
  LET Third(w1, w2) ==
        /\ Has(ws, 1) /\ At(ws, 1) = w1
        /\ Has(ws, 2) /\ At(ws, 2) = w2
      Reads(w1) == Has(ws, 1) /\ At(ws, 1) = w1
  IN IF ~Has(ws, 1) THEN Panicked
     ELSE IF \E w \in {"tables", "create", "indexes"} :
               Reads(w) /\ ~Has(ws, 2) THEN Panicked
     ELSE IF Third("tables", "like") \/ Third("create", "table")
             \/ Third("indexes", "from")
     THEN IF Has(ws, 3) THEN [type |-> "Show", table |-> At(ws, 3)]
          ELSE Panicked
     ELSE [type |-> "Show", table |-> "unknown"]

ExecKey(ws) ==
  LET kind == At(ws, 0)
      Named(type, i) == IF Has(ws, i) THEN [type |-> type, table |-> At(ws, i)]
                        ELSE Panicked
  IN CASE kind = "update" -> Named("Update", 1)
       [] kind = "insert" -> Named("Insert", 2)
       [] kind = "delete" -> Named("Delete", 2)
       [] kind = "alter"  -> Named("Alter", 2)
       [] kind = "set"    -> [type |-> "Alter", table |-> "unknown"]
       [] OTHER           -> [type |-> "Other", table |-> "unknown"]

Classify(op, ws) ==
  CASE op = "SELECT" /\ At(ws, 0) = "select" -> SelectKey(ws)
    [] op = "SELECT" /\ At(ws, 0) = "show"   -> ShowKey(ws)
    [] op = "EXEC"                           -> ExecKey(ws)
    [] OTHER -> [type |-> "Other", table |-> "unknown"]

-----------------------------------------------------------------------------
Init ==
  /\ heap = <<>>
  /\ root = 0
  /\ counter = 0
  /\ queries = [k \in {} |-> 0]
  /\ limit = MetricsLimit
  /\ hpc = [h \in Handlers |-> "idle"]
  /\ hlog = [h \in Handlers |-> CHOOSE l \in Logs : TRUE]
  /\ loc = [h \in Handlers |-> NoLocals]
  /\ seen = <<>>
  /\ calls = 0
  /\ clears = 0
  /\ panics = 0
  /\ cleared = {}

Goto(h, at) == hpc' = [hpc EXCEPT ![h] = at]
SetLoc(h, l) == loc' = [loc EXCEPT ![h] = l]

\* Handle starts: the slow-query part runs only for non-lazy queries
\* when a slow-query limit is set (lines 111-123)
Start(h, l) ==
  /\ hpc[h] = "idle"
  /\ calls < MaxCalls
  /\ calls' = calls + 1
  /\ hlog' = [hlog EXCEPT ![h] = l]
  /\ SetLoc(h, NoLocals)
  /\ IF ~l.lazy /\ SlowLimit > 0
     THEN /\ Goto(h, "check")
          /\ seen' = Append(seen, l.t)
     ELSE /\ Goto(h, "metrics")
          /\ UNCHANGED seen
  /\ UNCHANGED <<heap, root, counter, queries, limit, clears, panics,
                 cleared>>

\* slowQueriesCounter < limit: insert; else, with a tree, evict (124, 134)
Check(h) ==
  /\ hpc[h] = "check"
  /\ Goto(h, IF counter < SlowLimit THEN "insertRead"
             ELSE IF root # 0 THEN "findMin" ELSE "metrics")
  /\ UNCHANGED <<heap, root, counter, queries, limit, hlog, loc, seen, calls,
                 clears, panics, cleared>>

\* ml.slowQueries.insert descends the tree (125, 142)
InsertRead(h, next) ==
  /\ SetLoc(h, [loc[h] EXCEPT !.path = InsertPath(root, hlog[h].t),
                              !.node = root])
  /\ Goto(h, next)
  /\ UNCHANGED <<heap, root, counter, queries, limit, hlog, seen, calls,
                 clears, panics, cleared>>

\* mutant: the new node is linked under an id one past the one allocated
InsertWriteOffByOne(h, next) ==
  LET new == Len(heap) + 1 IN
  /\ heap' = Append(WritePath(heap, loc[h].path, new + 1),
                    [v |-> hlog[h].t, l |-> 0, r |-> 0])
  /\ SetLoc(h, [loc[h] EXCEPT !.node = IF loc[h].node = 0 THEN new
                                       ELSE loc[h].node])
  /\ Goto(h, next)
  /\ UNCHANGED <<root, counter, queries, limit, hlog, seen, calls, clears,
                 panics, cleared>>

\* ... allocates the node and writes the pointers back on the way up;
\* its result is the tree it was called on, or the new node for nil
InsertWrite(h, next) ==
  LET new == Len(heap) + 1 IN
  /\ heap' = Append(WritePath(heap, loc[h].path, new),
                    [v |-> hlog[h].t, l |-> 0, r |-> 0])
  /\ SetLoc(h, [loc[h] EXCEPT !.node = IF loc[h].node = 0 THEN new
                                       ELSE loc[h].node])
  /\ Goto(h, next)
  /\ UNCHANGED <<root, counter, queries, limit, hlog, seen, calls, clears,
                 panics, cleared>>

\* if ml.slowQueries == nil { ml.slowQueries = node } (130-132)
SetRoot(h) ==
  /\ hpc[h] = "setRoot"
  /\ root' = IF root = 0 THEN loc[h].node ELSE root
  /\ Goto(h, "incRead")
  /\ UNCHANGED <<heap, counter, queries, limit, hlog, loc, seen, calls,
                 clears, panics, cleared>>

\* ml.slowQueriesCounter++: a load and a store (133)
IncRead(h) ==
  /\ hpc[h] = "incRead"
  /\ SetLoc(h, [loc[h] EXCEPT !.tmp = counter])
  /\ Goto(h, "incWrite")
  /\ UNCHANGED <<heap, root, counter, queries, limit, hlog, seen, calls,
                 clears, panics, cleared>>

IncWrite(h) ==
  /\ hpc[h] = "incWrite"
  /\ counter' = loc[h].tmp + 1
  /\ Goto(h, "metrics")
  /\ UNCHANGED <<heap, root, queries, limit, hlog, loc, seen, calls, clears,
                 panics, cleared>>

\* min, parent := ml.slowQueries.findMin(nil), reading the root again;
\* a root emptied since Check is a nil dereference of min.value (135-136)
FindMinStep(h) ==
  /\ hpc[h] = "findMin"
  /\ LET mp == FindMin(root, 0) IN
       IF root = 0
       THEN /\ Goto(h, "idle") /\ panics' = panics + 1
            /\ UNCHANGED loc
       ELSE /\ SetLoc(h, [loc[h] EXCEPT !.min = mp[1], !.parent = mp[2]])
            /\ Goto(h, IF heap[mp[1]].v <= hlog[h].t THEN "unlink"
                       ELSE "metrics")
            /\ UNCHANGED panics
  /\ UNCHANGED <<heap, root, counter, queries, limit, hlog, seen, calls,
                 clears, cleared>>

\* drop the minimum: the root moves to its right child, or the parent's
\* left pointer to min.right; the query will count as slow (137-141, 147)
Unlink(h) ==
  /\ hpc[h] = "unlink"
  /\ IF loc[h].parent = 0
     THEN IF root = 0
          THEN /\ panics' = panics + 1 /\ Goto(h, "idle")
               /\ UNCHANGED <<heap, root, loc>>
          ELSE /\ root' = heap[root].r
               /\ Goto(h, "reinsertRead")
               /\ SetLoc(h, [loc[h] EXCEPT !.slow = TRUE])
               /\ UNCHANGED <<heap, panics>>
     ELSE /\ heap' = [heap EXCEPT ![loc[h].parent].l = heap[loc[h].min].r]
          /\ Goto(h, "reinsertRead")
          /\ SetLoc(h, [loc[h] EXCEPT !.slow = TRUE])
          /\ UNCHANGED <<root, panics>>
  /\ UNCHANGED <<counter, queries, limit, hlog, seen, calls, clears,
                 cleared>>

\* the replacement is inserted into ml.slowQueries; the result of insert
\* is dropped, so into an emptied tree it is lost (142-146)
Reinserted(h) ==
  /\ hpc[h] = "reinsertWrite"
  /\ InsertWrite(h, "metrics")

\* if ml.mySQLMetricsLimits <= 0 { return }, read outside ml.m (152-154);
\* then the switch over the query's words, which may panic (155-206)
MetricsCheck(h) ==
  /\ hpc[h] = "metrics"
  /\ LET key == Classify(hlog[h].op, hlog[h].words) IN
       CASE limit <= 0 ->
              Goto(h, "idle") /\ UNCHANGED panics
         [] key.type = "panic" ->
              Goto(h, "idle") /\ panics' = panics + 1
         [] OTHER ->
              Goto(h, "update") /\ UNCHANGED panics
  /\ UNCHANGED <<heap, root, counter, queries, limit, hlog, loc, seen, calls,
                 clears, cleared>>

\* mutant: a new entry does not use up the limit
MetricsUpdateNoDecrement(h) ==
  LET l == hlog[h]
      c == Classify(l.op, l.words)
      key == <<l.pool, c.type, c.table, l.lazy>>
      old == IF key \in DOMAIN queries THEN queries[key]
             ELSE [counter |-> 0, time |-> 0, slow |-> 0]
      new == [counter |-> old.counter + 1, time |-> old.time + l.t,
              slow |-> old.slow + (IF loc[h].slow THEN 1 ELSE 0)]
  IN
  /\ hpc[h] = "update"
  /\ queries' = [k \in DOMAIN queries \cup {key} |->
                   IF k = key THEN new ELSE queries[k]]
  /\ UNCHANGED limit
  /\ Goto(h, "idle")
  /\ UNCHANGED <<heap, root, counter, hlog, loc, seen, calls, clears, panics,
                 cleared>>

\* under ml.m: find or create the entry of the key, a new one using up the
\* limit, and count the query (207-235)
MetricsUpdate(h) ==
  LET l == hlog[h]
      c == Classify(l.op, l.words)
      key == <<l.pool, c.type, c.table, l.lazy>>
      old == IF key \in DOMAIN queries THEN queries[key]
             ELSE [counter |-> 0, time |-> 0, slow |-> 0]
      new == [counter |-> old.counter + 1, time |-> old.time + l.t,
              slow |-> old.slow + (IF loc[h].slow THEN 1 ELSE 0)]
  IN
  /\ hpc[h] = "update"
  /\ queries' = [k \in DOMAIN queries \cup {key} |->
                   IF k = key THEN new ELSE queries[k]]
  /\ limit' = IF key \in DOMAIN queries THEN limit ELSE limit - 1
  /\ Goto(h, "idle")
  /\ UNCHANGED <<heap, root, counter, hlog, loc, seen, calls, clears, panics,
                 cleared>>

\* ClearMySQLStats, under ml.m (287-294)
ClearMySQLStats ==
  /\ clears < MaxClears
  /\ clears' = clears + 1
  /\ queries' = [k \in {} |-> 0]
  /\ limit' = MetricsLimit
  /\ UNCHANGED <<heap, root, counter, hpc, hlog, loc, seen, calls, panics,
                 cleared>>

\* ClearMySQLSlowQueries, under ml.m, which Handle's tree code never takes
\* (296-303)
ClearMySQLSlowQueries ==
  /\ clears < MaxClears
  /\ clears' = clears + 1
  /\ root' = 0
  /\ counter' = 0
  /\ seen' = <<>>
  /\ cleared' = NodesBelow(root, Len(heap) + 1)
  /\ UNCHANGED <<heap, queries, limit, hpc, hlog, loc, calls, panics>>

Handle(h) ==
  \/ \E l \in Logs : Start(h, l)
  \/ Check(h)
  \/ hpc[h] = "insertRead" /\ InsertRead(h, "insertWrite")
  \/ hpc[h] = "insertWrite" /\ InsertWrite(h, "setRoot")
  \/ SetRoot(h)
  \/ IncRead(h)
  \/ IncWrite(h)
  \/ FindMinStep(h)
  \/ Unlink(h)
  \/ hpc[h] = "reinsertRead" /\ InsertRead(h, "reinsertWrite")
  \/ Reinserted(h)
  \/ MetricsCheck(h)
  \/ MetricsUpdate(h)

Next ==
  \/ \E h \in Handlers : Handle(h)
  \/ ClearMySQLStats
  \/ ClearMySQLSlowQueries

Spec == Init /\ [][Next]_vars

-----------------------------------------------------------------------------
(* Properties.                                                             *)

HandlerStates == {"idle", "check", "insertRead", "insertWrite", "setRoot",
                  "incRead", "incWrite", "findMin", "unlink", "reinsertRead",
                  "reinsertWrite", "metrics", "update"}

TypeOK ==
  /\ heap \in Seq([v : Nat, l : 0..Len(heap), r : 0..Len(heap)])
  /\ root \in 0..Len(heap)
  /\ counter \in Nat
  /\ limit \in Int /\ limit <= MetricsLimit
  /\ hpc \in [Handlers -> HandlerStates]
  /\ hlog \in [Handlers -> Logs]
  /\ seen \in Seq(Nat)
  /\ calls \in 0..MaxCalls /\ clears \in 0..MaxClears
  /\ panics \in 0..calls

Quiescent == \A h \in Handlers : hpc[h] = "idle"

SmallerOf(a, b) == IF a < b THEN a ELSE b

\* the reference: the SlowLimit longest durations logged, longest first
SlowestSeen == SubSeq(SortSeq(seen, >), 1, SmallerOf(SlowLimit, Len(seen)))

\* Between Handle calls, GetMySQLSlowQueriesStats returns exactly the
\* SlowLimit slowest non-lazy queries logged since the last clear, slowest
\* first ("retain the worst K", spec 9): Handle's insert and eviction of
\* the minimum keep the tree equal to the top K of everything seen.
SlowQueriesAreSlowest == Quiescent => GetChildren = SlowestSeen

\* getChildren lists the tree in non-increasing duration, whatever the
\* interleaving of unlocked inserts and evictions of concurrent Handles.
SlowQueriesOrdered ==
  LET c == GetChildren IN
  \A i, j \in DOMAIN c : i < j => c[i] >= c[j]

\* The tree never holds more than mySQLSlowQueriesLimit queries (Handle's
\* counter check and eviction).
SlowQueriesWithinLimit == Len(GetChildren) <= SlowLimit

\* ml.queries never holds more entries than mySQLMetricsLimits (the limit
\* checked at the start of Handle and decremented per new entry).
MetricsWithinLimit == Cardinality(DOMAIN queries) <= MetricsLimit

\* With several goroutines, ml.queries holds at most mySQLMetricsLimits
\* entries plus one per goroutine but the first: Handle reads the limit
\* before taking ml.m, so each goroutine that passed the check with one
\* entry left adds its own new entry.
MetricsWithinBound ==
  Cardinality(DOMAIN queries) <= MetricsLimit + Cardinality(Handlers) - 1

\* Logging a query never panics the goroutine that ran it (Handle).
NoLoggerPanic == panics = 0

\* ClearMySQLSlowQueries empties the slow-query list: between Handle calls,
\* no query that was in the list when it was cleared is listed again,
\* though Handle walks and relinks the tree with no lock held.
ClearedQueriesStayCleared ==
  Quiescent => NodesBelow(root, Len(heap) + 1) \cap cleared = {}

====
