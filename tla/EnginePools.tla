---------------------------- MODULE EnginePools ----------------------------
(***************************************************************************)
(* The per-engine pool clients of Engine (src/unnamed/part_003).  An       *)
(* engine creates the client of a MySQL, local-cache, Redis or RediSearch  *)
(* pool on first use and keeps it in a map per kind, allocated on the      *)
(* first insert; the log metadata and the serializer are kept the same     *)
(* way.  Clone gives a new engine with the registry and context only, and  *)
(* NewLazyFlushConsumer (part_002) clones the caller's engine for the      *)
(* consumer goroutine and tags the clone with the metadata lazy=1.         *)
(*                                                                         *)
(* A map is a heap cell: mapOf[e][k] is the id of engine e's map of kind   *)
(* k (0 while the Go field is nil) and content[m] its entries, so two      *)
(* engines could share a map as Go pointers would.  A getter reads the map *)
(* in one step and writes it in another, the two accesses of the code.     *)
(***************************************************************************)
EXTENDS Integers, FiniteSets, TLC

CONSTANTS
  Main,             \* the goroutine that owns the first engine
  Consumers,        \* goroutines running a LazyFlushConsumer
  Codes,            \* pool codes a caller may pass
  Registered,       \* registry: kind -> codes with a registered pool
  RequestCacheKey,  \* the local-cache code of the request cache
  UserKeys,         \* metadata keys a caller may set
  MaxCalls          \* bound: calls made by all goroutines together

Kinds == {"mysql", "local", "redis", "search"}
MapKinds == Kinds \cup {"meta"}
Goroutines == {Main} \cup Consumers
Keys == Codes \cup {RequestCacheKey} \cup UserKeys \cup {"lazy"}
Nil == 0
MetaValue == 1     \* a metadata value; which one plays no part
NoCode == "none"   \* the code of a call that takes none

ASSUME EnginePoolsAssumption ==
  /\ Main \notin Consumers
  /\ Registered \in [{"mysql", "local", "redis"} -> SUBSET Codes]
  /\ "lazy" \notin UserKeys
  /\ MaxCalls \in Nat

VARIABLES
  eng,         \* the engine each goroutine uses (Nil before it has one)
  nEngines,    \* engines created so far; ids 1..nEngines
  mapOf,       \* mapOf[e][k]: id of the map in field k of engine e, or Nil
  nMaps,       \* maps allocated so far; ids 1..nMaps
  content,     \* content[m][key]: the value map m holds for key, or Nil
  ser,         \* e.serializer of each engine, or Nil
  nClients,    \* clients, caches and serializers created so far
  pc,          \* "idle", "write" (between a getter's read and write),
               \* "tag" (in NewLazyFlushConsumer), "starting", "panicked"
  call,        \* the getter a goroutine is in: [kind, code, val]
  calls,       \* calls made so far, by all goroutines
  returned     \* history: <<engine, kind, code, value>> returned by getters

vars == <<eng, nEngines, mapOf, nMaps, content, ser, nClients, pc, call, calls,
          returned>>

Engines == 1..nEngines
MapIds == 1..nMaps
NoCall == [kind |-> "mysql", code |-> NoCode, val |-> Nil]

\* registry lookup of a getter: GetRedisSearch reads registry.redisServers
RegistryOf(k) == IF k = "search" THEN Registered["redis"] ELSE Registered[k]

\* a function on 1..n-1 extended to 1..n with v at n: a new engine or map
Extend(f, n, v) == [i \in 1..n |-> IF i = n THEN v ELSE f[i]]

\* a fresh engine with every map field and the serializer nil
NilFields == [k \in MapKinds |-> Nil]

TypeOK ==
  /\ nEngines \in Nat /\ nClients \in Nat
  /\ eng \in [Goroutines -> Engines \cup {Nil}]
  /\ mapOf \in [Engines -> [MapKinds -> MapIds \cup {Nil}]]
  /\ nMaps \in Nat
  /\ content \in [MapIds -> [Keys -> Nat]]
  /\ ser \in [Engines -> Nat]
  /\ pc \in [Goroutines -> {"idle", "write", "tag", "starting", "panicked"}]
  /\ call \in [Goroutines -> [kind : MapKinds, code : Keys \cup {NoCode},
                              val : Nat \cup Consumers]]
  /\ calls \in 0..MaxCalls
  /\ returned \subseteq Engines \X (Kinds \cup {"serializer"}) \X (Keys \cup {NoCode})
                        \X Nat

Init ==
  /\ nEngines = 1
  /\ eng = [g \in Goroutines |-> IF g = Main THEN 1 ELSE Nil]
  /\ mapOf = [e \in {1} |-> NilFields]
  /\ nMaps = 0
  /\ content = [m \in {} |-> [x \in Keys |-> Nil]]
  /\ ser = [e \in {1} |-> Nil]
  /\ nClients = 0
  /\ pc = [g \in Goroutines |-> "idle"]
  /\ call = [g \in Goroutines |-> NoCall]
  /\ calls = 0
  /\ returned = {}

-----------------------------------------------------------------------------
\* mutant: the nil check is dropped and every insert allocates a new map,
\* e.dbs = map[string]*DB{dbCode: db}, losing the other pools' clients
StoreInFresh(e, k, key, v) ==
  LET m == nMaps + 1
  IN /\ nMaps' = m
     /\ mapOf' = [mapOf EXCEPT ![e][k] = m]
     /\ content' = Extend(content, m, [x \in Keys |-> IF x = key THEN v ELSE Nil])

(* Writing a key into engine e's map of kind k: a nil field gets a new map *)
(* holding only that key, otherwise the key is inserted.                   *)
StoreIn(e, k, key, v) ==
  IF mapOf[e][k] = Nil
  THEN LET m == nMaps + 1
       IN /\ nMaps' = m
          /\ mapOf' = [mapOf EXCEPT ![e][k] = m]
          /\ content' = Extend(content, m, [x \in Keys |-> IF x = key THEN v
                                                               ELSE Nil])
  ELSE /\ content' = [content EXCEPT ![mapOf[e][k]][key] = v]
       /\ UNCHANGED <<mapOf, nMaps>>

\* the value engine e's map of kind k holds for key, Nil if none
Lookup(e, k, key) ==
  IF mapOf[e][k] = Nil THEN Nil ELSE content[mapOf[e][k]][key]

Return(g, k, key, v) ==
  returned' = returned \cup {<<eng[g], k, key, v>>}

Ready(g) == /\ pc[g] = "idle" /\ eng[g] # Nil /\ calls < MaxCalls

\* Get*(code): the read of the map.  A hit returns the stored value; a miss
\* on a registered pool creates a new value, to be stored by GetWrite.
GetRead(g, k, c) ==
  /\ Ready(g)
  /\ calls' = calls + 1
  /\ \/ /\ Lookup(eng[g], k, c) # Nil
        /\ Return(g, k, c, Lookup(eng[g], k, c))
        /\ UNCHANGED <<pc, call, nClients>>
     \/ /\ Lookup(eng[g], k, c) = Nil
        /\ c \in RegistryOf(k)
        /\ nClients' = nClients + 1
        /\ pc' = [pc EXCEPT ![g] = "write"]
        /\ call' = [call EXCEPT ![g] = [kind |-> k, code |-> c,
                                         val |-> nClients + 1]]
        /\ UNCHANGED returned
  /\ UNCHANGED <<eng, nEngines, mapOf, nMaps, content, ser>>

\* GetLocalCache(requestCacheKey) with no registered pool of that name:
\* a cache of limit 5000 is created, stored as any other, and returned
GetRequestCache(g) ==
  /\ Ready(g)
  /\ Lookup(eng[g], "local", RequestCacheKey) = Nil
  /\ RequestCacheKey \notin Registered["local"]
  /\ calls' = calls + 1
  /\ nClients' = nClients + 1
  /\ pc' = [pc EXCEPT ![g] = "write"]
  /\ call' = [call EXCEPT ![g] = [kind |-> "local", code |-> RequestCacheKey,
                                   val |-> nClients + 1]]
  /\ UNCHANGED <<eng, nEngines, mapOf, nMaps, content, ser, returned>>

\* a miss on an unregistered pool panics; the goroutine does no more calls
GetUnregistered(g, k, c) ==
  /\ Ready(g)
  /\ Lookup(eng[g], k, c) = Nil
  /\ c \notin RegistryOf(k)
  /\ ~(k = "local" /\ c = RequestCacheKey)
  /\ pc' = [pc EXCEPT ![g] = "panicked"]
  /\ UNCHANGED <<eng, nEngines, mapOf, nMaps, content, ser, nClients, call, calls,
                 returned>>

\* Get*(code): the write of the created value into the map, and its return
GetWrite(g) ==
  /\ pc[g] = "write"
  /\ StoreIn(eng[g], call[g].kind, call[g].code, call[g].val)
  /\ Return(g, call[g].kind, call[g].code, call[g].val)
  /\ pc' = [pc EXCEPT ![g] = "idle"]
  /\ call' = [call EXCEPT ![g] = NoCall]
  /\ UNCHANGED <<eng, nEngines, ser, nClients, calls>>

\* SetLogMetaData(key, value): allocate the map if nil, then set the key
SetLogMetaData(g, key) ==
  /\ Ready(g)
  /\ calls' = calls + 1
  /\ StoreIn(eng[g], "meta", key, MetaValue)
  /\ UNCHANGED <<eng, nEngines, ser, nClients, pc, call, returned>>

\* getSerializer: create the serializer on first use
GetSerializer(g) ==
  /\ Ready(g)
  /\ calls' = calls + 1
  /\ IF ser[eng[g]] = Nil
     THEN /\ nClients' = nClients + 1
          /\ ser' = [ser EXCEPT ![eng[g]] = nClients + 1]
          /\ Return(g, "serializer", NoCode, nClients + 1)
     ELSE /\ Return(g, "serializer", NoCode, ser[eng[g]])
          /\ UNCHANGED <<nClients, ser>>
  /\ UNCHANGED <<eng, nEngines, mapOf, nMaps, content, pc, call>>

\* mutant: Clone copies the whole struct, so the clone shares e's maps
CloneShared(e) == mapOf[e]

\* Clone: a new engine sharing only registry and context with e
Clone(e) == NilFields

\* NewLazyFlushConsumer(engine) called by g: c.engine = engine.Clone(); the
\* consumer goroutine c starts once the constructor has returned
NewLazyFlushConsumer(g, c) ==
  /\ pc[g] = "idle" /\ eng[g] # Nil
  /\ eng[c] = Nil
  /\ nEngines' = nEngines + 1
  /\ mapOf' = Extend(mapOf, nEngines + 1, Clone(eng[g]))
  /\ ser' = Extend(ser, nEngines + 1, Nil)
  /\ eng' = [eng EXCEPT ![c] = nEngines + 1]
  /\ pc' = [pc EXCEPT ![g] = "tag", ![c] = "starting"]
  /\ call' = [call EXCEPT ![g] = [kind |-> "meta", code |-> "lazy", val |-> c]]
  /\ UNCHANGED <<nMaps, content, nClients, calls, returned>>

\* the constructor goes on with c.engine.SetMetaData("lazy", "1") and returns
SetLazyTag(g) ==
  /\ pc[g] = "tag"
  /\ StoreIn(eng[call[g].val], "meta", "lazy", MetaValue)
  /\ pc' = [pc EXCEPT ![g] = "idle", ![call[g].val] = "idle"]
  /\ call' = [call EXCEPT ![g] = NoCall]
  /\ UNCHANGED <<eng, nEngines, ser, nClients, calls, returned>>

Next ==
  \/ \E g \in Goroutines :
       \/ \E k \in Kinds, c \in Codes : GetRead(g, k, c) \/ GetUnregistered(g, k, c)
       \/ GetRequestCache(g)
       \/ GetWrite(g)
       \/ \E key \in UserKeys : SetLogMetaData(g, key)
       \/ GetSerializer(g)
       \/ \E c \in Consumers : NewLazyFlushConsumer(g, c)
       \/ SetLazyTag(g)

Spec == Init /\ [][Next]_vars

-----------------------------------------------------------------------------
(* Properties                                                              *)

\* Each engine hands out at most one client per pool (spec: "at most one
\* client per pool per session"): two Get* calls on the same engine with the
\* same kind and code return the same client, across the read/write split of
\* GetMysql, GetLocalCache, GetRedis, GetRedisSearch and getSerializer, the
\* nil-map allocation, the request cache and the consumer's cloned engine.
AtMostOneClientPerPool ==
  \A r1, r2 \in returned :
    (r1[1] = r2[1] /\ r1[2] = r2[2] /\ r1[3] = r2[3]) => r1[4] = r2[4]

\* The lazy=1 tag NewLazyFlushConsumer sets on its cloned engine never shows
\* in the metadata of the engine it was cloned from.
LazyTagOnClonesOnly ==
  \A g \in Goroutines :
    eng[g] # Nil /\ Lookup(eng[g], "meta", "lazy") # Nil => g \in Consumers
=============================================================================
