------------------------- MODULE EnginePoolsProofs -------------------------
(***************************************************************************)
(* Proofs about the engine pool accessors of module EnginePools, for every *)
(* set of goroutines, pool codes, registry, request-cache key and bound.   *)
(***************************************************************************)
EXTENDS EnginePools, TLAPS

USE EnginePoolsAssumption

-----------------------------------------------------------------------------
(* Lemmas about Extend, by which Clone's new engine and a newly           *)
(* allocated map extend mapOf, ser and content.                            *)

\* Extend(f, n + 1, v) is a function on 1..n + 1 that keeps f's values
LEMMA ExtendFacts ==
  ASSUME NEW n \in Nat, NEW T, NEW f \in [1..n -> T], NEW v \in T
  PROVE  /\ Extend(f, n + 1, v) \in [1..(n + 1) -> T]
         /\ Extend(f, n + 1, v)[n + 1] = v
         /\ \A i \in 1..n : Extend(f, n + 1, v)[i] = f[i]
BY DEF Extend

-----------------------------------------------------------------------------
(* Type correctness.                                                       *)

LEMMA InitTypeOK == Init => TypeOK
<1> SUFFICES ASSUME Init PROVE TypeOK
  OBVIOUS
<1>1. /\ nEngines \in Nat /\ nClients \in Nat /\ nMaps \in Nat
      /\ calls \in 0..MaxCalls /\ returned = {}
  BY DEF Init
<1>2. Engines = {1} /\ MapIds = {}
  BY DEF Init, Engines, MapIds
<1>3. eng \in [Goroutines -> Engines \cup {Nil}]
  BY <1>2 DEF Init
<1>4. mapOf \in [Engines -> [MapKinds -> MapIds \cup {Nil}]]
  BY <1>2 DEF Init, NilFields
<1>5. content \in [MapIds -> [Keys -> Nat]] /\ ser \in [Engines -> Nat]
  BY <1>2 DEF Init, Nil
<1>6. pc \in [Goroutines -> {"idle", "write", "tag", "starting", "panicked"}]
  BY DEF Init
<1>7. call \in [Goroutines -> [kind : MapKinds, code : Keys \cup {NoCode},
                               val : Nat \cup Consumers]]
  BY DEF Init, NoCall, MapKinds, Kinds, Nil
<1>8. QED
  BY <1>1, <1>3, <1>4, <1>5, <1>6, <1>7 DEF TypeOK

-----------------------------------------------------------------------------
(* The inductive invariant.                                                *)

\* a goroutine between a getter's read and write holds a new value for a
\* pool its engine has no value for yet
WriteOK ==
  \A g \in Goroutines : pc[g] = "write" =>
    /\ eng[g] \in Engines
    /\ call[g].kind \in Kinds /\ call[g].code \in Keys
    /\ call[g].val \in Nat \ {0}
    /\ Lookup(eng[g], call[g].kind, call[g].code) = Nil

\* NewLazyFlushConsumer is about to tag the engine of a started consumer
TagOK ==
  \A g \in Goroutines : pc[g] = "tag" =>
    call[g].val \in Consumers /\ eng[call[g].val] \in Engines

\* no two goroutines use the same engine
EnginesOwned ==
  \A g1, g2 \in Goroutines : eng[g1] # Nil /\ eng[g1] = eng[g2] => g1 = g2

\* no two map fields, of one engine or of two, hold the same map
MapsOwned ==
  \A e1, e2 \in Engines, k1, k2 \in MapKinds :
    mapOf[e1][k1] # Nil /\ mapOf[e1][k1] = mapOf[e2][k2] => e1 = e2 /\ k1 = k2

\* what a getter of kind k returns now for code c on engine e
Val(e, k, c) == IF k = "serializer" THEN ser[e] ELSE Lookup(e, k, c)

\* every value a getter returned is still the one it would return
ReturnedCurrent ==
  \A r \in returned :
    /\ r[2] # "serializer" => r[3] \in Keys
    /\ r[4] # Nil /\ Val(r[1], r[2], r[3]) = r[4]

IInv == TypeOK /\ WriteOK /\ TagOK /\ EnginesOwned /\ MapsOwned /\ ReturnedCurrent

-----------------------------------------------------------------------------
(* What one store into a map changes.                                      *)

\* StoreIn leaves the maps typed and owned, makes the key read v, and
\* changes what no other engine, kind or key reads
LEMMA StoreInFacts ==
  ASSUME TypeOK, MapsOwned,
         NEW e \in Engines, NEW k \in MapKinds, NEW key \in Keys, NEW v \in Nat,
         StoreIn(e, k, key, v), nEngines' = nEngines
  PROVE  /\ nMaps' \in Nat
         /\ mapOf' \in [Engines -> [MapKinds -> MapIds' \cup {Nil}]]
         /\ content' \in [MapIds' -> [Keys -> Nat]]
         /\ MapsOwned'
         /\ Lookup(e, k, key)' = v
         /\ \A e2 \in Engines, k2 \in MapKinds, key2 \in Keys :
              <<e2, k2, key2>> # <<e, k, key>> =>
                Lookup(e2, k2, key2)' = Lookup(e2, k2, key2)
<1>1. CASE mapOf[e][k] = Nil
  <2>1. /\ nMaps' = nMaps + 1
        /\ mapOf' = [mapOf EXCEPT ![e][k] = nMaps + 1]
        /\ content' = Extend(content, nMaps + 1,
                              [x \in Keys |-> IF x = key THEN v ELSE Nil])
    BY <1>1 DEF StoreIn
  <2>2. nMaps \in Nat /\ content \in [1..nMaps -> [Keys -> Nat]]
    BY DEF TypeOK, MapIds
  <2>3. /\ content' \in [1..(nMaps + 1) -> [Keys -> Nat]]
        /\ content'[nMaps + 1] = [x \in Keys |-> IF x = key THEN v ELSE Nil]
        /\ \A i \in 1..nMaps : content'[i] = content[i]
    <3> DEFINE new == [x \in Keys |-> IF x = key THEN v ELSE Nil]
    <3>1. new \in [Keys -> Nat]
      BY DEF Nil
    <3>2. /\ Extend(content, nMaps + 1, new) \in [1..(nMaps + 1) -> [Keys -> Nat]]
          /\ Extend(content, nMaps + 1, new)[nMaps + 1] = new
          /\ \A i \in 1..nMaps : Extend(content, nMaps + 1, new)[i] = content[i]
      BY <2>2, <3>1 DEF Extend
    <3>3. QED
      BY <2>1, <3>2
  <2>4. mapOf' \in [Engines -> [MapKinds -> MapIds' \cup {Nil}]]
    BY <2>1, <2>2 DEF TypeOK, MapIds, Engines
  <2>5. MapsOwned'
    <3>1. \A e2 \in Engines, k2 \in MapKinds :
            mapOf'[e2][k2] = IF e2 = e /\ k2 = k THEN nMaps + 1 ELSE mapOf[e2][k2]
      BY <2>1 DEF TypeOK
    <3>2. \A e2 \in Engines, k2 \in MapKinds : mapOf[e2][k2] \in 0..nMaps
      BY <2>2 DEF TypeOK, MapIds, Nil
    <3>3. QED
      BY <3>1, <3>2, <2>2 DEF MapsOwned, Engines, Nil
  <2>6. Lookup(e, k, key)' = v
    <3>1. mapOf'[e][k] = nMaps + 1
      BY <2>1 DEF TypeOK
    <3>2. QED
      BY <3>1, <2>2, <2>3 DEF Lookup, Nil
  <2>7. ASSUME NEW e2 \in Engines, NEW k2 \in MapKinds, NEW key2 \in Keys,
               <<e2, k2, key2>> # <<e, k, key>>
        PROVE  Lookup(e2, k2, key2)' = Lookup(e2, k2, key2)
    <3>1. CASE e2 = e /\ k2 = k
      BY <3>1, <2>1, <2>2, <2>3, <2>7, <1>1 DEF Lookup, TypeOK, MapIds, Nil
    <3>2. CASE ~(e2 = e /\ k2 = k)
      <4>1. mapOf'[e2][k2] = mapOf[e2][k2]
        BY <3>2, <2>1 DEF TypeOK, Engines
      <4>2. mapOf[e2][k2] \in 1..nMaps \cup {Nil}
        BY DEF TypeOK, MapIds
      <4>3. QED
        BY <4>1, <4>2, <2>3 DEF Lookup, Nil
    <3>3. QED
      BY <3>1, <3>2
  <2>8. QED
    BY <2>1, <2>2, <2>3, <2>4, <2>5, <2>6, <2>7 DEF MapIds
<1>2. CASE mapOf[e][k] # Nil
  <2>1. /\ content' = [content EXCEPT ![mapOf[e][k]][key] = v]
        /\ mapOf' = mapOf /\ nMaps' = nMaps
    BY <1>2 DEF StoreIn
  <2>2. mapOf[e][k] \in MapIds
    BY <1>2 DEF TypeOK
  <2>3. content' \in [MapIds' -> [Keys -> Nat]]
    BY <2>1, <2>2 DEF TypeOK, MapIds
  <2>4. Lookup(e, k, key)' = v
    BY <2>1, <2>2, <1>2 DEF Lookup, TypeOK, MapIds
  <2>5. ASSUME NEW e2 \in Engines, NEW k2 \in MapKinds, NEW key2 \in Keys,
               <<e2, k2, key2>> # <<e, k, key>>
        PROVE  Lookup(e2, k2, key2)' = Lookup(e2, k2, key2)
    <3>1. CASE mapOf[e2][k2] = Nil
      BY <3>1, <2>1 DEF Lookup
    <3>2. CASE mapOf[e2][k2] = mapOf[e][k]
      <4>1. e2 = e /\ k2 = k
        BY <3>2, <1>2 DEF MapsOwned
      <4>2. key2 # key
        BY <4>1, <2>5
      <4>3. QED
        BY <4>2, <3>2, <2>1, <2>2, <1>2 DEF Lookup, TypeOK, MapIds
    <3>3. CASE mapOf[e2][k2] # Nil /\ mapOf[e2][k2] # mapOf[e][k]
      <4>1. mapOf[e2][k2] \in MapIds
        BY <3>3 DEF TypeOK
      <4>2. QED
        BY <4>1, <3>3, <2>1, <2>2 DEF Lookup, TypeOK, MapIds
    <3>4. QED
      BY <3>1, <3>2, <3>3
  <2>6. QED
    BY <2>1, <2>3, <2>4, <2>5 DEF TypeOK, MapsOwned, MapIds, Engines
<1>3. QED
  BY <1>1, <1>2

-----------------------------------------------------------------------------
(* Each action keeps IInv.                                                 *)

LEMMA GetReadIInv ==
  ASSUME IInv, NEW g \in Goroutines, NEW k \in Kinds, NEW c \in Codes,
         GetRead(g, k, c)
  PROVE  IInv'
<1> USE DEF IInv
<1>0. /\ eng[g] \in Engines /\ calls \in 0..(MaxCalls - 1) /\ c \in Keys
      /\ Lookup(eng[g], k, c) \in Nat
  <2>1. eng[g] \in Engines /\ calls \in 0..(MaxCalls - 1)
    BY DEF GetRead, Ready, TypeOK, Nil, Engines
  <2>2. c \in Keys /\ k \in MapKinds
    BY DEF Keys, MapKinds
  <2>3. mapOf[eng[g]][k] \in MapIds \cup {Nil}
    BY <2>1, <2>2 DEF TypeOK
  <2>4. Lookup(eng[g], k, c) \in Nat
    BY <2>2, <2>3 DEF TypeOK, Lookup, Nil
  <2>5. QED
    BY <2>1, <2>2, <2>4
<1>1. CASE /\ Lookup(eng[g], k, c) # Nil
           /\ Return(g, k, c, Lookup(eng[g], k, c))
           /\ UNCHANGED <<pc, call, nClients>>
  <2>1. UNCHANGED <<eng, nEngines, mapOf, nMaps, content, ser>> /\ calls' = calls + 1
    BY DEF GetRead
  <2>2. TypeOK'
    BY <1>0, <1>1, <2>1 DEF Return, TypeOK, Engines, MapIds, Kinds
  <2>3. (WriteOK /\ TagOK /\ EnginesOwned /\ MapsOwned)'
    BY <1>1, <2>1 DEF WriteOK, TagOK, EnginesOwned, MapsOwned, Engines, Lookup,
                      MapIds
  <2>4. ReturnedCurrent'
    BY <1>0, <1>1, <2>1 DEF Return, ReturnedCurrent, Val, Lookup, Kinds
  <2>5. QED
    BY <2>2, <2>3, <2>4
<1>2. CASE /\ Lookup(eng[g], k, c) = Nil
           /\ c \in RegistryOf(k)
           /\ nClients' = nClients + 1
           /\ pc' = [pc EXCEPT ![g] = "write"]
           /\ call' = [call EXCEPT ![g] = [kind |-> k, code |-> c,
                                            val |-> nClients + 1]]
           /\ UNCHANGED returned
  <2>1. UNCHANGED <<eng, nEngines, mapOf, nMaps, content, ser>> /\ calls' = calls + 1
    BY DEF GetRead
  <2>2. pc[g] = "idle"
    BY DEF GetRead, Ready
  <2>3. TypeOK'
    BY <1>0, <1>2, <2>1 DEF TypeOK, Engines, MapIds, Kinds, MapKinds
  <2>4. WriteOK'
    BY <1>0, <1>2, <2>1 DEF WriteOK, TypeOK, Engines, Lookup, MapIds
  <2>5. TagOK'
    <3> SUFFICES ASSUME NEW g2 \in Goroutines, pc'[g2] = "tag"
                 PROVE  call'[g2].val \in Consumers /\ eng'[call'[g2].val] \in Engines'
      BY DEF TagOK
    <3>1. g2 # g /\ pc[g2] = "tag" /\ call'[g2] = call[g2]
      BY <1>2, <2>2 DEF TypeOK
    <3>2. QED
      BY <3>1, <2>1 DEF TagOK, Engines
  <2>6. (EnginesOwned /\ MapsOwned /\ ReturnedCurrent)'
    BY <1>2, <2>1 DEF EnginesOwned, MapsOwned, ReturnedCurrent, Val, Lookup,
                      Engines
  <2>7. QED
    BY <2>3, <2>4, <2>5, <2>6
<1>3. QED
  BY <1>1, <1>2 DEF GetRead

LEMMA GetRequestCacheIInv ==
  ASSUME IInv, NEW g \in Goroutines, GetRequestCache(g)
  PROVE  IInv'
<1> USE DEF IInv
<1>1. /\ eng[g] \in Engines /\ calls \in 0..(MaxCalls - 1) /\ pc[g] = "idle"
      /\ UNCHANGED <<eng, nEngines, mapOf, nMaps, content, ser, returned>>
      /\ calls' = calls + 1 /\ nClients' = nClients + 1
      /\ pc' = [pc EXCEPT ![g] = "write"]
      /\ call' = [call EXCEPT ![g] = [kind |-> "local", code |-> RequestCacheKey,
                                       val |-> nClients + 1]]
      /\ Lookup(eng[g], "local", RequestCacheKey) = Nil
  BY DEF GetRequestCache, Ready, TypeOK, Nil, Engines
<1>2. TypeOK'
  <2>1. [kind |-> "local", code |-> RequestCacheKey, val |-> nClients + 1]
          \in [kind : MapKinds, code : Keys \cup {NoCode}, val : Nat \cup Consumers]
    BY DEF TypeOK, MapKinds, Kinds, Keys
  <2>2. QED
    BY <1>1, <2>1 DEF TypeOK, Engines, MapIds
<1>3. WriteOK'
  BY <1>1 DEF WriteOK, TypeOK, Engines, Lookup, MapIds, Kinds, Keys
<1>4. TagOK'
  <2> SUFFICES ASSUME NEW g2 \in Goroutines, pc'[g2] = "tag"
               PROVE  call'[g2].val \in Consumers /\ eng'[call'[g2].val] \in Engines'
    BY DEF TagOK
  <2>1. g2 # g /\ pc[g2] = "tag" /\ call'[g2] = call[g2]
    BY <1>1 DEF TypeOK
  <2>2. QED
    BY <2>1, <1>1 DEF TagOK, Engines
<1>5. (EnginesOwned /\ MapsOwned /\ ReturnedCurrent)'
  BY <1>1 DEF EnginesOwned, MapsOwned, ReturnedCurrent, Val, Lookup, Engines
<1>6. QED
  BY <1>2, <1>3, <1>4, <1>5

LEMMA GetUnregisteredIInv ==
  ASSUME IInv, NEW g \in Goroutines, NEW k \in Kinds, NEW c \in Codes,
         GetUnregistered(g, k, c)
  PROVE  IInv'
<1> USE DEF IInv
<1>1. /\ pc[g] = "idle" /\ pc' = [pc EXCEPT ![g] = "panicked"]
      /\ UNCHANGED <<eng, nEngines, mapOf, nMaps, content, ser, nClients, call,
                     calls, returned>>
  BY DEF GetUnregistered, Ready
<1>2. QED
  BY <1>1 DEF TypeOK, WriteOK, TagOK, EnginesOwned, MapsOwned, ReturnedCurrent,
              Val, Lookup, Engines, MapIds

LEMMA GetWriteIInv ==
  ASSUME IInv, NEW g \in Goroutines, GetWrite(g)
  PROVE  IInv'
<1> USE DEF IInv
<1>0. pc[g] = "write"
  BY DEF GetWrite
<1>a. PICK e \in Engines : e = eng[g]
  BY <1>0 DEF WriteOK
<1>b. PICK k \in Kinds : k = call[g].kind
  BY <1>0 DEF WriteOK
<1>c. PICK key \in Keys : key = call[g].code
  BY <1>0 DEF WriteOK
<1>d. PICK v \in Nat \ {0} : v = call[g].val
  BY <1>0 DEF WriteOK
<1>1. /\ pc[g] = "write"
      /\ e \in Engines /\ k \in Kinds /\ key \in Keys /\ v \in Nat \ {0}
      /\ Lookup(e, k, key) = Nil
  BY <1>0, <1>a, <1>b, <1>c, <1>d DEF WriteOK
<1>2. /\ StoreIn(e, k, key, v)
      /\ returned' = returned \cup {<<e, k, key, v>>}
      /\ pc' = [pc EXCEPT ![g] = "idle"]
      /\ call' = [call EXCEPT ![g] = NoCall]
      /\ UNCHANGED <<eng, nEngines, ser, nClients, calls>>
  BY <1>a, <1>b, <1>c, <1>d DEF GetWrite, Return
<1>3. /\ nMaps' \in Nat
      /\ mapOf' \in [Engines -> [MapKinds -> MapIds' \cup {Nil}]]
      /\ content' \in [MapIds' -> [Keys -> Nat]]
      /\ MapsOwned'
      /\ Lookup(e, k, key)' = v
      /\ \A e2 \in Engines, k2 \in MapKinds, key2 \in Keys :
           <<e2, k2, key2>> # <<e, k, key>> =>
             Lookup(e2, k2, key2)' = Lookup(e2, k2, key2)
  <2>1. k \in MapKinds
    BY <1>1 DEF MapKinds
  <2>2. QED
    BY <1>1, <1>2, <2>1, StoreInFacts
<1>4. TypeOK'
  <2>1. NoCall \in [kind : MapKinds, code : Keys \cup {NoCode}, val : Nat \cup Consumers]
    BY DEF NoCall, MapKinds, Kinds, Nil
  <2>2. <<e, k, key, v>> \in Engines \X (Kinds \cup {"serializer"}) \X (Keys \cup {NoCode}) \X Nat
    BY <1>1
  <2>3. QED
    BY <1>2, <1>3, <2>1, <2>2 DEF TypeOK, Engines
<1>5. WriteOK'
  <2> SUFFICES ASSUME NEW g2 \in Goroutines, pc'[g2] = "write"
               PROVE  /\ eng'[g2] \in Engines'
                      /\ call'[g2].kind \in Kinds /\ call'[g2].code \in Keys
                      /\ call'[g2].val \in Nat \ {0}
                      /\ Lookup(eng[g2], call[g2].kind, call[g2].code)' = Nil
    BY <1>2 DEF WriteOK
  <2>1. g2 # g /\ pc[g2] = "write" /\ call'[g2] = call[g2]
    BY <1>2 DEF TypeOK
  <2>2. eng[g2] # e
    BY <2>1, <1>1, <1>a DEF EnginesOwned, Engines, Nil, WriteOK
  <2>3. /\ eng[g2] \in Engines /\ call[g2].kind \in Kinds /\ call[g2].code \in Keys
        /\ call[g2].val \in Nat \ {0}
        /\ Lookup(eng[g2], call[g2].kind, call[g2].code) = Nil
    BY <2>1 DEF WriteOK
  <2>4. call[g2].kind \in MapKinds
    BY <2>3 DEF MapKinds
  <2>5. QED
    BY <2>1, <2>2, <2>3, <2>4, <1>2, <1>3 DEF Engines
<1>6. TagOK'
  <2> SUFFICES ASSUME NEW g2 \in Goroutines, pc'[g2] = "tag"
               PROVE  call'[g2].val \in Consumers /\ eng'[call'[g2].val] \in Engines'
    BY DEF TagOK
  <2>1. g2 # g /\ pc[g2] = "tag" /\ call'[g2] = call[g2]
    BY <1>1, <1>2 DEF TypeOK
  <2>2. QED
    BY <2>1, <1>2 DEF TagOK, Engines
<1>7. EnginesOwned'
  BY <1>2 DEF EnginesOwned
<1>8. ReturnedCurrent'
  <2> SUFFICES ASSUME NEW r \in returned'
               PROVE  /\ r[2] # "serializer" => r[3] \in Keys
                      /\ r[4] # Nil /\ Val(r[1], r[2], r[3])' = r[4]
    BY DEF ReturnedCurrent
  <2>1. CASE r = <<e, k, key, v>>
    BY <2>1, <1>1, <1>3 DEF Val, Nil, Kinds
  <2>2. CASE r \in returned
    <3>1. /\ r[2] # "serializer" => r[3] \in Keys
          /\ r[4] # Nil /\ Val(r[1], r[2], r[3]) = r[4]
      BY <2>2 DEF ReturnedCurrent
    <3>2. r[1] \in Engines /\ r[2] \in Kinds \cup {"serializer"}
      BY <2>2 DEF TypeOK
    <3>3. CASE r[2] = "serializer"
      BY <3>1, <3>3, <1>2 DEF Val
    <3>4. CASE r[2] # "serializer"
      <4>1. <<r[1], r[2], r[3]>> # <<e, k, key>>
        BY <3>1, <3>4, <1>1 DEF Val
      <4>2. r[2] \in MapKinds /\ r[3] \in Keys
        BY <3>1, <3>2, <3>4 DEF MapKinds
      <4>3. Lookup(r[1], r[2], r[3])' = Lookup(r[1], r[2], r[3])
        BY <4>1, <4>2, <3>2, <1>3
      <4>4. QED
        BY <4>3, <3>1, <3>4 DEF Val
    <3>5. QED
      BY <3>3, <3>4
  <2>3. QED
    BY <2>1, <2>2, <1>2
<1>9. QED
  BY <1>3, <1>4, <1>5, <1>6, <1>7, <1>8

LEMMA SetLogMetaDataIInv ==
  ASSUME IInv, NEW g \in Goroutines, NEW key \in UserKeys, SetLogMetaData(g, key)
  PROVE  IInv'
<1> USE DEF IInv
<1>a. PICK e \in Engines : e = eng[g]
  BY DEF SetLogMetaData, Ready, TypeOK, Nil, Engines
<1>1. /\ pc[g] = "idle" /\ calls \in 0..(MaxCalls - 1) /\ calls' = calls + 1
      /\ StoreIn(e, "meta", key, MetaValue)
      /\ UNCHANGED <<eng, nEngines, ser, nClients, pc, call, returned>>
  BY <1>a DEF SetLogMetaData, Ready, TypeOK
<1>2. /\ nMaps' \in Nat
      /\ mapOf' \in [Engines -> [MapKinds -> MapIds' \cup {Nil}]]
      /\ content' \in [MapIds' -> [Keys -> Nat]]
      /\ MapsOwned'
      /\ \A e2 \in Engines, k2 \in MapKinds, key2 \in Keys :
           <<e2, k2, key2>> # <<e, "meta", key>> =>
             Lookup(e2, k2, key2)' = Lookup(e2, k2, key2)
  <2>1. "meta" \in MapKinds /\ key \in Keys /\ MetaValue \in Nat
    BY DEF MapKinds, Keys, MetaValue
  <2>2. QED
    BY <1>1, <2>1, StoreInFacts
\* a getter's kind is never the metadata's, so Get* reads are untouched
<1>3. \A e2 \in Engines, k2 \in Kinds, key2 \in Keys :
        Lookup(e2, k2, key2)' = Lookup(e2, k2, key2)
  BY <1>2 DEF Kinds, MapKinds
<1>4. TypeOK'
  BY <1>1, <1>2 DEF TypeOK, Engines
<1>5. WriteOK'
  BY <1>1, <1>3 DEF WriteOK, Engines
<1>6. (TagOK /\ EnginesOwned)'
  BY <1>1 DEF TagOK, EnginesOwned, Engines
<1>7. ReturnedCurrent'
  <2> SUFFICES ASSUME NEW r \in returned
               PROVE  /\ r[2] # "serializer" => r[3] \in Keys
                      /\ r[4] # Nil /\ Val(r[1], r[2], r[3])' = r[4]
    BY <1>1 DEF ReturnedCurrent
  <2>1. /\ r[2] # "serializer" => r[3] \in Keys
        /\ r[4] # Nil /\ Val(r[1], r[2], r[3]) = r[4]
        /\ r[1] \in Engines /\ r[2] \in Kinds \cup {"serializer"}
    BY DEF ReturnedCurrent, TypeOK
  <2>2. QED
    BY <2>1, <1>1, <1>3 DEF Val
<1>8. QED
  BY <1>2, <1>4, <1>5, <1>6, <1>7

LEMMA GetSerializerIInv ==
  ASSUME IInv, NEW g \in Goroutines, GetSerializer(g)
  PROVE  IInv'
<1> USE DEF IInv
<1>a. PICK e \in Engines : e = eng[g]
  BY DEF GetSerializer, Ready, TypeOK, Nil, Engines
<1>1. /\ pc[g] = "idle" /\ calls \in 0..(MaxCalls - 1) /\ calls' = calls + 1
      /\ UNCHANGED <<eng, nEngines, mapOf, nMaps, content, pc, call>>
  BY DEF GetSerializer, Ready, TypeOK
<1>2. (WriteOK /\ TagOK /\ EnginesOwned /\ MapsOwned)'
  BY <1>1 DEF WriteOK, TagOK, EnginesOwned, MapsOwned, Lookup, Engines, MapIds
\* the serializer is replaced only while nil, when no getter has returned it
<1>3. CASE ser[e] = Nil
  <2>1. /\ nClients' = nClients + 1
        /\ ser' = [ser EXCEPT ![e] = nClients + 1]
        /\ returned' = returned \cup {<<e, "serializer", NoCode, nClients + 1>>}
    BY <1>3, <1>a DEF GetSerializer, Return
  <2>2. TypeOK'
    BY <1>1, <2>1 DEF TypeOK, Engines, MapIds
  <2>3. ASSUME NEW r \in returned'
        PROVE  /\ r[2] # "serializer" => r[3] \in Keys
               /\ r[4] # Nil /\ Val(r[1], r[2], r[3])' = r[4]
    <3>1. CASE r = <<e, "serializer", NoCode, nClients + 1>>
      BY <3>1, <2>1 DEF Val, Nil, TypeOK
    <3>2. CASE r \in returned
      <4>1. /\ r[2] # "serializer" => r[3] \in Keys
            /\ r[4] # Nil /\ Val(r[1], r[2], r[3]) = r[4]
            /\ r[1] \in Engines
        BY <3>2 DEF ReturnedCurrent, TypeOK
      <4>2. r[2] = "serializer" => r[1] # e
        BY <4>1, <1>3 DEF Val
      <4>3. QED
        BY <4>1, <4>2, <2>1, <1>1 DEF Val, Lookup, TypeOK
    <3>3. QED
      BY <3>1, <3>2, <2>1
  <2>4. QED
    BY <1>2, <2>2, <2>3 DEF ReturnedCurrent
<1>4. CASE ser[e] # Nil
  <2>1. /\ UNCHANGED <<nClients, ser>>
        /\ returned' = returned \cup {<<e, "serializer", NoCode, ser[e]>>}
    BY <1>4, <1>a DEF GetSerializer, Return
  <2>2. TypeOK'
    BY <1>1, <2>1 DEF TypeOK, Engines, MapIds
  <2>3. ReturnedCurrent'
    BY <1>1, <1>4, <2>1 DEF ReturnedCurrent, Val, Lookup
  <2>4. QED
    BY <1>2, <2>2, <2>3
<1>5. QED
  BY <1>3, <1>4

LEMMA NewLazyFlushConsumerIInv ==
  ASSUME IInv, NEW g \in Goroutines, NEW c \in Consumers,
         NewLazyFlushConsumer(g, c)
  PROVE  IInv'
<1> USE DEF IInv
<1> DEFINE n == nEngines
<1>1. /\ n \in Nat /\ pc[g] = "idle" /\ eng[g] \in Engines /\ eng[c] = Nil
      /\ c \in Goroutines /\ c # g
      /\ nEngines' = n + 1
      /\ mapOf' = Extend(mapOf, n + 1, NilFields)
      /\ ser' = Extend(ser, n + 1, Nil)
      /\ eng' = [eng EXCEPT ![c] = n + 1]
      /\ pc' = [pc EXCEPT ![g] = "tag", ![c] = "starting"]
      /\ call' = [call EXCEPT ![g] = [kind |-> "meta", code |-> "lazy", val |-> c]]
      /\ UNCHANGED <<nMaps, content, nClients, calls, returned>>
  BY DEF NewLazyFlushConsumer, Clone, TypeOK, Nil, Engines, Goroutines
\* the old engines keep their fields; the new one has every field nil
<1>2. /\ mapOf' \in [1..(n + 1) -> [MapKinds -> MapIds \cup {Nil}]]
      /\ mapOf'[n + 1] = NilFields
      /\ \A e \in Engines : mapOf'[e] = mapOf[e]
      /\ ser' \in [1..(n + 1) -> Nat]
      /\ \A e \in Engines : ser'[e] = ser[e]
  <2>1. NilFields \in [MapKinds -> MapIds \cup {Nil}] /\ Nil \in Nat
    BY DEF NilFields, Nil
  <2>2. QED
    BY <1>1, <2>1 DEF Extend, TypeOK, Engines
<1>3. \A e \in Engines, k \in MapKinds, key \in Keys :
        Lookup(e, k, key)' = Lookup(e, k, key)
  BY <1>1, <1>2 DEF Lookup
<1>4. TypeOK'
  <2>1. [kind |-> "meta", code |-> "lazy", val |-> c]
          \in [kind : MapKinds, code : Keys \cup {NoCode}, val : Nat \cup Consumers]
    BY DEF MapKinds, Keys
  <2>2. eng' \in [Goroutines -> Engines' \cup {Nil}]
    BY <1>1 DEF TypeOK, Engines
  <2>3. returned \subseteq Engines' \X (Kinds \cup {"serializer"}) \X (Keys \cup {NoCode})
                           \X Nat
    BY <1>1 DEF TypeOK, Engines
  <2>4. Engines' = 1..(n + 1) /\ MapIds' = MapIds
    BY <1>1 DEF Engines, MapIds
  <2>5. pc' \in [Goroutines -> {"idle", "write", "tag", "starting", "panicked"}]
    BY <1>1 DEF TypeOK
  <2>6. call' \in [Goroutines -> [kind : MapKinds, code : Keys \cup {NoCode},
                                 val : Nat \cup Consumers]]
    BY <1>1, <2>1 DEF TypeOK
  <2>7. /\ mapOf' \in [Engines' -> [MapKinds -> MapIds' \cup {Nil}]]
        /\ ser' \in [Engines' -> Nat]
    BY <1>2, <2>4
  <2>8. /\ nEngines' \in Nat /\ nClients' \in Nat /\ nMaps' \in Nat
        /\ content' \in [MapIds' -> [Keys -> Nat]] /\ calls' \in 0..MaxCalls
    BY <1>1, <2>4 DEF TypeOK
  <2>9. QED
    BY <1>1, <2>2, <2>3, <2>5, <2>6, <2>7, <2>8 DEF TypeOK
<1>5. WriteOK'
  <2> SUFFICES ASSUME NEW g2 \in Goroutines, pc'[g2] = "write"
               PROVE  /\ eng'[g2] \in Engines'
                      /\ call'[g2].kind \in Kinds /\ call'[g2].code \in Keys
                      /\ call'[g2].val \in Nat \ {0}
                      /\ Lookup(eng[g2], call[g2].kind, call[g2].code)' = Nil
    BY DEF WriteOK
  <2>1. g2 # g /\ g2 # c /\ pc[g2] = "write"
    BY <1>1 DEF TypeOK
  <2>2. eng'[g2] = eng[g2] /\ call'[g2] = call[g2]
    BY <2>1, <1>1 DEF TypeOK
  <2>3. /\ eng[g2] \in Engines /\ call[g2].kind \in Kinds /\ call[g2].code \in Keys
        /\ call[g2].val \in Nat \ {0}
        /\ Lookup(eng[g2], call[g2].kind, call[g2].code) = Nil
    BY <2>1 DEF WriteOK
  <2>4. QED
    BY <2>2, <2>3, <1>1, <1>3 DEF Engines, MapKinds
<1>6. TagOK'
  <2> SUFFICES ASSUME NEW g2 \in Goroutines, pc'[g2] = "tag"
               PROVE  call'[g2].val \in Consumers /\ eng'[call'[g2].val] \in Engines'
    BY DEF TagOK
  <2>1. CASE g2 = g
    BY <2>1, <1>1 DEF TypeOK, Engines
  <2>2. CASE g2 # g
    <3>1. g2 # c /\ pc[g2] = "tag" /\ call'[g2] = call[g2]
      BY <2>2, <1>1 DEF TypeOK
    <3>2. call[g2].val \in Consumers /\ eng[call[g2].val] \in Engines
      BY <3>1 DEF TagOK
    <3>3. call[g2].val # c
      BY <3>2, <1>1 DEF Engines, Nil
    <3>4. QED
      BY <3>1, <3>2, <3>3, <1>1 DEF TypeOK, Engines
  <2>3. QED
    BY <2>1, <2>2
\* the clone's engine is new: no goroutine held it
<1>7. EnginesOwned'
  BY <1>1 DEF EnginesOwned, TypeOK, Engines, Nil
<1>8. MapsOwned'
  <2> SUFFICES ASSUME NEW e1 \in Engines', NEW e2 \in Engines',
                      NEW k1 \in MapKinds, NEW k2 \in MapKinds,
                      mapOf'[e1][k1] # Nil, mapOf'[e1][k1] = mapOf'[e2][k2]
               PROVE  e1 = e2 /\ k1 = k2
    BY DEF MapsOwned
  <2>1. e1 \in Engines /\ e2 \in Engines
    BY <1>1, <1>2 DEF Engines, NilFields
  <2>2. QED
    BY <2>1, <1>2 DEF MapsOwned
<1>9. ReturnedCurrent'
  <2> SUFFICES ASSUME NEW r \in returned
               PROVE  /\ r[2] # "serializer" => r[3] \in Keys
                      /\ r[4] # Nil /\ Val(r[1], r[2], r[3])' = r[4]
    BY <1>1 DEF ReturnedCurrent
  <2>1. /\ r[2] # "serializer" => r[3] \in Keys
        /\ r[4] # Nil /\ Val(r[1], r[2], r[3]) = r[4]
        /\ r[1] \in Engines /\ r[2] \in Kinds \cup {"serializer"}
    BY DEF ReturnedCurrent, TypeOK
  <2>2. r[2] # "serializer" => Lookup(r[1], r[2], r[3])' = Lookup(r[1], r[2], r[3])
    BY <2>1, <1>3 DEF MapKinds
  <2>3. QED
    BY <2>1, <2>2, <1>2 DEF Val
<1>10. QED
  BY <1>4, <1>5, <1>6, <1>7, <1>8, <1>9

LEMMA SetLazyTagIInv ==
  ASSUME IInv, NEW g \in Goroutines, SetLazyTag(g)
  PROVE  IInv'
<1> USE DEF IInv
<1>0. pc[g] = "tag"
  BY DEF SetLazyTag
<1>a. PICK c \in Consumers : c = call[g].val
  BY <1>0 DEF TagOK
<1>b. PICK e \in Engines : e = eng[c]
  BY <1>0, <1>a DEF TagOK
<1>1. /\ c \in Goroutines
      /\ StoreIn(e, "meta", "lazy", MetaValue)
      /\ pc' = [pc EXCEPT ![g] = "idle", ![c] = "idle"]
      /\ call' = [call EXCEPT ![g] = NoCall]
      /\ UNCHANGED <<eng, nEngines, ser, nClients, calls, returned>>
  BY <1>a, <1>b DEF SetLazyTag, Goroutines
<1>2. /\ nMaps' \in Nat
      /\ mapOf' \in [Engines -> [MapKinds -> MapIds' \cup {Nil}]]
      /\ content' \in [MapIds' -> [Keys -> Nat]]
      /\ MapsOwned'
      /\ \A e2 \in Engines, k2 \in MapKinds, key2 \in Keys :
           <<e2, k2, key2>> # <<e, "meta", "lazy">> =>
             Lookup(e2, k2, key2)' = Lookup(e2, k2, key2)
  <2>1. "meta" \in MapKinds /\ "lazy" \in Keys /\ MetaValue \in Nat
    BY DEF MapKinds, Keys, MetaValue
  <2>2. QED
    BY <1>1, <2>1, StoreInFacts
<1>3. \A e2 \in Engines, k2 \in Kinds, key2 \in Keys :
        Lookup(e2, k2, key2)' = Lookup(e2, k2, key2)
  BY <1>2 DEF Kinds, MapKinds
<1>4. TypeOK'
  <2>1. NoCall \in [kind : MapKinds, code : Keys \cup {NoCode}, val : Nat \cup Consumers]
    BY DEF NoCall, MapKinds, Kinds, Nil
  <2>2. QED
    BY <1>1, <1>2, <2>1 DEF TypeOK, Engines
<1>5. WriteOK'
  <2> SUFFICES ASSUME NEW g2 \in Goroutines, pc'[g2] = "write"
               PROVE  /\ eng'[g2] \in Engines'
                      /\ call'[g2].kind \in Kinds /\ call'[g2].code \in Keys
                      /\ call'[g2].val \in Nat \ {0}
                      /\ Lookup(eng[g2], call[g2].kind, call[g2].code)' = Nil
    BY DEF WriteOK
  <2>1. g2 # g /\ g2 # c /\ pc[g2] = "write" /\ call'[g2] = call[g2]
    BY <1>1 DEF TypeOK
  <2>2. /\ eng[g2] \in Engines /\ call[g2].kind \in Kinds /\ call[g2].code \in Keys
        /\ call[g2].val \in Nat \ {0}
        /\ Lookup(eng[g2], call[g2].kind, call[g2].code) = Nil
    BY <2>1 DEF WriteOK
  <2>3. QED
    BY <2>1, <2>2, <1>1, <1>3 DEF Engines
<1>6. TagOK'
  <2> SUFFICES ASSUME NEW g2 \in Goroutines, pc'[g2] = "tag"
               PROVE  call'[g2].val \in Consumers /\ eng'[call'[g2].val] \in Engines'
    BY DEF TagOK
  <2>1. g2 # g /\ pc[g2] = "tag" /\ call'[g2] = call[g2]
    BY <1>1 DEF TypeOK
  <2>2. QED
    BY <2>1, <1>1 DEF TagOK, Engines
<1>7. EnginesOwned'
  BY <1>1 DEF EnginesOwned
<1>8. ReturnedCurrent'
  <2> SUFFICES ASSUME NEW r \in returned
               PROVE  /\ r[2] # "serializer" => r[3] \in Keys
                      /\ r[4] # Nil /\ Val(r[1], r[2], r[3])' = r[4]
    BY <1>1 DEF ReturnedCurrent
  <2>1. /\ r[2] # "serializer" => r[3] \in Keys
        /\ r[4] # Nil /\ Val(r[1], r[2], r[3]) = r[4]
        /\ r[1] \in Engines /\ r[2] \in Kinds \cup {"serializer"}
    BY DEF ReturnedCurrent, TypeOK
  <2>2. QED
    BY <2>1, <1>1, <1>3 DEF Val
<1>9. QED
  BY <1>2, <1>4, <1>5, <1>6, <1>7, <1>8

LEMMA StutterIInv ==
  ASSUME IInv, UNCHANGED vars
  PROVE  IInv'
BY DEF IInv, vars, TypeOK, WriteOK, TagOK, EnginesOwned, MapsOwned,
       ReturnedCurrent, Val, Lookup, Engines, MapIds

-----------------------------------------------------------------------------
(* The invariant and the theorems.                                         *)

LEMMA InitIInv == Init => IInv
<1> SUFFICES ASSUME Init PROVE IInv
  OBVIOUS
<1>1. TypeOK
  BY InitTypeOK
<1>2. \A g \in Goroutines : pc[g] = "idle"
  BY DEF Init
<1>3. returned = {} /\ mapOf = [e \in {1} |-> NilFields] /\ nEngines = 1
  BY DEF Init
<1>4. EnginesOwned
  BY DEF Init, EnginesOwned, Nil, Goroutines
<1>5. QED
  BY <1>1, <1>2, <1>3, <1>4 DEF IInv, WriteOK, TagOK, MapsOwned, ReturnedCurrent,
                                 NilFields, Engines

LEMMA NextIInv == IInv /\ [Next]_vars => IInv'
<1> SUFFICES ASSUME IInv, [Next]_vars PROVE IInv'
  OBVIOUS
<1>1. ASSUME NEW g \in Goroutines,
             \/ \E k \in Kinds, c \in Codes : GetRead(g, k, c) \/ GetUnregistered(g, k, c)
             \/ GetRequestCache(g)
             \/ GetWrite(g)
             \/ \E key \in UserKeys : SetLogMetaData(g, key)
             \/ GetSerializer(g)
             \/ \E c \in Consumers : NewLazyFlushConsumer(g, c)
             \/ SetLazyTag(g)
      PROVE  IInv'
  BY <1>1, GetReadIInv, GetUnregisteredIInv, GetRequestCacheIInv, GetWriteIInv,
     SetLogMetaDataIInv, GetSerializerIInv, NewLazyFlushConsumerIInv, SetLazyTagIInv
<1>2. QED
  BY <1>1, StutterIInv DEF Next

\* Every engine returns one client per pool: whatever the goroutines, codes
\* and registry, two Get* calls on one engine for the same kind and code
\* (getSerializer included) return the same client.
THEOREM ClientsUnique == Spec => []AtMostOneClientPerPool
<1>1. IInv => AtMostOneClientPerPool
  BY DEF IInv, ReturnedCurrent, AtMostOneClientPerPool
<1>2. QED
  BY <1>1, InitIInv, NextIInv, PTL DEF Spec

\* The engine state keeps its type: every engine id, map id, client and
\* call the accessors handle is well formed.
THEOREM TypeCorrect == Spec => []TypeOK
<1>1. IInv => TypeOK
  BY DEF IInv
<1>2. QED
  BY <1>1, InitIInv, NextIInv, PTL DEF Spec

-----------------------------------------------------------------------------
(* The lazy tag.                                                           *)

\* no step but NewLazyFlushConsumer and SetLazyTag changes an engine or
\* what an existing engine's metadata holds for "lazy"
LEMMA LazyTagFrame ==
  ASSUME IInv, NEW g \in Goroutines,
         \/ \E k \in Kinds, c \in Codes : GetRead(g, k, c) \/ GetUnregistered(g, k, c)
         \/ GetRequestCache(g)
         \/ GetWrite(g)
         \/ \E key \in UserKeys : SetLogMetaData(g, key)
         \/ GetSerializer(g)
  PROVE  /\ eng' = eng /\ nEngines' = nEngines
         /\ \A e \in Engines : Lookup(e, "meta", "lazy")' = Lookup(e, "meta", "lazy")
<1> USE DEF IInv
<1>1. CASE \E k \in Kinds, c \in Codes : GetRead(g, k, c) \/ GetUnregistered(g, k, c)
  BY <1>1 DEF GetRead, GetUnregistered, Lookup
<1>2. CASE GetRequestCache(g) \/ GetSerializer(g)
  BY <1>2 DEF GetRequestCache, GetSerializer, Lookup
<1>3. CASE GetWrite(g)
  <2>1. pc[g] = "write"
    BY <1>3 DEF GetWrite
  <2>2. PICK e \in Engines : e = eng[g]
    BY <2>1 DEF WriteOK
  <2>3. PICK k \in Kinds : k = call[g].kind
    BY <2>1 DEF WriteOK
  <2>4. PICK key \in Keys : key = call[g].code
    BY <2>1 DEF WriteOK
  <2>5. PICK v \in Nat : v = call[g].val
    BY <2>1 DEF WriteOK
  <2>6. StoreIn(e, k, key, v) /\ eng' = eng /\ nEngines' = nEngines
    BY <1>3, <2>2, <2>3, <2>4, <2>5 DEF GetWrite
  <2>7. \A e2 \in Engines, k2 \in MapKinds, key2 \in Keys :
          <<e2, k2, key2>> # <<e, k, key>> =>
            Lookup(e2, k2, key2)' = Lookup(e2, k2, key2)
    <3>1. k \in MapKinds
      BY DEF MapKinds
    <3>2. QED
      BY <2>6, <3>1, StoreInFacts
  <2>8. QED
    BY <2>6, <2>7 DEF Kinds, MapKinds, Keys
<1>4. CASE \E key \in UserKeys : SetLogMetaData(g, key)
  <2>1. PICK key \in UserKeys : SetLogMetaData(g, key)
    BY <1>4
  <2>2. PICK e \in Engines : e = eng[g]
    BY <2>1 DEF SetLogMetaData, Ready, TypeOK, Nil, Engines
  <2>3. StoreIn(e, "meta", key, MetaValue) /\ eng' = eng /\ nEngines' = nEngines
    BY <2>1, <2>2 DEF SetLogMetaData
  <2>4. \A e2 \in Engines, k2 \in MapKinds, key2 \in Keys :
          <<e2, k2, key2>> # <<e, "meta", key>> =>
            Lookup(e2, k2, key2)' = Lookup(e2, k2, key2)
    <3>1. "meta" \in MapKinds /\ key \in Keys /\ MetaValue \in Nat
      BY DEF MapKinds, Keys, MetaValue
    <3>2. QED
      BY <2>3, <3>1, StoreInFacts
  \* "lazy" is not a key a caller may set
  <2>5. key # "lazy"
    BY EnginePoolsAssumption
  <2>6. QED
    BY <2>3, <2>4, <2>5 DEF MapKinds, Keys
<1>5. QED
  BY <1>1, <1>2, <1>3, <1>4

LEMMA LazyTagStep ==
  ASSUME IInv, LazyTagOnClonesOnly, [Next]_vars
  PROVE  LazyTagOnClonesOnly'
<1> SUFFICES ASSUME NEW g2 \in Goroutines, eng'[g2] # Nil,
                    Lookup(eng[g2], "meta", "lazy")' # Nil
             PROVE  g2 \in Consumers
  BY DEF LazyTagOnClonesOnly
<1> USE DEF IInv
<1>1. ASSUME NEW g \in Goroutines,
             \/ \E k \in Kinds, c \in Codes : GetRead(g, k, c) \/ GetUnregistered(g, k, c)
             \/ GetRequestCache(g)
             \/ GetWrite(g)
             \/ \E key \in UserKeys : SetLogMetaData(g, key)
             \/ GetSerializer(g)
      PROVE  g2 \in Consumers
  <2>1. /\ eng' = eng /\ nEngines' = nEngines
        /\ \A e \in Engines : Lookup(e, "meta", "lazy")' = Lookup(e, "meta", "lazy")
    BY <1>1, LazyTagFrame
  <2>2. eng[g2] \in Engines
    BY <2>1 DEF TypeOK
  <2>3. QED
    BY <2>1, <2>2 DEF LazyTagOnClonesOnly
\* the clone starts with nil metadata; the other engines keep theirs
<1>2. ASSUME NEW g \in Goroutines, NEW c \in Consumers, NewLazyFlushConsumer(g, c)
      PROVE  g2 \in Consumers
  <2>1. CASE g2 = c
    BY <2>1
  <2>2. CASE g2 # c
    <3>1. eng'[g2] = eng[g2] /\ eng[g2] \in Engines
      BY <2>2, <1>2 DEF NewLazyFlushConsumer, TypeOK
    <3>2. mapOf'[eng[g2]] = mapOf[eng[g2]] /\ UNCHANGED content
      BY <3>1, <1>2 DEF NewLazyFlushConsumer, Extend, TypeOK, Engines
    <3>3. QED
      BY <3>1, <3>2 DEF Lookup, LazyTagOnClonesOnly
  <2>3. QED
    BY <2>1, <2>2
\* the tag goes to the engine of the consumer being constructed
<1>3. ASSUME NEW g \in Goroutines, SetLazyTag(g)
      PROVE  g2 \in Consumers
  <2>1. pc[g] = "tag"
    BY <1>3 DEF SetLazyTag
  <2>2. PICK c \in Consumers : c = call[g].val
    BY <2>1 DEF TagOK
  <2>3. PICK e \in Engines : e = eng[c]
    BY <2>1, <2>2 DEF TagOK
  <2>4. StoreIn(e, "meta", "lazy", MetaValue) /\ eng' = eng /\ nEngines' = nEngines
    BY <1>3, <2>2, <2>3 DEF SetLazyTag
  <2>5. \A e2 \in Engines, k2 \in MapKinds, key2 \in Keys :
          <<e2, k2, key2>> # <<e, "meta", "lazy">> =>
            Lookup(e2, k2, key2)' = Lookup(e2, k2, key2)
    <3>1. "meta" \in MapKinds /\ "lazy" \in Keys /\ MetaValue \in Nat
      BY DEF MapKinds, Keys, MetaValue
    <3>2. QED
      BY <2>4, <3>1, StoreInFacts
  <2>6. eng[g2] \in Engines
    BY <2>4 DEF TypeOK
  <2>7. CASE eng[g2] = e
    BY <2>7, <2>6, <2>3 DEF EnginesOwned, Goroutines, Engines, Nil
  <2>8. CASE eng[g2] # e
    <3>1. "meta" \in MapKinds /\ "lazy" \in Keys
      BY DEF MapKinds, Keys
    <3>2. QED
      BY <2>8, <2>6, <2>5, <2>4, <3>1 DEF LazyTagOnClonesOnly
  <2>9. QED
    BY <2>7, <2>8
<1>4. CASE UNCHANGED vars
  BY <1>4 DEF vars, LazyTagOnClonesOnly, Lookup
<1>5. QED
  BY <1>1, <1>2, <1>3, <1>4 DEF Next

\* NewLazyFlushConsumer's lazy=1 tag lands on the consumer's clone only:
\* for every number of consumers and every key a caller may set, no
\* goroutine but a consumer sees lazy in its engine's metadata.
THEOREM LazyTagConfined == Spec => []LazyTagOnClonesOnly
<1>1. Init => LazyTagOnClonesOnly
  <2> SUFFICES ASSUME Init, NEW g \in Goroutines, eng[g] # Nil
               PROVE  Lookup(eng[g], "meta", "lazy") = Nil
    BY DEF LazyTagOnClonesOnly
  <2>1. eng[g] = 1
    BY DEF Init, Nil
  <2>2. mapOf[1]["meta"] = Nil
    BY DEF Init, NilFields, MapKinds
  <2>3. QED
    BY <2>1, <2>2 DEF Lookup
<1>2. IInv /\ LazyTagOnClonesOnly /\ [Next]_vars => LazyTagOnClonesOnly'
  BY LazyTagStep
<1>3. QED
  BY <1>1, <1>2, InitIInv, NextIInv, PTL DEF Spec

=============================================================================
