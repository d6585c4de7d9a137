------------------------- MODULE ForeignKeysProofs -------------------------
(***************************************************************************)
(* Proofs about the foreign keys plugin model ForeignKeys, for every set   *)
(* of columns, tags, starting tables and bounds.                           *)
(***************************************************************************)
EXTENDS ForeignKeys, TLAPS

-----------------------------------------------------------------------------
(* Lemmas about reading a constraint back from SHOW CREATE TABLE.          *)

\* the line ends "... DELETE CASCADE" exactly when ON DELETE is CASCADE and
\* there is no ON UPDATE clause; otherwise the word before the last is not
\* DELETE
LEMMA LastWords ==
  ASSUME NEW k \in Constraint
  PROVE  LET w == ConstraintLine(k)
         IN  /\ Len(w) \in Nat /\ Len(w) >= 5
             /\ w[Len(w) - 1] = "DELETE" <=> (k.onDelete = "CASCADE" /\ k.onUpdate = "RESTRICT")
             /\ k.onDelete = "CASCADE" /\ k.onUpdate = "RESTRICT" => w[Len(w)] = "CASCADE"
<1>1. CASE k.onDelete = "RESTRICT" /\ k.onUpdate = "RESTRICT"
  BY <1>1 DEF ConstraintLine, ActionWords, Constraint, Actions
<1>2. CASE k.onDelete = "RESTRICT" /\ k.onUpdate = "CASCADE"
  BY <1>2 DEF ConstraintLine, ActionWords, Constraint, Actions
<1>3. CASE k.onDelete = "RESTRICT" /\ k.onUpdate = "SET_NULL"
  BY <1>3 DEF ConstraintLine, ActionWords, Constraint, Actions
<1>4. CASE k.onDelete = "CASCADE" /\ k.onUpdate = "RESTRICT"
  BY <1>4 DEF ConstraintLine, ActionWords, Constraint, Actions
<1>5. CASE k.onDelete = "CASCADE" /\ k.onUpdate = "CASCADE"
  BY <1>5 DEF ConstraintLine, ActionWords, Constraint, Actions
<1>6. CASE k.onDelete = "CASCADE" /\ k.onUpdate = "SET_NULL"
  BY <1>6 DEF ConstraintLine, ActionWords, Constraint, Actions
<1>7. CASE k.onDelete = "SET_NULL" /\ k.onUpdate = "RESTRICT"
  BY <1>7 DEF ConstraintLine, ActionWords, Constraint, Actions
<1>8. CASE k.onDelete = "SET_NULL" /\ k.onUpdate = "CASCADE"
  BY <1>8 DEF ConstraintLine, ActionWords, Constraint, Actions
<1>9. CASE k.onDelete = "SET_NULL" /\ k.onUpdate = "SET_NULL"
  BY <1>9 DEF ConstraintLine, ActionWords, Constraint, Actions
<1>10. QED
  BY <1>1, <1>2, <1>3, <1>4, <1>5, <1>6, <1>7, <1>8, <1>9 DEF Constraint, Actions

\* getForeignKeys reads some ON DELETE action back from any constraint
LEMMA ParsedOnDeleteType ==
  ASSUME NEW k \in Constraint
  PROVE  ParsedOnDelete(k) \in {"RESTRICT", "CASCADE"}
BY LastWords DEF ParsedOnDelete

\* a key with no ON UPDATE clause and no SET NULL is read back right
LEMMA ParsedFaithful ==
  ASSUME NEW k \in Constraint, Faithful(k)
  PROVE  ParsedOnDelete(k) = k.onDelete
BY LastWords DEF Faithful, ParsedOnDelete

\* a constraint as getForeignKeys reports it
KeyView(k) == [column |-> k.column, table |-> k.table, parentDb |-> k.parentDb,
               onDelete |-> ParsedOnDelete(k)]

\* the names the plugin gives its keys
FKNames == {FKName(c) : c \in Columns}

\* getForeignKeys reads each constraint on its own
LEMMA ViewIsKeyView ==
  ASSUME NEW d
  PROVE  GetForeignKeys(d) = [n \in DOMAIN d |-> KeyView(d[n])]
BY DEF GetForeignKeys, KeyView

\* a constraint reads back as a well-formed key
LEMMA KeyViewType ==
  ASSUME NEW k \in Constraint
  PROVE  KeyView(k) \in ForeignIndex
<1>1. ParsedOnDelete(k) \in Actions
  BY ParsedOnDeleteType DEF Actions
<1>2. QED
  BY <1>1 DEF KeyView, ForeignIndex, Constraint

\* ADD CONSTRAINT creates a well-formed constraint, read back right
LEMMA CreatedType ==
  ASSUME NEW w \in ForeignIndex
  PROVE  /\ Created(w) \in Constraint
         /\ w.onDelete \in {"RESTRICT", "CASCADE"} => Faithful(Created(w))
BY DEF Created, ForeignIndex, Constraint, Actions, Faithful

\* a key the plugin created reads back as the key it was created from
LEMMA RoundTrip ==
  ASSUME NEW w \in ForeignIndex, w.onDelete = "RESTRICT"
  PROVE  KeyView(Created(w)) = w
<1>1. Created(w) \in Constraint /\ Faithful(Created(w))
  BY CreatedType
<1>2. ParsedOnDelete(Created(w)) = "RESTRICT"
  BY <1>1, ParsedFaithful DEF Created
<1>3. QED
  BY <1>2 DEF KeyView, Created, ForeignIndex

\* a key read back right as a wanted key is that key as the plugin creates it
LEMMA ReadBack ==
  ASSUME NEW k \in Constraint, Faithful(k),
         NEW w \in ForeignIndex, w.onDelete = "RESTRICT", KeyView(k) = w
  PROVE  k = Created(w)
<1>1. ParsedOnDelete(k) = k.onDelete
  BY ParsedFaithful
<1>2. k.onDelete = "RESTRICT" /\ k.onUpdate = "RESTRICT"
  BY <1>1 DEF KeyView, Faithful
<1>3. QED
  BY <1>2 DEF KeyView, Created, Constraint

\* the keys the fk tags ask for
LEMMA DesiredType ==
  ASSUME NEW list \in SUBSET Columns
  PROVE  LET want == Desired(list)
         IN  /\ DOMAIN want = {FKName(c) : c \in list}
             /\ DOMAIN want \subseteq FKNames
             /\ \A n \in DOMAIN want : want[n] \in ForeignIndex /\ want[n].onDelete = "RESTRICT"
<1>1. ASSUME NEW n \in {FKName(c) : c \in list}
      PROVE  (CHOOSE x \in list : FKName(x) = n) \in Columns
  BY <1>1
<1> DEFINE want == Desired(list)
<1>2. DOMAIN want = {FKName(c) : c \in list}
  BY DEF Desired
<1>3. DOMAIN want \subseteq FKNames
  BY <1>2 DEF FKNames
<1>4. ASSUME NEW n \in DOMAIN want
      PROVE  want[n] \in ForeignIndex /\ want[n].onDelete = "RESTRICT"
  <2> DEFINE c == CHOOSE x \in list : FKName(x) = n
  <2>1. c \in Columns
    BY <1>1, <1>2
  <2>2. want[n] = [column |-> c, table |-> RefTable[c], parentDb |-> ParentDb[c],
                   onDelete |-> "RESTRICT"]
    BY <1>2 DEF Desired
  <2>3. RefTable[c] \in STRING /\ ParentDb[c] \in STRING
    BY <2>1, ConstantsAssumption
  <2>4. QED
    BY <2>1, <2>2, <2>3 DEF ForeignIndex, Actions
<1>5. QED
  BY <1>2, <1>3, <1>4

-----------------------------------------------------------------------------
(* Type correctness.                                                       *)

\* the plan's keys, as computed from the table, are well formed
LEMMA PlanType ==
  ASSUME TypeOK, NEW list \in SUBSET Columns
  PROVE  LET want == Desired(list)
             have == GetForeignKeys(db)
         IN  /\ \A n \in DOMAIN Drops(want, have) : Drops(want, have)[n] \in ForeignIndex
             /\ \A n \in DOMAIN Adds(want, have) : Adds(want, have)[n] \in ForeignIndex
<1>1. \A n \in DOMAIN GetForeignKeys(db) : GetForeignKeys(db)[n] \in ForeignIndex
  BY ViewIsKeyView, KeyViewType DEF TypeOK
<1>2. \A n \in DOMAIN Desired(list) : Desired(list)[n] \in ForeignIndex
  BY DesiredType
<1>3. QED
  BY <1>1, <1>2 DEF Drops, Adds

\* the initial states are well typed
LEMMA InitTypeOK == Init => TypeOK
<1> SUFFICES ASSUME Init PROVE TypeOK
  OBVIOUS
<1>1. \A n \in DOMAIN db : db[n] \in Constraint
  BY ConstantsAssumption DEF Init
<1>2. DOMAIN preDrops = {} /\ DOMAIN postAdds = {}
  BY DEF Init
<1>3. deploys \in 0..MaxDeploys /\ crashes \in 0..MaxCrashes
  BY BoundsAssumption DEF Init
<1>4. QED
  BY <1>1, <1>2, <1>3 DEF Init, TypeOK

\* every action, and a stutter, keeps the state well typed
LEMMA NextTypeOK == TypeOK /\ [Next]_vars => TypeOK'
<1> SUFFICES ASSUME TypeOK, [Next]_vars PROVE TypeOK'
  OBVIOUS
<1>1. CASE Deploy
  <2>1. tags' \in Tags
    BY <1>1 DEF Deploy
  <2>2. deploys' \in 0..MaxDeploys
    BY <1>1, BoundsAssumption DEF Deploy, TypeOK
  <2>3. QED
    BY <1>1, <2>1, <2>2 DEF Deploy, TypeOK
<1>2. CASE Plan
  <2>1. FKList(tags) \in SUBSET Columns
    BY DEF FKList
  <2>2. QED
    BY <1>2, <2>1, PlanType DEF Plan, TypeOK
<1>3. CASE ApplyPre
  BY <1>3 DEF ApplyPre, TypeOK
<1>4. CASE ApplyPost
  <2>1. \A n \in DOMAIN postAdds : Created(postAdds[n]) \in Constraint
    BY CreatedType DEF TypeOK
  <2>2. CASE DOMAIN postAdds \cap DOMAIN db = {}
    <3>1. \A n \in DOMAIN db' : db'[n] \in Constraint
      BY <1>4, <2>1, <2>2 DEF ApplyPost, TypeOK
    <3>2. QED
      BY <1>4, <2>2, <3>1 DEF ApplyPost, TypeOK
  <2>3. CASE DOMAIN postAdds \cap DOMAIN db # {}
    BY <1>4, <2>3 DEF ApplyPost, TypeOK
  <2>4. QED
    BY <2>2, <2>3
<1>5. CASE Crash
  BY <1>5, BoundsAssumption DEF Crash, TypeOK
<1>6. CASE UNCHANGED vars
  BY <1>6 DEF vars, TypeOK
<1>7. QED
  BY <1>1, <1>2, <1>3, <1>4, <1>5, <1>6 DEF Next

\* Every reachable state is well typed: the table holds well-formed
\* constraints and the plan being applied well-formed keys, whatever the
\* alters PluginInterfaceTableSQLSchemaDefinition builds.
THEOREM TypeCorrect == Spec => []TypeOK
BY InitTypeOK, NextTypeOK, PTL DEF Spec

-----------------------------------------------------------------------------
(* The synced table has the declared keys.                                 *)

\* the keys the deployed tags ask for, the table as the plugin reads it,
\* and the table a complete sync leaves
Want == Desired(FKList(tags))
View == GetForeignKeys(db)
Target == [n \in DOMAIN Want |-> Created(Want[n])]

\* Every key under a plugin's name reads back right.  A plan in progress is
\* the one computed from the current table and tags; once its drops ran,
\* the table holds only wanted keys as created, and the adds are the
\* wanted keys it misses.
IInv ==
    /\ TypeOK
    /\ \A n \in DOMAIN db : n \in FKNames => Faithful(db[n])
    /\ synced => db = Target
    /\ pc = "planned" => /\ preDrops = Drops(Want, View)
                         /\ postAdds = Adds(Want, View)
    /\ pc = "dropped" => /\ \A n \in DOMAIN db : n \in DOMAIN Want /\ db[n] = Created(Want[n])
                         /\ postAdds = [n \in DOMAIN Want \ DOMAIN db |-> Want[n]]

\* the wanted keys are well formed, under plugin names, and ON DELETE RESTRICT
LEMMA WantType ==
  ASSUME TypeOK
  PROVE  /\ DOMAIN Want \subseteq FKNames
         /\ \A n \in DOMAIN Want : Want[n] \in ForeignIndex /\ Want[n].onDelete = "RESTRICT"
         /\ FKList(tags) # {}
<1>1. FKList(tags) \in SUBSET Columns
  BY DEF FKList
<1>2. FKList(tags) # {}
  BY DeployAssumption DEF TypeOK
<1>3. QED
  BY <1>1, <1>2, DesiredType DEF Want

\* the initial states satisfy the inductive invariant
LEMMA InitIInv == Init => IInv
<1> SUFFICES ASSUME Init PROVE IInv
  OBVIOUS
<1>1. TypeOK
  BY InitTypeOK
<1>2. \A n \in DOMAIN db : n \in FKNames => Faithful(db[n])
  BY DeployAssumption DEF Init, FKNames
<1>3. QED
  BY <1>1, <1>2 DEF Init, IInv

\* every action, and a stutter, keeps the inductive invariant
LEMMA NextIInv == IInv /\ [Next]_vars => IInv'
<1> SUFFICES ASSUME IInv, [Next]_vars PROVE IInv'
  OBVIOUS
<1>0. TypeOK'
  BY NextTypeOK DEF IInv
<1>1. CASE Deploy
  BY <1>0, <1>1 DEF Deploy, IInv
<1>2. CASE Plan
  <2>1. Want' = Want /\ View' = View /\ Target' = Target
    BY <1>2 DEF Plan, Want, View, Target
  <2>2. FKList(tags) # {} /\ Columns # {}
    <3>1. FKList(tags) \subseteq Columns
      BY DEF FKList
    <3>2. QED
      BY <3>1, WantType DEF IInv
  <2>3. preDrops' = Drops(Want, View) /\ postAdds' = Adds(Want, View)
    BY <1>2, <2>2 DEF Plan, Want, View
  <2>4. QED
    BY <1>0, <1>2, <2>1, <2>3 DEF Plan, IInv
<1>3. CASE ApplyPre
  <2>1. /\ pc = "planned"
        /\ preDrops = Drops(Want, View) /\ postAdds = Adds(Want, View)
    BY <1>3 DEF ApplyPre, IInv
  <2>2. DOMAIN View = DOMAIN db /\ \A n \in DOMAIN db : View[n] = KeyView(db[n])
    BY ViewIsKeyView DEF View
  <2>3. DOMAIN preDrops \subseteq DOMAIN db
    BY <2>1, <2>2 DEF Drops
  <2> DEFINE rest == DOMAIN db \ DOMAIN preDrops
  <2>4. /\ db' = [n \in rest |-> db[n]] /\ pc' = "dropped"
        /\ UNCHANGED <<preDrops, postAdds, tags, synced>>
    BY <1>3, <2>3 DEF ApplyPre
  <2>5. Want' = Want /\ Target' = Target
    BY <2>4 DEF Want, Target
  <2>6. ASSUME NEW n \in rest
        PROVE  n \in DOMAIN Want /\ db[n] = Created(Want[n])
    <3>1. n \in DOMAIN Want /\ Want[n] = View[n]
      BY <2>1, <2>2 DEF Drops
    <3>2. Want[n] \in ForeignIndex /\ Want[n].onDelete = "RESTRICT" /\ n \in FKNames
      BY <3>1, WantType DEF IInv
    <3>3. db[n] \in Constraint /\ Faithful(db[n])
      BY <3>2 DEF IInv, TypeOK
    <3>4. KeyView(db[n]) = Want[n]
      BY <2>2, <3>1
    <3>5. QED
      BY <3>1, <3>2, <3>3, <3>4, ReadBack
  <2>7. DOMAIN Adds(Want, View) = DOMAIN Want \ rest
    BY <2>1, <2>2 DEF Adds, Drops
  <2>8. postAdds' = [n \in DOMAIN Want' \ DOMAIN db' |-> Want'[n]]
    BY <2>1, <2>4, <2>5, <2>7 DEF Adds
  <2>9. synced' => db' = Target'
    <3> SUFFICES ASSUME synced PROVE db' = Target
      BY <2>4, <2>5
    <3>1. db = Target
      BY DEF IInv
    <3>2. ASSUME NEW x \in DOMAIN preDrops PROVE FALSE
      <4>1. x \in DOMAIN Want /\ db[x] = Created(Want[x])
        BY <2>3, <3>1 DEF Target
      <4>2. Want[x] \in ForeignIndex /\ Want[x].onDelete = "RESTRICT"
        BY <4>1, WantType DEF IInv
      <4>3. View[x] = Want[x]
        BY <2>2, <2>3, <4>1, <4>2, RoundTrip
      <4>4. QED
        BY <2>1, <4>1, <4>3 DEF Drops
    <3>3. QED
      BY <2>4, <3>1, <3>2 DEF Target
  <2>10. \A n \in DOMAIN db' : n \in FKNames => Faithful(db'[n])
    BY <2>4 DEF IInv
  <2>11. \A n \in DOMAIN db' : n \in DOMAIN Want' /\ db'[n] = Created(Want'[n])
    BY <2>4, <2>5, <2>6
  <2>12. QED
    BY <1>0, <2>4, <2>8, <2>9, <2>10, <2>11 DEF IInv
<1>4. CASE ApplyPost
  <2>1. /\ pc = "dropped"
        /\ \A n \in DOMAIN db : n \in DOMAIN Want /\ db[n] = Created(Want[n])
        /\ postAdds = [n \in DOMAIN Want \ DOMAIN db |-> Want[n]]
    BY <1>4 DEF ApplyPost, IInv
  <2>2. DOMAIN postAdds \cap DOMAIN db = {}
    BY <2>1
  <2>3. /\ db' = [n \in DOMAIN db \cup DOMAIN postAdds |->
                    IF n \in DOMAIN postAdds THEN Created(postAdds[n]) ELSE db[n]]
        /\ synced' /\ pc' = "idle" /\ tags' = tags
    BY <1>4, <2>2 DEF ApplyPost
  <2>4. Want' = Want /\ Target' = Target
    BY <2>3 DEF Want, Target
  <2>5. db' = Target
    BY <2>1, <2>3 DEF Target
  <2>6. \A n \in DOMAIN Want : Faithful(Created(Want[n]))
    BY WantType, CreatedType DEF IInv
  <2>7. QED
    BY <1>0, <2>3, <2>4, <2>5, <2>6 DEF IInv, Target
<1>5. CASE Crash
  BY <1>0, <1>5 DEF Crash, IInv, Want, View, Target
<1>6. CASE UNCHANGED vars
  BY <1>0, <1>6 DEF vars, IInv, Want, View, Target
<1>7. QED
  BY <1>1, <1>2, <1>3, <1>4, <1>5, <1>6 DEF Next

\* Once a schema sync has run to its end after a deployment, the table has
\* exactly the foreign keys the deployed fk tags ask for, each as ADD
\* CONSTRAINT creates it, for every set of columns, tags and starting
\* tables, and however many syncs crashed between the DROP and the ADD.
THEOREM SyncCorrect == Spec => []SyncedFKsMatchDeclared
<1>1. IInv => SyncedFKsMatchDeclared
  BY DEF IInv, SyncedFKsMatchDeclared, Target, Want
<1>2. QED
  BY <1>1, InitIInv, NextIInv, PTL DEF Spec

=============================================================================
