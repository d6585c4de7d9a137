----------------------------- MODULE ForeignKeys -----------------------------
(***************************************************************************)
(* The foreign keys plugin (src/unnamed/part_001): which ref columns get a *)
(* foreign key (InterfaceInitEntitySchema), the plan of DROP and ADD       *)
(* alters computed from the constraints MySQL reports                      *)
(* (PluginInterfaceTableSQLSchemaDefinition, getForeignKeys), and the      *)
(* execution of that plan, drops before adds, by a schema sync that may    *)
(* crash between the two alters.  Deployments change the fk tags between   *)
(* syncs.                                                                  *)
(***************************************************************************)
EXTENDS Naturals, Sequences, FiniteSets

CONSTANTS
    Columns,        \* the ref columns of the entity (schema.GetReferences())
    RefTable,       \* RefTable[c]: table of the entity column c references
    ParentDb,       \* ParentDb[c]: database of that entity's mysql pool
    EntityType,     \* sqlSchema.EntitySchema.GetType() as printed by %s
    Tags,           \* the fk tag declarations a deployment may carry
    InitialDBs,     \* the foreign keys the table may start with
    MaxDeploys,     \* bound on deployments
    MaxCrashes      \* bound on crashes of the schema sync

ASSUME BoundsAssumption == MaxDeploys \in Nat /\ MaxCrashes \in Nat

\* ON DELETE actions (SET_NULL prints as SET NULL); RESTRICT is the default,
\* which SHOW CREATE TABLE omits.
Actions == {"RESTRICT", "CASCADE", "SET_NULL"}

\* A constraint as MySQL holds it.
Constraint == [column : Columns, table : STRING, parentDb : STRING,
               onDelete : Actions, onUpdate : Actions]

ASSUME ConstantsAssumption ==
    /\ RefTable \in [Columns -> STRING] /\ ParentDb \in [Columns -> STRING]
    /\ EntityType \in STRING
    /\ Tags \subseteq [global : STRING, col : [Columns -> STRING]]
    /\ \A d \in InitialDBs : d \in [DOMAIN d -> Constraint]

\* A foreignIndex: what the plugin compares (line 24).
ForeignIndex == [column : Columns, table : STRING, parentDb : STRING, onDelete : Actions]

VARIABLES
    tags,       \* the fk tags of the deployed code
    db,         \* constraint name -> Constraint, for the entity's table
    preDrops,   \* dropForeignKeys of the plan being applied
    postAdds,   \* addForeignKeys of the plan being applied
    pc,         \* "idle", "planned" (alters built) or "dropped" (PreAlters run)
    synced,     \* a plan was applied in full since the last deployment
    deploys, crashes

vars == <<tags, db, preDrops, postAdds, pc, synced, deploys, crashes>>

(***************************************************************************)
(* InterfaceInitEntitySchema (lines 53-72): the fk-columns option.         *)
(***************************************************************************)
GetTag(value, trueValue, defaultValue) ==
    IF value = "absent" THEN defaultValue
    ELSE IF value = "true" THEN trueValue ELSE value

FKList(t) ==
    LET globalFK == GetTag(t.global, "true", "") = "true"
    IN  {c \in Columns : \/ globalFK /\ GetTag(t.col[c], "true", "") # "skip"
                         \/ GetTag(t.col[c], "true", "") = "true"}

(***************************************************************************)
(* PluginInterfaceTableSQLSchemaDefinition, lines 74-89: the desired keys, *)
(* named "<parent database>:<entity type>:<column>".                       *)
(***************************************************************************)
FKName(c) == ParentDb[c] \o ":" \o EntityType \o ":" \o c

Desired(list) ==
    [n \in {FKName(c) : c \in list} |->
        LET c == CHOOSE x \in list : FKName(x) = n
        IN  [column |-> c, table |-> RefTable[c], parentDb |-> ParentDb[c],
             onDelete |-> "RESTRICT"]]

\* A key whose ON DELETE and ON UPDATE clauses the plugin reads back right.
Faithful(k) == k.onUpdate = "RESTRICT" /\ k.onDelete \in {"RESTRICT", "CASCADE"}

\* Every deployment declares at least one foreign key, and a key the table
\* starts with under a name the plugin uses is one it reads back right.
\* (Without them the keys stay stale: see the hazards of lines 76 and 195.)
ASSUME DeployAssumption ==
    /\ \A t \in Tags : FKList(t) # {}
    /\ \A d \in InitialDBs : \A n \in DOMAIN d :
          n \in {FKName(c) : c \in Columns} => Faithful(d[n])

(***************************************************************************)
(* getForeignKeys (lines 179-210).  The ON DELETE action is read from the  *)
(* CONSTRAINT line of SHOW CREATE TABLE: the last word when the word       *)
(* before it is DELETE, RESTRICT otherwise.                                *)
(***************************************************************************)
ActionWords(a) == IF a = "SET_NULL" THEN <<"SET", "NULL">> ELSE <<a>>

ConstraintLine(k) ==
    <<"CONSTRAINT", "FOREIGN", "KEY", "REFERENCES", "(ID)">>
      \o (IF k.onDelete = "RESTRICT" THEN <<>> ELSE <<"ON", "DELETE">> \o ActionWords(k.onDelete))
      \o (IF k.onUpdate = "RESTRICT" THEN <<>> ELSE <<"ON", "UPDATE">> \o ActionWords(k.onUpdate))

\* Mutant: the word before the last one is taken.
ParsedOnDeleteOffByOne(k) ==
    LET w == ConstraintLine(k)
    IN  IF w[Len(w) - 1] = "DELETE" THEN w[Len(w) - 1] ELSE "RESTRICT"

ParsedOnDelete(k) ==
    LET w == ConstraintLine(k)
    IN  IF w[Len(w) - 1] = "DELETE" THEN w[Len(w)] ELSE "RESTRICT"

GetForeignKeys(d) ==
    [n \in DOMAIN d |-> [column |-> d[n].column, table |-> d[n].table,
                         parentDb |-> d[n].parentDb, onDelete |-> ParsedOnDelete(d[n])]]

(***************************************************************************)
(* Lines 103-121: a key of the table that is not wanted, or differs from   *)
(* the wanted one, is dropped; a wanted key is added unless it is there.   *)
(***************************************************************************)
Drops(want, have) == [n \in {x \in DOMAIN have : x \notin DOMAIN want \/ want[x] # have[x]} |-> have[n]]

\* Mutant: a key that exists with another definition is dropped, not re-added.
AddsOnlyMissing(want, have) == [n \in {x \in DOMAIN want : x \notin DOMAIN have} |-> want[n]]

Adds(want, have) == [n \in {x \in DOMAIN want : x \notin DOMAIN have \/ want[x] # have[x]} |-> want[n]]

\* ADD CONSTRAINT ... ON DELETE RESTRICT (buildCreateForeignKeySQL).
Created(k) == [column |-> k.column, table |-> k.table, parentDb |-> k.parentDb,
               onDelete |-> k.onDelete, onUpdate |-> "RESTRICT"]

Init ==
    /\ tags \in Tags
    /\ db \in InitialDBs
    /\ preDrops = <<>> /\ postAdds = <<>>
    /\ pc = "idle"
    /\ synced = FALSE
    /\ deploys = 0 /\ crashes = 0

\* A new version of the code, with other fk tags, is deployed.
Deploy ==
    /\ pc = "idle" /\ deploys < MaxDeploys
    /\ \E t \in Tags : tags' = t
    /\ synced' = FALSE
    /\ deploys' = deploys + 1
    /\ UNCHANGED <<db, preDrops, postAdds, pc, crashes>>

\* The schema sync asks the plugin for its alters.  Without fk columns the
\* option is unset and the plugin returns at line 77 with no alter.
Plan ==
    /\ pc = "idle"
    /\ LET list == FKList(tags)
           have == GetForeignKeys(db)
       IN  IF list = {} \/ Columns = {}
           THEN /\ preDrops' = <<>> /\ postAdds' = <<>>
           ELSE /\ preDrops' = Drops(Desired(list), have)
                /\ postAdds' = Adds(Desired(list), have)
    /\ pc' = "planned"
    /\ UNCHANGED <<tags, db, synced, deploys, crashes>>

\* The PreAlter: one ALTER TABLE dropping every key in dropForeignKeys.
\* MySQL rejects the whole statement when a key is not there, and the
\* sync stops.
ApplyPre ==
    /\ pc = "planned"
    /\ IF DOMAIN preDrops \subseteq DOMAIN db
       THEN /\ db' = [n \in DOMAIN db \ DOMAIN preDrops |-> db[n]]
            /\ pc' = "dropped"
            /\ UNCHANGED <<preDrops, postAdds>>
       ELSE /\ pc' = "idle" /\ preDrops' = <<>> /\ postAdds' = <<>>
            /\ UNCHANGED db
    /\ UNCHANGED <<tags, synced, deploys, crashes>>

\* The PostAlter: one ALTER TABLE adding every key in addForeignKeys,
\* rejected as a whole when a constraint of that name exists.  A rejected
\* alter ends the sync.
ApplyPost ==
    /\ pc = "dropped"
    /\ IF DOMAIN postAdds \cap DOMAIN db = {}
       THEN /\ db' = [n \in DOMAIN db \cup DOMAIN postAdds |->
                        IF n \in DOMAIN postAdds THEN Created(postAdds[n]) ELSE db[n]]
            /\ synced' = TRUE
       ELSE UNCHANGED <<db, synced>>
    /\ pc' = "idle"
    /\ preDrops' = <<>> /\ postAdds' = <<>>
    /\ UNCHANGED <<tags, deploys, crashes>>

\* The process running the sync dies after planning or between the alters.
Crash ==
    /\ pc \in {"planned", "dropped"} /\ crashes < MaxCrashes
    /\ pc' = "idle" /\ preDrops' = <<>> /\ postAdds' = <<>>
    /\ crashes' = crashes + 1
    /\ UNCHANGED <<tags, db, synced, deploys>>

Next == Deploy \/ Plan \/ ApplyPre \/ ApplyPost \/ Crash

Spec == Init /\ [][Next]_vars

(***************************************************************************)
(* Properties.                                                             *)
(***************************************************************************)
\* The table's constraints, and the keys of the plan being applied, are
\* well formed.
TypeOK ==
    /\ tags \in Tags
    /\ \A n \in DOMAIN db : db[n] \in Constraint
    /\ \A n \in DOMAIN preDrops : preDrops[n] \in ForeignIndex
    /\ \A n \in DOMAIN postAdds : postAdds[n] \in ForeignIndex
    /\ pc \in {"idle", "planned", "dropped"}
    /\ synced \in BOOLEAN
    /\ deploys \in 0..MaxDeploys /\ crashes \in 0..MaxCrashes

\* Once a schema sync has run to its end after a deployment, the table has
\* exactly the foreign keys the deployed fk tags ask for, each named
\* db:type:column and ON DELETE RESTRICT, whatever keys it started with and
\* whichever earlier syncs crashed between the drop and the add.
SyncedFKsMatchDeclared ==
    synced =>
        LET want == Desired(FKList(tags))
        IN  db = [n \in DOMAIN want |-> Created(want[n])]

=============================================================================
