---------------------------- MODULE MC_ForeignKeys ----------------------------
(* Small instances of ForeignKeys for TLC: two ref columns, every tag set *)
(* that declares a key, and starting tables with stale keys.            *)
EXTENDS ForeignKeys, TLC

MCColumns == {"A", "B"}
MCRefTable == "A" :> "t1" @@ "B" :> "t2"
MCParentDb == "A" :> "db1" @@ "B" :> "db2"

\* Every fk tag combination that gives the entity at least one foreign key.
MCTags ==
    {t \in [global : {"absent", "true"}, col : [MCColumns -> {"absent", "true", "skip"}]] :
        FKList(t) # {}}

\* The key of A as an earlier version made it ON DELETE CASCADE, and a key
\* on B under another name ON DELETE SET NULL.
CascadeA == [column |-> "A", table |-> "t1", parentDb |-> "db1",
             onDelete |-> "CASCADE", onUpdate |-> "RESTRICT"]
OldB == [column |-> "B", table |-> "t2", parentDb |-> "db2",
         onDelete |-> "SET_NULL", onUpdate |-> "RESTRICT"]
MCInitialDBs ==
    {<<>>, "db1:Entity:A" :> CascadeA, "fk_old_b" :> OldB,
     "db1:Entity:A" :> CascadeA @@ "fk_old_b" :> OldB}

=============================================================================
