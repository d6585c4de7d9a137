--------------------------- MODULE MC_SchemaIndexes ---------------------------
(***************************************************************************)
(* Instances of SchemaIndexes: sets of tag declarations of one entity.     *)
(***************************************************************************)
EXTENDS SchemaIndexes

\* A declaration record, in the order: ORM mysql, localCache, redisCache
\* tags; uuid; ID is uint64; FakeDelete bool field; global unique tag;
\* field memberships; ref fields; templates.
MkDecl(my, lc, rc, uu, id64, fd, gl, mem, refs, tmpl) ==
    [mysql |-> my, local |-> lc, redis |-> rc, uuid |-> uu, idUint64 |-> id64,
     fakeDelete |-> fd, global |-> gl, members |-> mem, refs |-> refs,
     templates |-> tmpl]

\* `unique="n:1"` / `index="n:1"` tags putting the fields of s at ordinals 1..
Members(kind, n, s) ==
    {[field |-> s[j], kind |-> kind, name |-> n, ord |-> j] : j \in 1..Len(s)}

Member(f, kind, n, o) == [field |-> f, kind |-> kind, name |-> n, ord |-> o]

OneTemplate(one, tk) == "Q" :> [one |-> one, tokens |-> tk]

MCFields == {"ID", "Name", "Age", "FakeDelete"}

UniqueCols == {<<>>, <<"Name">>, <<"Age">>, <<"Name", "Age">>, <<"Age", "Name">>}

IndexCols == {<<>>, <<"Name">>, <<"Age">>, <<"Name", "Age">>, <<"Age", "Name">>,
              <<"Age", "FakeDelete">>, <<"Name", "Age", "FakeDelete">>}

Templates == {<<>>, <<Var("ID")>>, <<Var("Name")>>, <<Var("Age"), Var("Name")>>,
              <<Var("Name"), OrderBy, Var("Age")>>, <<OrderBy, Var("Age")>>,
              <<Var("Name"), Var("Name"), OrderBy, Var("Age")>>}

Globals == {<<>>, "G" :> <<"Age", "Name">>}

\* Every combination of indexes, refs and one template, with the pools and
\* uuid fixed; the empty (default) template only without FakeDelete.
MCIndexDecls ==
    {d \in {MkDecl(Absent, Absent, Absent, FALSE, TRUE, fd, gl,
            Members("unique", "U", u) \cup Members("index", "I", i), refs,
            OneTemplate(one, tk)) :
        fd \in BOOLEAN, gl \in Globals, u \in UniqueCols, i \in IndexCols,
        refs \in {{}, {"Age"}}, one \in BOOLEAN,
        tk \in Templates} :
        d.fakeDelete => d.templates["Q"].tokens # <<>>}

\* Every combination of pool tags and uuid, with one covered queryOne.
MCPoolDecls ==
    {MkDecl(my, lc, rc, uu, id64, FALSE, <<>>, Members("unique", "U", <<"Name">>), {},
            OneTemplate(TRUE, <<Var("Name")>>)) :
        my \in {Absent, "true", "other", "missing"}, lc \in {Absent, "true", "missing"},
        rc \in {Absent, "true", "missing"}, uu \in BOOLEAN, id64 \in BOOLEAN}

MCDecls == MCIndexDecls \cup MCPoolDecls

\* A redis cache pool registered as a redis server only.
MCRedisDecls ==
    {MkDecl(Absent, Absent, rc, FALSE, TRUE, FALSE, <<>>, {}, {}, <<>>) :
        rc \in {Absent, "cache"}}

\* Ordinals with a gap (1, 3), a failed ParseInt (0), and two fields that
\* claim the same ordinal.
MCOrdinalDecls ==
    {MkDecl(Absent, Absent, Absent, FALSE, TRUE, FALSE, <<>>, mem, {}, <<>>) :
        mem \in {{Member("Name", "unique", "U", 1), Member("Age", "unique", "U", 3),
                  Member("Name", "index", "I", 1), Member("Age", "index", "I", 2)},
                 {Member("Name", "index", "I", 0), Member("Age", "index", "I", 1)},
                 {Member("Name", "index", "I", 1), Member("Age", "index", "I", 1)}}}

\* A field whose name is a prefix of another, used only after "order by".
MCPrefixFields == MCFields \cup {"AgeMax"}
MCPrefixOf == {<<"Age", "AgeMax">>}
MCPrefixDecls ==
    {MkDecl(Absent, Absent, Absent, FALSE, TRUE, FALSE, <<>>,
            Members("index", "I", <<"AgeMax", "Age">>), {},
            OneTemplate(FALSE, tk)) :
        tk \in {<<Var("Age"), OrderBy, Var("AgeMax")>>, <<Var("AgeMax"), OrderBy, Var("Age")>>}}

\* The default template of an entity with soft deletion, with and without
\* an index declared.
MCDefaultDecls ==
    {MkDecl(Absent, Absent, Absent, FALSE, TRUE, TRUE, <<>>, mem, {},
            OneTemplate(FALSE, <<>>)) :
        mem \in {{}, Members("index", "I", <<"Name">>)}}

=============================================================================
