---------------------------- MODULE SchemaIndexes ----------------------------
(***************************************************************************)
(* tableSchema.init and validateIndexes of src/table_schema.go: the pool   *)
(* checks, the parsing of the query/queryOne templates into filter and     *)
(* order fields, the collection of unique and index declarations (with     *)
(* their ordinals), the implicit index of every ref field, and the         *)
(* validation of the indexes against the templates.                        *)
(*                                                                         *)
(* A declaration is the parsed tag map of one entity type.  Strings are    *)
(* abstracted: a template is a sequence of tokens (a :variable or the      *)
(* literal "order by"), and PrefixOf says which field names are proper     *)
(* prefixes of others, which is all strings.Index can tell apart.  An      *)
(* ordinal is the value strconv.ParseInt returned (0 when it failed).      *)
(***************************************************************************)
EXTENDS Integers, Sequences, SequencesExt, FiniteSets

CONSTANTS
    Fields,         \* field names of the entity (column names)
    PrefixOf,       \* <<f, g>>: ":" \o f is a proper prefix of ":" \o g
    MysqlPools,     \* registry.mysqlPools
    LocalPools,     \* registry.localCachePools
    RedisPools,     \* registry.redisServers
    Decls           \* the declarations the registry may be given

ASSUME PrefixAssumption == PrefixOf \subseteq Fields \X Fields

\* The value of an ORM tag key that is not given.
Absent == "absent"

\* A token of a template: a variable :f, or the literal "order by".
Var(f) == [kind |-> "var", f |-> f]
OrderBy == [kind |-> "orderby", f |-> ""]

Errors == {"mysqlPool", "localPool", "redisPool", "uuid",
           "duplicated", "missingUnique", "missingIndex", "ok"}
PoolErrors == {"mysqlPool", "localPool", "redisPool"}

VARIABLES decl, result
vars == <<decl, result>>

None == [err |-> "none"]

(***************************************************************************)
(* getTag / GetTag (lines 612-631): a value "true" stands for trueValue, a *)
(* missing key for defaultValue.                                           *)
(***************************************************************************)
GetTag(value, trueValue, defaultValue) ==
    IF value = Absent THEN defaultValue
    ELSE IF value = "true" THEN trueValue ELSE value

(***************************************************************************)
(* Template parsing (lines 320-397).                                       *)
(***************************************************************************)
\* re.FindAllString(query, -1) with the leading ':' dropped.
VarNames(tk) ==
    LET vs == SelectSeq(tk, LAMBDA t : t.kind = "var")
    IN  [i \in 1..Len(vs) |-> vs[i].f]

\* The loop that appends a field name only when it is not yet in fields.
Dedup(s) ==
    LET keep == {i \in 1..Len(s) : \A j \in 1..(i - 1) : s[j] # s[i]}
        idx  == SetToSortSeq(keep, <)
    IN  [i \in 1..Len(idx) |-> s[idx[i]]]

\* fields: the distinct variables, then FakeDelete when the entity has one
\* and the template has a variable.
TemplateFields(d, tk) ==
    Dedup(VarNames(tk))
      \o (IF d.fakeDelete /\ Len(VarNames(tk)) > 0 THEN <<"FakeDelete">> ELSE <<>>)

\* posOrderBy, with 0 for strings.Index's -1.
OrderAt(tk) ==
    LET P == {i \in DOMAIN tk : tk[i].kind = "orderby"}
    IN  IF P = {} THEN 0 ELSE Min(P)

\* strings.Index(queryOrigin, ":"+f): the first variable that f is equal to
\* or a prefix of; 0 for not found.
PosOf(tk, f) ==
    LET P == {i \in DOMAIN tk : tk[i].kind = "var"
                                /\ (tk[i].f = f \/ <<f, tk[i].f>> \in PrefixOf)}
    IN  IF P = {} THEN 0 ELSE Min(P)

\* Mutant: every field taken as a filter field, "order by" ignored.
QueryFieldsIgnoringOrderBy(d, tk) == TemplateFields(d, tk)

\* fieldsQuery: pos < posOrderBy || posOrderBy == -1.
QueryFields(d, tk) ==
    SelectSeq(TemplateFields(d, tk),
              LAMBDA f : OrderAt(tk) = 0 \/ PosOf(tk, f) < OrderAt(tk))

\* fieldsOrder: the variables of queryOrigin[posOrderBy:].
OrderFields(tk) ==
    IF OrderAt(tk) = 0 THEN <<>>
    ELSE VarNames(SubSeq(tk, OrderAt(tk) + 1, Len(tk)))

\* The cachedQueryDefinition of one template.  isDefault is
\* Query == "1 ORDER BY `ID`": an empty template of an entity without
\* FakeDelete.
Parse(d, t) ==
    [one         |-> t.one,
     isDefault   |-> t.tokens = <<>> /\ ~d.fakeDelete,
     tracked     |-> SelectSeq(TemplateFields(d, t.tokens), LAMBDA f : f # "ID"),
     queryFields |-> QueryFields(d, t.tokens),
     orderFields |-> OrderFields(t.tokens)]

Defs(d) == [q \in DOMAIN d.templates |-> Parse(d, d.templates[q])]

(***************************************************************************)
(* Unique and index declarations (lines 414-488).  A membership is a       *)
(* record [field, kind, name, ord]; the global ORM unique tag is a         *)
(* function from names to column sequences.  Two fields may claim the same *)
(* (kind, name, ord); the one the map iteration visits last wins, so a     *)
(* winner function w picks one claimant per claim.                         *)
(***************************************************************************)
Claims(d) == {<<m.kind, m.name, m.ord>> : m \in d.members}

Claimants(d, c) == {m.field : m \in {x \in d.members : <<x.kind, x.name, x.ord>> = c}}

Winners(d) == {w \in [Claims(d) -> Fields] : \A c \in Claims(d) : w[c] \in Claimants(d, c)}

\* The ordinals to columns map of one declared index: the global unique
\* columns at i+1, overwritten by the field tags.
IndexMap(d, w, kind, n) ==
    LET member == {c[3] : c \in {x \in Claims(d) : x[1] = kind /\ x[2] = n}}
        global == IF kind = "unique" /\ n \in DOMAIN d.global
                  THEN DOMAIN d.global[n] ELSE {}
    IN  [o \in member \cup global |->
            IF <<kind, n, o>> \in Claims(d) THEN w[<<kind, n, o>>] ELSE d.global[n][o]]

NamesOf(d, kind) == {c[2] : c \in {x \in Claims(d) : x[1] = kind}}

UniqueIndices(d, w) ==
    [n \in DOMAIN d.global \cup NamesOf(d, "unique") |-> IndexMap(d, w, "unique", n)]

DeclaredIndices(d, w) == [n \in NamesOf(d, "index") |-> IndexMap(d, w, "index", n)]

\* The refs no declared index starts with get the index "_"+ref.
RefIndexName(r) == "_" \o r

\* Mutant: the implicit index built as {1: "_"+ref} instead of {1: ref}.
IndicesRefNameAsColumn(d, w) ==
    LET ix   == DeclaredIndices(d, w)
        ui   == UniqueIndices(d, w)
        Firsts == {v[1] : v \in {u \in Range(ix) \cup Range(ui) : 1 \in DOMAIN u}}
        new  == {RefIndexName(r) : r \in d.refs \ Firsts}
    IN  [n \in DOMAIN ix \cup new |-> IF n \in DOMAIN ix THEN ix[n] ELSE 1 :> n]

Indices(d, w) ==
    LET ix   == DeclaredIndices(d, w)
        ui   == UniqueIndices(d, w)
        Firsts == {v[1] : v \in {u \in Range(ix) \cup Range(ui) : 1 \in DOMAIN u}}
        new  == {RefIndexName(r) : r \in d.refs \ Firsts}
    IN  [n \in DOMAIN ix \cup new |->
            IF n \in DOMAIN ix THEN ix[n]
            ELSE 1 :> (CHOOSE r \in d.refs : RefIndexName(r) = n)]

(***************************************************************************)
(* validateIndexes (lines 518-610).  A missing ordinal reads as "".        *)
(***************************************************************************)
Size(v) == Cardinality(DOMAIN v)
Col(v, i) == IF i \in DOMAIN v THEN v[i] ELSE ""

\* same == len(v): v agrees with v2 on every ordinal 1..len(v).
Duplicated(v, v2) == \A i \in 1..Size(v) : i \in DOMAIN v2 /\ v2[i] = Col(v, i)

\* valid: the number of (query field, column) pairs that are equal.
Matches(qf, cols) == Cardinality({p \in (DOMAIN qf) \X (DOMAIN cols) : qf[p[1]] = cols[p[2]]})

OneCovered(def, ui) ==
    \E cols \in Range(ui) : Size(cols) = Len(def.queryFields)
                            /\ Matches(def.queryFields, cols) = Size(cols)

\* Mutant: a trailing FakeDelete column is not skipped.
OrderCoveredNoFakeDeleteSkip(of, cols) ==
    \A j \in 0..(Len(of) - 1) : Col(cols, Size(cols) - j) = of[Len(of) - j]

\* The order fields match the columns backwards from columns[len(columns)],
\* from one before it when that column is FakeDelete.
OrderCovered(of, cols) ==
    LET key == IF Col(cols, Size(cols)) = "FakeDelete" THEN Size(cols) - 1 ELSE Size(cols)
    IN  \A j \in 0..(Len(of) - 1) : Col(cols, key - j) = of[Len(of) - j]

ManyCovered(def, all) ==
    \/ def.isDefault
    \/ \E cols \in Range(all) :
          /\ Matches(def.queryFields, cols) = Len(def.queryFields)
          /\ Len(def.orderFields) = 0 \/ OrderCovered(def.orderFields, cols)

ValidateIndexes(ui, ix, defs) ==
    LET all == [n \in DOMAIN ui \cup DOMAIN ix |-> IF n \in DOMAIN ix THEN ix[n] ELSE ui[n]]
    IN  CASE \E k, k2 \in DOMAIN all : k # k2 /\ Duplicated(all[k], all[k2]) -> "duplicated"
          [] \E q \in DOMAIN defs : defs[q].one /\ ~OneCovered(defs[q], ui) -> "missingUnique"
          [] \E q \in DOMAIN defs : ~defs[q].one /\ ~ManyCovered(defs[q], all) -> "missingIndex"
          [] OTHER -> "ok"

(***************************************************************************)
(* tableSchema.init (lines 279-516): the checks in the order of the code.  *)
(***************************************************************************)
InitErr(d, w) ==
    LET mysql == GetTag(d.mysql, "default", "default")
        local == GetTag(d.local, "default", "")
        redis == GetTag(d.redis, "default", "")
    IN  CASE mysql \notin MysqlPools                -> "mysqlPool"
          [] local # "" /\ local \notin LocalPools  -> "localPool"
          [] redis # "" /\ redis \notin MysqlPools  -> "redisPool"
          [] d.uuid /\ ~d.idUint64                  -> "uuid"
          [] OTHER -> ValidateIndexes(UniqueIndices(d, w), Indices(d, w), Defs(d))

InitSchema(d, w) ==
    LET err == InitErr(d, w)
    IN  IF err \in PoolErrors
        THEN [err |-> err, defs |-> <<>>, unique |-> <<>>, indices |-> <<>>]
        ELSE [err |-> err, defs |-> Defs(d),
              unique |-> UniqueIndices(d, w), indices |-> Indices(d, w)]

Init == decl \in Decls /\ result = None

\* registry.Validate builds the schema of the entity once.
Build ==
    /\ result = None
    /\ \E w \in Winners(decl) : result' = InitSchema(decl, w)
    /\ UNCHANGED decl

Next == Build

Spec == Init /\ [][Next]_vars

(***************************************************************************)
(* The rules of spec 4.1, stated over the declaration on their own.        *)
(***************************************************************************)
\* An index's columns in the order of their ordinals.
RefColumns(d, kind, n) ==
    LET P == {<<m.ord, m.field>> : m \in {x \in d.members : x.kind = kind /\ x.name = n}}
             \cup (IF kind = "unique" /\ n \in DOMAIN d.global
                   THEN {<<i, d.global[n][i]>> : i \in DOMAIN d.global[n]} ELSE {})
        s == SetToSortSeq(P, LAMBDA a, b : a[1] < b[1])
    IN  [i \in 1..Len(s) |-> s[i][2]]

\* The declared indexes, and a one-column index for each ref field that no
\* declared index starts with.
RefIndexes(d) ==
    LET decl0 == {<<m.kind, m.name>> : m \in d.members}
                 \cup {<<"unique", n>> : n \in DOMAIN d.global}
        cols(k) == RefColumns(d, k[1], k[2])
        bare == {r \in d.refs : \A k \in decl0 : cols(k) = <<>> \/ cols(k)[1] # r}
    IN  [k \in decl0 \cup {<<"ref", r>> : r \in bare} |->
            IF k[1] = "ref" THEN <<k[2]>> ELSE cols(k)]

\* Filter columns: the variables before "order by", and FakeDelete for an
\* explicit template of an entity with soft deletion.
RefFilter(d, tk) ==
    ToSet(VarNames(IF OrderAt(tk) = 0 THEN tk ELSE SubSeq(tk, 1, OrderAt(tk) - 1)))
      \cup (IF d.fakeDelete /\ tk # <<>> THEN {"FakeDelete"} ELSE {})

StripFakeDelete(s) == IF s # <<>> /\ Last(s) = "FakeDelete" THEN Front(s) ELSE s

RefTemplateCovered(d, t) ==
    LET ix == RefIndexes(d)
    IN  IF t.one
        THEN \E k \in DOMAIN ix : k[1] = "unique" /\ ToSet(ix[k]) = RefFilter(d, t.tokens)
        ELSE \/ t.tokens = <<>>
             \/ \E k \in DOMAIN ix : /\ RefFilter(d, t.tokens) \subseteq ToSet(ix[k])
                                     /\ IsSuffix(OrderFields(t.tokens), StripFakeDelete(ix[k]))

RefValid(d) ==
    LET ix == RefIndexes(d)
    IN  /\ GetTag(d.mysql, "default", "default") \in MysqlPools
        /\ GetTag(d.local, "default", "") \in LocalPools \cup {""}
        /\ GetTag(d.redis, "default", "") \in RedisPools \cup {""}
        /\ ~(d.uuid /\ ~d.idUint64)
        /\ ~\E k, k2 \in DOMAIN ix : k # k2 /\ IsPrefix(ix[k], ix[k2])
        /\ \A q \in DOMAIN d.templates : RefTemplateCovered(d, d.templates[q])

(***************************************************************************)
(* Properties.                                                             *)
(***************************************************************************)
\* The schema the code builds has columns from the entity's fields only.
TypeOK ==
    /\ decl \in Decls
    /\ result = None
       \/ /\ result.err \in Errors
          /\ \A q \in DOMAIN result.defs :
                \A f \in ToSet(result.defs[q].queryFields) \cup ToSet(result.defs[q].orderFields) :
                   f \in Fields
          /\ \A n \in DOMAIN result.indices \cup DOMAIN result.unique :
                \A v \in Range(IF n \in DOMAIN result.indices THEN result.indices[n]
                               ELSE result.unique[n]) : v \in Fields

\* registry.Validate accepts an entity's tags (init returns nil) exactly when
\* they meet spec 4.1: declared pools, a uint64 id for uuid, no index a
\* column prefix of another, and every cached template covered by an index.
SchemaAcceptedIffValid ==
    result # None => (result.err = "ok" <=> RefValid(decl))

\* The filter fields init stores for a template are the variables before
\* "order by" (with FakeDelete), and the order fields those after it.
TemplateFieldsSplitAtOrderBy ==
    result # None =>
        \A q \in DOMAIN result.defs :
            LET t == decl.templates[q]
            IN  /\ ToSet(result.defs[q].queryFields) = RefFilter(decl, t.tokens)
                /\ result.defs[q].orderFields = OrderFields(t.tokens)

=============================================================================
