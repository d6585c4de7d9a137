--------------------------- MODULE MC_LazyFlush ---------------------------
(* Small instances of LazyFlush for TLC.                                   *)
EXTENDS LazyFlush

CONSTANTS r1, r2, e1, e2

MCRecords == {r1, r2}
MCErrors == {e1, e2}
MCErrCode == [r \in MCRecords |-> IF r = r1 THEN e1 ELSE e2]
\* one resolver, accepting error e1 only
MCResolversE1 == <<{e1}>>
\* two resolvers that between them accept every error
MCResolversAll == <<{e1}, {e2}>>
\* FlushLazy of one entity
MCSinglePayloads == {<<r1>>, <<r2>>}
\* FlushLazyMany of one or two entities
MCMixedPayloads == {<<r2>>, <<r1, r2>>}
=============================================================================
