-------------------------- MODULE MC_SlowQueries --------------------------
(* Small instances of SlowQueries for TLC.                                 *)
EXTENDS SlowQueries

CONSTANTS h1, h2

\* a SELECT of table t1 taking d microseconds
SelectT1(d) == [t |-> d, lazy |-> FALSE, pool |-> "default", op |-> "SELECT",
                words |-> <<"select", "*", "from", "t1">>]

\* three durations of the same query, and the same query run lazily
MCSlowLogs == {SelectT1(d) : d \in {1, 2, 3}}
              \cup {[SelectT1(2) EXCEPT !.lazy = TRUE]}

\* SELECTs, an UPDATE and a DELETE of two tables, and SHOW TABLES: three
\* metrics keys, one more than the goroutines and the limit can hold
MCMixedLogs == {SelectT1(d) : d \in {1, 2}}
               \cup {[t |-> 3, lazy |-> FALSE, pool |-> "default", op |-> "EXEC",
                      words |-> <<"update", "t2", "set", "a=1">>],
                     [t |-> 1, lazy |-> FALSE, pool |-> "default",
                      op |-> "SELECT", words |-> <<"show", "tables">>],
                     [t |-> 2, lazy |-> FALSE, pool |-> "default", op |-> "EXEC",
                      words |-> <<"delete", "from", "t2">>]}
=============================================================================
