--------------------------- MODULE MC_EnginePools ---------------------------
(* Small instances of EnginePools for TLC.                                 *)
EXTENDS EnginePools

CONSTANTS main, cons, d, c2, rc, k1

\* MySQL and local cache pool "d", Redis pools "d" and "c2"
MCRegistered == [k \in {"mysql", "local", "redis"} |->
                   IF k = "redis" THEN {d, c2} ELSE {d}]
=============================================================================
