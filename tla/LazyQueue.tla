----------------------------- MODULE LazyQueue -----------------------------
(***************************************************************************)
(* What the lazy flush promises (spec.md 4.5, 4.6), with no consumer       *)
(* group, batches, errors or restarts: FlushLazy appends an event to a     *)
(* queue; the consumer applies records of events not yet acknowledged (a   *)
(* MySQL commit, or a resolver accepting the record's error) and           *)
(* acknowledges events in queue order, each one only once every record of  *)
(* it has been applied.  A record may be applied more than once; nothing   *)
(* is applied for an event after it was acknowledged.                      *)
(*                                                                         *)
(* LazyFlush implements this specification under the mapping given there. *)
(***************************************************************************)
EXTENDS Naturals, Sequences

CONSTANTS
  Payloads    \* what one lazy flush publishes: a sequence of records

VARIABLES
  queue,      \* the published events, in order
  applied,    \* positions <<k, j>> whose record reached MySQL or a resolver
  acked       \* the events acknowledged so far

qvars == <<queue, applied, acked>>

\* the positions of the records of event k
EventRecords(k) == {<<k, j>> : j \in 1..Len(queue[k])}

\* the positions of the events not acknowledged yet
OpenRecords == UNION {EventRecords(k) : k \in (1..Len(queue)) \ acked}

Init ==
  /\ queue = <<>>
  /\ applied = {}
  /\ acked = {}

Publish(p) ==
  /\ queue' = Append(queue, p)
  /\ UNCHANGED <<applied, acked>>

\* apply some open records and acknowledge the events up to n, all of whose
\* records are applied by then
Handle ==
  /\ \E new \in SUBSET OpenRecords, n \in 0..Len(queue) :
       /\ acked \subseteq 1..n
       /\ applied' = applied \cup new
       /\ acked' = 1..n
       /\ \A k \in 1..n : EventRecords(k) \subseteq applied'
  /\ UNCHANGED queue

Next == (\E p \in Payloads : Publish(p)) \/ Handle

Spec == Init /\ [][Next]_qvars
=============================================================================
