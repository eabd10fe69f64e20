---------------------------- MODULE BoundedJournal ----------------------------
(***************************************************************************)
(* What the event journal promises to those who read it (event_log.h,     *)
(* lines 9-13 and 74-86): the records it holds are the newest ones, a new  *)
(* record is newer than everything ever held, and space is made only by    *)
(* giving up the oldest records.  Power loss is not a step here: it may    *)
(* change neither set.                                                     *)
(***************************************************************************)
EXTENDS Integers

CONSTANT Ids              \* record numbers, in the order of acceptance

VARIABLES
  kept,                   \* the records a walk of the journal finds
  forgotten               \* the records it held once and gave up

journalVars == <<kept, forgotten>>

Init ==
  /\ kept = {}
  /\ forgotten = {}

\* A record becomes readable.
Record(n) ==
  /\ \A k \in kept \cup forgotten : k < n
  /\ kept' = kept \cup {n}
  /\ UNCHANGED forgotten

\* The oldest records are given up: a rotation or a clear.
Forget(S) ==
  /\ \A old \in S, k \in kept \ S : old < k
  /\ kept' = kept \ S
  /\ forgotten' = forgotten \cup S

Next ==
  \/ \E n \in Ids : Record(n)
  \/ \E S \in SUBSET kept : Forget(S)

Spec == Init /\ [][Next]_journalVars

-----------------------------------------------------------------------------
\* Whatever the journal gave up is older than everything it still holds: a
\* reader never sees a hole in the middle (event_log.h, "the oldest sector is
\* erased when the ring is full").
NewestKept == \A f \in forgotten, k \in kept : f < k
=============================================================================
