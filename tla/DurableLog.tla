----------------------------- MODULE DurableLog -----------------------------
(***************************************************************************)
(* What the write-ahead log promises its caller: records are read back in  *)
(* the order they were appended, a sync makes the whole log durable, and a *)
(* crash loses at most a tail that was not durable.                        *)
(***************************************************************************)
EXTENDS Naturals, Sequences, Functions

CONSTANT Records   \* identities of records

VARIABLES log,     \* what a reader finds
          durable  \* how much of it a crash cannot take away

Init == log = <<>> /\ durable = 0

AppendRecord ==
  /\ \E n \in Records \ Range(log) : log' = Append(log, n)
  /\ UNCHANGED durable

Sync == durable' = Len(log) /\ UNCHANGED log

Crash ==
  \E k \in durable..Len(log) : log' = SubSeq(log, 1, k) /\ durable' = k

Next == AppendRecord \/ Sync \/ Crash
Spec == Init /\ [][Next]_<<log, durable>>
=============================================================================
