------------------------------- MODULE Queues -------------------------------
(***************************************************************************)
(* The bounded, lossy queues for slow consumers: the byte ring             *)
(* (crates/core/src/session/ring.rs), the hold queue with its two drop     *)
(* policies (crates/server/src/hold.rs) and the broadcast event bus        *)
(* (crates/core/src/eventbus.rs).  One behaviour is about one queue, whose *)
(* kind the first step chooses; entries are numbered as they come.         *)
(***************************************************************************)
EXTENDS Naturals, Sequences, FiniteSetsExt

CONSTANTS QueueCap,   \* capacity: bytes of the ring, slots of the others
          EntrySizes, \* lengths of the entries pushed
          MaxPushes

ASSUME QueueAssumption == QueueCap \in Nat \ {0} /\ EntrySizes \subseteq Nat \ {0} /\ MaxPushes \in Nat

QueueKinds == {"ring", "drop oldest", "drop new", "bus"}

VARIABLES kind,      \* which queue
          queued,    \* entries in the queue: [id, len]
          used,      \* Ring.used
          dropped,   \* the drop counter, or what Lagged has reported so far
          missed,    \* the bus: entries this receiver lost since its last recv
          pushed,    \* history: entries pushed
          taken      \* history: ids delivered

q_vars == <<kind, queued, used, dropped, missed, pushed, taken>>

QInit ==
  /\ kind = "none" /\ queued = <<>> /\ used = 0 /\ dropped = 0 /\ missed = 0
  /\ pushed = 0 /\ taken = <<>>

NewQueue(k) ==
  /\ kind = "none" /\ kind' = k
  /\ UNCHANGED <<queued, used, dropped, missed, pushed, taken>>

(* The bytes of some entries, each named by its entry and its place there. *)
Octets(s) == UNION {{s[i].id} \X (1..s[i].len) : i \in 1..Len(s)}
Bytes(s) == Cardinality(Octets(s))

(* Ring::push drops the oldest entries until the new one fits; one that    *)
(* does not fit an empty ring is dropped after all the others.             *)
Evicted(len) ==
  LET fits == {n \in 0..Len(queued) : used - Bytes(SubSeq(queued, 1, n)) + len <= QueueCap}
  IN IF fits = {} THEN Len(queued) ELSE Min(fits)

RingPush(e) ==
  LET n == Evicted(e.len)
      rest == SubSeq(queued, n + 1, Len(queued))
  IN
  /\ queued' = IF e.len <= QueueCap THEN Append(rest, e) ELSE rest
  /\ used' = used - Bytes(SubSeq(queued, 1, n)) + (IF e.len <= QueueCap THEN e.len ELSE 0)
  /\ dropped' = dropped + n + (IF e.len <= QueueCap THEN 0 ELSE 1)
  /\ UNCHANGED missed

(* Mutant of HoldPush: a refused entry is not counted. *)
HoldPushSilent(e) ==
  /\ queued' = IF Len(queued) < QueueCap THEN Append(queued, e)
               ELSE IF kind = "drop oldest" THEN Append(Tail(queued), e) ELSE queued
  /\ dropped' = IF Len(queued) < QueueCap \/ kind = "drop new" THEN dropped ELSE dropped + 1
  /\ UNCHANGED <<used, missed>>

(* HoldQueue::push *)
HoldPush(e) ==
  /\ queued' = IF Len(queued) < QueueCap THEN Append(queued, e)
               ELSE IF kind = "drop oldest" THEN Append(Tail(queued), e) ELSE queued
  /\ dropped' = IF Len(queued) < QueueCap THEN dropped ELSE dropped + 1
  /\ UNCHANGED <<used, missed>>

(* EventBus::publish, tokio's broadcast channel: the oldest entry gives    *)
(* way, and a receiver that had not read it has missed it.  QueueCap is    *)
(* what tokio makes of the capacity, the next power of two.                *)
BusPublish(e) ==
  /\ queued' = Append(IF Len(queued) < QueueCap THEN queued ELSE Tail(queued), e)
  /\ missed' = IF Len(queued) < QueueCap THEN missed ELSE missed + 1
  /\ UNCHANGED <<used, dropped>>

QPush(len) ==
  /\ kind # "none" /\ pushed < MaxPushes
  /\ pushed' = pushed + 1
  /\ LET e == [id |-> pushed + 1, len |-> len] IN
       \/ kind = "ring" /\ RingPush(e)
       \/ kind \in {"drop oldest", "drop new"} /\ HoldPush(e)
       \/ kind = "bus" /\ BusPublish(e)
  /\ UNCHANGED <<kind, taken>>

(* Ring::pop and HoldQueue::pop; Receiver::recv when nothing was missed.   *)
QPop ==
  /\ queued # <<>> /\ missed = 0
  /\ queued' = Tail(queued) /\ taken' = Append(taken, Head(queued).id)
  /\ used' = IF kind = "ring" THEN used - Head(queued).len ELSE used
  /\ UNCHANGED <<kind, dropped, missed, pushed>>

(* Receiver::recv after a loss: Lagged(n) first. *)
RecvLagged ==
  /\ missed > 0
  /\ dropped' = dropped + missed /\ missed' = 0
  /\ UNCHANGED <<kind, queued, used, pushed, taken>>

QNext ==
  \/ \E k \in QueueKinds : NewQueue(k)
  \/ \E len \in EntrySizes : QPush(len)
  \/ QPop \/ RecvLagged

QSpec == QInit /\ [][QNext]_q_vars

-----------------------------------------------------------------------------
(* Every entry pushed was delivered, is waiting, or is counted: dropped    *)
(* ("surface this as E-1002 Backpressure", hold.rs) or lagged.  And the    *)
(* order holds: nothing waiting is older than what was delivered.          *)
LossIsCounted ==
  /\ Len(taken) + Len(queued) + dropped + missed = pushed
  /\ LET ids == taken \o [i \in 1..Len(queued) |-> queued[i].id]
     IN \A i, j \in 1..Len(ids) : i < j => ids[i] < ids[j]

(* The bound: the ring's counter is the bytes it holds, and no queue ever  *)
(* grows past its capacity ("bound memory regardless of slow consumers").  *)
QueueBounded ==
  IF kind = "ring" THEN used = Bytes(queued) /\ used <= QueueCap ELSE Len(queued) <= QueueCap

(* Every bounded queue keeps its bound, and counts what that costs.        *)
QueuesAccount == LossIsCounted /\ QueueBounded
=============================================================================
