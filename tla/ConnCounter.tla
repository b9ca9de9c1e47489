---------------------------- MODULE ConnCounter ----------------------------
(***************************************************************************)
(* The connection cap of crates/server/src/ratelimit.rs: acquire and       *)
(* acquire_owned load the atomic counter, then try to add one to it with   *)
(* compare_exchange_weak until the cap is reached or the exchange          *)
(* succeeds; dropping the guard takes one off.                             *)
(***************************************************************************)
EXTENDS Integers, FiniteSets

CONSTANTS Callers,  \* threads that accept connections
          Cap       \* ConnCounter.cap

ASSUME ConnAssumption == IsFiniteSet(Callers) /\ Cap \in Nat

VARIABLES cur,      \* ConnCounter.cur
          pc,       \* "idle", "loop" inside acquire, "held" with a guard
          seen      \* the local variable cur of acquire

conn_vars == <<cur, pc, seen>>

ConnInit ==
  /\ cur = 0
  /\ pc = [c \in Callers |-> "idle"]
  /\ seen = [c \in Callers |-> 0]

Load(c) ==
  /\ pc[c] = "idle"
  /\ pc' = [pc EXCEPT ![c] = "loop"]
  /\ seen' = [seen EXCEPT ![c] = cur]
  /\ UNCHANGED cur

Refuse(c) ==
  /\ pc[c] = "loop" /\ seen[c] >= Cap
  /\ pc' = [pc EXCEPT ![c] = "idle"]
  /\ UNCHANGED <<cur, seen>>

(* Mutant of Exchange: one connection too many. *)
ExchangePastCap(c) ==
  /\ pc[c] = "loop" /\ seen[c] <= Cap /\ cur = seen[c]
  /\ cur' = seen[c] + 1
  /\ pc' = [pc EXCEPT ![c] = "held"]
  /\ UNCHANGED seen

Exchange(c) ==
  /\ pc[c] = "loop" /\ seen[c] < Cap /\ cur = seen[c]
  /\ cur' = seen[c] + 1
  /\ pc' = [pc EXCEPT ![c] = "held"]
  /\ UNCHANGED seen

(* The value has changed, or the weak exchange failed spuriously. *)
ExchangeFails(c) ==
  /\ pc[c] = "loop" /\ seen[c] < Cap
  /\ seen' = [seen EXCEPT ![c] = cur]
  /\ UNCHANGED <<cur, pc>>

DropGuard(c) ==
  /\ pc[c] = "held"
  /\ cur' = cur - 1
  /\ pc' = [pc EXCEPT ![c] = "idle"]
  /\ UNCHANGED seen

ConnNext ==
  \E c \in Callers :
    Load(c) \/ Refuse(c) \/ Exchange(c) \/ ExchangeFails(c) \/ DropGuard(c)

ConnSpec == ConnInit /\ [][ConnNext]_conn_vars

-----------------------------------------------------------------------------
Held == {c \in Callers : pc[c] = "held"}

(* Every variable has its type. *)
ConnTypeOK ==
  /\ cur \in Nat
  /\ pc \in [Callers -> {"idle", "loop", "held"}]
  /\ seen \in [Callers -> Nat]

(* The counter is the number of guards alive: no slot is lost or counted   *)
(* twice, however acquires and drops of guards interleave.                 *)
CounterIsGuards == cur = Cardinality(Held)

(* "At most 32 concurrent connections per server".                         *)
CapHolds == Cardinality(Held) <= Cap
=============================================================================
