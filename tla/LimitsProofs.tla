---------------------------- MODULE LimitsProofs ----------------------------
(***************************************************************************)
(* What the server bounds, for every value of the bounds: connections,     *)
(* bytes and time at risk, queues, rates and channel ids; and the clock    *)
(* table, whose estimates are bounded by the round trip.                   *)
(***************************************************************************)
EXTENDS ConnCounter, GroupCommit, Queues, Pacing, Clocks,
        FiniteSetTheorems, SequenceTheorems, WellFoundedInduction, NaturalsInduction, TLAPS

(* Most leaves need no arithmetic and are quick for Zenon; SMT takes the others. *)
USE ZenonT(1), SMTT(30), Zenon

(* The connection cap.  Two invariants are proved together: cur counts the *)
(* guards, and cur never passes the cap because an exchange succeeds only  *)
(* on the value that was compared with it.                                 *)
CountInv == ConnTypeOK /\ CounterIsGuards /\ cur <= Cap

(* The set of guards is finite. *)
LEMMA HeldFinite == IsFiniteSet(Held)
BY ConnAssumption, FS_Subset DEF Held

(* A counter without connections. *)
LEMMA CountInit == ConnInit => CountInv
<1>1. ConnInit => Held = {}
  BY DEF ConnInit, Held
<1> QED
  BY <1>1, ConnAssumption, FS_EmptySet, SMT DEF ConnInit, CountInv, ConnTypeOK, CounterIsGuards

(* Every step of every thread keeps the count. *)
LEMMA CountStep == CountInv /\ [ConnNext]_conn_vars => CountInv'
<1> SUFFICES ASSUME CountInv, [ConnNext]_conn_vars PROVE CountInv'
  OBVIOUS
<1> USE ConnAssumption DEF CountInv, ConnTypeOK, CounterIsGuards
<1>1. ASSUME NEW c \in Callers, Load(c) PROVE CountInv'
  <2>1. Held' = Held
    BY <1>1 DEF Load, Held
  <2> QED
    BY <1>1, <2>1 DEF Load
<1>2. ASSUME NEW c \in Callers, Refuse(c) PROVE CountInv'
  <2>1. Held' = Held
    BY <1>2 DEF Refuse, Held
  <2> QED
    BY <1>2, <2>1 DEF Refuse
<1>3. ASSUME NEW c \in Callers, Exchange(c) PROVE CountInv'
  <2>1. Held' = Held \cup {c} /\ c \notin Held
    BY <1>3 DEF Exchange, Held
  <2>2. Cardinality(Held \cup {c}) = Cardinality(Held) + 1
    BY <2>1, HeldFinite, FS_AddElement, Zenon
  <2>3. Cardinality(Held') = Cardinality(Held) + 1
    BY <2>1, <2>2
  <2>4. cur' = cur + 1 /\ cur + 1 <= Cap
    BY <1>3 DEF Exchange
  <2>5. ConnTypeOK'
    BY <1>3, <2>4, SMT DEF Exchange
  <2> QED
    BY <2>3, <2>4, <2>5
<1>4. ASSUME NEW c \in Callers, ExchangeFails(c) PROVE CountInv'
  <2>1. Held' = Held
    BY <1>4 DEF ExchangeFails, Held
  <2> QED
    BY <1>4, <2>1 DEF ExchangeFails
<1>5. ASSUME NEW c \in Callers, DropGuard(c) PROVE CountInv'
  <2>1. Held' = Held \ {c} /\ c \in Held
    BY <1>5 DEF DropGuard, Held
  <2>2. Cardinality(Held') = Cardinality(Held) - 1
    BY <2>1, HeldFinite, FS_RemoveElement, Zenon
  <2>3. Cardinality(Held) > 0
    BY <2>1, HeldFinite, FS_EmptySet, FS_CardinalityType, SMT
  <2> QED
    BY <1>5, <2>2, <2>3 DEF DropGuard
<1>6. CASE UNCHANGED conn_vars
  <2>1. Held' = Held
    BY <1>6 DEF conn_vars, Held
  <2> QED
    BY <1>6, <2>1 DEF conn_vars
<1> QED
  BY <1>1, <1>2, <1>3, <1>4, <1>5, <1>6 DEF ConnNext

(* The atomic counter is the number of guards alive. *)
THEOREM CountIsExact == ConnSpec => [](ConnTypeOK /\ CounterIsGuards)
<1>1. CountInv => ConnTypeOK /\ CounterIsGuards
  BY DEF CountInv
<1> QED
  BY <1>1, CountInit, CountStep, PTL DEF ConnSpec

(* There are never more guards, and so connections, than the cap. *)
THEOREM CapNeverExceeded == ConnSpec => []CapHolds
<1>1. CountInv => CapHolds
  BY DEF CountInv, CounterIsGuards, CapHolds
<1> QED
  BY <1>1, CountInit, CountStep, PTL DEF ConnSpec

-----------------------------------------------------------------------------
(* Group commit. *)

(* The inductive invariant of the time bound.  A buffered record is never  *)
(* older than the last sync, and outside the interval between the timer    *)
(* and its tick the window has not run out while bytes are buffered: so    *)
(* when the timer fires the record's age grows from below Window to at     *)
(* most Window.                                                            *)
AtRiskInv ==
  /\ last_sync <= now
  /\ oldest = Never <=> unsynced = 0
  /\ in_flight = unsynced
  /\ ~sync_failed => in_flight < SizeBytes
  /\ oldest # Never => last_sync <= oldest /\ oldest <= now
  /\ ~sync_failed /\ oldest # Never =>
       now - last_sync < (IF tick_due THEN Window + 1 ELSE Window)

-----------------------------------------------------------------------------
(* Every variable of the scheduler keeps its type. *)
THEOREM CommitTyped == CommitSpec => []CommitTypeOK
<1> USE GroupCommitAssumption
<1> DEFINE Numbers == /\ now \in Nat /\ last_sync \in Nat /\ oldest \in Nat \cup {Never}
                      /\ in_flight \in Nat /\ unsynced \in Nat
           Flags == tick_due \in BOOLEAN /\ sync_failed \in BOOLEAN
<1>1. CommitInit => CommitTypeOK
  <2>1. CommitInit => Numbers
    BY DEF CommitInit, Never
  <2>2. CommitInit => Flags
    BY Zenon DEF CommitInit
  <2> QED
    BY <2>1, <2>2, Zenon DEF CommitTypeOK
<1>2. CommitTypeOK /\ [CommitNext]_commit_vars => CommitTypeOK'
  <2> SUFFICES ASSUME CommitTypeOK, [CommitNext]_commit_vars PROVE CommitTypeOK'
    OBVIOUS
  <2>1. Numbers /\ Flags
    BY Zenon DEF CommitTypeOK
  <2>2. Numbers'
    <3>1. CASE TimerFires
      BY <2>1, <3>1, SMT DEF TimerFires, Never
    <3>2. CASE Tick
      BY <2>1, <3>2, SMT DEF Tick, Synced, Never
    <3>3. CASE Flush
      BY <2>1, <3>3, SMT DEF Flush, Synced, Never
    <3>4. ASSUME NEW len \in Lens, AppendAt(len) PROVE Numbers'
      BY <2>1, <3>4, SMT DEF AppendAt, Synced, Never
    <3>5. CASE UNCHANGED commit_vars
      BY <2>1, <3>5 DEF commit_vars, Never
    <3> HIDE DEF Numbers
    <3> QED
      BY <3>1, <3>2, <3>3, <3>4, <3>5 DEF CommitNext
  <2>3. Flags'
    <3>1. CASE TimerFires
      BY <2>1, <3>1, Zenon DEF TimerFires
    <3>2. CASE Tick
      BY <2>1, <3>2, Zenon DEF Tick, Synced
    <3>3. CASE Flush
      BY <2>1, <3>3, Zenon DEF Flush, Synced
    <3>4. ASSUME NEW len \in Lens, AppendAt(len) PROVE Flags'
      BY <2>1, <3>4, Zenon DEF AppendAt, Synced
    <3>5. CASE UNCHANGED commit_vars
      BY <2>1, <3>5, Zenon DEF commit_vars
    <3> HIDE DEF Flags
    <3> QED
      BY <3>1, <3>2, <3>3, <3>4, <3>5 DEF CommitNext
  <2> QED
    BY <2>2, <2>3, Zenon DEF CommitTypeOK
<1> QED
  BY <1>1, <1>2, PTL DEF CommitSpec

(* AtRiskInv holds of a log that was just opened. *)
LEMMA AtRiskInit == CommitInit => AtRiskInv
BY GroupCommitAssumption DEF CommitInit, AtRiskInv, Never

(* Every step keeps AtRiskInv. *)
LEMMA AtRiskStep == CommitTypeOK /\ AtRiskInv /\ [CommitNext]_commit_vars => AtRiskInv'
<1> SUFFICES ASSUME CommitTypeOK, AtRiskInv, [CommitNext]_commit_vars PROVE AtRiskInv'
  OBVIOUS
<1> USE GroupCommitAssumption DEF CommitTypeOK, AtRiskInv, Never
<1>1. CASE TimerFires
  BY <1>1 DEF TimerFires
<1>2. CASE Tick
  <2>1. CASE Synced
    BY <1>2, <2>1 DEF Tick, Synced
  <2>2. CASE sync_failed' = TRUE /\ UNCHANGED <<in_flight, last_sync, unsynced, oldest>>
    BY <1>2, <2>2 DEF Tick
  <2>3. CASE /\ ~(in_flight # 0 /\ now - last_sync >= Window)
             /\ UNCHANGED <<in_flight, last_sync, unsynced, oldest, sync_failed>>
    BY <1>2, <2>3 DEF Tick
  <2> QED
    BY <1>2, <2>1, <2>2, <2>3 DEF Tick
<1>3. CASE Flush
  BY <1>3 DEF Flush, Synced
<1>4. ASSUME NEW len \in Lens, AppendAt(len) PROVE AtRiskInv'
  <2>1. CASE Synced
    BY <1>4, <2>1 DEF AppendAt, Synced
  <2>2. CASE ~Synced
    BY <1>4, <2>2 DEF AppendAt, should_sync
  <2> QED
    BY <2>1, <2>2
<1>5. CASE UNCHANGED commit_vars
  BY <1>5 DEF commit_vars
<1> QED
  BY <1>1, <1>2, <1>3, <1>4, <1>5 DEF CommitNext

(* AtRiskInv is an invariant of the scheduler. *)
LEMMA AtRiskInvariant == CommitSpec => []AtRiskInv
BY CommitTyped, AtRiskInit, AtRiskStep, PTL DEF CommitSpec

(* in_flight is at every moment the number of bytes a power loss takes.    *)
THEOREM CounterIsExact == CommitSpec => []CounterExact
<1>1. AtRiskInv => CounterExact
  BY DEF AtRiskInv, CounterExact
<1> QED
  BY <1>1, AtRiskInvariant, PTL

(* Unless a sync fails, fewer than size_bytes are at risk, whatever the    *)
(* lengths of the records: append_at syncs before it returns.              *)
THEOREM BytesAtRiskBounded == CommitSpec => []BytesAtRisk
<1>1. AtRiskInv => BytesAtRisk
  BY DEF AtRiskInv, BytesAtRisk
<1> QED
  BY <1>1, AtRiskInvariant, PTL

(* Unless a sync fails, a timer that calls tick every period keeps every   *)
(* record at risk for no longer than the window.                           *)
THEOREM TimeAtRiskBounded == CommitSpec => []TimeAtRisk
<1>1. CommitTypeOK /\ AtRiskInv => TimeAtRisk
  BY GroupCommitAssumption DEF CommitTypeOK, AtRiskInv, TimeAtRisk, Never
<1> QED
  BY <1>1, CommitTyped, AtRiskInvariant, PTL

(* What a power loss takes is less than size_bytes and no older than the   *)
(* window: append_at and tick of the group-commit scheduler.               *)
THEOREM AtRiskBounded == CommitSpec => []LittleAtRisk
BY BytesAtRiskBounded, TimeAtRiskBounded, PTL DEF LittleAtRisk

-----------------------------------------------------------------------------
(* Facts about sums.  A sum of lengths is the number of elements of a set  *)
(* of pairs.                                                               *)

(* A union of finitely many finite sets. *)
LEMMA FiniteUnion ==
  ASSUME NEW S, IsFiniteSet(S), NEW f, \A k \in S : IsFiniteSet(f[k])
  PROVE  IsFiniteSet(UNION {f[k] : k \in S})
<1> DEFINE T == {f[k] : k \in S}
           g == [k \in S |-> f[k]]
<1>1. g \in Surjection(S, T)
  BY DEF Surjection
<1>2. IsFiniteSet(T)
  BY <1>1, FS_Surjection
<1> QED
  BY <1>2, FS_UNION, Zenon

(* A piece of the length n. *)
LEMMA Piece ==
  ASSUME NEW x, NEW n \in Nat
  PROVE  IsFiniteSet({x} \X (1..n)) /\ Cardinality({x} \X (1..n)) = n
<1>0. IsFiniteSet(1..n) /\ Cardinality(1..n) = IF 1 > n THEN 0 ELSE n - 1 + 1
  BY FS_Interval
<1>1. (IF 1 > n THEN 0 ELSE n - 1 + 1) = n /\ 1 * n = n
  OBVIOUS
<1>2. IsFiniteSet({x}) /\ Cardinality({x}) = 1
  BY FS_Singleton, Zenon
<1>3. /\ IsFiniteSet({x} \X (1..n))
      /\ Cardinality({x} \X (1..n)) = Cardinality({x}) * Cardinality(1..n)
  BY <1>0, <1>2, FS_Product, Zenon
<1>4. Cardinality({x}) * Cardinality(1..n) = 1 * n
  BY <1>0, <1>1, <1>2, Zenon
<1> QED
  BY <1>1, <1>3, <1>4, Zenon

(* Two sets without a common element add up. *)
LEMMA AddUp ==
  ASSUME NEW S, IsFiniteSet(S), NEW T, IsFiniteSet(T), S \cap T = {}
  PROVE  /\ IsFiniteSet(S \cup T) /\ Cardinality(S \cup T) = Cardinality(S) + Cardinality(T)
         /\ Cardinality(S) \in Nat /\ Cardinality(T) \in Nat
<1>1. /\ IsFiniteSet(S \cup T)
      /\ Cardinality(S \cup T) = Cardinality(S) + Cardinality(T) - Cardinality(S \cap T)
  BY FS_Union
<1>2. Cardinality(S \cap T) = 0 /\ Cardinality(S) \in Nat /\ Cardinality(T) \in Nat
  BY FS_EmptySet, FS_CardinalityType
<1> QED
  BY <1>1, <1>2

(* A set of numbers that is not empty has a smallest one, ... *)
LEMMA LeastIs ==
  ASSUME NEW S \in SUBSET Nat, S # {}
  PROVE  Min(S) \in S /\ \A y \in S : Min(S) <= y
<1>1. \E x \in S : \A y \in S : ~ (<<y, x>> \in OpToRel(<, Nat))
  BY NatLessThanWellFounded, WFMin
<1>2. PICK x \in S : \A y \in S : ~ (<<y, x>> \in OpToRel(<, Nat))
  BY <1>1
<1>3. ASSUME NEW y \in S PROVE x <= y
  <2>1. y < x => <<y, x>> \in OpToRel(<, Nat)
    BY DEF OpToRel
  <2>2. ~ (y < x)
    BY <1>2, <2>1, Zenon
  <2>3. x \in Nat /\ y \in Nat
    OBVIOUS
  <2> QED
    BY <2>2, <2>3
<1> QED
  BY <1>3, Zenon DEF Min

(* ... and, when it is bounded, a largest one. *)
LEMMA GreatestIs ==
  ASSUME NEW n \in Nat, NEW S \in SUBSET (1..n), S # {}
  PROVE  Max(S) \in S /\ \A y \in S : y <= Max(S)
<1> DEFINE T == {n - x : x \in S}
<1>1. T \in SUBSET Nat /\ T # {}
  <2>1. \A x \in S : x \in 1..n /\ n - x \in Nat
    OBVIOUS
  <2> QED
    BY <2>1
<1>2. Min(T) \in T /\ \A y \in T : Min(T) <= y
  BY <1>1, LeastIs, Zenon
<1>3. PICK x \in S : Min(T) = n - x
  BY <1>2, Zenon
<1>4. \A y \in S : n - x <= n - y
  BY <1>2, <1>3, Zenon
<1>5. \A y \in S : y <= x
  BY <1>4
<1> QED
  BY <1>5, Zenon DEF Max

-----------------------------------------------------------------------------
(* What paces a connection. *)
PaceTypeOK ==
  /\ instant \in Nat /\ tokens \in Nat /\ last \in Nat /\ last_flush \in Nat
  /\ last <= instant /\ last_flush <= instant
  /\ grants \in Seq(Nat \X Nat)
  /\ next_id \in Nat /\ channels \in [ChannelIds -> Threads \cup {NoId}]
  /\ opening \in [Threads -> ChannelIds \cup {NoId}]
  /\ held \in [Threads -> SUBSET ChannelIds]

(* What was let through since a grant, together with what is left, is no   *)
(* more than the burst and what the time since then has brought.           *)
BudgetInv ==
  \A i \in 1..Len(grants) :
    /\ grants[i][1] <= last
    /\ Cardinality(Granted(grants, i, Len(grants))) + tokens
         <= Burst + Rate * (last - grants[i][1])

(* An id is given to one thread, which opens or holds it. *)
ChannelInv ==
  /\ \A t \in Threads : opening[t] # NoId => opening[t] < next_id
  /\ \A t \in Threads : \A i \in held[t] : i < next_id
  /\ \A t, u \in Threads : t # u /\ opening[t] # NoId => opening[t] # opening[u]

PaceInv == PaceTypeOK /\ BudgetInv /\ ChannelInv /\ PacingHolds

(* A full bucket, no panel and no channel. *)
LEMMA PaceStart == PaceInit => PaceInv
<1> SUFFICES ASSUME PaceInit PROVE PaceInv
  OBVIOUS
<1>1. PaceTypeOK /\ Len(grants) = 0
  BY PacingAssumption DEF PaceInit, PaceTypeOK, ChannelIds, NoId
<1>2. BudgetInv /\ RateHolds
  BY <1>1 DEF BudgetInv, RateHolds
<1> QED
  BY <1>1, <1>2 DEF PaceInit, PaceInv, ChannelInv, PacingHolds, FlushInTime, ChannelIdsOwn

(* The bucket fills with time, up to the burst. *)
LEMMA RefilledIs ==
  ASSUME PaceTypeOK
  PROVE  /\ Refilled(tokens) \in Nat /\ Refilled(tokens) <= Burst
         /\ Refilled(tokens) <= tokens + (instant - last) * Rate
<1>1. tokens + (instant - last) * Rate \in Nat /\ Burst \in Nat
  <2>1. instant - last \in Nat /\ Rate \in Nat /\ tokens \in Nat
    BY PacingAssumption, SMT DEF PaceTypeOK
  <2>2. \A a, b \in Nat : a * b \in Nat
    OBVIOUS
  <2> QED
    BY <2>1, <2>2, PacingAssumption, SMT
<1>2. \A a, b \in Nat : Min({a, b}) \in {a, b} /\ Min({a, b}) <= a /\ Min({a, b}) <= b
  <2> SUFFICES ASSUME NEW a \in Nat, NEW b \in Nat
               PROVE  Min({a, b}) \in {a, b} /\ Min({a, b}) <= a /\ Min({a, b}) <= b
    OBVIOUS
  <2> QED
    BY LeastIs
<1> QED
  BY <1>1, <1>2 DEF Refilled

(* A grant adds its cost to every stretch of grants that it ends. *)
LEMMA GrantedGrows ==
  ASSUME NEW g \in Seq(Nat \X Nat), NEW at \in Nat, NEW cost \in Nat
  PROVE  LET h == Append(g, <<at, cost>>)
             n == Len(g) + 1
         IN  /\ h \in Seq(Nat \X Nat) /\ Len(h) = n /\ h[n] = <<at, cost>>
             /\ \A i \in 1..Len(g) : h[i] = g[i] /\ g[i] \in Nat \X Nat
             /\ \A i, j \in 1..Len(g) : Granted(h, i, j) = Granted(g, i, j)
             /\ \A i \in 1..Len(g) : /\ Cardinality(Granted(g, i, Len(g))) \in Nat
                                     /\ Cardinality(Granted(h, i, n))
                                          = Cardinality(Granted(g, i, Len(g))) + cost
             /\ Cardinality(Granted(h, n, n)) = cost
<1> DEFINE h == Append(g, <<at, cost>>)
           n == Len(g) + 1
<1>0. \A i \in 1..Len(g) : g[i] \in Nat \X Nat
  BY ElementOfSeq
<1>1. /\ h \in Seq(Nat \X Nat) /\ Len(h) = n /\ h[n] = <<at, cost>> /\ Len(g) \in Nat
      /\ \A i \in 1..Len(g) : h[i] = g[i]
  BY AppendProperties, LenProperties, SMT
<1> HIDE DEF h
<1>2. \A i, j \in 1..Len(g) : Granted(h, i, j) = Granted(g, i, j)
  <2> SUFFICES ASSUME NEW i \in 1..Len(g), NEW j \in 1..Len(g)
               PROVE  Granted(h, i, j) = Granted(g, i, j)
    OBVIOUS
  <2>0. Len(g) \in Int
    BY <1>1
  <2>1. \A k \in i..j : k \in 1..Len(g)
    BY <2>0
  <2>2. \A k \in i..j : h[k] = g[k]
    BY <1>1, <2>1, Zenon
  <2> QED
    BY <2>2 DEF Granted
<1>3. Granted(h, n, n) = {n} \X (1..cost)
  <2>1. \A k \in Int : k..k = {k}
    BY SMT
  <2>2. n \in Int
    BY <1>1
  <2>3. n..n = {n}
    BY <2>1, <2>2, Zenon
  <2>4. h[n][2] = cost
    BY <1>1, SMT
  <2> HIDE DEF n
  <2> QED
    BY <2>3, <2>4 DEF Granted
<1>4. IsFiniteSet({n} \X (1..cost)) /\ Cardinality({n} \X (1..cost)) = cost
  BY Piece, Zenon
<1>5. ASSUME NEW i \in 1..Len(g)
      PROVE  /\ Cardinality(Granted(g, i, Len(g))) \in Nat
             /\ Cardinality(Granted(h, i, n)) = Cardinality(Granted(g, i, Len(g))) + cost
  <2> DEFINE S == i..Len(g)
             f == [k \in S |-> {k} \X (1..g[k][2])]
  <2>0. i \in Int /\ Len(g) \in Int
    BY <1>1
  <2>1. IsFiniteSet(S)
    BY <2>0, FS_Interval, Zenon
  <2>2. \A k \in S : g[k][2] \in Nat
    <3>1. \A k \in S : k \in 1..Len(g)
      BY <2>0
    <3>2. \A k \in S : g[k] \in Nat \X Nat
      BY <1>0, <3>1, Zenon
    <3> QED
      BY <3>2
  <2>3. \A k \in S : IsFiniteSet(f[k])
    BY <2>2, Piece, Zenon
  <2>4. Granted(g, i, Len(g)) = UNION {f[k] : k \in S}
    BY DEF Granted
  <2>5. IsFiniteSet(Granted(g, i, Len(g)))
    <3> HIDE DEF f, S
    <3>1. IsFiniteSet(UNION {f[k] : k \in S})
      BY <2>1, <2>3, FiniteUnion
    <3> QED
      BY <2>4, <3>1, Zenon
  <2>6. i..n = S \cup {n} /\ n \notin S /\ h[n][2] = cost /\ \A k \in S : h[k] = g[k]
    <3>1. i..n = S \cup {n} /\ n \notin S
      BY <2>0
    <3>2. \A k \in S : k \in 1..Len(g)
      BY <2>0
    <3>3. h[n][2] = cost
      BY <1>1, SMT
    <3>4. \A k \in S : h[k] = g[k]
      BY <1>1, <3>2, Zenon
    <3> QED
      BY <3>1, <3>3, <3>4, Zenon
  <2> HIDE DEF S, n
  <2>7. Granted(h, i, n) = Granted(g, i, Len(g)) \cup ({n} \X (1..cost))
    BY <2>6, SMTT(30) DEF Granted, S
  <2>8. Granted(g, i, Len(g)) \cap ({n} \X (1..cost)) = {}
    BY <2>6, SMT DEF Granted, S
  <2> QED
    BY <1>4, <2>5, <2>7, <2>8, AddUp, Zenon
<1> QED
  BY <1>0, <1>1, <1>2, <1>3, <1>4, <1>5, Zenon DEF h

(* Tokens are asked for: try_consume. *)
LEMMA ConsumeStep ==
  ASSUME PaceInv, NEW cost \in Costs, try_consume(cost)
  PROVE  PaceInv'
<1> DEFINE m == Len(grants)
           full == Refilled(tokens)
<1>0. /\ instant \in Nat /\ last \in Nat /\ tokens \in Nat /\ last <= instant
      /\ Burst \in Nat /\ Rate \in Nat /\ cost \in Nat
      /\ grants \in Seq(Nat \X Nat) /\ m \in Nat
  BY PacingAssumption, LenProperties DEF PaceInv, PaceTypeOK
<1>1. full \in Nat /\ full <= Burst /\ full <= tokens + (instant - last) * Rate
  BY RefilledIs DEF PaceInv
<1>2. /\ last' = instant /\ UNCHANGED <<about, instant, flush_vars, mux_vars>>
      /\ \/ full >= cost /\ tokens' = full - cost /\ grants' = Append(grants, <<instant, cost>>)
         \/ tokens' = full /\ UNCHANGED grants
  BY DEF try_consume
<1> HIDE DEF full
<1>3. \A i \in 1..m : grants[i] \in Nat \X Nat
  BY <1>0, ElementOfSeq
<1>4. \A i \in 1..m : grants[i][1] \in Nat
  BY <1>3
<1>5. \A i \in 1..m : grants[i][1] <= last /\ grants[i][1] <= instant
  BY <1>0, <1>4 DEF PaceInv, BudgetInv
<1>6. ASSUME NEW a \in Nat, NEW b \in Nat, NEW c \in Nat, NEW r \in Nat
      PROVE  r * (c - a) = r * (b - a) + (c - b) * r
  OBVIOUS
<1>7. \A i \in 1..m : Rate * (instant - grants[i][1])
                        = Rate * (last - grants[i][1]) + (instant - last) * Rate
  BY <1>0, <1>4, <1>6, SMTT(30)
<1>8. (instant - last) * Rate \in Int /\ \A i \in 1..m : Rate * (last - grants[i][1]) \in Int
  BY <1>0, <1>4
<1>9. ASSUME NEW i \in 1..m
      PROVE  /\ Cardinality(Granted(grants, i, m)) \in Nat
             /\ Cardinality(Granted(grants, i, m)) + full
                  <= Burst + Rate * (instant - grants[i][1])
  <2> DEFINE sum == Cardinality(Granted(grants, i, m))
             before == Rate * (last - grants[i][1])
             since == (instant - last) * Rate
             all == Rate * (instant - grants[i][1])
  <2>1. sum \in Nat
    BY <1>0, GrantedGrows
  <2>2. sum + tokens <= Burst + before
    BY DEF PaceInv, BudgetInv
  <2>3. before \in Int /\ since \in Int /\ all = before + since /\ full <= tokens + since
    BY <1>1, <1>7, <1>8
  <2> HIDE DEF sum, before, since, all
  <2>4. sum + full <= Burst + all
    BY <1>0, <1>1, <2>1, <2>2, <2>3
  <2> QED
    BY <2>1, <2>4 DEF sum, all
<1>10. CASE tokens' = full /\ UNCHANGED grants
  <2>1. PaceTypeOK'
    BY <1>0, <1>1, <1>2, <1>10 DEF PaceInv, PaceTypeOK, flush_vars, mux_vars
  <2>2. BudgetInv'
    BY <1>2, <1>5, <1>9, <1>10 DEF BudgetInv
  <2>3. RateHolds'
    BY <1>10 DEF PaceInv, PacingHolds, RateHolds
  <2> QED
    BY <1>2, <2>1, <2>2, <2>3
    DEF PaceInv, ChannelInv, PacingHolds, FlushInTime, ChannelIdsOwn, flush_vars, mux_vars
<1>11. CASE full >= cost /\ tokens' = full - cost /\ grants' = Append(grants, <<instant, cost>>)
  <2> DEFINE h == Append(grants, <<instant, cost>>)
             n == m + 1
  <2>1. /\ h \in Seq(Nat \X Nat) /\ Len(h) = n /\ h[n] = <<instant, cost>>
        /\ \A i \in 1..m : h[i] = grants[i]
        /\ \A i, j \in 1..m : Granted(h, i, j) = Granted(grants, i, j)
        /\ \A i \in 1..m : Cardinality(Granted(h, i, n)) = Cardinality(Granted(grants, i, m)) + cost
        /\ Cardinality(Granted(h, n, n)) = cost
    BY <1>0, GrantedGrows, SMTT(30)
  <2>2. grants' = h /\ tokens' = full - cost
    BY <1>11
  <2> HIDE DEF h
  <2>3. \A i \in 1..n : i \in 1..m \/ i = n
    BY <1>0
  <2>4. PaceTypeOK'
    <3>1. tokens' \in Nat
      BY <1>0, <1>1, <1>11
    <3> QED
      BY <1>0, <1>2, <2>1, <2>2, <3>1 DEF PaceInv, PaceTypeOK, flush_vars, mux_vars
  <2>5. ASSUME NEW i \in 1..m
        PROVE  /\ h[i][1] <= instant
               /\ Cardinality(Granted(h, i, n)) + (full - cost) <= Burst + Rate * (instant - h[i][1])
    <3> DEFINE sum == Cardinality(Granted(grants, i, m))
               all == Rate * (instant - grants[i][1])
    <3>1. h[i] = grants[i] /\ Cardinality(Granted(h, i, n)) = sum + cost
      BY <2>1
    <3>2. all \in Int /\ sum \in Nat /\ sum + full <= Burst + all
      BY <1>7, <1>8, <1>9
    <3>3. h[i][1] <= instant
      BY <1>5, <3>1
    <3> HIDE DEF sum, all
    <3>4. (sum + cost) + (full - cost) <= Burst + all
      BY <1>0, <1>1, <3>2
    <3> QED
      BY <3>1, <3>3, <3>4 DEF all
  <2>6. /\ h[n][1] = instant /\ Rate * (instant - instant) = 0
        /\ Cardinality(Granted(h, n, n)) + (full - cost) <= Burst
    BY <1>0, <1>1, <2>1
  <2>7. BudgetInv'
    <3>1. h[n][1] <= instant /\ Burst + Rate * (instant - h[n][1]) = Burst
      BY <1>0, <2>6
    <3> HIDE DEF n
    <3>2. \A i \in 1..n :
            /\ h[i][1] <= instant
            /\ Cardinality(Granted(h, i, n)) + (full - cost) <= Burst + Rate * (instant - h[i][1])
      BY <2>3, <2>5, <2>6, <3>1
    <3> QED
      BY <1>2, <2>1, <2>2, <3>2 DEF BudgetInv
  <2>8. RateHolds'
    <3>1. \A i, j \in 1..m : i <= j => Cardinality(Granted(h, i, j)) <= Burst + Rate * (h[j][1] - h[i][1])
      BY <2>1, Zenon DEF PaceInv, PacingHolds, RateHolds
    <3>2. \A i \in 1..m : Cardinality(Granted(h, i, n)) <= Burst + Rate * (h[n][1] - h[i][1])
      <4> SUFFICES ASSUME NEW i \in 1..m
                   PROVE  Cardinality(Granted(h, i, n)) <= Burst + Rate * (h[n][1] - h[i][1])
        OBVIOUS
      <4> DEFINE sum == Cardinality(Granted(h, i, n))
                 all == Rate * (instant - h[i][1])
      <4>1. sum = Cardinality(Granted(grants, i, m)) + cost /\ h[i] = grants[i]
        BY <2>1
      <4>2. Cardinality(Granted(grants, i, m)) \in Nat
        BY <1>9
      <4>3. sum + (full - cost) <= Burst + all
        BY <2>5
      <4>4. all \in Int /\ h[n][1] = instant
        BY <1>7, <1>8, <2>6, <4>1
      <4> HIDE DEF sum, all
      <4>5. sum <= Burst + all
        BY <1>0, <1>1, <1>11, <4>1, <4>2, <4>3, <4>4, SMTT(30)
      <4> QED
        BY <4>4, <4>5 DEF sum, all
    <3>3. Cardinality(Granted(h, n, n)) <= Burst + Rate * (h[n][1] - h[n][1])
      BY <1>0, <1>1, <1>11, <2>1, <2>6, SMTT(30)
    <3>4. \A j \in 1..m : ~ (n <= j)
      BY <1>0
    <3> HIDE DEF n
    <3>5. \A i, j \in 1..n :
            i <= j => Cardinality(Granted(h, i, j)) <= Burst + Rate * (h[j][1] - h[i][1])
      BY <2>3, <3>1, <3>2, <3>3, <3>4
    <3> QED
      BY <2>1, <2>2, <3>5 DEF RateHolds
  <2> QED
    BY <1>2, <2>4, <2>7, <2>8
    DEF PaceInv, ChannelInv, PacingHolds, FlushInTime, ChannelIdsOwn, flush_vars, mux_vars
<1> QED
  BY <1>2, <1>10, <1>11

(* A channel is opened or closed. *)
LEMMA MuxStep ==
  ASSUME PaceInv, NEW t \in Threads,
         Allocate(t) \/ Register(t) \/ \E i \in ChannelIds : MuxClose(t, i)
  PROVE  /\ ChannelInv' /\ ChannelIdsOwn' /\ next_id' \in Nat
         /\ channels' \in [ChannelIds -> Threads \cup {NoId}]
         /\ opening' \in [Threads -> ChannelIds \cup {NoId}]
         /\ held' \in [Threads -> SUBSET ChannelIds]
<1>0. /\ next_id \in Nat /\ NoId \in Nat /\ ChannelIds = 0..(NoId - 1)
      /\ channels \in [ChannelIds -> Threads \cup {NoId}]
      /\ opening \in [Threads -> ChannelIds \cup {NoId}]
      /\ held \in [Threads -> SUBSET ChannelIds]
  BY PacingAssumption DEF PaceInv, PaceTypeOK, NoId, ChannelIds
<1>1. ChannelInv /\ ChannelIdsOwn
  BY DEF PaceInv, PacingHolds
<1>2. \A i \in ChannelIds : i \in Nat /\ i # NoId
  BY <1>0
<1>3. CASE Allocate(t)
  <2>1. /\ next_id < NoId /\ opening' = [opening EXCEPT ![t] = next_id]
        /\ next_id' = next_id + 1 /\ UNCHANGED <<channels, held>>
    BY <1>3 DEF Allocate, NoId
  <2>2. next_id \in ChannelIds
    BY <1>0, <2>1, SMT
  <2>3. ChannelInv'
    BY <1>0, <1>1, <1>2, <2>1, <2>2, SMT DEF ChannelInv
  <2>4. ChannelIdsOwn'
    <3>1. \A u \in Threads : \A i \in held[u] : i # next_id
      BY <1>0, <1>1, <1>2, SMT DEF ChannelInv
    <3> QED
      BY <1>0, <1>1, <2>1, <3>1, SMT DEF ChannelIdsOwn
  <2> QED
    BY <1>0, <2>1, <2>2, <2>3, <2>4, SMT
<1>4. CASE Register(t)
  <2> DEFINE i == opening[t]
  <2>1. /\ i # NoId /\ channels' = [channels EXCEPT ![i] = t]
        /\ held' = [held EXCEPT ![t] = @ \cup {i}]
        /\ opening' = [opening EXCEPT ![t] = NoId] /\ UNCHANGED next_id
    BY <1>4 DEF Register
  <2>2. i \in ChannelIds /\ i < next_id
    BY <1>0, <1>1, <2>1 DEF ChannelInv
  <2>3. \A u \in Threads : i \notin held[u]
    BY <1>1 DEF ChannelIdsOwn
  <2>4. ChannelInv'
    BY <1>0, <1>1, <1>2, <2>1, <2>2 DEF ChannelInv
  <2>5. \A u \in Threads : opening'[u] # i
    BY <1>0, <1>1, <1>2, <2>1, <2>2 DEF ChannelInv
  <2> HIDE DEF i
  <2>6. \A u \in Threads : \A j \in held[u] : channels'[j] = u /\ \A v \in Threads : opening'[v] # j
    BY <1>0, <1>1, <1>2, <2>1, <2>2, <2>3, SMT DEF ChannelIdsOwn
  <2>7. channels'[i] = t
    BY <1>0, <2>1, <2>2
  <2>8. ChannelIdsOwn'
    BY <1>0, <2>1, <2>5, <2>6, <2>7, SMT DEF ChannelIdsOwn
  <2> QED
    BY <1>0, <2>1, <2>2, <2>4, <2>8
<1>5. ASSUME NEW i \in ChannelIds, MuxClose(t, i)
      PROVE  /\ ChannelInv' /\ ChannelIdsOwn' /\ next_id' \in Nat
             /\ channels' \in [ChannelIds -> Threads \cup {NoId}]
             /\ opening' \in [Threads -> ChannelIds \cup {NoId}]
             /\ held' \in [Threads -> SUBSET ChannelIds]
  <2>1. /\ i \in held[t] /\ channels' = [channels EXCEPT ![i] = NoId]
        /\ held' = [held EXCEPT ![t] = @ \ {i}] /\ UNCHANGED <<next_id, opening>>
    BY <1>5 DEF MuxClose
  <2>2. \A u \in Threads : u # t => i \notin held[u]
    BY <1>1, <2>1, SMT DEF ChannelIdsOwn
  <2>3. \A u \in Threads : i \notin held'[u] /\ held'[u] \subseteq held[u]
    BY <1>0, <2>1, <2>2
  <2>4. ChannelIdsOwn'
    BY <1>0, <1>1, <2>1, <2>3, SMT DEF ChannelIdsOwn
  <2>5. ChannelInv'
    BY <1>1, <2>1, <2>3 DEF ChannelInv
  <2> QED
    BY <1>0, <2>1, <2>4, <2>5
<1> QED
  BY <1>3, <1>4, <1>5

(* In every stretch of time a connection is given no more than its rate    *)
(* and its burst (TokenBucket), a panel that was polled is no further      *)
(* behind than its period (Coalescer), and a channel id belongs to one     *)
(* opener (Mux), for every rate, burst, period and number of threads.      *)
THEOREM PacingIsKept == PaceSpec => []PacingHolds
<1>1. PaceInv /\ [PaceNext]_pace_vars => PaceInv'
  <2> SUFFICES ASSUME PaceInv, [PaceNext]_pace_vars PROVE PaceInv'
    OBVIOUS
  <2>1. UNCHANGED bucket_vars => BudgetInv' /\ RateHolds'
    BY DEF PaceInv, PacingHolds, BudgetInv, RateHolds, bucket_vars
  <2>2. UNCHANGED mux_vars => ChannelInv' /\ ChannelIdsOwn'
    BY SMT DEF PaceInv, PacingHolds, ChannelInv, ChannelIdsOwn, mux_vars
  <2>3. ASSUME NEW a \in {"bucket", "coalescer", "mux"}, Choose(a) PROVE PaceInv'
    <3>1. UNCHANGED <<instant, bucket_vars, flush_vars, mux_vars>>
      BY <2>3 DEF Choose
    <3> QED
      BY <2>1, <2>2, <3>1
      DEF PaceInv, PaceTypeOK, PacingHolds, FlushInTime, bucket_vars, flush_vars, mux_vars
  <2>4. CASE PaceTick
    <3>1. /\ instant' = instant + 1 /\ polled' = FALSE
          /\ UNCHANGED <<bucket_vars, last_flush, mux_vars>>
      BY <2>4 DEF PaceTick
    <3> QED
      BY <2>1, <2>2, <3>1
      DEF PaceInv, PaceTypeOK, PacingHolds, FlushInTime, bucket_vars, mux_vars
  <2>5. CASE should_flush
    <3>1. /\ last_flush' = IF instant - last_flush >= Period(bucket) THEN instant ELSE last_flush
          /\ UNCHANGED <<instant, bucket, bucket_vars, mux_vars>>
      BY <2>5 DEF should_flush
    <3>2. Period(bucket) \in Nat \ {0} /\ Period(bucket)' = Period(bucket)
      BY <3>1, PacingAssumption DEF Period
    <3>3. instant \in Nat /\ last_flush \in Nat /\ last_flush <= instant
      BY DEF PaceInv, PaceTypeOK
    <3>4. /\ last_flush' \in Nat /\ last_flush' <= instant' /\ FlushInTime'
      BY <3>1, <3>2, <3>3 DEF FlushInTime
    <3> QED
      BY <2>1, <2>2, <3>1, <3>4 DEF PaceInv, PaceTypeOK, PacingHolds, bucket_vars, mux_vars
  <2>6. ASSUME NEW v \in Visibilities \cup {"unknown"}, SetPanel(v) PROVE PaceInv'
    <3>1. polled' = FALSE /\ UNCHANGED <<instant, last_flush, bucket_vars, mux_vars>>
      BY <2>6 DEF SetPanel
    <3> QED
      BY <2>1, <2>2, <3>1
      DEF PaceInv, PaceTypeOK, PacingHolds, FlushInTime, bucket_vars, mux_vars
  <2>7. ASSUME NEW t \in Threads,
               Allocate(t) \/ Register(t) \/ \E i \in ChannelIds : MuxClose(t, i)
        PROVE  PaceInv'
    <3>1. UNCHANGED <<instant, bucket_vars, flush_vars>>
      BY <2>7 DEF Allocate, Register, MuxClose
    <3>2. /\ ChannelInv' /\ ChannelIdsOwn' /\ next_id' \in Nat
          /\ channels' \in [ChannelIds -> Threads \cup {NoId}]
          /\ opening' \in [Threads -> ChannelIds \cup {NoId}]
          /\ held' \in [Threads -> SUBSET ChannelIds]
      BY <2>7, MuxStep
    <3> QED
      BY <2>1, <3>1, <3>2
      DEF PaceInv, PaceTypeOK, PacingHolds, FlushInTime, bucket_vars, flush_vars
  <2>8. CASE UNCHANGED pace_vars
    BY <2>1, <2>2, <2>8
    DEF pace_vars, PaceInv, PaceTypeOK, PacingHolds, FlushInTime, bucket_vars, flush_vars, mux_vars
  <2> QED
    BY <2>3, <2>4, <2>5, <2>6, <2>7, <2>8, ConsumeStep DEF PaceNext
<1>2. PaceInv => PacingHolds
  BY DEF PaceInv
<1> QED
  BY <1>1, <1>2, PaceStart, PTL DEF PaceSpec

-----------------------------------------------------------------------------
(* The clocks. *)
TableRows == [kind : {"row", "cut", "bad"}, node : ClockNodes, offset : TableOffsets]

(* The stamps of an exchange were taken one after the other; the node's    *)
(* are skewed.                                                             *)
InTurn(e, k, t) ==
  /\ Len(e) \in 0..4
  /\ Len(e) >= 1 => e[1] - k <= t
  /\ Len(e) >= 2 => e[1] - k <= e[2] /\ e[2] <= t
  /\ Len(e) >= 3 => e[2] <= e[3] /\ e[3] <= t
  /\ Len(e) = 4 => e[3] <= e[4] - k /\ e[4] - k <= t

ClockInv ==
  real \in Nat /\ skew \in Int /\ exchange \in Seq(Int) /\ InTurn(exchange, skew, real)

TableInv ==
  /\ rows \in Seq(TableRows) /\ newest \in [ClockNodes -> Int] /\ LoadGivesLatest

(* A division that cuts off is off by less than the divisor, and what is   *)
(* divided by more than its bound fits.                                    *)
LEMMA QuotientIs ==
  ASSUME NEW a \in Int, NEW d \in Nat \ {0}
  PROVE  /\ Quotient(a, d) \in Int
         /\ Quotient(a, d) * d < a + d /\ a - d < Quotient(a, d) * d
         /\ a >= 0 => Quotient(a, d) >= 0 /\ Quotient(a, d) * d <= a
         /\ a < 0 => Quotient(a, d) <= 0 /\ a <= Quotient(a, d) * d
<1>1. ASSUME NEW x \in Nat
      PROVE  x \div d \in Nat /\ (x \div d) * d <= x /\ x < (x \div d) * d + d
  OBVIOUS
<1>2. CASE a >= 0
  <2>1. a \in Nat /\ Quotient(a, d) = a \div d
    BY <1>2 DEF Quotient
  <2> DEFINE q == Quotient(a, d)
             p == Quotient(a, d) * d
  <2>2. q \in Nat /\ p <= a /\ a < p + d /\ p \in Int
    BY <1>1, <2>1, SMT
  <2> HIDE DEF q, p
  <2>3. q \in Int /\ q >= 0 /\ p < a + d /\ a - d < p
    BY <2>2
  <2> QED
    BY <1>2, <2>2, <2>3 DEF q, p
<1>3. CASE a < 0
  <2>1. -a \in Nat /\ Quotient(a, d) = -((-a) \div d)
    BY <1>3 DEF Quotient
  <2> DEFINE x == -a
             q == x \div d
             p == (x \div d) * d
  <2>2. q \in Nat /\ p <= x /\ x < p + d /\ p \in Int
    BY <1>1, <2>1, SMT
  <2>3. Quotient(a, d) = -q
    BY <2>1
  <2>4. (-q) * d = -p
    BY <2>2
  <2> HIDE DEF q, p
  <2>5. -q \in Int /\ -q <= 0 /\ -p < a + d /\ a - d < -p /\ a <= -p
    BY <2>2
  <2> QED
    BY <1>3, <2>3, <2>4, <2>5
<1> QED
  BY <1>2, <1>3

(* The order of multiples. *)
LEMMA MultiplesOrder ==
  ASSUME NEW x \in Int, NEW y \in Int, NEW d \in Nat \ {0}, x * d <= y * d
  PROVE  x <= y
<1> SUFFICES ASSUME y + 1 <= x PROVE FALSE
  OBVIOUS
<1>1. (x - y - 1) * d >= 0
  <2>1. x - y - 1 \in Nat
    OBVIOUS
  <2>2. \A m \in Nat : m * d >= 0
    OBVIOUS
  <2> QED
    BY <2>1, <2>2
<1>2. (x - y - 1) * d = x * d - y * d - d
  OBVIOUS
<1> DEFINE p == x * d
           q == y * d
<1>3. p \in Int /\ q \in Int /\ p <= q /\ p - q - d >= 0
  BY <1>1, <1>2
<1> HIDE DEF p, q
<1> QED
  BY <1>3

(* The estimate from an exchange whose stamps were taken in turn.          *)
LEMMA EstimateIs ==
  ASSUME NEW e \in Seq(Int), NEW k \in Int, NEW t \in Nat, InTurn(e, k, t), Len(e) = 4
  PROVE  LET m == estimate_offset_rtt_ms(e[1], e[2], e[3], e[4])
             trip == (e[4] - e[1]) - (e[3] - e[2])
             far == 2 * OffsetMax * Nanos - trip
             error == m.offset * Nanos + k
             bound == (m.rtt + 1) * Nanos
         IN  /\ m \in [offset : Int, rtt : Int]
             /\ \/ 2 * k \notin -far .. far
                \/ /\ 2 * error <= bound + 2 * Nanos
                   /\ -2 * error <= bound + 2 * Nanos
                   /\ m.rtt >= 0
<1> DEFINE m == estimate_offset_rtt_ms(e[1], e[2], e[3], e[4])
           trip == (e[4] - e[1]) - (e[3] - e[2])
           s == (e[2] - e[1]) + (e[3] - e[4])
           h == Quotient(s, 2)
           off == Quotient(h, Nanos)
           rtt == Quotient(trip, Nanos)
           top == OffsetMax * Nanos
<1>0. Nanos \in Nat \ {0} /\ OffsetMax \in Nat /\ top \in Nat
  <2>1. Nanos \in Nat \ {0} /\ OffsetMax \in Nat
    BY ClockAssumption
  <2>2. \A a, b \in Nat : a * b \in Nat
    OBVIOUS
  <2> QED
    BY <2>1, <2>2
<1>1. e[1] \in Int /\ e[2] \in Int /\ e[3] \in Int /\ e[4] \in Int
  BY ElementOfSeq, SMT
<1>2. /\ trip \in Nat /\ s \in Int
      /\ s + 2 * k <= trip /\ -trip <= s + 2 * k
  <2>1. e[1] - k <= e[2] /\ e[2] <= e[3] /\ e[3] <= e[4] - k
    BY DEF InTurn
  <2> DEFINE t1 == e[1]
             t2 == e[2]
             t3 == e[3]
             t4 == e[4]
  <2>2. /\ t1 \in Int /\ t2 \in Int /\ t3 \in Int /\ t4 \in Int
        /\ t1 - k <= t2 /\ t2 <= t3 /\ t3 <= t4 - k
        /\ trip = (t4 - t1) - (t3 - t2) /\ s = (t2 - t1) + (t3 - t4)
    BY <1>1, <2>1
  <2> HIDE DEF t1, t2, t3, t4, trip, s
  <2> QED
    BY <2>2
<1>3. m = [offset |-> IF off \in -(OffsetMax + 1) .. OffsetMax THEN off ELSE OffsetMax, rtt |-> rtt]
  <2>1. (IF trip > 0 THEN trip ELSE 0) = trip
    BY <1>2
  <2> QED
    BY <2>1 DEF estimate_offset_rtt_ms
<1> HIDE DEF m, trip, s
<1>4. h \in Int /\ h * 2 < s + 2 /\ s - 2 < h * 2
  <2>1. 2 \in Nat \ {0}
    OBVIOUS
  <2> QED
    BY <1>2, <2>1, QuotientIs, Zenon
<1>5. 2 * h <= s + 1 /\ s - 1 <= 2 * h
  BY <1>2, <1>4
<1> HIDE DEF h
<1>6. /\ off \in Int /\ off * Nanos < h + Nanos /\ h - Nanos < off * Nanos
      /\ h >= 0 => off >= 0 /\ off * Nanos <= h
      /\ h < 0 => off <= 0 /\ h <= off * Nanos
  BY <1>0, <1>4, QuotientIs, Zenon
<1>7. rtt \in Int /\ rtt >= 0 /\ trip - Nanos < rtt * Nanos
  <2>1. trip \in Int /\ trip >= 0
    BY <1>2
  <2> QED
    BY <1>0, <2>1, QuotientIs, Zenon
<1> HIDE DEF off, rtt
<1>8. m \in [offset : Int, rtt : Int] /\ m.rtt = rtt
  BY <1>0, <1>3, <1>6, <1>7
<1>9. ASSUME 2 * k \in -(2 * top - trip) .. (2 * top - trip)
      PROVE  /\ 2 * (off * Nanos + k) <= (rtt + 1) * Nanos + 2 * Nanos
             /\ -2 * (off * Nanos + k) <= (rtt + 1) * Nanos + 2 * Nanos
             /\ m.offset = off
  <2>1. h <= top /\ -top <= h
    <3> HIDE DEF top
    <3> QED
      BY <1>0, <1>2, <1>4, <1>5, <1>9
  <2>2. off <= OffsetMax
    <3>1. CASE h < 0
      BY <1>0, <1>6, <3>1
    <3>2. CASE h >= 0
      <4>1. off * Nanos <= OffsetMax * Nanos
        <5> DEFINE p == off * Nanos
        <5>1. p \in Int /\ p <= h
          BY <1>0, <1>6, <3>2
        <5> HIDE DEF p, top
        <5>2. p <= top
          BY <1>0, <1>4, <2>1, <5>1
        <5> QED
          BY <5>2 DEF p, top
      <4> QED
        BY <1>0, <1>6, <4>1, MultiplesOrder
    <3> QED
      BY <1>4, <3>1, <3>2
  <2>3. -OffsetMax <= off
    <3>1. CASE h >= 0
      BY <1>0, <1>6, <3>1
    <3>2. CASE h < 0
      <4>1. (-OffsetMax) * Nanos <= off * Nanos
        <5> DEFINE p == off * Nanos
        <5>1. p \in Int /\ h <= p
          BY <1>0, <1>6, <3>2
        <5>2. (-OffsetMax) * Nanos = -top
          BY <1>0
        <5> HIDE DEF p, top
        <5>3. -top <= p
          BY <1>0, <1>4, <2>1, <5>1
        <5> QED
          BY <5>2, <5>3 DEF p
      <4>2. -OffsetMax \in Int
        BY <1>0
      <4> QED
        BY <1>0, <1>6, <4>1, <4>2, MultiplesOrder
    <3> QED
      BY <1>4, <3>1, <3>2
  <2>4. m.offset = off
    <3>1. off \in -(OffsetMax + 1) .. OffsetMax
      BY <1>0, <1>6, <2>2, <2>3
    <3> QED
      BY <1>3, <3>1
  <2> DEFINE p == off * Nanos
             q == rtt * Nanos
  <2>5. p \in Int /\ p < h + Nanos /\ h - Nanos < p /\ q \in Int /\ trip - Nanos < q
    BY <1>0, <1>6, <1>7
  <2>6. (rtt + 1) * Nanos = q + Nanos
    BY <1>0, <1>7
  <2> HIDE DEF p, q
  <2>7. 2 * (p + k) <= q + Nanos + 2 * Nanos /\ -2 * (p + k) <= q + Nanos + 2 * Nanos
    BY <1>0, <1>2, <1>4, <1>5, <2>5
  <2> QED
    BY <2>4, <2>6, <2>7 DEF p
<1>10. 2 * OffsetMax * Nanos = 2 * top
  BY <1>0
<1>11. 2 * k \notin -(2 * OffsetMax * Nanos - trip) .. (2 * OffsetMax * Nanos - trip)
         \/ 2 * k \in -(2 * top - trip) .. (2 * top - trip)
  BY <1>10
<1> QED
  BY <1>7, <1>8, <1>9, <1>11 DEF m, trip

(* A row that is appended replaces the entry of its node in what is loaded. *)
LEMMA LoadAppended ==
  ASSUME NEW f \in Seq(TableRows), NEW n \in ClockNodes, NEW e \in TableOffsets
  PROVE  LET r == [kind |-> "row", node |-> n, offset |-> e]
         IN  load_jsonl(Append(f, r)) = [load_jsonl(f) EXCEPT ![n] = e]
<1> DEFINE r == [kind |-> "row", node |-> n, offset |-> e]
           h == Append(f, r)
           l == Len(f) + 1
<1>1. /\ r \in TableRows /\ r.kind = "row" /\ r.node = n /\ r.offset = e
  BY DEF TableRows
<1> HIDE DEF r
<1>2. Len(f) \in Nat /\ Len(h) = l /\ h[l] = r /\ \A k \in 1..Len(f) : h[k] = f[k]
  BY <1>1, AppendProperties, LenProperties, SMT
<1> HIDE DEF h
<1>3. 1..l = (1..Len(f)) \cup {l} /\ l \in Nat /\ l \notin 1..Len(f)
  BY <1>2
<1>4. \A k \in 1..Len(f) : k <= l
  BY <1>2
<1> HIDE DEF l
<1>5. RowsOf(h, n) = RowsOf(f, n) \cup {l}
  BY <1>1, <1>2, <1>3 DEF RowsOf
<1>6. \A m \in ClockNodes \ {n} : RowsOf(h, m) = RowsOf(f, m)
  BY <1>1, <1>2, <1>3 DEF RowsOf
<1>7. Max(RowsOf(h, n)) = l
  <2>1. RowsOf(h, n) \in SUBSET (1..l) /\ RowsOf(h, n) # {} /\ l \in RowsOf(h, n)
    BY <1>3, <1>5 DEF RowsOf
  <2>2. Max(RowsOf(h, n)) \in RowsOf(h, n) /\ l <= Max(RowsOf(h, n))
    BY <1>3, <2>1, GreatestIs, Zenon
  <2>3. Max(RowsOf(h, n)) \in 1..l
    BY <2>1, <2>2
  <2> QED
    BY <1>3, <2>2, <2>3, SMT
<1>8. ASSUME NEW m \in ClockNodes \ {n}, RowsOf(f, m) # {}
      PROVE  h[Max(RowsOf(f, m))] = f[Max(RowsOf(f, m))]
  <2>1. RowsOf(f, m) \in SUBSET (1..Len(f))
    BY DEF RowsOf
  <2>2. Max(RowsOf(f, m)) \in RowsOf(f, m)
    BY <1>2, <1>8, <2>1, GreatestIs, Zenon
  <2> QED
    BY <1>2, <2>1, <2>2
<1>9. load_jsonl(h)[n] = e
  BY <1>1, <1>2, <1>5, <1>7, Zenon DEF load_jsonl
<1>10. \A m \in ClockNodes \ {n} : load_jsonl(h)[m] = load_jsonl(f)[m]
  BY <1>6, <1>8 DEF load_jsonl
<1>11. load_jsonl(h) = [load_jsonl(f) EXCEPT ![n] = e]
  BY <1>9, <1>10, Zenon DEF load_jsonl
<1> QED
  BY <1>11 DEF h, r

(* A stamp is taken in turn; so are those that were, when time passes.     *)
LEMMA StampTaken ==
  ASSUME NEW e \in Seq(Int), NEW k \in Int, NEW t \in Nat, InTurn(e, k, t)
  PROVE  /\ InTurn(e, k, t + 1)
         /\ Len(e) < 4 => LET x == IF Len(e) \in {0, 3} THEN t + k ELSE t
                          IN  Append(e, x) \in Seq(Int) /\ InTurn(Append(e, x), k, t)
<1>1. Len(e) \in 0..4 /\ \A i \in 1..Len(e) : e[i] \in Int
  BY ElementOfSeq DEF InTurn
<1>2. InTurn(e, k, t + 1)
  BY <1>1, SMT DEF InTurn
<1>3. ASSUME Len(e) < 4
      PROVE  LET x == IF Len(e) \in {0, 3} THEN t + k ELSE t
             IN  Append(e, x) \in Seq(Int) /\ InTurn(Append(e, x), k, t)
  <2> DEFINE x == IF Len(e) \in {0, 3} THEN t + k ELSE t
             h == Append(e, x)
  <2>1. x \in Int
    OBVIOUS
  <2>2. /\ h \in Seq(Int) /\ Len(h) = Len(e) + 1 /\ h[Len(e) + 1] = x
        /\ \A i \in 1..Len(e) : h[i] = e[i]
    <3> HIDE DEF x
    <3> QED
      BY <2>1, AppendProperties, SMT
  <2> HIDE DEF h
  <2>3. ASSUME Len(e) = 0 PROVE InTurn(h, k, t)
    BY <2>2, <2>3, SMT DEF InTurn
  <2>4. ASSUME Len(e) = 1 PROVE InTurn(h, k, t)
    <3>1. Len(h) = 2 /\ h[1] = e[1] /\ h[2] = t /\ e[1] \in Int /\ e[1] - k <= t
      BY <1>1, <2>2, <2>4, SMT DEF InTurn
    <3> QED
      BY <3>1 DEF InTurn
  <2>5. ASSUME Len(e) = 2 PROVE InTurn(h, k, t)
    <3>1. /\ Len(h) = 3 /\ h[1] = e[1] /\ h[2] = e[2] /\ h[3] = t
          /\ e[1] \in Int /\ e[2] \in Int
      BY <1>1, <2>2, <2>5, SMT
    <3>2. e[1] - k <= t /\ e[1] - k <= e[2] /\ e[2] <= t
      BY <2>5 DEF InTurn
    <3> QED
      BY <3>1, <3>2 DEF InTurn
  <2>6. ASSUME Len(e) = 3 PROVE InTurn(h, k, t)
    <3>1. /\ Len(h) = 4 /\ h[1] = e[1] /\ h[2] = e[2] /\ h[3] = e[3] /\ h[4] = t + k
          /\ e[1] \in Int /\ e[2] \in Int /\ e[3] \in Int
      BY <1>1, <2>2, <2>6, SMT
    <3>2. e[1] - k <= t /\ e[1] - k <= e[2] /\ e[2] <= t /\ e[2] <= e[3] /\ e[3] <= t
      BY <2>6 DEF InTurn
    <3> QED
      BY <3>1, <3>2 DEF InTurn
  <2>7. InTurn(h, k, t)
    <3>1. Len(e) = 0 \/ Len(e) = 1 \/ Len(e) = 2 \/ Len(e) = 3
      BY <1>1, <1>3, SMT
    <3> QED
      BY <2>3, <2>4, <2>5, <2>6, <3>1, Zenon
  <2> QED
    BY <2>2, <2>7 DEF h
<1> QED
  BY <1>2, <1>3

(* No exchange.                                                            *)
LEMMA ClockStart == ClockInit => ClockInv
<1> SUFFICES ASSUME ClockInit PROVE ClockInv
  OBVIOUS
<1>1. skew \in Int
  <2>1. \A s \in Skews : s \in Int /\ -s \in Int
    BY ClockAssumption
  <2> QED
    BY <2>1 DEF ClockInit
<1> QED
  BY <1>1 DEF ClockInit, ClockInv, InTurn

(* Time passes and stamps are taken.                                       *)
LEMMA ClockStep == ClockInv /\ [ClockNext]_clock_vars => ClockInv'
<1> SUFFICES ASSUME ClockInv, [ClockNext]_clock_vars PROVE ClockInv'
  OBVIOUS
<1>0. real \in Nat /\ skew \in Int /\ exchange \in Seq(Int) /\ InTurn(exchange, skew, real)
  BY DEF ClockInv
<1>1. CASE PassClock
  <2>1. real' = real + 1 /\ UNCHANGED <<skew, exchange>>
    BY <1>1 DEF PassClock
  <2>2. InTurn(exchange, skew, real + 1)
    BY <1>0, StampTaken
  <2> QED
    BY <1>0, <2>1, <2>2 DEF ClockInv
<1>2. CASE Stamp
  <2> DEFINE x == IF Len(exchange) \in {0, 3} THEN real + skew ELSE real
  <2>1. Len(exchange) < 4 /\ exchange' = Append(exchange, x) /\ UNCHANGED <<real, skew>>
    BY <1>2 DEF Stamp
  <2>2. Append(exchange, x) \in Seq(Int) /\ InTurn(Append(exchange, x), skew, real)
    BY <1>0, <2>1, StampTaken
  <2> HIDE DEF x
  <2> QED
    BY <1>0, <2>1, <2>2 DEF ClockInv
<1>3. CASE UNCHANGED clock_vars
  BY <1>0, <1>3 DEF clock_vars, ClockInv
<1> QED
  BY <1>1, <1>2, <1>3 DEF ClockNext

(* What the estimate of a finished exchange says.                          *)
LEMMA ClockSays == ClockInv => OffsetWithinRtt
<1> SUFFICES ASSUME ClockInv, Len(exchange) = 4
             PROVE  LET m == Measured
                        error == m.offset * Nanos + skew
                        bound == (m.rtt + 1) * Nanos
                        far == 2 * OffsetMax * Nanos - Trip
                    IN  \/ 2 * skew \notin -far .. far
                        \/ /\ 2 * error <= bound + 2 * Nanos
                           /\ -2 * error <= bound + 2 * Nanos
                           /\ m.rtt >= 0
  BY DEF OffsetWithinRtt
<1>1. exchange \in Seq(Int) /\ skew \in Int /\ real \in Nat /\ InTurn(exchange, skew, real)
  BY DEF ClockInv
<1> QED
  BY <1>1, EstimateIs, Zenon DEF Measured, Trip

(* A line that does not parse changes nothing in what is loaded.           *)
LEMMA LoadUnparsed ==
  ASSUME NEW f \in Seq(TableRows), NEW g \in TableRows, g.kind # "row"
  PROVE  /\ load_jsonl(Append(f, g)) = load_jsonl(f) /\ Append(f, g) \in Seq(TableRows)
         /\ \E k \in DOMAIN Append(f, g) : Append(f, g)[k].kind # "row"
<1> DEFINE h == Append(f, g)
<1>1. /\ Len(f) \in Nat /\ Len(h) = Len(f) + 1 /\ h[Len(f) + 1] = g
      /\ \A k \in 1..Len(f) : h[k] = f[k]
      /\ h \in Seq(TableRows)
  BY AppendProperties, LenProperties, SMT
<1> HIDE DEF h
<1>2. 1..Len(h) = (1..Len(f)) \cup {Len(f) + 1} /\ DOMAIN h = 1..Len(h)
  BY <1>1, LenProperties
<1>3. \A n \in ClockNodes : RowsOf(h, n) = RowsOf(f, n)
  BY <1>1, <1>2 DEF RowsOf
<1>4. ASSUME NEW n \in ClockNodes, RowsOf(f, n) # {}
      PROVE  h[Max(RowsOf(f, n))] = f[Max(RowsOf(f, n))]
  <2>1. RowsOf(f, n) \in SUBSET (1..Len(f))
    BY DEF RowsOf
  <2>2. Max(RowsOf(f, n)) \in RowsOf(f, n)
    BY <1>1, <1>4, <2>1, GreatestIs, Zenon
  <2> QED
    BY <1>1, <2>1, <2>2
<1>5. load_jsonl(h) = load_jsonl(f)
  BY <1>3, <1>4, Zenon DEF load_jsonl
<1>6. \E k \in DOMAIN h : h[k].kind # "row"
  BY <1>1, <1>2
<1> QED
  BY <1>1, <1>5, <1>6 DEF h

(* A row after the last, on a line of its own.                             *)
LEMMA RowAppended ==
  ASSUME TableInv, NEW n \in ClockNodes, NEW o \in TableOffsets, AppendRow(n, o), ~ AfterPiece
  PROVE  TableInv'
<1> DEFINE r == [kind |-> "row", node |-> n, offset |-> o]
<1>0. /\ rows \in Seq(TableRows) /\ newest \in [ClockNodes -> Int] /\ o \in Int
      /\ \A m \in ClockNodes \ joined : load_jsonl(rows)[m] = newest[m]
      /\ read_all <=> intact_
  BY ClockAssumption DEF TableInv, LoadGivesLatest
<1>1. /\ rows' = Append(rows, r) /\ newest' = [newest EXCEPT ![n] = o]
      /\ joined' = joined \ {n} /\ intact_' = intact_
  BY DEF AppendRow
<1>2. r \in TableRows /\ r.kind = "row"
  BY DEF TableRows
<1>3. load_jsonl(rows') = [load_jsonl(rows) EXCEPT ![n] = o]
  BY <1>0, <1>1, LoadAppended, Zenon
<1> HIDE DEF r
<1>4. load_jsonl(rows) \in [ClockNodes -> {load_jsonl(rows)[m] : m \in ClockNodes}]
  BY DEF load_jsonl
<1>5. newest' \in [ClockNodes -> Int]
  BY <1>0, <1>1
<1>6. ASSUME NEW m \in ClockNodes \ joined' PROVE load_jsonl(rows')[m] = newest'[m]
  <2>1. CASE m = n
    BY <1>0, <1>1, <1>3, <1>4, <2>1
  <2>2. CASE m # n
    <3>1. m \in ClockNodes \ joined
      BY <1>1, <1>6, <2>2
    <3> QED
      BY <1>0, <1>1, <1>3, <1>4, <2>2, <3>1
  <2> QED
    BY <2>1, <2>2
<1>7. /\ rows' \in Seq(TableRows) /\ Len(rows) \in Nat /\ Len(rows') = Len(rows) + 1
      /\ rows'[Len(rows) + 1] = r /\ \A k \in 1..Len(rows) : rows'[k] = rows[k]
  BY <1>0, <1>1, <1>2, AppendProperties, LenProperties, SMT
<1>8. DOMAIN rows = 1..Len(rows) /\ DOMAIN rows' = (1..Len(rows)) \cup {Len(rows) + 1}
  BY <1>0, <1>7, LenProperties
<1>9. read_all' <=> read_all
  BY <1>2, <1>7, <1>8 DEF read_all
<1> QED
  BY <1>0, <1>1, <1>5, <1>6, <1>7, <1>9 DEF TableInv, LoadGivesLatest

(* A file whose last line is a piece, without that line.                   *)
LEMMA PieceIsLast ==
  ASSUME NEW f \in Seq(TableRows), f # <<>>
  PROVE  LET g == SubSeq(f, 1, Len(f) - 1)
         IN  /\ Len(f) \in Nat \ {0} /\ f[Len(f)] \in TableRows
             /\ g \in Seq(TableRows) /\ f = Append(g, f[Len(f)])
<1> DEFINE g == SubSeq(f, 1, Len(f) - 1)
           h == Append(g, f[Len(f)])
<1>1. Len(f) \in Nat \ {0} /\ f[Len(f)] \in TableRows
  <2>1. Len(f) \in Nat \ {0}
    BY EmptySeq, LenProperties
  <2>2. Len(f) \in 1..Len(f)
    BY <2>1
  <2> QED
    BY <2>1, <2>2, ElementOfSeq
<1>2. /\ g \in Seq(TableRows) /\ Len(g) = Len(f) - 1
      /\ \A k \in 1..(Len(f) - 1) : g[k] = f[k]
  <2>1. PICK m \in Nat : m = Len(f) - 1
    BY <1>1
  <2>2. \A k \in 1..m : k \in 1..Len(f)
    BY <1>1, <2>1
  <2>3. \A k \in 1..m : f[k] \in TableRows
    BY <2>2, ElementOfSeq
  <2>4. SubSeq(f, 1, m) \in Seq(TableRows) /\ Len(SubSeq(f, 1, m)) = m
        /\ \A k \in 1..m : SubSeq(f, 1, m)[k] = f[k]
    BY <2>3, SubSeqProperties, SMT
  <2> QED
    BY <2>1, <2>4
<1> HIDE DEF g
<1>3. /\ h \in Seq(TableRows) /\ Len(h) = Len(f) /\ h[Len(f)] = f[Len(f)]
      /\ \A k \in 1..(Len(f) - 1) : h[k] = f[k]
  BY <1>1, <1>2, AppendProperties, SMT
<1>4. \A k \in 1..Len(f) : k \in 1..(Len(f) - 1) \/ k = Len(f)
  BY <1>1
<1>5. f = h
  <2>1. \A k \in 1..Len(f) : f[k] = h[k]
    BY <1>3, <1>4
  <2> HIDE DEF h
  <2> QED
    BY <1>3, <2>1, SeqEqual
<1> QED
  BY <1>1, <1>2, <1>5 DEF g, h

(* A row after a piece: both are lost, and nothing else.                   *)
LEMMA RowJoined ==
  ASSUME TableInv, NEW n \in ClockNodes, NEW o \in TableOffsets, AppendRow(n, o), AfterPiece
  PROVE  TableInv'
<1> DEFINE g == SubSeq(rows, 1, Len(rows) - 1)
           c == rows[Len(rows)]
           r == [kind |-> "bad", node |-> n, offset |-> o]
<1>0. /\ rows \in Seq(TableRows) /\ newest \in [ClockNodes -> Int] /\ o \in Int
      /\ \A m \in ClockNodes \ joined : load_jsonl(rows)[m] = newest[m]
      /\ read_all <=> intact_
  BY ClockAssumption DEF TableInv, LoadGivesLatest
<1>1. /\ rows' = Append(g, r) /\ newest' = [newest EXCEPT ![n] = o]
      /\ joined' = joined \cup {n} /\ intact_' = intact_
  BY DEF AppendRow
<1>2. r \in TableRows /\ r.kind # "row"
  BY DEF TableRows
<1>3. g \in Seq(TableRows) /\ rows = Append(g, c) /\ c \in TableRows /\ c.kind # "row"
  BY <1>0, PieceIsLast, Zenon DEF AfterPiece
<1> HIDE DEF r, c, g
<1>4. load_jsonl(rows) = load_jsonl(g) /\ \E k \in DOMAIN rows : rows[k].kind # "row"
  BY <1>3, LoadUnparsed
<1>5. /\ load_jsonl(rows') = load_jsonl(g) /\ rows' \in Seq(TableRows)
      /\ \E k \in DOMAIN rows' : rows'[k].kind # "row"
  BY <1>1, <1>2, <1>3, LoadUnparsed
<1>6. ~ read_all /\ ~ read_all'
  BY <1>4, <1>5 DEF read_all
<1>7. newest' \in [ClockNodes -> Int]
  BY <1>0, <1>1
<1>8. ASSUME NEW m \in ClockNodes \ joined' PROVE load_jsonl(rows')[m] = newest'[m]
  <2>1. m \in ClockNodes \ joined /\ m # n
    BY <1>1, <1>8
  <2> QED
    BY <1>0, <1>1, <1>4, <1>5, <2>1
<1> QED
  BY <1>0, <1>1, <1>5, <1>6, <1>7, <1>8 DEF TableInv, LoadGivesLatest

(* A piece of a row.                                                       *)
LEMMA PieceAppended ==
  ASSUME TableInv, NEW n \in ClockNodes, NEW o \in TableOffsets, CutRow(n, o)
  PROVE  TableInv'
<1> DEFINE r == [kind |-> "cut", node |-> n, offset |-> o]
<1>0. /\ rows \in Seq(TableRows) /\ newest \in [ClockNodes -> Int]
      /\ \A m \in ClockNodes \ joined : load_jsonl(rows)[m] = newest[m]
  BY DEF TableInv, LoadGivesLatest
<1>1. ~ intact_' /\ UNCHANGED <<newest, joined>>
  BY DEF CutRow
<1>2. CASE AfterPiece
  <2>1. rows' = rows
    BY <1>2 DEF CutRow
  <2>2. Len(rows) \in DOMAIN rows /\ rows[Len(rows)].kind # "row"
    BY <1>0, <1>2, PieceIsLast, LenProperties, SMT DEF AfterPiece
  <2>3. ~ read_all'
    BY <2>1, <2>2 DEF read_all
  <2> QED
    BY <1>0, <1>1, <2>1, <2>3 DEF TableInv, LoadGivesLatest
<1>3. CASE ~ AfterPiece
  <2>1. rows' = Append(rows, r)
    BY <1>3 DEF CutRow
  <2>2. r \in TableRows /\ r.kind # "row"
    BY DEF TableRows
  <2> HIDE DEF r
  <2>3. /\ load_jsonl(rows') = load_jsonl(rows) /\ rows' \in Seq(TableRows)
        /\ \E k \in DOMAIN rows' : rows'[k].kind # "row"
    BY <1>0, <2>1, <2>2, LoadUnparsed
  <2>4. ~ read_all'
    BY <2>3 DEF read_all
  <2> QED
    BY <1>0, <1>1, <2>3, <2>4 DEF TableInv, LoadGivesLatest
<1> QED
  BY <1>2, <1>3

(* No row, and then rows and pieces of rows.                               *)
LEMMA TableHolds == TableSpec => []TableInv
<1>1. TableInit => TableInv
  <2> SUFFICES ASSUME TableInit PROVE TableInv
    OBVIOUS
  <2>1. \A n \in ClockNodes : RowsOf(rows, n) = {}
    BY DEF TableInit, RowsOf
  <2>2. load_jsonl(rows) = newest
    BY <2>1 DEF TableInit, load_jsonl
  <2>3. rows \in Seq(TableRows) /\ newest \in [ClockNodes -> Int] /\ read_all /\ intact_
    BY DEF TableInit, NotMeasured, read_all
  <2> QED
    BY <2>2, <2>3 DEF TableInv, LoadGivesLatest
<1>2. TableInv /\ [TableNext]_table_vars => TableInv'
  <2>1. ASSUME TableInv, UNCHANGED table_vars PROVE TableInv'
    BY <2>1 DEF table_vars, TableInv, LoadGivesLatest, read_all
  <2> QED
    BY <2>1, RowAppended, RowJoined, PieceAppended DEF TableNext
<1> QED
  BY <1>1, <1>2, PTL DEF TableSpec

(* For any clocks, delays, nodes and rows: the estimate of an exchange is  *)
(* as good as its round trip allows (estimate_offset_rtt_ms), and          *)
(* load_jsonl gives for each node the offset that append_jsonl wrote last  *)
(* for it, except where a row ran into the piece of another.               *)
THEOREM ClocksAreTrue == ClockSpec /\ TableSpec => []ClockTableTrue
<1>1. ClockInv /\ TableInv => ClockTableTrue
  BY ClockSays DEF TableInv, ClockTableTrue
<1>2. ClockSpec => []ClockInv
  BY ClockStart, ClockStep, PTL DEF ClockSpec
<1> QED
  BY <1>1, <1>2, TableHolds, PTL

-----------------------------------------------------------------------------
(* The bounded queues. *)
Queueable == [id : Nat, len : Nat]

QTypeOK ==
  /\ kind \in QueueKinds \cup {"none"} /\ queued \in Seq(Queueable) /\ taken \in Seq(Nat)
  /\ used \in Nat /\ dropped \in Nat /\ missed \in Nat /\ pushed \in Nat

(* What was taken, and then what is queued, is in the order of the pushes. *)
InOrder(q, out, p) ==
  /\ \A i \in 1..Len(q) : q[i].id <= p
  /\ \A i, j \in 1..Len(q) : i < j => q[i].id < q[j].id
  /\ \A i \in 1..Len(out) : out[i] <= p
  /\ \A i, j \in 1..Len(out) : i < j => out[i] < out[j]
  /\ \A i \in 1..Len(out), j \in 1..Len(q) : out[i] < q[j].id

QueueInv ==
  /\ QTypeOK /\ InOrder(queued, taken, pushed)
  /\ Len(taken) + Len(queued) + dropped + missed = pushed
  /\ kind = "none" => queued = <<>> /\ used = 0
  /\ QueueBounded

(* The rest of a queue after its first n entries. *)
Rest(q, n) == SubSeq(q, n + 1, Len(q))

(* What the rest is, and that it is in order. *)
LEMMA RestIs ==
  ASSUME NEW q \in Seq(Queueable), NEW n \in 0..Len(q)
  PROVE  /\ Rest(q, n) \in Seq(Queueable) /\ Len(Rest(q, n)) = Len(q) - n
         /\ \A i \in 1..(Len(q) - n) : Rest(q, n)[i] = q[n + i] /\ n + i \in 1..Len(q)
<1>0. Len(q) \in Nat /\ n \in Nat /\ n <= Len(q)
  BY LenProperties
<1>1. \A i \in (n + 1)..Len(q) : i \in 1..Len(q) /\ q[i] \in Queueable
  <2>1. \A i \in (n + 1)..Len(q) : i \in 1..Len(q)
    BY <1>0
  <2> QED
    BY <2>1, ElementOfSeq
<1>2. \A i \in 1..(Len(q) - n) : n + i \in 1..Len(q)
  BY <1>0
<1>3. CASE n = Len(q)
  <2>1. n + 1 > Len(q) /\ Len(q) - n = 0
    BY <1>0, <1>3
  <2>2. Rest(q, n) = <<>>
    BY <1>0, <2>1, SubSeqEmpty DEF Rest
  <2> QED
    BY <2>1, <2>2
<1>4. CASE n < Len(q)
  <2>1. /\ n + 1 \in Int /\ Len(q) \in Int /\ n + 1 <= Len(q)
        /\ Len(q) - (n + 1) + 1 = Len(q) - n
        /\ \A i \in 1..(Len(q) - n) : (n + 1) + i - 1 = n + i
    BY <1>0, <1>4
  <2>2. /\ Rest(q, n) \in Seq(Queueable) /\ Len(Rest(q, n)) = Len(q) - (n + 1) + 1
        /\ \A i \in 1..(Len(q) - (n + 1) + 1) : Rest(q, n)[i] = q[(n + 1) + i - 1]
    BY <1>1, <2>1, SubSeqProperties, SMT DEF Rest
  <2> QED
    BY <1>2, <2>1, <2>2
<1> QED
  BY <1>0, <1>3, <1>4

(* The tail is the rest after one. *)
LEMMA TailIs ==
  ASSUME NEW q \in Seq(Queueable), q # <<>>
  PROVE  Tail(q) = Rest(q, 1) /\ 1 \in 0..Len(q) /\ Head(q) = q[1]
<1>1. Len(q) \in Nat /\ Len(q) # 0 /\ 1 \in 0..Len(q)
  BY LenProperties, EmptySeq, SMTT(30)
<1>2. /\ Tail(q) \in Seq(Queueable) /\ Len(Tail(q)) = Len(q) - 1 /\ Head(q) = q[1]
      /\ \A i \in 1..Len(Tail(q)) : Tail(q)[i] = q[i + 1]
  BY HeadTailProperties, SMT
<1>3. /\ Rest(q, 1) \in Seq(Queueable) /\ Len(Rest(q, 1)) = Len(q) - 1
      /\ \A i \in 1..(Len(q) - 1) : Rest(q, 1)[i] = q[1 + i]
  BY <1>1, RestIs
<1>4. \A i \in 1..(Len(q) - 1) : 1 + i = i + 1
  OBVIOUS
<1> QED
  BY <1>1, <1>2, <1>3, <1>4, SeqEqual, SMT

(* Order is kept when entries are dropped at the front and a new one comes *)
(* at the end.                                                             *)
LEMMA OrderKept ==
  ASSUME NEW q \in Seq(Queueable), NEW out \in Seq(Nat), NEW p \in Nat, InOrder(q, out, p),
         NEW n \in 0..Len(q), NEW e \in Queueable, e.id = p + 1
  PROVE  /\ InOrder(Rest(q, n), out, p + 1)
         /\ Append(Rest(q, n), e) \in Seq(Queueable)
         /\ Len(Append(Rest(q, n), e)) = Len(q) - n + 1
         /\ InOrder(Append(Rest(q, n), e), out, p + 1)
<1> DEFINE r == Rest(q, n)
           s == Append(r, e)
           l == Len(q) - n
<1>1. /\ r \in Seq(Queueable) /\ Len(r) = l /\ l \in Nat
      /\ \A i \in 1..l : r[i] = q[n + i] /\ n + i \in 1..Len(q)
  BY LenProperties, RestIs
<1>2. \A i \in 1..l : r[i] \in Queueable
  BY <1>1, ElementOfSeq
<1>3. \A i \in 1..l : r[i].id \in Nat
  BY <1>2 DEF Queueable
<1>4. \A i \in 1..Len(out) : out[i] \in Nat
  BY ElementOfSeq
<1> HIDE DEF r
<1>5. InOrder(r, out, p)
  <2>1. \A i, j \in 1..l : i < j => n + i < n + j
    BY <1>1, SMTT(30)
  <2>2. /\ \A i \in 1..Len(q) : q[i].id <= p
        /\ \A i, j \in 1..Len(q) : i < j => q[i].id < q[j].id
        /\ \A i \in 1..Len(out), j \in 1..Len(q) : out[i] < q[j].id
    BY Zenon DEF InOrder
  <2> HIDE DEF l
  <2>3. \A i \in 1..l : r[i].id <= p
    BY <1>1, <2>2, Zenon
  <2>4. \A i, j \in 1..l : i < j => r[i].id < r[j].id
    BY <1>1, <2>1, <2>2, Zenon
  <2>5. \A i \in 1..Len(out), j \in 1..l : out[i] < r[j].id
    BY <1>1, <2>2, Zenon
  <2> QED
    BY <1>1, <2>3, <2>4, <2>5, Zenon DEF InOrder
<1>6. InOrder(r, out, p + 1)
  <2>1. \A i \in 1..l : r[i].id <= p + 1
    BY <1>1, <1>3, <1>5, SMTT(30) DEF InOrder
  <2>2. \A i \in 1..Len(out) : out[i] <= p + 1
    BY <1>4, <1>5, SMT DEF InOrder
  <2> QED
    BY <1>1, <1>5, <2>1, <2>2 DEF InOrder
<1>7. s \in Seq(Queueable) /\ Len(s) = l + 1 /\ s[l + 1] = e /\ \A i \in 1..l : s[i] = r[i]
  BY <1>1, AppendProperties, SMTT(30)
<1> HIDE DEF s, l
<1>8. \A i \in 1..(l + 1) : i \in 1..l \/ i = l + 1
  BY <1>1, SMTT(30)
<1>9. \A i \in 1..(l + 1) : s[i].id <= p + 1
  BY <1>1, <1>6, <1>7, <1>8, SMTT(30) DEF InOrder
<1>10. \A i, j \in 1..(l + 1) : i < j => s[i].id < s[j].id
  <2>1. \A i \in 1..l : s[i].id < p + 1
    <3> SUFFICES ASSUME NEW i \in 1..l PROVE s[i].id < p + 1
      OBVIOUS
    <3>1. r[i].id <= p
      BY <1>1, <1>5, Zenon DEF InOrder
    <3>2. r[i].id \in Nat
      BY <1>1, <1>3
    <3> QED
      BY <1>7, <3>1, <3>2
  <2>2. \A i, j \in 1..l : i < j => s[i].id < s[j].id
    BY <1>1, <1>5, <1>7 DEF InOrder
  <2>3. \A i \in 1..(l + 1) : ~ (l + 1 < i)
    BY <1>1
  <2>4. s[l + 1].id = p + 1
    BY <1>7
  <2> QED
    BY <1>8, <2>1, <2>2, <2>3, <2>4
<1>11. \A i \in 1..Len(out), j \in 1..(l + 1) : out[i] < s[j].id
  <2>1. \A i \in 1..Len(out) : out[i] < p + 1
    BY <1>4, <1>5, SMT DEF InOrder
  <2>2. \A i \in 1..Len(out), j \in 1..l : out[i] < s[j].id
    BY <1>1, <1>5, <1>7 DEF InOrder
  <2>3. s[l + 1].id = p + 1
    BY <1>7
  <2> QED
    BY <1>8, <2>1, <2>2, <2>3
<1>12. InOrder(s, out, p + 1)
  BY <1>6, <1>7, <1>9, <1>10, <1>11 DEF InOrder
<1> QED
  BY <1>6, <1>7, <1>12 DEF r, s, l

(* The bytes of a queue are those of its first n entries and of the rest.  *)
LEMMA BytesOf ==
  ASSUME NEW q \in Seq(Queueable)
  PROVE  IsFiniteSet(Octets(q)) /\ Bytes(q) \in Nat
<1> DEFINE S == 1..Len(q)
           f == [i \in S |-> {q[i].id} \X (1..q[i].len)]
<1>1. \A i \in S : q[i].len \in Nat
  <2>1. \A i \in S : q[i] \in Queueable
    BY ElementOfSeq
  <2> QED
    BY <2>1 DEF Queueable
<1>2. \A i \in S : IsFiniteSet(f[i])
  BY <1>1, Piece, Zenon
<1>3. Len(q) \in Int /\ 1 \in Int
  BY LenProperties, SMT
<1>4. IsFiniteSet(S)
  BY <1>3, FS_Interval, Zenon
<1>5. Octets(q) = UNION {f[i] : i \in S}
  BY DEF Octets
<1> HIDE DEF f, S
<1>6. IsFiniteSet(Octets(q))
  BY <1>2, <1>4, <1>5, FiniteUnion, SMT
<1> QED
  BY <1>6, FS_CardinalityType DEF Bytes

(* No bytes, and those of one more entry. *)
LEMMA BytesAppended ==
  ASSUME NEW q \in Seq(Queueable), NEW e \in Queueable, \A i \in 1..Len(q) : q[i].id # e.id
  PROVE  Bytes(Append(q, e)) = Bytes(q) + e.len
<1> DEFINE h == Append(q, e)
           l == Len(q) + 1
<1>1. Len(q) \in Nat /\ Len(h) = l /\ h[l] = e /\ \A i \in 1..Len(q) : h[i] = q[i]
  BY AppendProperties, LenProperties, SMTT(30)
<1>2. 1..l = (1..Len(q)) \cup {l}
  BY <1>1
<1> HIDE DEF h, l
<1>3. Octets(h) = Octets(q) \cup ({e.id} \X (1..e.len))
  BY <1>1, <1>2, SMT DEF Octets
<1>4. Octets(q) \cap ({e.id} \X (1..e.len)) = {}
  BY DEF Octets
<1>5. e.len \in Nat
  BY DEF Queueable
<1>6. IsFiniteSet({e.id} \X (1..e.len)) /\ Cardinality({e.id} \X (1..e.len)) = e.len
  BY <1>5, Piece, Zenon
<1> QED
  BY <1>3, <1>4, <1>6, BytesOf, AddUp DEF Bytes, h

(* The first n entries and the rest. *)
LEMMA BytesSplit ==
  ASSUME NEW q \in Seq(Queueable), \A i, j \in 1..Len(q) : i < j => q[i].id < q[j].id,
         NEW n \in 0..Len(q)
  PROVE  /\ Bytes(q) = Bytes(SubSeq(q, 1, n)) + Bytes(Rest(q, n))
         /\ Bytes(SubSeq(q, 1, n)) \in Nat /\ Bytes(Rest(q, n)) \in Nat
<1> DEFINE f == SubSeq(q, 1, n)
           r == Rest(q, n)
           l == Len(q) - n
<1>0. Len(q) \in Nat /\ n \in Nat /\ l \in Nat /\ n + l = Len(q) /\ n <= Len(q)
  BY LenProperties
<1>1. f \in Seq(Queueable) /\ Len(f) = n /\ \A i \in 1..n : f[i] = q[i] /\ i \in 1..Len(q)
  <2>1. \A i \in 1..n : i \in 1..Len(q)
    BY <1>0
  <2>2. \A i \in 1..n : q[i] \in Queueable
    BY <2>1, ElementOfSeq
  <2> QED
    BY <1>0, <2>1, <2>2, SubSeqProperties, SMT
<1>2. r \in Seq(Queueable) /\ Len(r) = l /\ \A i \in 1..l : r[i] = q[n + i] /\ n + i \in 1..Len(q)
  BY RestIs
<1>3. \A i \in 1..Len(q) : i \in 1..n \/ (i - n \in 1..l /\ n + (i - n) = i)
  BY <1>0
<1>4. \A i \in 1..n, j \in 1..l : i < n + j
  BY <1>0
<1> HIDE DEF f, r, l
<1>5. Octets(q) = Octets(f) \cup Octets(r)
  <2>1. ASSUME NEW x \in Octets(q) PROVE x \in Octets(f) \/ x \in Octets(r)
    <3>1. PICK i \in 1..Len(q) : x \in {q[i].id} \X (1..q[i].len)
      BY <2>1 DEF Octets
    <3>2. CASE i \in 1..n
      <4>1. f[i] = q[i]
        BY <1>1, <3>2
      <4> QED
        BY <1>1, <3>1, <3>2, <4>1 DEF Octets
    <3>3. CASE i - n \in 1..l /\ n + (i - n) = i
      <4>1. r[i - n] = q[i]
        BY <1>2, <3>3
      <4> QED
        BY <1>2, <3>1, <3>3, <4>1, Zenon DEF Octets
    <3> QED
      BY <1>3, <3>2, <3>3
  <2>2. ASSUME NEW x \in Octets(f) PROVE x \in Octets(q)
    <3>1. PICK i \in 1..n : x \in {f[i].id} \X (1..f[i].len)
      BY <1>1, <2>2 DEF Octets
    <3> QED
      BY <1>1, <3>1 DEF Octets
  <2>3. ASSUME NEW x \in Octets(r) PROVE x \in Octets(q)
    <3>1. PICK i \in 1..l : x \in {r[i].id} \X (1..r[i].len)
      BY <1>2, <2>3 DEF Octets
    <3>2. r[i] = q[n + i] /\ n + i \in 1..Len(q)
      BY <1>2
    <3> QED
      BY <3>1, <3>2 DEF Octets
  <2> QED
    BY <2>1, <2>2, <2>3
<1>6. Octets(f) \cap Octets(r) = {}
  <2> SUFFICES ASSUME NEW x \in Octets(f), x \in Octets(r) PROVE FALSE
    OBVIOUS
  <2>1. PICK i \in 1..n : x \in {f[i].id} \X (1..f[i].len)
    BY <1>1 DEF Octets
  <2>2. PICK j \in 1..l : x \in {r[j].id} \X (1..r[j].len)
    BY <1>2 DEF Octets
  <2>3. q[i].id = q[n + j].id /\ i \in 1..Len(q) /\ n + j \in 1..Len(q) /\ i < n + j
    BY <1>1, <1>2, <1>4, <2>1, <2>2
  <2>4. q[i].id < q[n + j].id
    BY <2>3
  <2>5. q[i] \in Queueable
    BY <2>3, ElementOfSeq
  <2>6. q[i].id \in Nat
    BY <2>5 DEF Queueable
  <2> QED
    BY <2>3, <2>4, <2>6
<1>7. /\ IsFiniteSet(Octets(f)) /\ Bytes(f) \in Nat
      /\ IsFiniteSet(Octets(r)) /\ Bytes(r) \in Nat
  BY <1>1, <1>2, BytesOf
<1> QED
  BY <1>5, <1>6, <1>7, AddUp DEF Bytes, f, r

(* Nothing queued, no bytes. *)
LEMMA NoBytes == Bytes(<<>>) = 0
<1>1. Octets(<<>>) = {}
  BY DEF Octets
<1> QED
  BY <1>1, FS_EmptySet DEF Bytes

(* Nothing was pushed. *)
LEMMA QueueStart == QInit => QueueInv
<1> SUFFICES ASSUME QInit PROVE QueueInv
  OBVIOUS
<1>1. Len(queued) = 0 /\ Len(taken) = 0
  BY DEF QInit
<1>2. InOrder(queued, taken, pushed)
  BY <1>1 DEF InOrder
<1> QED
  BY <1>1, <1>2, QueueAssumption DEF QInit, QueueInv, QTypeOK, QueueBounded

(* The ring drops from its front what does not leave room for the new      *)
(* entry, and the entry too when there is no room for it at all.           *)
LEMMA RingStep ==
  ASSUME QueueInv, kind = "ring", NEW e \in Queueable, e.id = pushed + 1, RingPush(e)
  PROVE  /\ queued' \in Seq(Queueable) /\ used' \in Nat /\ dropped' \in Nat
         /\ InOrder(queued', taken, pushed + 1)
         /\ Len(queued') + dropped' = Len(queued) + dropped + 1
         /\ used' = Bytes(queued') /\ used' <= QueueCap
<1> DEFINE n == Evicted(e.len)
           front == Bytes(SubSeq(queued, 1, n))
           rest == Rest(queued, n)
           fits == {k \in 0..Len(queued) : used - Bytes(SubSeq(queued, 1, k)) + e.len <= QueueCap}
<1>0. /\ queued \in Seq(Queueable) /\ Len(queued) \in Nat /\ used = Bytes(queued) /\ used <= QueueCap
      /\ taken \in Seq(Nat) /\ pushed \in Nat /\ dropped \in Nat /\ e.len \in Nat
      /\ QueueCap \in Nat /\ InOrder(queued, taken, pushed) /\ used \in Nat
  BY QueueAssumption, LenProperties DEF QueueInv, QTypeOK, QueueBounded, Queueable
<1>1. \A i, j \in 1..Len(queued) : i < j => queued[i].id < queued[j].id
  BY <1>0 DEF InOrder
<1>2. /\ queued' = IF e.len <= QueueCap THEN Append(rest, e) ELSE rest
      /\ used' = used - front + (IF e.len <= QueueCap THEN e.len ELSE 0)
      /\ dropped' = dropped + n + (IF e.len <= QueueCap THEN 0 ELSE 1)
  BY DEF RingPush, Rest
<1>3. ASSUME NEW k \in 0..Len(queued)
      PROVE  /\ Bytes(SubSeq(queued, 1, k)) \in Nat /\ Bytes(Rest(queued, k)) \in Nat
             /\ used = Bytes(SubSeq(queued, 1, k)) + Bytes(Rest(queued, k))
  BY <1>0, <1>1, BytesSplit, Zenon
<1>4. Len(queued) \in 0..Len(queued) /\ Bytes(Rest(queued, Len(queued))) = 0
  <2>1. Len(queued) \in 0..Len(queued) /\ Len(queued) + 1 > Len(queued)
    BY <1>0
  <2>2. Rest(queued, Len(queued)) = <<>>
    BY <1>0, <2>1, SubSeqEmpty DEF Rest
  <2> QED
    BY <2>1, <2>2, NoBytes
<1>5. n = IF fits = {} THEN Len(queued) ELSE Min(fits)
  BY DEF Evicted
<1>6. fits \in SUBSET Nat
  BY SMT
<1>7. CASE e.len <= QueueCap
  <2>1. Len(queued) \in fits
    <3> DEFINE all == Bytes(SubSeq(queued, 1, Len(queued)))
               none == Bytes(Rest(queued, Len(queued)))
    <3>1. all \in Nat /\ used = all + none /\ none = 0
      BY <1>3, <1>4
    <3> HIDE DEF all, none
    <3>2. used - all + e.len <= QueueCap
      BY <1>0, <1>7, <3>1
    <3> QED
      BY <1>4, <3>2 DEF all
  <2>2. n \in fits
    BY <1>5, <1>6, <2>1, LeastIs, Zenon
  <2>3. n \in 0..Len(queued) /\ used - front + e.len <= QueueCap
    BY <2>2
  <2> HIDE DEF n
  <2>4. front \in Nat /\ Bytes(rest) \in Nat /\ used = front + Bytes(rest)
    BY <1>3, <2>3
  <2>5. /\ rest \in Seq(Queueable) /\ Len(rest) = Len(queued) - n
        /\ \A i \in 1..(Len(queued) - n) : rest[i] = queued[n + i] /\ n + i \in 1..Len(queued)
    BY <1>0, <2>3, RestIs
  <2>6. \A i \in 1..Len(rest) : rest[i].id # e.id
    <3>1. \A i \in 1..Len(queued) : queued[i].id <= pushed /\ queued[i] \in Queueable
      BY <1>0, ElementOfSeq DEF InOrder
    <3>2. \A i \in 1..Len(queued) : queued[i].id \in Nat
      BY <3>1 DEF Queueable
    <3>3. \A i \in 1..Len(queued) : queued[i].id # pushed + 1
      BY <1>0, <3>1, <3>2, SMT
    <3> QED
      BY <2>5, <3>3
  <2>7. Bytes(Append(rest, e)) = Bytes(rest) + e.len
    BY <2>5, <2>6, BytesAppended
  <2>8. /\ Append(rest, e) \in Seq(Queueable) /\ Len(Append(rest, e)) = Len(queued) - n + 1
        /\ InOrder(Append(rest, e), taken, pushed + 1)
    BY <1>0, <2>3, OrderKept
  <2>9. queued' = Append(rest, e) /\ used' = used - front + e.len /\ dropped' = dropped + n
    BY <1>0, <1>2, <1>7, <2>3
  <2> DEFINE l == Len(queued)
             left == Bytes(rest)
  <2>10. /\ l \in Nat /\ n \in Nat /\ n <= l /\ Len(queued') = l - n + 1
         /\ left \in Nat /\ used = front + left /\ Bytes(queued') = left + e.len
    BY <1>0, <2>3, <2>4, <2>7, <2>8, <2>9
  <2> HIDE DEF rest, front, l, left
  <2>11. used' \in Nat /\ used' = Bytes(queued') /\ used' <= QueueCap
    <3>1. /\ front \in Nat /\ left \in Nat /\ e.len \in Nat /\ used = front + left
          /\ used' = used - front + e.len /\ used - front + e.len <= QueueCap
      BY <1>0, <2>3, <2>4, <2>9, <2>10, Zenon
    <3>2. used' \in Nat /\ used' = left + e.len /\ used' <= QueueCap
      BY <3>1
    <3> QED
      BY <2>10, <3>2
  <2>12. dropped' \in Nat /\ Len(queued') + dropped' = l + dropped + 1
    BY <1>0, <2>9, <2>10
  <2> QED
    BY <2>8, <2>9, <2>11, <2>12 DEF l
<1>8. CASE ~ (e.len <= QueueCap)
  <2>1. ASSUME NEW k \in 0..Len(queued) PROVE k \notin fits
    <3>1. used - Bytes(SubSeq(queued, 1, k)) = Bytes(Rest(queued, k)) /\ Bytes(Rest(queued, k)) \in Nat
      BY <1>0, <1>3
    <3> QED
      BY <1>0, <1>8, <3>1
  <2>2. fits = {}
    BY <2>1
  <2>3. n = Len(queued)
    BY <1>5, <2>2
  <2>4. front = used /\ Bytes(rest) = 0
    <3>1. front \in Nat /\ Bytes(rest) = 0 /\ used = front + Bytes(rest)
      BY <1>3, <1>4, <2>3
    <3> HIDE DEF front, rest
    <3> QED
      BY <1>0, <3>1
  <2>5. rest \in Seq(Queueable) /\ Len(rest) = 0
    BY <1>0, <1>4, <2>3, RestIs, SMTT(30)
  <2>6. InOrder(rest, taken, pushed + 1)
    BY <1>0, <1>4, <2>3, OrderKept
  <2> HIDE DEF n, front, rest
  <2>7. queued' = rest /\ used' = 0 /\ dropped' = dropped + Len(queued) + 1
    BY <1>0, <1>2, <1>8, <2>3, <2>4
  <2> QED
    BY <1>0, <2>4, <2>5, <2>6, <2>7
<1> QED
  BY <1>7, <1>8

(* The hold queue refuses the new entry or gives up the oldest, and counts *)
(* one; the bus gives up the oldest, and its receiver has missed one.      *)
LEMMA SlotStep ==
  ASSUME QueueInv, kind # "ring", NEW e \in Queueable, e.id = pushed + 1, used' = used,
         \/ /\ Len(queued) < QueueCap /\ queued' = Append(queued, e)
            /\ dropped' = dropped /\ missed' = missed
         \/ /\ ~ (Len(queued) < QueueCap) /\ queued' = queued
            /\ dropped' = dropped + 1 /\ missed' = missed
         \/ /\ ~ (Len(queued) < QueueCap) /\ queued' = Append(Tail(queued), e)
            /\ \/ dropped' = dropped + 1 /\ missed' = missed
               \/ dropped' = dropped /\ missed' = missed + 1
  PROVE  /\ queued' \in Seq(Queueable) /\ used' = used /\ dropped' \in Nat /\ missed' \in Nat
         /\ InOrder(queued', taken, pushed + 1)
         /\ Len(queued') + dropped' + missed' = Len(queued) + dropped + missed + 1
         /\ Len(queued') <= QueueCap
<1> DEFINE l == Len(queued)
           m == Len(queued')
<1>0. /\ queued \in Seq(Queueable) /\ l \in Nat /\ l <= QueueCap
      /\ taken \in Seq(Nat) /\ pushed \in Nat /\ dropped \in Nat /\ missed \in Nat
      /\ QueueCap \in Nat /\ QueueCap # 0 /\ InOrder(queued, taken, pushed)
  BY QueueAssumption, LenProperties DEF QueueInv, QTypeOK, QueueBounded
<1>1. ASSUME NEW n \in 0..l
      PROVE  /\ InOrder(Rest(queued, n), taken, pushed + 1)
             /\ Append(Rest(queued, n), e) \in Seq(Queueable)
             /\ Len(Append(Rest(queued, n), e)) = l - n + 1
             /\ InOrder(Append(Rest(queued, n), e), taken, pushed + 1)
  BY <1>0, <1>1, OrderKept
<1>2. Rest(queued, 0) = queued
  <2>1. 0 + 1 = 1
    OBVIOUS
  <2> QED
    BY <1>0, <2>1, SubSeqFull DEF Rest
<1> HIDE DEF l
<1>3. 0 \in 0..l /\ l - 0 = l
  BY <1>0
<1>4. CASE l < QueueCap /\ queued' = Append(queued, e) /\ dropped' = dropped /\ missed' = missed
  <2>1. queued' = Append(queued, e) /\ dropped' = dropped /\ missed' = missed /\ used' = used
    BY <1>4
  <2>2. queued' \in Seq(Queueable) /\ m = l + 1 /\ InOrder(queued', taken, pushed + 1)
    BY <1>1, <1>2, <1>3, <2>1
  <2> HIDE DEF m
  <2>3. m <= QueueCap /\ m + dropped' + missed' = l + dropped + missed + 1
    BY <1>0, <1>4, <2>1, <2>2
  <2> QED
    BY <1>0, <2>1, <2>2, <2>3 DEF l, m
<1>5. CASE ~ (l < QueueCap) /\ queued' = queued /\ dropped' = dropped + 1 /\ missed' = missed
  <2>1. queued' = queued /\ dropped' = dropped + 1 /\ missed' = missed /\ used' = used
    BY <1>5
  <2>2. InOrder(queued, taken, pushed + 1)
    BY <1>1, <1>2, <1>3
  <2>3. m = l
    BY <2>1 DEF l
  <2> HIDE DEF m
  <2>4. dropped' \in Nat /\ m <= QueueCap /\ m + dropped' + missed' = l + dropped + missed + 1
    BY <1>0, <2>1, <2>3
  <2> QED
    BY <1>0, <2>1, <2>2, <2>4 DEF l, m
<1>6. CASE /\ ~ (l < QueueCap) /\ queued' = Append(Tail(queued), e)
           /\ \/ dropped' = dropped + 1 /\ missed' = missed
              \/ dropped' = dropped /\ missed' = missed + 1
  <2>0. l = QueueCap /\ 1 \in 0..l /\ l # 0 /\ l - 1 + 1 = l
    BY <1>0, <1>6
  <2>1. queued # <<>>
    BY <1>0, <2>0 DEF l
  <2>2. Tail(queued) = Rest(queued, 1)
    BY <1>0, <2>1, TailIs
  <2>3. /\ queued' = Append(Rest(queued, 1), e) /\ used' = used
        /\ \/ dropped' = dropped + 1 /\ missed' = missed
           \/ dropped' = dropped /\ missed' = missed + 1
    BY <1>6, <2>2, Zenon
  <2>4. queued' \in Seq(Queueable) /\ m = l /\ InOrder(queued', taken, pushed + 1)
    BY <1>1, <2>0, <2>3
  <2> HIDE DEF m
  <2>5. dropped' \in Nat /\ missed' \in Nat /\ m <= QueueCap
    BY <1>0, <2>3, <2>4, SMT
  <2>6. m + dropped' + missed' = l + dropped + missed + 1
    <3>1. l \in Nat /\ dropped \in Nat /\ missed \in Nat
      BY <1>0
    <3>2. l + (dropped + 1) + missed = l + dropped + missed + 1
      BY <3>1
    <3>3. l + dropped + (missed + 1) = l + dropped + missed + 1
      BY <3>1
    <3> QED
      BY <2>3, <2>4, <3>2, <3>3, Zenon
  <2> QED
    BY <2>3, <2>4, <2>5, <2>6 DEF l, m
<1> QED
  BY <1>4, <1>5, <1>6 DEF l

(* Addition, as the account of a push needs it. *)
LEMMA Tally ==
  ASSUME NEW k \in Nat, NEW l \in Nat, NEW d \in Nat, NEW x \in Nat,
         NEW m \in Nat, NEW b \in Nat, NEW y \in Nat, m + b + y = l + d + x + 1
  PROVE  k + m + b + y = (k + l + d + x) + 1
  OBVIOUS

(* A push. *)
LEMMA PushStep ==
  ASSUME QueueInv, NEW len \in EntrySizes, QPush(len)
  PROVE  QueueInv'
<1> DEFINE e == [id |-> pushed + 1, len |-> len]
<1>0. /\ pushed \in Nat /\ Len(queued) \in Nat /\ Len(taken) \in Nat /\ dropped \in Nat /\ missed \in Nat
      /\ Len(taken) + Len(queued) + dropped + missed = pushed
      /\ taken \in Seq(Nat) /\ kind \in QueueKinds /\ used \in Nat
  BY LenProperties DEF QueueInv, QTypeOK, QPush
<1>1. e \in Queueable /\ e.id = pushed + 1
  BY <1>0, QueueAssumption DEF Queueable
<1>2. kind' = kind /\ taken' = taken /\ pushed' = pushed + 1
  BY DEF QPush
<1>3. CASE kind = "ring"
  <2>1. RingPush(e)
    BY <1>3 DEF QPush
  <2>2. /\ queued' \in Seq(Queueable) /\ used' \in Nat /\ dropped' \in Nat
        /\ InOrder(queued', taken, pushed + 1)
        /\ Len(queued') + dropped' = Len(queued) + dropped + 1
        /\ used' = Bytes(queued') /\ used' <= QueueCap
    BY <1>1, <1>3, <2>1, RingStep
  <2>3. missed' = missed
    BY <2>1 DEF RingPush
  <2>4. Len(queued') \in Nat
    BY <2>2, LenProperties
  <2>5. Len(taken') + Len(queued') + dropped' + missed' = pushed'
    <3>1. Len(queued') + dropped' + missed = Len(queued) + dropped + missed + 1
      <4> HIDE DEF e
      <4>1. Len(queued') + dropped' = Len(queued) + dropped + 1
        BY <2>2
      <4>2. ASSUME NEW a \in Nat, NEW c \in Nat, NEW d \in Nat, a = c + d + 1, NEW x \in Nat
            PROVE  a + x = c + d + x + 1
        BY <4>2
      <4>3. Len(queued') + dropped' \in Nat
        BY <2>2, <2>4
      <4> QED
        BY <1>0, <4>1, <4>2, <4>3, SMTT(30)
    <3>2. Len(taken) + Len(queued') + dropped' + missed
            = (Len(taken) + Len(queued) + dropped + missed) + 1
      <4> DEFINE k == Len(taken)
                 l == Len(queued)
                 m == Len(queued')
                 b == dropped'
      <4>1. k \in Nat /\ l \in Nat /\ m \in Nat /\ b \in Nat /\ dropped \in Nat /\ missed \in Nat
        BY <1>0, <2>2, <2>4
      <4>2. m + b + missed = l + dropped + missed + 1
        BY <3>1
      <4> HIDE DEF k, l, m, b
      <4>3. k + m + b + missed = (k + l + dropped + missed) + 1
        BY <4>1, <4>2, Tally, SMT
      <4> QED
        BY <4>3 DEF k, l, m, b
    <3> QED
      BY <1>0, <1>2, <2>3, <3>2, Zenon
  <2>6. QTypeOK'
    BY <1>0, <1>2, <2>2, <2>3 DEF QTypeOK
  <2>7. QueueBounded'
    BY <1>2, <1>3, <2>2 DEF QueueBounded
  <2> QED
    BY <1>2, <1>3, <2>2, <2>5, <2>6, <2>7 DEF QueueInv
<1>4. CASE kind # "ring"
  <2>0. kind \in {"drop oldest", "drop new", "bus"}
    BY <1>0, <1>4, Zenon DEF QueueKinds
  <2>1. /\ used' = used
        /\ \/ /\ Len(queued) < QueueCap /\ queued' = Append(queued, e)
              /\ dropped' = dropped /\ missed' = missed
           \/ /\ ~ (Len(queued) < QueueCap) /\ queued' = queued
              /\ dropped' = dropped + 1 /\ missed' = missed
           \/ /\ ~ (Len(queued) < QueueCap) /\ queued' = Append(Tail(queued), e)
              /\ \/ dropped' = dropped + 1 /\ missed' = missed
                 \/ dropped' = dropped /\ missed' = missed + 1
    BY <1>4 DEF QPush, HoldPush, BusPublish
  <2>2. /\ queued' \in Seq(Queueable) /\ used' = used /\ dropped' \in Nat /\ missed' \in Nat
        /\ InOrder(queued', taken, pushed + 1)
        /\ Len(queued') + dropped' + missed' = Len(queued) + dropped + missed + 1
        /\ Len(queued') <= QueueCap
    BY <1>1, <1>4, <2>1, SlotStep
  <2>4. Len(queued') \in Nat
    BY <2>2, LenProperties
  <2>5. Len(taken') + Len(queued') + dropped' + missed' = pushed'
    <3>1. Len(taken) + Len(queued') + dropped' + missed'
            = (Len(taken) + Len(queued) + dropped + missed) + 1
      <4> DEFINE k == Len(taken)
                 l == Len(queued)
                 m == Len(queued')
                 b == dropped'
                 y == missed'
      <4>1. /\ k \in Nat /\ l \in Nat /\ m \in Nat /\ b \in Nat /\ y \in Nat
            /\ dropped \in Nat /\ missed \in Nat
        BY <1>0, <2>2, <2>4
      <4>2. m + b + y = l + dropped + missed + 1
        BY <2>2
      <4> HIDE DEF k, l, m, b, y
      <4>3. k + m + b + y = (k + l + dropped + missed) + 1
        BY <4>1, <4>2, Tally, SMT
      <4> QED
        BY <4>3 DEF k, l, m, b, y
    <3> QED
      BY <1>0, <1>2, <3>1, Zenon
  <2>6. QTypeOK'
    BY <1>0, <1>2, <2>2 DEF QTypeOK
  <2>7. QueueBounded'
    BY <1>2, <1>4, <2>2 DEF QueueBounded
  <2>8. kind' # "none"
    BY <1>2, <2>0
  <2> QED
    BY <1>2, <2>2, <2>5, <2>6, <2>7, <2>8 DEF QueueInv
<1> QED
  BY <1>3, <1>4

(* A delivery: the oldest entry, which is younger than all delivered       *)
(* before it and older than all that wait behind it.                       *)
LEMMA PopStep == QueueInv /\ QPop => QueueInv'
<1> SUFFICES ASSUME QueueInv, QPop PROVE QueueInv'
  OBVIOUS
<1> DEFINE h == Head(queued)
           l == Len(queued)
           k == Len(taken)
           out == Append(taken, h.id)
           r == Rest(queued, 1)
<1>0. /\ queued \in Seq(Queueable) /\ l \in Nat /\ taken \in Seq(Nat) /\ k \in Nat
      /\ pushed \in Nat /\ dropped \in Nat /\ missed \in Nat /\ used \in Nat
      /\ k + l + dropped + missed = pushed /\ InOrder(queued, taken, pushed)
      /\ kind \in QueueKinds \cup {"none"} /\ QueueCap \in Nat
  BY QueueAssumption, LenProperties DEF QueueInv, QTypeOK
<1>1. queued # <<>> /\ kind # "none"
  BY DEF QPop, QueueInv
<1>2. Tail(queued) = r /\ 1 \in 0..l /\ h = queued[1] /\ l >= 1 /\ 1 \in 1..l
  BY <1>0, <1>1, TailIs
<1>3. /\ r \in Seq(Queueable) /\ Len(r) = l - 1
      /\ \A i \in 1..(l - 1) : r[i] = queued[1 + i] /\ 1 + i \in 1..l
  BY <1>0, <1>2, RestIs
<1>4. h \in Queueable
  BY <1>0, <1>2, ElementOfSeq
<1>5. h.id \in Nat /\ h.len \in Nat
  BY <1>4 DEF Queueable
<1>6. /\ out \in Seq(Nat) /\ Len(out) = k + 1 /\ out[k + 1] = h.id
      /\ \A i \in 1..k : out[i] = taken[i]
  BY <1>0, <1>5, AppendProperties, SMTT(30)
<1>7. \A i \in 1..(k + 1) : i \in 1..k \/ i = k + 1
  BY <1>0
<1>8. InOrder(r, out, pushed)
  <2>0. /\ \A i \in 1..l : queued[i].id <= pushed
        /\ \A i, j \in 1..l : i < j => queued[i].id < queued[j].id
        /\ \A i \in 1..k : taken[i] <= pushed
        /\ \A i, j \in 1..k : i < j => taken[i] < taken[j]
        /\ \A i \in 1..k, j \in 1..l : taken[i] < queued[j].id
    BY <1>0 DEF InOrder
  <2>1. \A i, j \in 1..(l - 1) : i < j => 1 + i < 1 + j
    BY <1>0
  <2>2. \A i \in 1..(l - 1) : 1 < 1 + i
    BY <1>0
  <2>3. \A i \in 1..(k + 1) : ~ (k + 1 < i)
    BY <1>0
  <2> HIDE DEF r, out, h, l, k
  <2>4. \A i \in 1..Len(r) : r[i].id <= pushed
    BY <1>3, <2>0
  <2>5. \A i, j \in 1..Len(r) : i < j => r[i].id < r[j].id
    BY <1>3, <2>0, <2>1
  <2>6. \A i \in 1..Len(out) : out[i] <= pushed
    BY <1>2, <1>6, <1>7, <2>0
  <2>7. \A i, j \in 1..Len(out) : i < j => out[i] < out[j]
    BY <1>2, <1>6, <1>7, <2>0, <2>3
  <2>8. \A i \in 1..Len(out), j \in 1..Len(r) : out[i] < r[j].id
    BY <1>2, <1>3, <1>6, <1>7, <2>0, <2>2, Zenon
  <2> QED
    BY <2>4, <2>5, <2>6, <2>7, <2>8 DEF InOrder
<1>9. /\ queued' = r /\ taken' = out /\ kind' = kind /\ dropped' = dropped
      /\ missed' = missed /\ pushed' = pushed
      /\ used' = IF kind = "ring" THEN used - h.len ELSE used
  BY <1>2 DEF QPop
<1>10. kind = "ring" => used' \in Nat /\ used' = Bytes(r) /\ used' <= QueueCap
  <2> SUFFICES ASSUME kind = "ring" PROVE used' \in Nat /\ used' = Bytes(r) /\ used' <= QueueCap
    OBVIOUS
  <2>1. used = Bytes(queued) /\ used <= QueueCap
    BY DEF QueueInv, QueueBounded
  <2>2. \A i, j \in 1..Len(queued) : i < j => queued[i].id < queued[j].id
    BY <1>0 DEF InOrder
  <2>3. /\ Bytes(queued) = Bytes(SubSeq(queued, 1, 1)) + Bytes(r) /\ Bytes(r) \in Nat
    BY <1>0, <1>2, <2>2, BytesSplit
  <2>4. SubSeq(queued, 1, 1) = Append(<<>>, h)
    <3> DEFINE f == SubSeq(queued, 1, 1)
    <3>1. \A i \in 1..1 : queued[i] \in Queueable
      BY <1>2, <1>4
    <3>2. f \in Seq(Queueable) /\ Len(f) = 1 /\ f[1] = h
      BY <1>2, <3>1, SubSeqProperties, SMTT(30)
    <3> HIDE DEF f
    <3>3. f = <<f[1]>>
      BY <3>2, SeqDef, SMT
    <3> HIDE DEF f, h
    <3>4. Append(<<>>, h) = <<h>>
      OBVIOUS
    <3> QED
      BY <3>2, <3>3, <3>4 DEF f
  <2>5. Bytes(Append(<<>>, h)) = Bytes(<<>>) + h.len
    <3>1. <<>> \in Seq(Queueable) /\ \A i \in 1..Len(<<>>) : <<>>[i].id # h.id
      OBVIOUS
    <3> QED
      BY <1>4, <3>1, BytesAppended, Zenon
  <2>6. Bytes(SubSeq(queued, 1, 1)) = h.len
    <3>1. Bytes(SubSeq(queued, 1, 1)) = 0 + h.len
      BY <2>4, <2>5, NoBytes, Zenon
    <3> HIDE DEF h
    <3> QED
      BY <1>5, <3>1
  <2> DEFINE b == Bytes(r)
  <2>7. b \in Nat /\ used = h.len + b /\ used' = used - h.len
    BY <1>9, <2>1, <2>3, <2>6
  <2> HIDE DEF b, h
  <2>8. used' = b /\ b <= QueueCap
    BY <1>0, <1>5, <2>1, <2>7, SMT
  <2> QED
    BY <2>7, <2>8 DEF b
<1>11. kind # "ring" => used' \in Nat /\ Len(r) <= QueueCap
  <2>1. kind # "ring" => l <= QueueCap
    BY DEF QueueInv, QueueBounded
  <2> QED
    BY <1>0, <1>3, <1>9, <2>1, SMT
<1> HIDE DEF h, l, k, out, r
<1>12. QTypeOK'
  BY <1>0, <1>3, <1>6, <1>9, <1>10, <1>11 DEF QTypeOK
<1>13. QueueBounded'
  BY <1>9, <1>10, <1>11 DEF QueueBounded
<1>14. Len(taken') + Len(queued') + dropped' + missed' = pushed'
  <2>1. Len(taken') = k + 1 /\ Len(queued') = l - 1
    BY <1>3, <1>6, <1>9
  <2>2. (k + 1) + (l - 1) + dropped + missed = pushed
    BY <1>0
  <2> QED
    BY <1>9, <2>1, <2>2
<1> QED
  BY <1>1, <1>8, <1>9, <1>12, <1>13, <1>14 DEF QueueInv

(* Every step of a queue. *)
LEMMA QueueStep == QueueInv /\ [QNext]_q_vars => QueueInv'
<1> SUFFICES ASSUME QueueInv, [QNext]_q_vars PROVE QueueInv'
  OBVIOUS
<1>1. ASSUME NEW k \in QueueKinds, NewQueue(k) PROVE QueueInv'
  <2>1. /\ kind = "none" /\ kind' = k /\ queued' = queued /\ used' = used /\ dropped' = dropped
        /\ missed' = missed /\ pushed' = pushed /\ taken' = taken
    BY <1>1 DEF NewQueue
  <2>2. queued = <<>> /\ used = 0 /\ Len(queued) = 0 /\ QueueCap \in Nat
    BY <2>1, QueueAssumption DEF QueueInv
  <2>3. QueueBounded'
    BY <2>1, <2>2, NoBytes DEF QueueBounded
  <2>4. QTypeOK' /\ InOrder(queued', taken', pushed')
    BY <1>1, <2>1 DEF QueueInv, QTypeOK
  <2> QED
    BY <1>1, <2>1, <2>2, <2>3, <2>4 DEF QueueInv
<1>2. ASSUME RecvLagged PROVE QueueInv'
  <2>1. /\ kind' = kind /\ queued' = queued /\ used' = used /\ dropped' = dropped + missed
        /\ missed' = 0 /\ pushed' = pushed /\ taken' = taken
    BY <1>2 DEF RecvLagged
  <2>2. QTypeOK /\ Len(queued) \in Nat /\ Len(taken) \in Nat
    BY LenProperties DEF QueueInv, QTypeOK
  <2>3. QTypeOK' /\ Len(taken') + Len(queued') + dropped' + missed' = pushed'
    BY <2>1, <2>2 DEF QTypeOK, QueueInv
  <2>4. QueueBounded'
    BY <2>1 DEF QueueBounded, QueueInv
  <2> QED
    BY <2>1, <2>3, <2>4 DEF QueueInv
<1>3. ASSUME UNCHANGED q_vars PROVE QueueInv'
  BY <1>3 DEF QueueInv, QTypeOK, QueueBounded, q_vars
<1> QED
  BY <1>1, <1>2, <1>3, PushStep, PopStep DEF QNext

(* The order of what was taken and what waits, in one sequence. *)
LEMMA OneOrder ==
  ASSUME NEW q \in Seq(Queueable), NEW out \in Seq(Nat), NEW p \in Nat, InOrder(q, out, p)
  PROVE  LET ids == out \o [i \in 1..Len(q) |-> q[i].id]
         IN \A i, j \in 1..Len(ids) : i < j => ids[i] < ids[j]
<1> DEFINE f == [i \in 1..Len(q) |-> q[i].id]
           ids == out \o f
           k == Len(out)
           l == Len(q)
<1>0. k \in Nat /\ l \in Nat
  BY LenProperties
<1>1. \A i \in 1..l : q[i].id \in Nat
  <2>1. \A i \in 1..l : q[i] \in Queueable
    BY ElementOfSeq
  <2> QED
    BY <2>1 DEF Queueable
<1>2. f \in Seq(Nat) /\ Len(f) = l /\ \A i \in 1..l : f[i] = q[i].id
  BY <1>0, <1>1, SeqDef, SMTT(30)
<1> HIDE DEF f
<1>3. /\ Len(ids) = k + l /\ \A i \in 1..k : ids[i] = out[i]
      /\ \A i \in (k + 1)..(k + l) : ids[i] = f[i - k]
  <2>1. /\ Len(ids) = Len(out) + Len(f)
        /\ \A i \in 1..(Len(out) + Len(f)) :
             ids[i] = IF i <= Len(out) THEN out[i] ELSE f[i - Len(out)]
    BY <1>2, ConcatProperties, Zenon
  <2>2. /\ Len(ids) = k + l
        /\ \A i \in 1..(k + l) : ids[i] = IF i <= k THEN out[i] ELSE f[i - k]
    BY <1>2, <2>1
  <2> HIDE DEF ids, k, l
  <2>3. /\ \A i \in 1..k : i \in 1..(k + l) /\ i <= k
        /\ \A i \in (k + 1)..(k + l) : i \in 1..(k + l) /\ ~ (i <= k)
    BY <1>0
  <2> QED
    BY <2>2, <2>3
<1>4. \A i \in 1..(k + l) : i \in 1..k \/ (i \in (k + 1)..(k + l) /\ i - k \in 1..l)
  BY <1>0
<1>5. /\ \A i, j \in 1..l : i < j => q[i].id < q[j].id
      /\ \A i, j \in 1..k : i < j => out[i] < out[j]
      /\ \A i \in 1..k, j \in 1..l : out[i] < q[j].id
  BY DEF InOrder
<1> HIDE DEF ids, k, l
<1>6. ASSUME NEW i \in 1..(k + l), NEW j \in 1..(k + l), i < j PROVE ids[i] < ids[j]
  <2>1. CASE j \in 1..k
    <3>1. i \in 1..k
      BY <1>0, <1>6, <2>1
    <3> QED
      BY <1>3, <1>5, <1>6, <2>1, <3>1
  <2>2. CASE i \in 1..k /\ j \in (k + 1)..(k + l) /\ j - k \in 1..l
    BY <1>2, <1>3, <1>5, <2>2, Zenon
  <2>3. CASE /\ i \in (k + 1)..(k + l) /\ i - k \in 1..l
             /\ j \in (k + 1)..(k + l) /\ j - k \in 1..l
    <3>1. i - k < j - k
      BY <1>0, <1>6
    <3> QED
      BY <1>2, <1>3, <1>5, <2>3, <3>1, Zenon
  <2> QED
    BY <1>4, <2>1, <2>2, <2>3
<1> QED
  BY <1>3, <1>6, Zenon DEF ids, f

(* For every capacity and all entry sizes, whatever the interleaving of    *)
(* pushes and deliveries: every entry pushed into the ring, the hold queue *)
(* or the bus was delivered, is waiting or is counted as lost, order holds *)
(* across delivered and waiting entries, and no queue passes its bound.    *)
THEOREM LossIsAccounted == QSpec => []QueuesAccount
<1>1. QueueInv => QueuesAccount
  <2> SUFFICES ASSUME QueueInv PROVE QueuesAccount
    OBVIOUS
  <2>1. /\ queued \in Seq(Queueable) /\ taken \in Seq(Nat) /\ pushed \in Nat
        /\ InOrder(queued, taken, pushed)
    BY DEF QueueInv, QTypeOK
  <2>2. LET ids == taken \o [i \in 1..Len(queued) |-> queued[i].id]
        IN \A i, j \in 1..Len(ids) : i < j => ids[i] < ids[j]
    BY <2>1, OneOrder, Zenon
  <2> QED
    BY <2>2 DEF QueuesAccount, LossIsCounted, QueueInv
<1> QED
  BY <1>1, QueueStart, QueueStep, PTL DEF QSpec

=============================================================================
