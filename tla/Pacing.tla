------------------------------- MODULE Pacing -------------------------------
(***************************************************************************)
(* What paces one connection: the token bucket                             *)
(* (crates/server/src/ratelimit.rs), the coalescer whose period follows    *)
(* the visibility of a panel (coalesce.rs, panel_priority.rs) and the      *)
(* multiplexer's channel ids (mux.rs).  A behaviour is about one of them,  *)
(* chosen by the first step.  Time is counted in ticks of which the bucket *)
(* gains Rate tokens; callers pass clock readings in order.                *)
(***************************************************************************)
EXTENDS Naturals, Sequences, FiniteSetsExt

CONSTANTS Burst, Rate, Costs, LivePeriod, VisiblePeriod, HiddenPeriod, Threads, IdBits, LastTick

ASSUME PacingAssumption ==
  /\ Burst \in Nat /\ Rate \in Nat \ {0} /\ Costs \subseteq Nat
  /\ {LivePeriod, VisiblePeriod, HiddenPeriod} \subseteq Nat \ {0}
  /\ 2^IdBits \in Nat /\ LastTick \in Nat

Visibilities == {"Foreground", "Visible", "Hidden"}

VARIABLES about,       \* "bucket", "coalescer" or "mux"
          instant,         \* the clock
          tokens, last,          \* TokenBucket
          grants,                \* history: <<tick, cost>> of what was let through
          panel,                 \* PanelPriority: the panel's visibility, or unknown
          bucket, last_flush,    \* Coalescer
          polled,                \* should_flush was asked at this tick
          next_id, channels,     \* Mux: the counter; id |-> thread that opened it
          opening, held          \* thread |-> id between fetch_add and insert; ids it has

bucket_vars == <<tokens, last, grants>>
flush_vars == <<panel, bucket, last_flush, polled>>
mux_vars == <<next_id, channels, opening, held>>
pace_vars == <<about, instant, bucket_vars, flush_vars, mux_vars>>

ChannelIds == 0..2^IdBits - 1
NoId == 2^IdBits

PaceInit ==
  /\ about = "none" /\ instant = 0
  /\ tokens = Burst /\ last = 0 /\ grants = <<>>
  /\ panel = "unknown" /\ bucket = "Hidden" /\ last_flush = 0 /\ polled = FALSE
  /\ next_id = 0 /\ channels = [i \in ChannelIds |-> NoId]
  /\ opening = [t \in Threads |-> NoId] /\ held = [t \in Threads |-> {}]

Choose(a) ==
  /\ about = "none" /\ about' = a
  /\ UNCHANGED <<instant, bucket_vars, flush_vars, mux_vars>>

PaceTick ==
  /\ about \in {"bucket", "coalescer"} /\ instant < LastTick
  /\ instant' = instant + 1 /\ polled' = FALSE
  /\ UNCHANGED <<about, bucket_vars, panel, bucket, last_flush, mux_vars>>

-----------------------------------------------------------------------------
(* Mutant of Refilled: tokens pile up while nothing is sent. *)
RefilledUnbounded(t) == t + (instant - last) * Rate
Refilled(t) == Min({t + (instant - last) * Rate, Burst})

(* TokenBucket::try_consume *)
try_consume(cost) ==
  /\ about = "bucket" /\ Len(grants) <= LastTick + Burst
  /\ last' = instant
  /\ IF Refilled(tokens) >= cost
     THEN /\ tokens' = Refilled(tokens) - cost
          /\ grants' = Append(grants, <<instant, cost>>)
     ELSE /\ tokens' = Refilled(tokens)
          /\ UNCHANGED grants
  /\ UNCHANGED <<about, instant, flush_vars, mux_vars>>

-----------------------------------------------------------------------------
(* Visibility::bucket; a panel that is unknown counts as hidden. *)
Bucket_of(v) == CASE v = "Foreground" -> "Live" [] v = "Visible" -> "Visible" [] OTHER -> "Hidden"
Period(b) == CASE b = "Live" -> LivePeriod [] b = "Visible" -> VisiblePeriod [] OTHER -> HiddenPeriod

(* PanelPriority::set and remove, then Coalescer::set_bucket. *)
SetPanel(v) ==
  /\ about = "coalescer" /\ v # panel
  /\ panel' = v /\ bucket' = Bucket_of(v) /\ polled' = FALSE
  /\ UNCHANGED <<about, instant, last_flush, bucket_vars, mux_vars>>

(* Coalescer::should_flush *)
should_flush ==
  /\ about = "coalescer" /\ ~ polled
  /\ polled' = TRUE
  /\ last_flush' = IF instant - last_flush >= Period(bucket) THEN instant ELSE last_flush
  /\ UNCHANGED <<about, instant, panel, bucket, bucket_vars, mux_vars>>

-----------------------------------------------------------------------------
(* Mux::open: fetch_add, which wraps, and then the table under its lock.   *)
(* No more ids are handed out here than there are.                         *)
Allocate(t) ==
  /\ about = "mux" /\ opening[t] = NoId /\ next_id < 2^IdBits
  /\ opening' = [opening EXCEPT ![t] = next_id]
  /\ next_id' = next_id + 1
  /\ UNCHANGED <<about, instant, bucket_vars, flush_vars, channels, held>>
Register(t) ==
  /\ opening[t] # NoId
  /\ channels' = [channels EXCEPT ![opening[t]] = t]
  /\ held' = [held EXCEPT ![t] = @ \cup {opening[t]}]
  /\ opening' = [opening EXCEPT ![t] = NoId]
  /\ UNCHANGED <<about, instant, bucket_vars, flush_vars, next_id>>

(* Mux::close *)
MuxClose(t, i) ==
  /\ i \in held[t]
  /\ channels' = [channels EXCEPT ![i] = NoId]
  /\ held' = [held EXCEPT ![t] = @ \ {i}]
  /\ UNCHANGED <<about, instant, bucket_vars, flush_vars, next_id, opening>>

PaceNext ==
  \/ \E a \in {"bucket", "coalescer", "mux"} : Choose(a)
  \/ PaceTick \/ should_flush
  \/ \E c \in Costs : try_consume(c)
  \/ \E v \in Visibilities \cup {"unknown"} : SetPanel(v)
  \/ \E t \in Threads : Allocate(t) \/ Register(t) \/ (\E i \in ChannelIds : MuxClose(t, i))

PaceSpec == PaceInit /\ [][PaceNext]_pace_vars

-----------------------------------------------------------------------------
(* The bytes of the i-th to the j-th grant of g, each named by its grant   *)
(* and its place there.                                                    *)
Granted(g, i, j) == UNION {{k} \X (1..g[k][2]) : k \in i..j}

(* In every stretch of time no more is let through than the burst and what *)
(* the rate gives for that stretch ("at most 1 KiB/s", ratelimit.rs).      *)
RateHolds ==
  \A i, j \in 1..Len(grants) : i <= j =>
    Cardinality(Granted(grants, i, j)) <= Burst + Rate * (grants[j][1] - grants[i][1])

(* A panel that has just been polled is never further behind than the      *)
(* period of what it is now, also when it came to the foreground after a   *)
(* long time in the background.                                            *)
FlushInTime == polled => instant - last_flush < Period(bucket)

(* A channel id is "unique per connection, never reused": what a thread    *)
(* has opened and not closed is registered as its own, with threads in the *)
(* middle of opening others (up to the width of the counter).              *)
ChannelIdsOwn ==
  \A t \in Threads : \A i \in held[t] :
    channels[i] = t /\ \A u \in Threads : opening[u] # i

(* What is rationed stays rationed: bytes, flushes and channel ids.        *)
PacingHolds == RateHolds /\ FlushInTime /\ ChannelIdsOwn
=============================================================================
