---------------------------- MODULE GroupCommit ----------------------------
(***************************************************************************)
(* The group-commit scheduler of crates/core/src/log/group_commit.rs.  It  *)
(* sees the WAL through append, which adds a record of len + HdrLen bytes  *)
(* or fails, and sync, which makes everything durable or fails (module     *)
(* Wal).  The caller's timer calls tick once per unit of time.             *)
(***************************************************************************)
EXTENDS Integers

CONSTANTS Lens,       \* payload lengths
          HdrLen,     \* length and CRC of a record: 8 bytes
          SizeBytes,  \* CommitPolicy.size_bytes
          Window,     \* CommitPolicy.window, in timer periods
          MaxTime     \* bound: timer periods

ASSUME GroupCommitAssumption ==
  /\ Lens \subseteq Nat /\ HdrLen \in Nat \ {0}
  /\ SizeBytes \in Nat \ {0} /\ Window \in Nat /\ MaxTime \in Nat

VARIABLES now,        \* the clock
          tick_due,   \* the timer has fired and tick was not called yet
          in_flight,  \* GroupCommit.in_flight
          last_sync,  \* GroupCommit.last_sync
          unsynced,   \* bytes of records appended since the last sync_data
          oldest,     \* when the first of them was appended, or Never
          sync_failed \* a sync returned an error and none succeeded since

commit_vars == <<now, tick_due, in_flight, last_sync, unsynced, oldest, sync_failed>>

Never == -1

(* GroupCommit::new on a log that was just opened. *)
CommitInit ==
  /\ now = 0 /\ tick_due = FALSE
  /\ in_flight = 0 /\ last_sync = 0
  /\ unsynced = 0 /\ oldest = Never
  /\ sync_failed = FALSE

(* The timer fires; the call of tick follows before it fires again. *)
TimerFires ==
  /\ ~tick_due /\ now < MaxTime
  /\ now' = now + 1
  /\ tick_due' = TRUE
  /\ UNCHANGED <<in_flight, last_sync, unsynced, oldest, sync_failed>>

(* wal.sync succeeds and the counters start over. *)
Synced ==
  /\ in_flight' = 0 /\ last_sync' = now
  /\ unsynced' = 0 /\ oldest' = Never /\ sync_failed' = FALSE


(* Mutant of should_sync: more than the size, not at least. *)
should_sync_late(bytes) == bytes > SizeBytes \/ now - last_sync >= Window

should_sync(bytes) == bytes >= SizeBytes \/ now - last_sync >= Window

(* append_at: count the record, then sync if a threshold is reached.  A    *)
(* failing wal.append returns before anything is counted.                  *)
AppendAt(len) ==
  LET bytes == in_flight + len + HdrLen
      all == unsynced + len + HdrLen
      since == IF oldest = Never THEN now ELSE oldest
  IN /\ \/ should_sync(bytes) /\ Synced
        \/ /\ should_sync(bytes)
           /\ in_flight' = bytes /\ unsynced' = all /\ oldest' = since
           /\ sync_failed' = TRUE /\ UNCHANGED last_sync
        \/ /\ ~should_sync(bytes)
           /\ in_flight' = bytes /\ unsynced' = all /\ oldest' = since
           /\ UNCHANGED <<last_sync, sync_failed>>
     /\ UNCHANGED <<now, tick_due>>

(* tick: nothing to do without buffered bytes or inside the window.        *)
Tick ==
  /\ tick_due
  /\ tick_due' = FALSE
  /\ LET due == in_flight # 0 /\ now - last_sync >= Window
     IN \/ due /\ Synced
        \/ due /\ sync_failed' = TRUE /\ UNCHANGED <<in_flight, last_sync, unsynced, oldest>>
        \/ ~due /\ UNCHANGED <<in_flight, last_sync, unsynced, oldest, sync_failed>>
  /\ UNCHANGED now

(* flush.                                                                  *)
Flush ==
  /\ \/ Synced
     \/ sync_failed' = TRUE /\ UNCHANGED <<in_flight, last_sync, unsynced, oldest>>
  /\ UNCHANGED <<now, tick_due>>

CommitNext ==
  \/ TimerFires \/ Tick \/ Flush
  \/ \E len \in Lens : AppendAt(len)

CommitSpec == CommitInit /\ [][CommitNext]_commit_vars

-----------------------------------------------------------------------------
(* Every variable has its type. *)
CommitTypeOK ==
  /\ now \in Nat /\ last_sync \in Nat /\ oldest \in Nat \cup {Never}
  /\ in_flight \in Nat /\ unsynced \in Nat
  /\ tick_due \in BOOLEAN /\ sync_failed \in BOOLEAN

(* The counter is the truth: in_flight is the number of bytes a power loss *)
(* would take, after any mixture of appends, ticks, flushes and failed     *)
(* syncs.                                                                  *)
CounterExact == in_flight = unsynced

(* No more than size_bytes are at risk between two calls, unless the disk  *)
(* refuses to sync.                                                        *)
BytesAtRisk == ~sync_failed => unsynced < SizeBytes

(* No record is at risk for longer than the window and the timer period in *)
(* which it ends, unless the disk refuses to sync.                         *)
TimeAtRisk == ~sync_failed /\ oldest # Never => now - oldest <= Window

(* What a power loss takes is small and recent. *)
LittleAtRisk == BytesAtRisk /\ TimeAtRisk
=============================================================================
