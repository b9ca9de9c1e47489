-------------------------------- MODULE Wal --------------------------------
(***************************************************************************)
(* The write-ahead log of crates/core/src/log/wal.rs: WalWriter and        *)
(* WalReader on a file that a process kill leaves as it is and a power     *)
(* loss may take back to its last sync_data, wholly or in part.            *)
(*                                                                         *)
(* The file is a sequence of cells: the file header, then for every record *)
(* the cell with its length and CRC followed by len payload cells.  The    *)
(* CRC is modelled by what it does: a record is accepted exactly when the  *)
(* cells after its length are its own payload.  A cell of zeros read as a  *)
(* record header says len = 0 and crc = 0, which is the CRC of an empty    *)
(* payload.  Offsets count cells from 0.                                   *)
(***************************************************************************)
EXTENDS Integers, Sequences, Functions

CONSTANTS Lens,        \* payload lengths that append is called with
          MaxPayload,  \* MAX_PAYLOAD
          MaxAppends,  \* bound: calls of append
          MaxCrashes,  \* bound: process kills and power losses
          Disks        \* kinds of disk the log may be on

ASSUME WalAssumption ==
  /\ Lens \subseteq Nat
  /\ MaxPayload \in Nat /\ MaxAppends \in Nat /\ MaxCrashes \in Nat
  /\ Disks \subseteq {"ordered", "weak", "full"}

(* "ordered" keeps unsynced changes in order.  "weak" does not: a power    *)
(* loss may undo a set_len that came before a write, or leave zeros for    *)
(* data.  "full" is ordered and may fail a write_all half way.             *)
VARIABLES disk,     \* the kind of disk, which never changes
          file,     \* the file as the operating system shows it
          synced,   \* the file as of the last sync_data
          pc,       \* "closed", "header", "open", "payload"
          end,      \* WalWriter.end
          cur,      \* the record append is writing: [n, len]
          next,     \* calls of append so far
          offs,     \* offs[n]: what append returned for record n; Pending
                    \* while it has not, Failed if it was an error
          held,     \* records this writer found at open or appended
          acked,    \* records the writer held when a sync succeeded
          rooted,   \* the header was there when a sync succeeded
          crashes   \* crashes so far

vars ==
  <<disk, file, synced, pc, end, cur, next, offs, held, acked, rooted, crashes>>

Magic == <<"magic">>
Zero == <<"zero">>
Junk == <<"junk">>
RecordCell(n, len) == <<"record", n, len>>
PayloadCells(n, len) == [k \in 1..len |-> <<"payload", n, k>>]
HEADER_LEN == 1
Pending == -1
Failed == -2

-----------------------------------------------------------------------------
(* The record whose header is at offset p. *)
RecordNo(f, p) == IF f[p + 1] = Zero THEN 0 ELSE f[p + 1][2]
RecordLen(f, p) == IF f[p + 1] = Zero THEN 0 ELSE f[p + 1][3]
IsHeader(f, p) == p < Len(f) /\ f[p + 1][1] \in {"record", "zero"}

(* The checks of one turn of the scan: the header can be read, the length  *)
(* is allowed, the payload is there and its CRC matches.                   *)
Whole(f, p) ==
  /\ IsHeader(f, p)
  /\ RecordLen(f, p) <= MaxPayload
  /\ p + 1 + RecordLen(f, p) <= Len(f)
  /\ SubSeq(f, p + 2, p + 1 + RecordLen(f, p))
       = PayloadCells(RecordNo(f, p), RecordLen(f, p))

(* scan_valid_end: the offset of the first record that fails a check.      *)
ScanEnd(f) ==
  LET scan[p \in 0..Len(f)] ==
        IF Whole(f, p) THEN scan[p + 1 + RecordLen(f, p)] ELSE p
  IN scan[HEADER_LEN]

(* WalReader::read_all: the records before that offset.                    *)
ReadAll(f) ==
  LET read[p \in 0..Len(f)] ==
        IF Whole(f, p)
          THEN <<[n |-> RecordNo(f, p), off |-> p + 1]>>
                 \o read[p + 1 + RecordLen(f, p)]
          ELSE <<>>
  IN IF Len(f) < HEADER_LEN THEN <<>> ELSE read[HEADER_LEN]

SetLen(f, n) == IF n < Len(f) THEN SubSeq(f, 1, n) ELSE f

Numbers(recs) == [i \in DOMAIN recs |-> recs[i].n]

-----------------------------------------------------------------------------
Init ==
  /\ disk \in Disks
  /\ file = <<>> /\ synced = <<>> /\ pc = "closed" /\ end = 0
  /\ cur = [n |-> 0, len |-> 0] /\ next = 0 /\ offs = <<>>
  /\ held = {} /\ acked = {} /\ rooted = FALSE /\ crashes = 0

(* open of an empty file: write the header, ...                            *)
OpenFresh ==
  /\ pc = "closed" /\ file = <<>>
  /\ file' = <<Magic>>
  /\ pc' = "header"
  /\ UNCHANGED <<disk, synced, end, cur, next, offs, held, acked, rooted, crashes>>

(* The header is written in part or not at all, and open returns the       *)
(* error.                                                                  *)
OpenFreshFails ==
  /\ disk = "full" /\ pc = "closed" /\ file = <<>>
  /\ file' \in {file, <<Junk>>}
  /\ UNCHANGED <<disk, synced, pc, end, cur, next, offs, held, acked, rooted, crashes>>

(* ... then sync it.                                                       *)
SyncHeader ==
  /\ pc = "header"
  /\ synced' = file /\ rooted' = TRUE
  /\ end' = HEADER_LEN
  /\ pc' = "open"
  /\ UNCHANGED <<disk, file, cur, next, offs, held, acked, crashes>>

(* Mutant of OpenExisting: recovery starts the log over. *)
OpenStartsOver ==
  /\ pc = "closed" /\ file # <<>> /\ file[1] = Magic
  /\ end' = HEADER_LEN
  /\ file' = SetLen(file, end')
  /\ held' = {}
  /\ pc' = "open"
  /\ UNCHANGED <<disk, synced, cur, next, offs, acked, rooted, crashes>>

(* open of a file with a good header: cut the torn tail off and go to the  *)
(* end of the valid prefix.  (A bad header is an error, the log stays      *)
(* closed.)  set_len is not synced: only an ordered file system has it on  *)
(* disk before the writes that follow.                                     *)
OpenExisting ==
  /\ pc = "closed" /\ file # <<>> /\ file[1] = Magic
  /\ end' = ScanEnd(file)
  /\ file' = SetLen(file, end')
  /\ synced' = IF disk = "weak" THEN synced ELSE SetLen(synced, end')
  /\ held' = Range(Numbers(ReadAll(file)))
  /\ pc' = "open"
  /\ UNCHANGED <<disk, cur, next, offs, acked, rooted, crashes>>

(* append: refuse a payload above the limit, otherwise write length and    *)
(* CRC at the file position, which is the end of the file, ...             *)
AppendHeader(len) ==
  /\ pc = "open" /\ next < MaxAppends
  /\ len <= MaxPayload
  /\ next' = next + 1
  /\ offs' = Append(offs, Pending)
  /\ cur' = [n |-> next', len |-> len]
  /\ file' = Append(file, RecordCell(next', len))
  /\ pc' = "payload"
  /\ UNCHANGED <<disk, synced, end, held, acked, rooted, crashes>>

(* ... write the payload and return the offset computed from `end`.        *)
AppendPayload ==
  /\ pc = "payload"
  /\ file' = file \o PayloadCells(cur.n, cur.len)
  /\ offs' = [offs EXCEPT ![cur.n] = end + 1]
  /\ end' = end + 1 + cur.len
  /\ held' = held \cup {cur.n}
  /\ pc' = "open"
  /\ UNCHANGED <<disk, synced, cur, next, acked, rooted, crashes>>

(* A write fails after some of its bytes, or none, went out: append        *)
(* returns the error, `end` stays, the file and its position do not.       *)
HeaderFails ==
  /\ disk = "full" /\ pc = "open" /\ next < MaxAppends
  /\ next' = next + 1
  /\ offs' = Append(offs, Failed)
  /\ file' \in {file, Append(file, Junk)}
  /\ UNCHANGED <<disk, synced, pc, end, cur, held, acked, rooted, crashes>>

PayloadFails ==
  /\ disk = "full" /\ pc = "payload"
  /\ \E k \in 0..(cur.len - 1) : file' = file \o PayloadCells(cur.n, k)
  /\ offs' = [offs EXCEPT ![cur.n] = Failed]
  /\ pc' = "open"
  /\ UNCHANGED <<disk, synced, end, cur, next, held, acked, rooted, crashes>>

(* Mutant of Sync: the file is flushed, not synced. *)
SyncFlushes ==
  /\ pc = "open"
  /\ acked' = acked \cup held /\ rooted' = TRUE
  /\ UNCHANGED <<disk, file, synced, pc, end, cur, next, offs, held, crashes>>

(* sync: sync_data.                                                        *)
Sync ==
  /\ pc = "open"
  /\ synced' = file
  /\ acked' = acked \cup held /\ rooted' = TRUE
  /\ UNCHANGED <<disk, file, pc, end, cur, next, offs, held, crashes>>

(* The process dies; the next one finds the file as it is.                 *)
Kill ==
  /\ crashes < MaxCrashes /\ pc # "closed"
  /\ crashes' = crashes + 1
  /\ pc' = "closed" /\ held' = {}
  /\ UNCHANGED <<disk, file, synced, end, cur, next, offs, acked, rooted>>

(* What may be on the disk after a power loss: a length between that of    *)
(* the last sync and that of now, and at each place the cell written since *)
(* or, if it differs, the one of the last sync; zeros where nothing was    *)
(* synced yet, on a weak file system.                                      *)
Written(i) == IF i <= Len(file) THEN file[i] ELSE synced[i]
Before(i) == IF i <= Len(synced) THEN synced[i] ELSE Zero
Unsettled(i) ==
  IF i <= Len(synced) THEN Written(i) # synced[i] ELSE disk = "weak"

LossLengths == (Len(file)..Len(synced)) \cup (Len(synced)..Len(file))

Images ==
  UNION {{[i \in 1..l |-> IF i \in lost THEN Before(i) ELSE Written(i)] :
            lost \in SUBSET {i \in 1..l : Unsettled(i)}} : l \in LossLengths}

PowerLoss ==
  /\ crashes < MaxCrashes
  /\ crashes' = crashes + 1
  /\ file' \in Images
  /\ synced' = file'
  /\ pc' = "closed" /\ held' = {}
  /\ UNCHANGED <<disk, end, cur, next, offs, acked, rooted>>

(* While nothing was synced yet it may also leave a part of the file       *)
(* header, which verify_header refuses.  (A part of a record's header is   *)
(* read as the end of the log, as if it was not there.)                    *)
PowerLossTears ==
  /\ crashes < MaxCrashes
  /\ synced = <<>> /\ file # <<>>
  /\ crashes' = crashes + 1
  /\ file' = <<Junk>>
  /\ synced' = file'
  /\ pc' = "closed" /\ held' = {}
  /\ UNCHANGED <<disk, end, cur, next, offs, acked, rooted>>

Next ==
  \/ OpenFresh \/ OpenFreshFails \/ SyncHeader \/ OpenExisting
  \/ \E len \in Lens : AppendHeader(len)
  \/ AppendPayload \/ HeaderFails \/ PayloadFails \/ Sync \/ Kill \/ PowerLoss
  \/ PowerLossTears

Spec == Init /\ [][Next]_vars

-----------------------------------------------------------------------------
(* Every variable has its type. *)
TypeOK ==
  /\ pc \in {"closed", "header", "open", "payload"}
  /\ end \in 0..(HEADER_LEN + MaxAppends * (1 + MaxPayload))
  /\ cur.n \in 0..next /\ cur.len \in 0..MaxPayload
  /\ next \in 0..MaxAppends /\ crashes \in 0..MaxCrashes
  /\ acked \subseteq 0..next /\ held \subseteq 0..next
  /\ offs \in Seq(Int) /\ Len(offs) = next /\ rooted \in BOOLEAN

(* Durability: a record that was in the log when a sync succeeded is found *)
(* by every later scan, whatever crashes and torn appends come after,      *)
(* unless a write failed half way.                                         *)
SyncedSurvives ==
  disk # "full" => acked \subseteq Range(Numbers(ReadAll(file)))

(* No phantoms: what a scan finds are records that were appended, each     *)
(* once and in the order of the appends, and none whose append returned an *)
(* error ("stop at the first record that fails to read fully or whose CRC  *)
(* does not match", wal.rs:13-14), unless a power loss leaves zeros.       *)
RecoveredWereAppended ==
  LET recs == Numbers(ReadAll(file))
  IN disk # "weak" =>
       /\ \A i \in DOMAIN recs : recs[i] \in 1..next /\ offs[recs[i]] # Failed
       /\ \A i, j \in DOMAIN recs : i < j => recs[i] < recs[j]

(* append's return value is the place of the payload: for every record the *)
(* writer holds, the cell before that offset is its header (wal.rs:82-83), *)
(* unless a write failed half way.                                         *)
OffsetsAreTrue ==
  disk # "full" =>
    \A n \in held \cap 1..next :
      offs[n] >= 0 => offs[n] <= Len(file) /\ file[offs[n]][1] = "record"
                        /\ file[offs[n]][2] = n

(* Between two appends the next record goes to the end of the valid        *)
(* prefix, where a scan will reach it, unless a write failed half way.     *)
WriterAtEnd ==
  disk # "full" /\ pc = "open" => end = ScanEnd(file) /\ end = Len(file)

(* Once a sync has succeeded, of the new header or a later one, no crash,  *)
(* torn write or cut of the tail leaves a file that open rejects for ever. *)
(* (Before it a power loss can: open writes and syncs the header in place, *)
(* wal.rs:62-67, and takes a file with a part of it for a foreign one.)    *)
Reopens == rooted => file # <<>> /\ file[1] = Magic

(* What the writer and a scan after any crash agree on: everything synced  *)
(* and nothing invented is found, appends return true offsets and go where *)
(* a scan will find them, and the file can be opened again.                *)
LogSound ==
  /\ TypeOK /\ SyncedSurvives /\ RecoveredWereAppended
  /\ OffsetsAreTrue /\ WriterAtEnd /\ Reopens

(* What a reader of the log sees, the abstract log.  On a disk where zeros *)
(* can be read as records nothing is claimed.                              *)
View(f) == IF disk = "weak" THEN <<>> ELSE Numbers(ReadAll(f))
Promise == INSTANCE DurableLog
             WITH Records <- 1..MaxAppends,
                  log <- View(file), durable <- Len(View(synced))

(* The log of wal.rs implements DurableLog: a reader's view only grows by  *)
(* whole records, a sync covers all of it, a crash cuts an unsynced tail.  *)
ImplementsDurableLog == Promise!Spec
=============================================================================
