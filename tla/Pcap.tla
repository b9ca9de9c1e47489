--------------------------------- MODULE Pcap ---------------------------------
(***************************************************************************)
(* Packet capture: PcapSource over its backend (core/src/source/pcap.rs),  *)
(* the capture runner (server/src/pcap_runner.rs), the direct pcapng       *)
(* writer with its rotation and the pcapng exporter                        *)
(* (core/src/exporter/pcapng.rs).  One source is started, ends or fails,   *)
(* and is started again in the same session directory.                     *)
(*                                                                         *)
(* A packet is its number; its bytes are that number, repeated.  The       *)
(* session files and the parts are behind BufWriters: a file has all that  *)
(* was appended to it once its writer is dropped, unless that write fails  *)
(* too (nobody sees it), and then what comes first of it.  An export is    *)
(* made between runs.                                                      *)
(***************************************************************************)
EXTENDS Naturals, Sequences, SequencesExt, FiniteSetsExt

CONSTANTS MaxPackets,    \* packets of all runs
          MaxRuns,       \* starts of the source
          PartPackets    \* size_bytes of the rotation policy, in packets

PcapSaveMode == {"session", "pcapng", "both"}
should_write_session(m) == m \in {"session", "both"}
WritesDirect(m) == m \in {"pcapng", "both"}

(* path: a pcapng_path is configured; dir: there is a session directory.   *)
(* With both, only the name of the artifact differs.                       *)
PcapConfigs ==
  {c \in [save : PcapSaveMode, path : BOOLEAN, dir : BOOLEAN] : c.path => ~c.dir}
Ethernet == 1
Links == {Ethernet, 113}
PacketLens == {<<0, 1>>, <<2, 3>>}      \* captured, original

VARIABLES cap_cfg,     \* what of the PcapConfig matters here
          cap_pc,      \* "new", "closed", "run" or "drop"
          cap_runs, cap_seq,
          cap_link,    \* the linktype of the open capture
          raw_bin, index_rows, frames_rows,    \* the session directory
          unparsable,  \* index.jsonl or frames.jsonl has a line cut short
          parts,       \* the pcapng artifacts, part 0 first
          open_part,   \* the part of the current run that is being written
          flushed,     \* lengths of the session files when the run began
          direct,      \* history: packets the direct writer took in this run
          kept,        \* history: packets whose session append succeeded
          lost         \* history: files that lack what was appended to them

cap_vars == <<cap_cfg, cap_pc, cap_runs, cap_seq, cap_link, raw_bin, index_rows,
              frames_rows, unparsable, parts, open_part, flushed, direct, kept, lost>>

NewPart == [ifaces |-> <<>>, packets |-> <<>>]
Lengths == [raw |-> Len(raw_bin), index |-> Len(index_rows), frames |-> Len(frames_rows)]

CapInit ==
  /\ cap_cfg = [save |-> "session", path |-> FALSE, dir |-> TRUE]
  /\ cap_pc = "new" /\ cap_runs = 0 /\ cap_seq = 0 /\ cap_link = Ethernet
  /\ raw_bin = <<>> /\ index_rows = <<>> /\ frames_rows = <<>> /\ unparsable = FALSE
  /\ parts = <<>> /\ open_part = 0 /\ flushed = Lengths
  /\ direct = <<>> /\ kept = <<>> /\ lost = {}

CapConfigure(c) ==
  /\ cap_pc = "new"
  /\ cap_cfg' = c /\ cap_pc' = "closed"
  /\ UNCHANGED <<cap_runs, cap_seq, cap_link, raw_bin, index_rows, frames_rows, unparsable,
                 parts, open_part, flushed, direct, kept, lost>>

-----------------------------------------------------------------------------
(* run_pcap_once_notify up to the registration: the source is opened, then *)
(* the session writer and the direct writer are made.  PcapngPartWriter::  *)
(* create truncates the file that an earlier run has left.                 *)
direct_pcapng_writer(c) == ~WritesDirect(c.save) \/ c.path \/ c.dir

SetPart(ps, i, part) == [k \in 1 .. Max({Len(ps), i}) |-> IF k = i THEN part ELSE ps[k]]

CapStart(opens, link) ==
  /\ cap_pc = "closed" /\ cap_runs < MaxRuns
  /\ cap_runs' = cap_runs + 1
  /\ IF opens /\ direct_pcapng_writer(cap_cfg)
     THEN /\ cap_pc' = "run" /\ cap_link' = link /\ flushed' = Lengths
          /\ IF WritesDirect(cap_cfg.save)
             THEN parts' = SetPart(parts, 1, NewPart) /\ open_part' = 1
             ELSE UNCHANGED <<parts, open_part>>
          /\ direct' = <<>> /\ lost' = lost \ {"part"}
     ELSE UNCHANGED <<cap_pc, cap_link, flushed, parts, open_part, direct, lost>>
  /\ UNCHANGED <<cap_cfg, cap_seq, raw_bin, index_rows, frames_rows, unparsable, kept>>

-----------------------------------------------------------------------------
(* PcapngStreamWriter::append_packet: rotate when the current part is full *)
(* or old, describe an interface of the part when it is new there, write   *)
(* the packet with the number of its interface.                            *)
should_rotate_for(part, old) ==
  Len(part.packets) > 0 /\ (Len(part.packets) >= PartPackets \/ old)

ensure_interface(ifaces, link) ==
  IF link \in Range(ifaces) THEN ifaces ELSE Append(ifaces, link)

rotated_part_path(at) == at + 1

DirectAppend(p, old, ok) ==
  LET rotating == should_rotate_for(parts[open_part], old)
      at == IF rotating THEN rotated_part_path(open_part) ELSE open_part
      part == IF rotating THEN NewPart ELSE parts[open_part]
      ifaces == ensure_interface(part.ifaces, p.link)
      id == SelectInSeq(ifaces, LAMBDA l : l = p.link)
  IN /\ open_part' = at
     /\ parts' = SetPart(parts, at,
                   [ifaces |-> ifaces,
                    packets |-> IF ok THEN Append(part.packets, [p EXCEPT !.link = id])
                                ELSE part.packets])

packet_record(p, row) ==
  [off |-> row.off, len |-> row.len, orig |-> p.orig, link |-> p.link]

(* PcapSessionWriter::append_packet writes raw.bin, then the index row,    *)
(* then the frame with what the index has no room for.  A write that fails *)
(* may leave a part of what it was about (cut).                            *)
PacketWritten(p, fail, cut) ==
  LET data == [i \in 1 .. p.cap |-> p.n]
      row == [off |-> Len(raw_bin), len |-> p.cap, n |-> p.n, early |-> p.early]
  IN /\ raw_bin' = raw_bin \o IF fail # "raw" THEN data
                              ELSE IF cut THEN SubSeq(data, 1, p.cap - 1) ELSE <<>>
     /\ index_rows' = IF fail \in {"raw", "index"} THEN index_rows ELSE Append(index_rows, row)
     /\ frames_rows' = IF fail # "no" THEN frames_rows
                       ELSE Append(frames_rows, packet_record(p, row))
     /\ unparsable' = (unparsable \/ (fail \in {"index", "frames"} /\ cut))

(* NativePcapBackend::recv_packet; "early" is a time before 1970. *)
ReceivedPacket(lens, early) ==
  [n |-> cap_seq + 1, cap |-> lens[1], orig |-> Max({lens[1], lens[2]}), link |-> cap_link,
   early |-> early]

(* One turn of the runner's loop, and the write of it that fails.  pcapng  *)
(* cannot express a time before 1970: the direct writer refuses the packet.*)
CapPacket(lens, early, old, fail, cut) ==
  LET p == ReceivedPacket(lens, early)
      writes == WritesDirect(cap_cfg.save)
      sessions == should_write_session(cap_cfg.save) /\ cap_cfg.dir
      refused == writes /\ (fail \in {"rotate", "block"} \/ early)
  IN
  /\ cap_pc = "run" /\ cap_seq < MaxPackets
  /\ fail \in {"rotate", "block"} => writes /\ ~cut
  /\ fail = "rotate" => should_rotate_for(parts[open_part], old)
  /\ fail \in {"raw", "index", "frames"} => sessions /\ ~refused
  /\ cap_seq' = cap_seq + 1
  /\ IF writes /\ fail # "rotate" THEN DirectAppend(p, old, ~refused)
     ELSE UNCHANGED <<parts, open_part>>
  /\ direct' = IF writes /\ ~refused THEN Append(direct, p) ELSE direct
  /\ IF sessions /\ ~refused THEN PacketWritten(p, fail, cut)
     ELSE UNCHANGED <<raw_bin, index_rows, frames_rows, unparsable>>
  /\ kept' = IF sessions /\ ~refused /\ fail = "no" THEN Append(kept, p) ELSE kept
  /\ cap_pc' = IF refused \/ fail # "no" THEN "drop" ELSE "run"
  /\ UNCHANGED <<cap_cfg, cap_runs, cap_link, flushed, lost>>

(* The capture has no more packets, cannot be read, or is stopped. *)
CapEnd ==
  /\ cap_pc = "run" /\ cap_pc' = "drop"
  /\ UNCHANGED <<cap_cfg, cap_runs, cap_seq, cap_link, raw_bin, index_rows, frames_rows,
                 unparsable, parts, open_part, flushed, direct, kept, lost>>

(* commit, or the drop of the writers: what they hold gets into the files, *)
(* or only the beginning of what was appended since the run began.         *)
CapDrop(r, i, f, k, cut) ==
  LET open == WritesDirect(cap_cfg.save)
  IN
  /\ cap_pc = "drop" /\ cap_pc' = "closed"
  /\ r \in flushed.raw .. Len(raw_bin) /\ raw_bin' = SubSeq(raw_bin, 1, r)
  /\ i \in flushed.index .. Len(index_rows) /\ index_rows' = SubSeq(index_rows, 1, i)
  /\ f \in flushed.frames .. Len(frames_rows) /\ frames_rows' = SubSeq(frames_rows, 1, f)
  /\ cut => i < Len(index_rows) \/ f < Len(frames_rows)
  /\ unparsable' = (unparsable \/ cut)
  /\ IF open
     THEN LET part == parts[open_part]
          IN /\ k \in 0 .. Len(part.packets)
             /\ parts' = SetPart(parts, open_part, [part EXCEPT !.packets = SubSeq(@, 1, k)])
     ELSE k = 0 /\ UNCHANGED parts
  /\ lost' = lost \cup (IF <<r, i, f>> # <<Len(raw_bin), Len(index_rows), Len(frames_rows)>>
                        THEN {"session"} ELSE {})
                  \cup (IF open /\ k < Len(parts[open_part].packets) THEN {"part"} ELSE {})
  /\ UNCHANGED <<cap_cfg, cap_runs, cap_seq, cap_link, open_part, flushed, direct, kept>>

CapNext ==
  \/ \E c \in PcapConfigs : CapConfigure(c)
  \/ \E l \in Links, opens \in BOOLEAN : CapStart(opens, l)
  \/ \E x \in PacketLens, early, old, cut \in BOOLEAN,
        fail \in {"no", "rotate", "block", "raw", "index", "frames"} :
        CapPacket(x, early, old, fail, cut)
  \/ CapEnd
  \/ \E r \in {flushed.raw, Len(raw_bin)}, i \in {flushed.index, Len(index_rows)},
        f \in {flushed.frames, Len(frames_rows)}, cut \in BOOLEAN,
        k \in {0} \cup {Len(parts[n].packets) : n \in DOMAIN parts \cap {open_part}} :
        CapDrop(r, i, f, k, cut)      \* losses tried: none or all of a run's

-----------------------------------------------------------------------------
(* Mutant of read_packet_metadata: joined by the offset alone, the first   *)
(* frame there wins.                                                       *)
MetadataByOffset(off, len) ==
  LET at == {i \in DOMAIN frames_rows : frames_rows[i].off = off}
  IN IF at = {} THEN [orig |-> len, link |-> Ethernet]
     ELSE [orig |-> frames_rows[Min(at)].orig, link |-> frames_rows[Min(at)].link]

(* The exporter joins the two files by (off, len).  Without a frame the    *)
(* packet is taken for an Ethernet packet that was captured whole.         *)
read_packet_metadata(off, len) ==
  LET at == {i \in DOMAIN frames_rows : frames_rows[i].off = off /\ frames_rows[i].len = len}
  IN IF at = {} THEN [orig |-> len, link |-> Ethernet]
     ELSE [orig |-> frames_rows[Max(at)].orig, link |-> frames_rows[Max(at)].link]

(* The export fails when a line does not parse, when a packet is early or  *)
(* its bytes are not there, and when there are no packets.                 *)
ExportFails ==
  \/ unparsable \/ index_rows = <<>>
  \/ \E i \in DOMAIN index_rows :
       index_rows[i].early \/ index_rows[i].off + index_rows[i].len > Len(raw_bin)

Exported ==
  [i \in DOMAIN index_rows |->
     LET row == index_rows[i]
         meta == read_packet_metadata(row.off, row.len)
     IN [data |-> SubSeq(raw_bin, row.off + 1, row.off + row.len),
         orig |-> meta.orig, link |-> meta.link]]

(* Unless a file was left without what was appended to it, an export of    *)
(* the session directory that succeeds has every packet whose append       *)
(* succeeded, in order, with its own bytes and, unless it has none, its    *)
(* own length and linktype, however often the source was started again and *)
(* whichever write failed in between; and it fails only when no packet was *)
(* kept, when one of them is from before 1970, or when a failed write left *)
(* a part of a line.                                                       *)
ExportIsCapture ==
  "session" \notin lost =>
    /\ ~ExportFails =>
         \E f \in [DOMAIN kept -> DOMAIN index_rows] :
           /\ \A i, j \in DOMAIN kept : i < j => f[i] < f[j]
           /\ \A i \in DOMAIN kept :
                LET e == Exported[f[i]] IN
                /\ index_rows[f[i]].n = kept[i].n
                /\ e.data = [k \in 1 .. kept[i].cap |-> kept[i].n]
                /\ kept[i].cap > 0 => e.orig = kept[i].orig /\ e.link = kept[i].link
    /\ ExportFails =>
         \/ kept = <<>> \/ unparsable
         \/ \E i \in DOMAIN index_rows : index_rows[i].early

RunParts == IF direct = <<>> THEN <<>> ELSE SubSeq(parts, 1, open_part)

(* The parts that a run has written have, one after the other, every       *)
(* packet its writer took (the first of them, if what it held at the end   *)
(* did not get into the last part), and a packet's interface number is     *)
(* that of an interface with its linktype in the same part:                *)
(* PcapngPartWriter describes the interfaces anew in each part.            *)
PartsAreTheRun ==
  LET resolved(part) ==
        [i \in DOMAIN part.packets |->
           [part.packets[i] EXCEPT !.link = part.ifaces[@]]]
      written == FlattenSeq([k \in DOMAIN RunParts |-> resolved(RunParts[k])])
  IN IF "part" \in lost THEN IsPrefix(written, direct) ELSE written = direct

(* Neither way of getting a pcapng file from a run loses or mislabels a    *)
(* packet.                                                                 *)
CapturesSound == ExportIsCapture /\ PartsAreTheRun
=============================================================================
