------------------------------ MODULE Recording ------------------------------
(***************************************************************************)
(* A session-dir written through buffers, and read back.  The writers are  *)
(* the commands `tracemux log` and `tracemux connect --save` and the       *)
(* importers; each appends a payload to raw.bin, then its row to           *)
(* index.jsonl, both through a BufWriter, and may be killed at any time,   *)
(* which is how log and connect are normally ended.  The readers are the   *)
(* replay source, `tracemux replay` and the exporters.                     *)
(*                                                                         *)
(* A byte of raw.bin is the number of the frame it belongs to.  A row is   *)
(* three pieces, its first half, its second half and its newline, because  *)
(* a buffer that fills up is written out in the middle of a row.  Input an *)
(* importer skips (blank CSV rows, pcapng blocks that are not packets),    *)
(* timestamps, tags and meta.toml are left out, and writes do not fail.    *)
(***************************************************************************)
EXTENDS Naturals, Sequences

CONSTANTS RecBuffer,       \* capacity of a BufWriter
          FlushPeriod,     \* frames between two flushes of log and connect
          FrameLens,       \* lengths of payloads
          MaxRecorded,     \* bound on the frames of a session-dir
          MaxRecordings    \* bound on the recordings into it

ASSUME RecordingAssumption ==
  /\ RecBuffer \in Nat /\ RecBuffer > 2
  /\ FlushPeriod \in Nat /\ FlushPeriod > 0 /\ FrameLens \subseteq Nat

VARIABLES writer,      \* the command that records: its kind, phase and flushes to do
          on_disk,        \* "raw", "index", "lines": what is on disk and what is buffered
          raw_pos,     \* RawWriter.pos
          frames,      \* history: length of each frame received, in order
          recordings,  \* recordings begun
          killed,      \* history: a recording was killed
          reused       \* history: another one was begun after that

rec_vars == <<writer, on_disk, raw_pos, frames, recordings, killed, reused>>

(* The writers: do they insist on an empty directory, after how many       *)
(* frames they flush (0: at the end only), do they write lines.jsonl, and  *)
(* in which order their buffers are written out when an error drops them.  *)
LogRun == [by |-> "log", fresh |-> FALSE, every |-> FlushPeriod,
           lines |-> FALSE, dropped |-> <<"index", "raw">>]
ConnectRecorder == [by |-> "connect", fresh |-> TRUE, every |-> FlushPeriod,
                    lines |-> FALSE, dropped |-> <<"raw", "index">>]
TextImport == [by |-> "text", fresh |-> TRUE, every |-> 0,
               lines |-> FALSE, dropped |-> <<"index", "raw">>]
(* lines.jsonl only gets the rows of a file whose header has a text column. *)
CsvImport(text) == [by |-> "csv", fresh |-> TRUE, every |-> 0,
                    lines |-> text, dropped |-> <<"lines", "index", "raw">>]
TeraTermImport == [by |-> "teraterm", fresh |-> TRUE, every |-> 0,
                   lines |-> TRUE, dropped |-> <<"lines", "index", "raw">>]
PcapngImport == [by |-> "pcapng", fresh |-> TRUE, every |-> 0,
                 lines |-> FALSE, dropped |-> <<"index", "raw">>]

Writers == {LogRun, ConnectRecorder, TextImport, CsvImport(TRUE), CsvImport(FALSE),
            TeraTermImport, PcapngImport}

Nobody == [kind |-> LogRun, phase |-> "none", count |-> 0, todo |-> <<>>]
NewFile == [disk |-> <<>>, buf |-> <<>>]

RecInit ==
  /\ writer = Nobody
  /\ on_disk = [n \in {"raw", "index", "lines"} |-> NewFile]
  /\ raw_pos = 0 /\ frames = <<>> /\ recordings = 0
  /\ killed = FALSE /\ reused = FALSE

-----------------------------------------------------------------------------
(* BufWriter: what does not fit makes it write out what it has.            *)
Flushed(f) == [disk |-> f.disk \o f.buf, buf |-> <<>>]

Put(f, data) ==
  LET g == IF Len(f.buf) + Len(data) > RecBuffer THEN Flushed(f) ELSE f
  IN  IF Len(data) >= RecBuffer
      THEN [g EXCEPT !.disk = @ \o data]
      ELSE [g EXCEPT !.buf = @ \o data]

(* serde_json writes a row in pieces. *)
PutRow(f, off, len) ==
  LET Piece(g, p) == Put(g, <<[part |-> p, off |-> off, len |-> len]>>)
  IN  Piece(Piece(Piece(f, 1), 2), 3)

(* LinesWriter::append: the text of a line, then its newline. *)
PutLine(f, n) ==
  Put(Put(f, <<[line |-> n, part |-> 1]>>), <<[line |-> n, part |-> 2]>>)

(* Mutant of CreateRaw: offsets start at 0 in a file that is appended to. *)
CreateRawAtZero == 0

(* RawWriter::create: appends, from the end of what is there. *)
CreateRaw == Len(on_disk["raw"].disk)

(* import and connect --save refuse a directory that has something in it;  *)
(* log writes into whatever directory its name pattern gives.              *)
CreateSession(k) ==
  /\ writer.phase = "none" /\ recordings < MaxRecordings
  /\ k.fresh => recordings = 0
  /\ recordings' = recordings + 1
  /\ writer' = [kind |-> k, phase |-> "recv", count |-> 0, todo |-> <<>>]
  /\ raw_pos' = CreateRaw
  /\ reused' = (reused \/ killed)
  /\ UNCHANGED <<on_disk, frames, killed>>

(* A frame, line, row or packet: raw.append. *)
RecordRaw(len) ==
  /\ writer.phase = "recv" /\ writer.todo = <<>> /\ Len(frames) < MaxRecorded
  /\ frames' = Append(frames, len)
  /\ on_disk' = [on_disk EXCEPT !["raw"] = Put(@, [i \in 1..len |-> Len(frames) + 1])]
  /\ raw_pos' = raw_pos + len
  /\ writer' = [writer EXCEPT !.phase = "row"]
  /\ UNCHANGED <<recordings, killed, reused>>

(* Then its row, and for some importers its line; log and connect flush    *)
(* raw.bin and index.jsonl after every FlushPeriod frames.                 *)
RecordRow ==
  LET len == frames[Len(frames)]
      n == writer.count + 1
      k == writer.kind
  IN  /\ writer.phase = "row"
      /\ on_disk' = [on_disk EXCEPT
                    !["index"] = PutRow(@, raw_pos - len, len),
                    !["lines"] = IF k.lines THEN PutLine(@, Len(frames)) ELSE @]
      /\ writer' = [writer EXCEPT
                      !.phase = "recv", !.count = n,
                      !.todo = IF k.every > 0 /\ n % k.every = 0
                               THEN <<"raw", "index">> ELSE <<>>]
      /\ UNCHANGED <<raw_pos, frames, recordings, killed, reused>>

(* One flush; after the last one of an ending recording it is over. *)
FlushNext ==
  /\ writer.todo # <<>>
  /\ on_disk' = [on_disk EXCEPT ![Head(writer.todo)] = Flushed(@)]
  /\ writer' = IF writer.phase = "end" /\ Len(writer.todo) = 1
               THEN Nobody ELSE [writer EXCEPT !.todo = Tail(@)]
  /\ UNCHANGED <<raw_pos, frames, recordings, killed, reused>>

EndWith(order) ==
  /\ writer' = [writer EXCEPT !.phase = "end", !.todo = order]
  /\ UNCHANGED <<on_disk, raw_pos, frames, recordings, killed, reused>>

(* The end of the input, or an event that ends the loop: all is flushed.   *)
RecordEnd ==
  /\ writer.phase = "recv" /\ writer.todo = <<>>
  /\ EndWith(IF writer.kind.lines THEN <<"raw", "index", "lines">>
                                  ELSE <<"raw", "index">>)

(* An error returned with `?`, between two frames: the buffers are dropped, *)
(* which writes them out.                                                  *)
RecordError ==
  /\ writer.phase = "recv" /\ writer.todo = <<>>
  /\ EndWith(writer.kind.dropped)

(* Ctrl-C or a kill, at any point: what is buffered is gone. *)
RecordKilled ==
  /\ writer.phase # "none"
  /\ writer' = Nobody /\ killed' = TRUE
  /\ on_disk' = [n \in DOMAIN on_disk |-> [on_disk[n] EXCEPT !.buf = <<>>]]
  /\ UNCHANGED <<raw_pos, frames, recordings, reused>>

RecNext ==
  \/ \E k \in Writers : CreateSession(k)
  \/ \E len \in FrameLens : RecordRaw(len)
  \/ RecordRow \/ FlushNext \/ RecordEnd \/ RecordError \/ RecordKilled

RecSpec == RecInit /\ [][RecNext]_rec_vars

-----------------------------------------------------------------------------
(* RawReader::read_at: a range that ends after the file is an error.       *)
InRaw(r) == r.off + r.len <= Len(on_disk["raw"].disk)
read_at(r) == SubSeq(on_disk["raw"].disk, r.off + 1, r.off + r.len)

(* The lines of index.jsonl up to the first that is not the text of one    *)
(* row; the newline of the last may be missing.                            *)
LineParses(k) ==
  LET f == on_disk["index"].disk
  IN  /\ 3 * k - 1 <= Len(f)
      /\ f[3 * k - 2].part = 1 /\ f[3 * k - 1].part = 2
      /\ 3 * k <= Len(f) => f[3 * k].part = 3
      /\ f[3 * k - 1] = [f[3 * k - 2] EXCEPT !.part = 2]
LinesInIndex == (Len(on_disk["index"].disk) + 2) \div 3
Row(k) == on_disk["index"].disk[3 * k - 2]

UpToError(ok(_)) ==
  LET good == {n \in 0..LinesInIndex : \A k \in 1..n : ok(k)}
  IN  [k \in 1..(CHOOSE n \in good : \A m \in good : m <= n) |-> Row(k)]

(* `tracemux replay`: the records walked before the first line that does   *)
(* not parse.                                                              *)
replay_run == Len(UpToError(LineParses))

(* The replay source: open parses the whole index or fails; recv reads the *)
(* range of the next row.                                                  *)
ReplayOpens == replay_run = LinesInIndex
ReplayEmitted ==
  IF ReplayOpens
  THEN LET rows == UpToError(LAMBDA k : LineParses(k) /\ InRaw(Row(k)))
       IN  [k \in DOMAIN rows |-> read_at(rows[k])]
  ELSE <<>>

(* The exporters go line by line and stop at the first error; what they    *)
(* have written by then stays in the output file.                          *)
ExportedRows == UpToError(LAMBDA k : LineParses(k) /\ InRaw(Row(k)))
csv_run == [k \in DOMAIN ExportedRows |->
              [len |-> ExportedRows[k].len, text |-> read_at(ExportedRows[k])]]
text_run == [k \in DOMAIN ExportedRows |-> read_at(ExportedRows[k])]
jsonl_run == [k \in DOMAIN ExportedRows |->
                [row |-> ExportedRows[k], text |-> read_at(ExportedRows[k])]]

-----------------------------------------------------------------------------
FrameBytes(n) == [i \in 1..frames[n] |-> n]
Recorded == [n \in DOMAIN frames |-> FrameBytes(n)]
AllLines == [i \in 1..(2 * Len(frames)) |->
               [line |-> (i + 1) \div 2, part |-> 2 - (i % 2)]]
Texts_(s) == [k \in DOMAIN s |-> s[k].text]
Begins(s, t) == Len(s) <= Len(t) /\ \A i \in 1..Len(s) : s[i] = t[i]

(* Whatever replay emits and the exporters write, at any moment, is a      *)
(* prefix of the frames that were recorded, each with its own bytes; once  *)
(* every recording has come to its end, by the end of its input or by an   *)
(* error, it is all of them, however often `log` was run into the same     *)
(* directory ("Existing files are appended to", logsink/file.rs).  A       *)
(* directory that was recorded into again after a kill is excepted.        *)
ReadBackIsRecorded ==
  ~reused =>
    /\ \A out \in {ReplayEmitted, text_run, Texts_(csv_run), Texts_(jsonl_run)} :
         /\ Begins(out, Recorded)
         /\ writer.phase = "none" /\ ~killed => out = Recorded
    /\ \A k \in DOMAIN csv_run : csv_run[k].len = frames[k]
    /\ Begins(on_disk["lines"].disk, AllLines)
=============================================================================
