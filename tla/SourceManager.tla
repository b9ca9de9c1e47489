--------------------------- MODULE SourceManager ---------------------------
(***************************************************************************)
(* The lifecycle of ONE source session (one sid) in `tracemux serve`:      *)
(* SourceManager::{start, resume, restart, stop, remove, write, wait,      *)
(* reap_finished} of crates/server/src/source_manager.rs called by         *)
(* concurrent clients, the runner tasks they spawn (runner.rs), the        *)
(* session registry and the session-dir the runners append to              *)
(* (logsink/file.rs, log/raw.rs).                                          *)
(*                                                                         *)
(* The `sources` map and the registry are keyed by sid and no operation    *)
(* touches two keys, so the entry of one sid is the whole state that       *)
(* matters to it.  Atomic steps are what one lock region or one stretch of *)
(* code between two awaits does; a runner is a tokio task on its own       *)
(* worker thread, so its file operations interleave with everything else.  *)
(*                                                                         *)
(* Abstractions: a byte of raw.bin is the frame <<runner, number>> it      *)
(* belongs to; timestamps, labels, encodings and meta.toml are left out.   *)
(* I/O errors happen at step boundaries.  The Remote and Pcap source kinds *)
(* have runners of their own and are not this module's.                    *)
(***************************************************************************)
EXTENDS Integers, Sequences

CONSTANTS Clients,    \* connections that call the manager
          Embedders,  \* those that also use start_source, wait and reap_finished,
                      \* which the server itself never calls
          Runners,    \* identities of spawned runner tasks
          FrameLens,  \* byte lengths of the frames a source may deliver
          MaxFrames,  \* bound: frames one runner receives
          MaxRecords, \* bound: records of the session
          None        \* the absent task or sink

ASSUME ConstantsAssumption ==
  /\ None \notin Runners
  /\ Embedders \subseteq Clients
  /\ FrameLens \subseteq Nat
  /\ MaxFrames \in Nat /\ MaxRecords \in Nat

VARIABLES
  known,      \* the sources map has an entry for the sid
  spec,       \* that entry is spec-backed (FALSE: ephemeral, start_source)
  handle,     \* its JoinHandle: a runner or None
  sink,       \* its write-back sink, named by the runner it came with
  issued,     \* the sid has been drawn by a start call
  registered, \* the ingest registry has the sid
  call,       \* per client: the call in progress
  task,       \* per runner: phase of the task
  announced,  \* runners that sent their sid on the registration channel
  aborted,    \* runners whose JoinHandle::abort was called
  pos,        \* per runner: RawWriter.pos
  sent,       \* per runner: frames received so far
  span,       \* per runner: the (off, len) RawWriter::append returned last
  raw,        \* raw.bin: sequence of bytes
  index,      \* index.jsonl: sequence of rows
  records,    \* frames.jsonl: sequence of decoded frames
  framesIn    \* IngestStats.frames_in

mgrVars == <<known, spec, handle, sink, issued>>
dirVars == <<pos, sent, span, raw, index, records, framesIn>>
taskVars == <<task, announced, aborted>>
vars == <<mgrVars, registered, call, taskVars, dirVars>>

Idle == [pc |-> "idle", r |-> None, spec |-> FALSE]
CallStates ==
  [pc : {"idle", "opening", "awaiting", "writing", "waiting", "unregister"},
   r : Runners \cup {None},
   spec : BOOLEAN]
TaskStates ==
  {"none", "spawned", "recv", "index", "publish", "decode", "finished"}
Frames == Runners \X Nat
Spans == [off : Nat, len : Nat]
Rows == [frame : Frames, off : Nat, len : Nat]

(* The task has been spawned and is not over. *)
Live(r) == task[r] \notin {"none", "finished"}
(* JoinHandle::is_finished on the handle the entry holds. *)
HandleFinished == handle # None /\ ~Live(handle)

Init ==
  /\ known = FALSE /\ spec = FALSE /\ handle = None /\ sink = None
  /\ issued = FALSE
  /\ registered = FALSE
  /\ call = [c \in Clients |-> Idle]
  /\ task = [r \in Runners |-> "none"]
  /\ announced = {} /\ aborted = {}
  /\ pos = [r \in Runners |-> 0]
  /\ sent = [r \in Runners |-> 0]
  /\ span = [r \in Runners |-> [off |-> 0, len |-> 0]]
  /\ raw = <<>> /\ index = <<>> /\ records = <<>>
  /\ framesIn = 0

-----------------------------------------------------------------------------
(* Calls of the manager.                                                   *)

Enter(c, pc, r, backed) ==
  call' = [call EXCEPT ![c] = [pc |-> pc, r |-> r, spec |-> backed]]
Return(c) == call' = [call EXCEPT ![c] = Idle]

(* start_spec_with_options (backed) and start_source (ephemeral): a fresh  *)
(* v4 sid, so no other call can name it before it is registered.           *)
Start(c, backed) ==
  /\ call[c] = Idle
  /\ ~issued
  /\ backed \/ c \in Embedders
  /\ issued' = TRUE
  /\ Enter(c, "opening", None, backed)
  /\ UNCHANGED <<known, spec, handle, sink, registered, taskVars, dirVars>>

(* resume, under the lock: a finished handle is dropped, a present one is  *)
(* "already active", an ephemeral entry is "not resumable".                *)
Resume(c) ==
  /\ call[c] = Idle
  /\ known
  /\ handle = None \/ HandleFinished
  /\ handle' = None
  /\ sink' = IF HandleFinished THEN None ELSE sink
  /\ IF spec THEN Enter(c, "opening", None, TRUE) ELSE UNCHANGED call
  /\ UNCHANGED <<known, spec, issued, registered, taskVars, dirVars>>

(* restart_with_options, under the lock: take and abort the handle, drop   *)
(* the sink, then start again.                                             *)
Restart(c) ==
  /\ call[c] = Idle
  /\ known /\ spec
  /\ aborted' = aborted \cup ({handle} \ {None})
  /\ handle' = None
  /\ sink' = None
  /\ Enter(c, "opening", None, TRUE)
  /\ UNCHANGED <<known, spec, issued, registered, task, announced, dirVars>>

(* FileLogSink::create_with_labels: the files are opened for appending,    *)
(* and RawWriter::create takes the length of raw.bin as its position.      *)
OpenLogSink(r) == pos' = [pos EXCEPT ![r] = Len(raw)]

(* start_*_spec and start_default_pipeline up to the await of the          *)
(* registration signal: connect, create the log sink, spawn the runner.    *)
Spawn(c, r) ==
  /\ call[c].pc = "opening"
  /\ task[r] = "none"
  /\ task' = [task EXCEPT ![r] = "spawned"]
  /\ OpenLogSink(r)
  /\ Enter(c, "awaiting", r, call[c].spec)
  /\ UNCHANGED <<mgrVars, registered, announced, aborted, sent, span, raw,
                 index, records, framesIn>>

(* Opening the device, sampling it for detection or creating the log sink  *)
(* failed: the call returns the error.                                     *)
OpenFails(c) ==
  /\ call[c].pc = "opening"
  /\ Return(c)
  /\ UNCHANGED <<mgrVars, registered, taskVars, dirVars>>

(* rx.await yields the sid: insert the entry, replacing the one present.   *)
(* Dropping a replaced JoinHandle detaches its task.                       *)
Insert(c) ==
  /\ call[c].pc = "awaiting"
  /\ call[c].r \in announced
  /\ known' = TRUE
  /\ spec' = call[c].spec
  /\ handle' = call[c].r
  /\ \/ sink' = call[c].r     \* duplex source: serial, tcp, udp, process
     \/ sink' = None          \* source-only kinds
  /\ Return(c)
  /\ UNCHANGED <<issued, registered, taskVars, dirVars>>

(* rx.await fails because the task ended without registering.              *)
StartFails(c) ==
  /\ call[c].pc = "awaiting"
  /\ call[c].r \notin announced
  /\ ~Live(call[c].r)
  /\ Return(c)
  /\ UNCHANGED <<mgrVars, registered, taskVars, dirVars>>

(* Mutant of Stop: the handle is dropped, which only detaches the task. *)
StopDetaches(c) ==
  /\ call[c] = Idle
  /\ known
  /\ sink' = None /\ handle' = None
  /\ UNCHANGED <<known, spec, issued, registered, call, taskVars, dirVars>>

(* stop: drop the sink, take the handle and abort it.                      *)
Stop(c) ==
  /\ call[c] = Idle
  /\ known
  /\ sink' = None
  /\ handle' = None
  /\ aborted' = aborted \cup ({handle} \ {None})
  /\ UNCHANGED <<known, spec, issued, registered, call, task, announced, dirVars>>

(* Mutant of Remove: the entry goes without its task being aborted. *)
RemoveDetaches(c) ==
  /\ call[c] = Idle
  /\ known \/ registered
  /\ known' = FALSE /\ spec' = FALSE /\ handle' = None /\ sink' = None
  /\ Enter(c, "unregister", None, FALSE)
  /\ UNCHANGED <<issued, registered, taskVars, dirVars>>

(* remove: take the entry out of the map and abort its task, ...           *)
Remove(c) ==
  /\ call[c] = Idle
  /\ known \/ registered
  /\ known' = FALSE /\ spec' = FALSE /\ handle' = None /\ sink' = None
  /\ aborted' = aborted \cup ({handle} \ {None})
  /\ Enter(c, "unregister", None, FALSE)
  /\ UNCHANGED <<issued, registered, task, announced, dirVars>>

(* ... then drop the session from the registry.                            *)
Unregister(c) ==
  /\ call[c].pc = "unregister"
  /\ registered' = FALSE
  /\ Return(c)
  /\ UNCHANGED <<mgrVars, taskVars, dirVars>>

(* write, under the lock: drop a finished handle and its sink, otherwise   *)
(* clone the sink (no sink: an error).                                     *)
Write(c) ==
  /\ call[c] = Idle
  /\ known
  /\ handle' = IF HandleFinished THEN None ELSE handle
  /\ sink' = IF HandleFinished THEN None ELSE sink
  /\ IF sink' # None THEN Enter(c, "writing", sink', FALSE) ELSE UNCHANGED call
  /\ UNCHANGED <<known, spec, issued, registered, taskVars, dirVars>>

(* ctl, write and flush on the cloned sink, whatever the entry says now.   *)
WriteSink(c) ==
  /\ call[c].pc = "writing"
  /\ Return(c)
  /\ UNCHANGED <<mgrVars, registered, taskVars, dirVars>>

(* wait: take the handle out of the entry and await the task.              *)
Wait(c) ==
  /\ c \in Embedders
  /\ call[c] = Idle
  /\ known /\ handle # None
  /\ Enter(c, "waiting", handle, spec)
  /\ handle' = None
  /\ UNCHANGED <<known, spec, sink, issued, registered, taskVars, dirVars>>

(* The task is over: clear the sink of the entry that is there now, remove *)
(* it when the awaited one was ephemeral (an ephemeral sid gets no second  *)
(* entry, so the two lock regions of the code are one step).               *)
WaitDone(c) ==
  /\ call[c].pc = "waiting"
  /\ ~Live(call[c].r)
  /\ IF call[c].spec
       THEN sink' = None /\ UNCHANGED <<known, spec, handle>>
       ELSE known' = FALSE /\ spec' = FALSE /\ handle' = None /\ sink' = None
  /\ Return(c)
  /\ UNCHANGED <<issued, registered, taskVars, dirVars>>

(* reap_finished: forget a finished handle, drop a bare ephemeral entry.   *)
ReapFinished(c) ==
  /\ c \in Embedders
  /\ call[c] = Idle
  /\ known
  /\ handle' = IF HandleFinished THEN None ELSE handle
  /\ sink' = IF HandleFinished THEN None ELSE sink
  /\ known' = (spec \/ handle' # None)
  /\ UNCHANGED <<spec, issued, registered, call, taskVars, dirVars>>

-----------------------------------------------------------------------------
(* The runner task: run_source_once_notify.                                *)

(* source.open succeeded: register the session unless it is there, and     *)
(* send the sid to the caller.                                             *)
Register(r) ==
  /\ task[r] = "spawned"
  /\ task' = [task EXCEPT ![r] = "recv"]
  /\ registered' = TRUE
  /\ announced' = announced \cup {r}
  /\ UNCHANGED <<mgrVars, call, aborted, dirVars>>

(* Mutant of AppendRaw: the offset is taken after pos has moved. *)
AppendRawLateOffset(r, len) ==
  /\ task[r] = "recv"
  /\ sent[r] < MaxFrames
  /\ sent' = [sent EXCEPT ![r] = @ + 1]
  /\ raw' = raw \o [i \in 1..len |-> <<r, sent[r] + 1>>]
  /\ pos' = [pos EXCEPT ![r] = @ + len]
  /\ span' = [span EXCEPT ![r] = [off |-> pos'[r], len |-> len]]
  /\ task' = [task EXCEPT ![r] = "index"]
  /\ UNCHANGED <<mgrVars, registered, call, announced, aborted, index, records,
                 framesIn>>

(* A frame arrives: RawWriter::append and flush.  raw.bin is opened with   *)
(* O_APPEND, so the bytes go to its end wherever pos is.                   *)
AppendRaw(r, len) ==
  /\ task[r] = "recv"
  /\ sent[r] < MaxFrames
  /\ sent' = [sent EXCEPT ![r] = @ + 1]
  /\ raw' = raw \o [i \in 1..len |-> <<r, sent[r] + 1>>]
  /\ span' = [span EXCEPT ![r] = [off |-> pos[r], len |-> len]]
  /\ pos' = [pos EXCEPT ![r] = @ + len]
  /\ task' = [task EXCEPT ![r] = "index"]
  /\ UNCHANGED <<mgrVars, registered, call, announced, aborted, index, records,
                 framesIn>>

(* Mutant of AppendIndex: the row stays in a buffer that is never flushed. *)
AppendIndexUnflushed(r) ==
  /\ task[r] = "index"
  /\ task' = [task EXCEPT ![r] = "publish"]
  /\ UNCHANGED <<mgrVars, registered, call, announced, aborted, dirVars>>

(* IndexWriter::append and flush, with the offset RawWriter::append gave.  *)
AppendIndex(r) ==
  /\ task[r] = "index"
  /\ index' = Append(index, [frame |-> <<r, sent[r]>>,
                             off |-> span[r].off, len |-> span[r].len])
  /\ task' = [task EXCEPT ![r] = "publish"]
  /\ UNCHANGED <<mgrVars, registered, call, announced, aborted, pos, sent, span, raw,
                 records, framesIn>>

(* publish_wire: nothing when the sid is not registered, otherwise hand    *)
(* the frame to the fan-out and count it.                                  *)
Publish(r) ==
  /\ task[r] = "publish"
  /\ framesIn' = IF registered THEN framesIn + 1 ELSE framesIn
  /\ task' = [task EXCEPT ![r] = "decode"]
  /\ UNCHANGED <<mgrVars, registered, call, announced, aborted, pos, sent, span, raw,
                 index, records>>

(* One turn of the framer loop: a record is appended, ...                  *)
DecodeRecord(r) ==
  /\ task[r] = "decode"
  /\ Len(records) < MaxRecords
  /\ records' = Append(records, <<r, sent[r]>>)
  /\ UNCHANGED <<mgrVars, registered, call, taskVars, pos, sent, span, raw, index,
                 framesIn>>

(* ... until the framer wants more bytes.                                  *)
DecodeDone(r) ==
  /\ task[r] = "decode"
  /\ task' = [task EXCEPT ![r] = "recv"]
  /\ UNCHANGED <<mgrVars, registered, call, announced, aborted, dirVars>>

Finish(r) ==
  /\ task' = [task EXCEPT ![r] = "finished"]
  /\ UNCHANGED <<mgrVars, registered, call, announced, aborted, dirVars>>

(* source.open failed: the task ends and drops the registration channel.   *)
RunnerOpenFails(r) == task[r] = "spawned" /\ Finish(r)

(* End of the stream: commit, close, close the source.  An error anywhere  *)
(* in the loop ends the task without them.  Every append has flushed its   *)
(* file, so commit and close have nothing left to write.                   *)
RunnerEnds(r) == task[r] \in {"recv", "index", "publish", "decode"} /\ Finish(r)

(* Mutant of AbortTakesEffect: a flag that only the frame handler looks at. *)
AbortSeenByHandler(r) == r \in aborted /\ task[r] = "publish" /\ Finish(r)

(* An aborted task is dropped when it next yields, that is in recv; until  *)
(* then it keeps running.                                                  *)
AbortTakesEffect(r) == r \in aborted /\ task[r] = "recv" /\ Finish(r)

-----------------------------------------------------------------------------
DeviceStep(c) == (\E r \in Runners : Spawn(c, r)) \/ OpenFails(c)
CallStep(c) == Insert(c) \/ StartFails(c) \/ Unregister(c)

OpenStep(r) == Register(r) \/ RunnerOpenFails(r)
FrameStep(r) == AppendIndex(r) \/ Publish(r) \/ DecodeRecord(r) \/ DecodeDone(r)

Request(c) ==
  \/ \E backed \in BOOLEAN : Start(c, backed)
  \/ Resume(c) \/ Restart(c) \/ Stop(c) \/ Remove(c) \/ Write(c)
  \/ Wait(c) \/ ReapFinished(c)

Next ==
  \/ \E c \in Clients : Request(c) \/ DeviceStep(c) \/ CallStep(c) \/ WriteSink(c) \/ WaitDone(c)
  \/ \E r \in Runners :
       \/ OpenStep(r) \/ FrameStep(r) \/ RunnerEnds(r) \/ AbortTakesEffect(r)
       \/ \E len \in FrameLens : AppendRaw(r, len)

Spec == Init /\ [][Next]_vars

(* Tokio polls every woken task, and an aborted task is dropped at its     *)
(* next yield.  Opening a device need not return (the open of a FIFO waits *)
(* for a writer), sources need not deliver or end, sinks may block and     *)
(* clients need not call.                                                  *)
Fairness ==
  /\ \A c \in Clients : WF_vars(CallStep(c))
  /\ \A r \in Runners :
       WF_vars(FrameStep(r)) /\ WF_vars(AbortTakesEffect(r))

FairSpec == Spec /\ Fairness

-----------------------------------------------------------------------------
(* Properties.                                                             *)

(* Every variable has its type. *)
TypeOK ==
  /\ known \in BOOLEAN /\ spec \in BOOLEAN /\ issued \in BOOLEAN
  /\ registered \in BOOLEAN
  /\ handle \in Runners \cup {None} /\ sink \in Runners \cup {None}
  /\ call \in [Clients -> CallStates]
  /\ task \in [Runners -> TaskStates]
  /\ announced \subseteq Runners /\ aborted \subseteq Runners
  /\ pos \in [Runners -> Nat] /\ sent \in [Runners -> Nat]
  /\ span \in [Runners -> Spans]
  /\ raw \in Seq(Frames) /\ index \in Seq(Rows) /\ records \in Seq(Frames)
  /\ framesIn \in Nat

(* A reader of the session-dir never runs past the end of raw.bin: every   *)
(* row of index.jsonl names bytes that are already there, however the      *)
(* runners of the session overlap, because append_raw flushes raw.bin      *)
(* before it writes the row and pos never passes the end of the file.      *)
IndexInBounds ==
  \A i \in DOMAIN index : index[i].off + index[i].len <= Len(raw)

(* The row of a frame names exactly the bytes of that frame: log-format.md *)
(* says of `off` "offset into raw.bin".                                    *)
IndexPointsAtFrame ==
  \A i \in DOMAIN index :
    \A b \in 1..index[i].len : raw[index[i].off + b] = index[i].frame

(* The rows of one runner are in the order in which it received the        *)
(* frames, and no frame has two.                                           *)
RowsInOrder ==
  \A i, j \in DOMAIN index :
    i < j /\ index[i].frame[1] = index[j].frame[1]
      => index[i].frame[2] < index[j].frame[2]

(* index.jsonl has frames 1..n of runner r and no other frame of it. *)
IndexedUpTo(r, n) ==
  /\ \A k \in 1..n : \E i \in DOMAIN index : index[i].frame = <<r, k>>
  /\ \A i \in DOMAIN index : index[i].frame[1] = r => index[i].frame[2] \in 1..n

(* The lossless logger: what one runner received is in index.jsonl once    *)
(* and in order, at most the frame in hand excepted, and every decoded     *)
(* record and every counted frame is one that was indexed, whatever other  *)
(* runners write into the same session-dir meanwhile.                      *)
LosslessLog ==
  /\ RowsInOrder
  /\ \A r \in Runners :
       \/ IndexedUpTo(r, sent[r])
       \/ task[r] \in {"index", "finished"} /\ IndexedUpTo(r, sent[r] - 1)
  /\ \A i \in DOMAIN records : \E j \in DOMAIN index : index[j].frame = records[i]
  /\ framesIn <= Len(index)

AllIdle == \A c \in Clients : call[c] = Idle
Unstopped(r) == Live(r) /\ r \notin aborted

(* One runner per session: at no time do two tasks that nobody has aborted *)
(* feed the same sid.  resume "rejects still-running sources"              *)
(* (source_manager.rs:503) and restart aborts the one that runs.           *)
OneRunnerPerSession ==
  \A r, q \in Runners : Unstopped(r) /\ Unstopped(q) => r = q

(* The status list_sources reports for the sid.                            *)
Status ==
  CASE ~registered -> "absent"
    [] registered /\ ~known -> "unknown"
    [] registered /\ known /\ handle # None /\ Live(handle) -> "running"
    [] OTHER -> "stopped"

(* What the UI shows is what runs: with no call in progress, a source that *)
(* list_sources does not report as running has no task that will go on.    *)
StoppedMeansStopped ==
  AllIdle /\ Status # "running" => \A r \in Runners : ~Unstopped(r)

(* No orphan: a task that nobody has aborted can still be reached, by the  *)
(* handle of the entry or by the call that is starting or awaiting it.     *)
NoOrphan ==
  \A r \in Runners :
    Unstopped(r) => \/ handle = r
                    \/ \E c \in Clients : call[c].r = r /\ call[c].pc # "writing"

(* The entry only ever holds a task that registered the session: a start   *)
(* that failed to open leaves no handle behind.                            *)
HandleIsRegistered == handle # None => handle \in announced

(* The call waits for a device to open: while it connects or samples it    *)
(* itself, or for the open of the runner that it has spawned.              *)
OpenPending(c) ==
  \/ call[c].pc = "opening"
  \/ call[c].pc = "awaiting" /\ task[call[c].r] = "spawned"

(* Every start, resume, restart and remove returns to its caller, unless   *)
(* the open of its device never returns: the registration channel is       *)
(* either used or dropped by the runner, and nothing else is waited for.   *)
CallsReturn ==
  \A c \in Clients :
    \/ call[c].pc \in {"opening", "awaiting", "unregister"} ~> call[c] = Idle
    \/ <>[]OpenPending(c)

(* abort is effective: the task of a stopped, restarted or removed source  *)
(* ends, whatever frame it was handling.                                   *)
AbortedTasksEnd ==
  \A r \in Runners : r \in aborted ~> task[r] = "finished"

(* While nobody overlaps calls, one runner at most works for a session,    *)
(* and list_sources tells the truth about it.                              *)
OneRunnerShown == OneRunnerPerSession /\ StoppedMeansStopped

(* Whatever the runners and the other callers do, a call whose device      *)
(* opens or fails to returns, and a task that was aborted ends.            *)
EverythingEnds == CallsReturn /\ AbortedTasksEnd
=============================================================================
