---------------------------- MODULE RemoteMirror ----------------------------
(***************************************************************************)
(* A remote mirror (crates/server/src/remote_mirror.rs): the central       *)
(* server's task that subscribes to a session of an edge server, logs and  *)
(* republishes its frames, and proxies write-back to it.                   *)
(*                                                                         *)
(* Local writers reach the mirror through RemoteWriteSink, one at a time   *)
(* under the sink's lock.  Between mirror and edge there are two bounded   *)
(* byte streams; the edge is a connection as in module WsConnection,       *)
(* reduced to its loop (which serves one message at a time and waits until *)
(* the device has taken the write and the reply is queued), the one        *)
(* subscription that the mirror made, its bounded queue and its writer.    *)
(***************************************************************************)
EXTENDS Integers, Sequences, Functions

CONSTANTS MaxWrites,      \* bound: local write calls
          MaxEdgeFrames,  \* bound: data frames of the edge
          RequestQueue,   \* slots of the request channel (128)
          EdgeQueue,      \* slots of the edge connection's queue (64)
          EdgeRing,       \* slots of the edge session's fan-out ring (1024)
          NetLen          \* messages in flight in one direction

ASSUME MirrorAssumption ==
  /\ MaxWrites \in Nat /\ MaxEdgeFrames \in Nat
  /\ RequestQueue \in Nat \ {0} /\ EdgeQueue \in Nat \ {0}
  /\ EdgeRing \in Nat \ {0} /\ NetLen \in Nat \ {0}

Writes == 1..MaxWrites

VARIABLES write,      \* write[w]: "new", "locked", "queued", "ok" or "error"
          write_rx,   \* the channel from RemoteWriteSink to the mirror
          mirror,     \* the mirror task: [pc, w]
          next_seq,   \* next_write_seq
          pending,    \* pending_writes: pairs of seq and write
          up,         \* messages on their way to the edge
          down,       \* messages on their way to the mirror
          edge,       \* the edge's request loop: [pc, msg]
          edge_out,   \* the edge's queue
          performed,  \* writes that reached the edge's device, in order
          frames,     \* frames the edge's session published
          feed,       \* the edge's subscription task: [next, msg]
          skipped,    \* history: frames the ring overwrote before feed read them
          logged,     \* frames in the mirror's session-dir
          published,  \* frames the mirror published to local subscribers
          socket      \* "open" or "closed"

mirror_vars == <<write, write_rx, mirror, next_seq, pending, up, down, edge,
                 edge_out, performed, frames, feed, skipped, logged, published,
                 socket>>
edge_feed == <<frames, feed, skipped>>

WriteMsg(seq, w) == [kind |-> "write", seq |-> seq, w |-> w]
Ack(seq) == [kind |-> "write_ack", seq |-> seq, w |-> 0]
Error(seq) == [kind |-> "error", seq |-> seq, w |-> 0]
Frame(n, ch) == [kind |-> ch, seq |-> n, w |-> 0]   \* ch: "target" or "other"
NoFrame == [kind |-> "none", seq |-> 0, w |-> 0]

(* The sub frame has seq 1, so writes count from 2. *)
FirstWriteSeq == 2

MirrorInit ==
  /\ write = [w \in Writes |-> "new"]
  /\ write_rx = <<>>
  /\ mirror = [pc |-> "select", w |-> 0]
  /\ next_seq = FirstWriteSeq /\ pending = {}
  /\ up = <<>> /\ down = <<>>
  /\ edge = [pc |-> "read", msg |-> NoFrame] /\ edge_out = <<>>
  /\ performed = <<>> /\ frames = <<>>
  /\ feed = [next |-> 1, msg |-> NoFrame] /\ skipped = {}
  /\ logged = <<>> /\ published = <<>>
  /\ socket = "open"

-----------------------------------------------------------------------------
(* Local writers: SourceManager::write holds the sink's lock throughout. *)
Locked == \E w \in Writes : write[w] \in {"locked", "queued"}

Lock(w) ==
  /\ write[w] = "new" /\ ~Locked
  /\ \A v \in Writes : v < w => write[v] # "new"
  /\ write' = [write EXCEPT ![w] = "locked"]
  /\ UNCHANGED <<write_rx, mirror, next_seq, pending, up, down, edge, edge_out,
                 performed, edge_feed, logged, published, socket>>

(* Mutant of QueueRequest: nobody notices that the mirror has ended. *)
QueueRequestWaits(w) ==
  /\ write[w] = "locked" /\ mirror.pc # "ended" /\ Len(write_rx) < RequestQueue
  /\ write_rx' = Append(write_rx, w)
  /\ write' = [write EXCEPT ![w] = "queued"]
  /\ UNCHANGED <<mirror, next_seq, pending, up, down, edge, edge_out,
                 performed, edge_feed, logged, published, socket>>

(* RemoteWriteSink::write: queue the request, waiting for a slot.          *)
QueueRequest(w) ==
  /\ write[w] = "locked"
  /\ \/ /\ mirror.pc # "ended" /\ Len(write_rx) < RequestQueue
        /\ write_rx' = Append(write_rx, w)
        /\ write' = [write EXCEPT ![w] = "queued"]
     \/ /\ mirror.pc = "ended"
        /\ write' = [write EXCEPT ![w] = "error"]
        /\ UNCHANGED write_rx
  /\ UNCHANGED <<mirror, next_seq, pending, up, down, edge, edge_out,
                 performed, edge_feed, logged, published, socket>>

(* The 30 s timeout: the caller gives up, the request goes on.             *)
WriteTimesOut(w) ==
  /\ write[w] = "queued"
  /\ write' = [write EXCEPT ![w] = "error"]
  /\ UNCHANGED <<write_rx, mirror, next_seq, pending, up, down, edge, edge_out,
                 performed, edge_feed, logged, published, socket>>

(* The oneshot of a write is resolved; a caller that gave up hears nothing. *)
Resolve(ws, outcome) ==
  write' = [w \in Writes |-> IF w \in ws /\ write[w] = "queued" THEN outcome ELSE write[w]]

-----------------------------------------------------------------------------
(* The mirror task. *)
Waiting == Range(write_rx) \cup {p[2] : p \in pending} \cup {mirror.w}

(* The task returns: every oneshot it holds is dropped, and the socket     *)
(* with what it had not read.  The edge still gets what was sent.          *)
MirrorReturns ==
  /\ mirror' = [pc |-> "ended", w |-> 0]
  /\ Resolve(Waiting, "error")
  /\ write_rx' = <<>> /\ pending' = {}
  /\ down' = <<>> /\ socket' = "closed"

(* write_rx.recv: take a request and number it, then send it, ...          *)
TakeRequest ==
  /\ mirror.pc = "select" /\ write_rx # <<>>
  /\ mirror' = [pc |-> "sending", w |-> Head(write_rx)]
  /\ write_rx' = Tail(write_rx)
  /\ UNCHANGED <<write, next_seq, pending, up, down, edge, edge_out,
                 performed, edge_feed, logged, published, socket>>

(* ... which may block, with nothing else read meanwhile; only then is it  *)
(* pending.                                                                *)
SendRequest ==
  /\ mirror.pc = "sending" /\ socket = "open" /\ Len(up) < NetLen
  /\ up' = Append(up, WriteMsg(next_seq, mirror.w))
  /\ next_seq' = next_seq + 1
  /\ pending' = pending \cup {<<next_seq, mirror.w>>}
  /\ mirror' = [pc |-> "select", w |-> 0]
  /\ UNCHANGED <<write, write_rx, down, edge, edge_out, performed, edge_feed, logged,
                 published, socket>>

SendFails ==
  /\ mirror.pc = "sending" /\ socket = "closed"
  /\ MirrorReturns
  /\ UNCHANGED <<next_seq, up, edge, edge_out, performed, edge_feed, logged,
                 published>>

(* The frame is above the limit of encode: the mirror ends, not the write. *)
EncodeWriteFails ==
  /\ mirror.pc = "select" /\ write_rx # <<>>
  /\ MirrorReturns
  /\ UNCHANGED <<next_seq, up, edge, edge_out, performed, edge_feed, logged,
                 published>>

(* Mutant of Matching: an acknowledgement is taken for that of the last write. *)
MatchingLast(m) == {p \in pending : \A q \in pending : q[1] <= p[1]}

(* The pending write that a ctl message is about. *)
Matching(m) == {p \in pending : p[1] = m.seq}

(* A ctl frame: resolve_write_ack, and fail_on_ctl_error, which ends the   *)
(* mirror whatever the error was about.                                    *)
ReceiveCtl ==
  /\ mirror.pc = "select" /\ down # <<>>
  /\ LET m == Head(down)
     IN \/ /\ m.kind = "write_ack"
           /\ Resolve({p[2] : p \in Matching(m)}, "ok")
           /\ pending' = pending \ Matching(m)
           /\ down' = Tail(down)
           /\ UNCHANGED <<mirror, write_rx, socket>>
        \/ m.kind = "error" /\ MirrorReturns
  /\ UNCHANGED <<next_seq, up, edge, edge_out, performed, edge_feed, logged, published>>

(* Mutant of ReceiveData: published before it is logged. *)
ReceiveDataUnlogged ==
  /\ mirror.pc = "select" /\ down # <<>> /\ Head(down).kind \in {"target", "other"}
  /\ down' = Tail(down)
  /\ published' = IF Head(down).kind = "target" THEN Append(published, Head(down).seq) ELSE published
  /\ mirror' = IF Head(down).kind = "target" THEN [pc |-> "publish", w |-> 0] ELSE mirror
  /\ UNCHANGED <<write, write_rx, next_seq, pending, up, edge, edge_out, performed,
                 edge_feed, logged, socket>>

(* Mutant of ReceiveData: data is left unread while a write is pending. *)
ReceiveDataIdle ==
  /\ mirror.pc = "select" /\ down # <<>> /\ Head(down).kind \in {"target", "other"}
  /\ pending = {}
  /\ down' = Tail(down)
  /\ \/ /\ Head(down).kind = "target"
        /\ logged' = Append(logged, Head(down).seq)
        /\ mirror' = [pc |-> "publish", w |-> 0]
     \/ Head(down).kind = "other" /\ UNCHANGED <<logged, mirror>>
  /\ UNCHANGED <<write, write_rx, next_seq, pending, up, edge, edge_out, performed,
                 edge_feed, published, socket>>

(* A data frame: one of another channel is skipped, one of the target is   *)
(* appended to the session-dir, ...                                        *)
ReceiveData ==
  /\ mirror.pc = "select" /\ down # <<>> /\ Head(down).kind \in {"target", "other"}
  /\ down' = Tail(down)
  /\ \/ /\ Head(down).kind = "target"
        /\ logged' = Append(logged, Head(down).seq)
        /\ mirror' = [pc |-> "publish", w |-> 0]
     \/ Head(down).kind = "other" /\ UNCHANGED <<logged, mirror>>
  /\ UNCHANGED <<write, write_rx, next_seq, pending, up, edge, edge_out, performed,
                 edge_feed, published, socket>>

(* ... then published.                                                     *)
PublishData ==
  /\ mirror.pc = "publish"
  /\ published' = Append(published, logged[Len(logged)])
  /\ mirror' = [pc |-> "select", w |-> 0]
  /\ UNCHANGED <<write, write_rx, next_seq, pending, up, down, edge, edge_out, performed,
                 edge_feed, logged, socket>>

(* append_raw, or the encoding of the frame for local subscribers, fails.  *)
AppendFails ==
  /\ \/ mirror.pc = "select" /\ down # <<>> /\ Head(down).kind = "target"
     \/ mirror.pc = "publish"
  /\ MirrorReturns
  /\ UNCHANGED <<next_seq, up, edge, edge_out, performed, edge_feed, logged,
                 published>>

(* The socket ends or fails: fail_pending, or the oneshots are dropped.    *)
ReceiveClosed ==
  /\ mirror.pc = "select" /\ socket = "closed" /\ down = <<>>
  /\ MirrorReturns
  /\ UNCHANGED <<next_seq, up, edge, edge_out, performed, edge_feed, logged,
                 published>>

(* The source is stopped: the task is dropped at an await.                 *)
MirrorAborted ==
  /\ mirror.pc \in {"select", "sending"}
  /\ MirrorReturns
  /\ UNCHANGED <<next_seq, up, edge, edge_out, performed, edge_feed, logged,
                 published>>

-----------------------------------------------------------------------------
(* The edge server and the network. *)
Edge == <<write, write_rx, mirror, next_seq, pending, logged, published>>

(* The loop reads a write and hands it to handle_write, ...                *)
EdgeRead ==
  /\ edge.pc = "read" /\ up # <<>>
  /\ up' = Tail(up)
  /\ edge' = [pc |-> "write", msg |-> Head(up)]
  /\ UNCHANGED <<Edge, down, edge_out, performed, edge_feed, socket>>

(* ... which waits for the device, as long as that takes.  An error may    *)
(* come before the device got anything, after a part of it or after all.   *)
EdgeDevice ==
  /\ edge.pc = "write"
  /\ \/ /\ performed' = Append(performed, edge.msg.w)
        /\ edge' = [pc |-> "reply", msg |-> Ack(edge.msg.seq)]
     \/ /\ performed' \in {performed, Append(performed, edge.msg.w)}
        /\ edge' = [pc |-> "reply", msg |-> Error(edge.msg.seq)]
  /\ UNCHANGED <<Edge, up, down, edge_out, edge_feed, socket>>

EdgeReplies ==
  /\ edge.pc = "reply" /\ Len(edge_out) < EdgeQueue
  /\ edge_out' = Append(edge_out, edge.msg)
  /\ edge' = [pc |-> "read", msg |-> NoFrame]
  /\ UNCHANGED <<Edge, up, down, performed, edge_feed, socket>>

(* A frame of the edge's device gets into the fan-out ring (those that     *)
(* come when the connection is gone do not concern the mirror).            *)
EdgePublishes ==
  /\ socket = "open" /\ Len(frames) < MaxEdgeFrames
  /\ \E ch \in {"target", "other"} : frames' = Append(frames, ch)
  /\ UNCHANGED <<Edge, up, down, edge, edge_out, performed, feed, skipped, socket>>

(* The oldest frame that the ring still has. *)
Oldest == IF Len(frames) > EdgeRing THEN Len(frames) - EdgeRing + 1 ELSE 1

(* rx.recv of the subscription task: the next frame, or Lagged, after      *)
(* which it goes on with the oldest frame of the ring and says nothing.    *)
EdgeTakes ==
  /\ feed.msg = NoFrame /\ feed.next <= Len(frames)
  /\ \/ /\ feed.next < Oldest
        /\ feed' = [next |-> Oldest, msg |-> NoFrame]
        /\ skipped' = skipped \cup feed.next..(Oldest - 1)
     \/ /\ feed.next >= Oldest
        /\ feed' = [next |-> feed.next + 1, msg |-> Frame(feed.next, frames[feed.next])]
        /\ UNCHANGED skipped
  /\ UNCHANGED <<Edge, up, down, edge, edge_out, performed, frames, socket>>

(* tx.send: the frame waits for a slot of the connection's queue.          *)
EdgeForwards ==
  /\ feed.msg # NoFrame /\ Len(edge_out) < EdgeQueue
  /\ edge_out' = Append(edge_out, feed.msg)
  /\ feed' = [feed EXCEPT !.msg = NoFrame]
  /\ UNCHANGED <<Edge, up, down, edge, performed, frames, skipped, socket>>

EdgeWrites ==
  /\ socket = "open" /\ edge_out # <<>> /\ Len(down) < NetLen
  /\ down' = Append(down, Head(edge_out))
  /\ edge_out' = Tail(edge_out)
  /\ UNCHANGED <<Edge, up, edge, performed, edge_feed, socket>>

(* The connection breaks: what is under way may be lost.                   *)
Disconnect ==
  /\ socket = "open"
  /\ socket' = "closed"
  /\ up' \in {up, <<>>} /\ down' \in {down, <<>>}
  /\ UNCHANGED <<Edge, edge, edge_out, performed, edge_feed>>

MirrorStep ==
  \/ TakeRequest \/ SendRequest \/ SendFails \/ ReceiveCtl \/ ReceiveData
  \/ PublishData \/ ReceiveClosed
SinkStep == \E w \in Writes : QueueRequest(w) \/ WriteTimesOut(w)
EdgeLoop == EdgeRead \/ EdgeReplies
EdgeFeed == EdgeTakes \/ EdgeForwards

MirrorNext ==
  \/ \E w \in Writes : Lock(w)
  \/ SinkStep
  \/ MirrorStep \/ EncodeWriteFails \/ AppendFails \/ MirrorAborted
  \/ EdgeLoop \/ EdgeDevice \/ EdgeWrites \/ EdgePublishes \/ EdgeFeed
  \/ Disconnect

MirrorSpec == MirrorInit /\ [][MirrorNext]_mirror_vars

(* The tasks of mirror and edge and the timer are scheduled.  The edge's   *)
(* device need not take a write, and nothing need be published.            *)
MirrorFairSpec ==
  /\ MirrorSpec
  /\ WF_mirror_vars(SinkStep) /\ WF_mirror_vars(MirrorStep)
  /\ WF_mirror_vars(EdgeLoop) /\ WF_mirror_vars(EdgeFeed) /\ WF_mirror_vars(EdgeWrites)

(* With a device that takes or refuses every write. *)
DeviceFairSpec == MirrorFairSpec /\ WF_mirror_vars(EdgeDevice)

-----------------------------------------------------------------------------
(* Every variable has its type. *)
MirrorTypeOK ==
  /\ write \in [Writes -> {"new", "locked", "queued", "ok", "error"}]
  /\ mirror.pc \in {"select", "sending", "publish", "ended"}
  /\ next_seq \in FirstWriteSeq..(FirstWriteSeq + MaxWrites)
  /\ Len(write_rx) <= RequestQueue /\ Len(up) <= NetLen /\ Len(down) <= NetLen
  /\ Len(edge_out) <= EdgeQueue
  /\ \A p \in pending : p[1] < next_seq /\ p[2] \in Writes

(* A write is reported as done only when the edge's device took it: late   *)
(* acknowledgements of writes that timed out are never taken for those of  *)
(* their successors ("waits for the edge `write_ack`",                     *)
(* docs/dev/remote-com-ai.md).                                             *)
AckIsTrue == \A w \in Writes : write[w] = "ok" => w \in Range(performed)

(* No write reaches the device twice, and writes reach it in the order in  *)
(* which they took the sink's lock, those that timed out or failed         *)
(* included.                                                               *)
PerformedInOrder ==
  \A i, j \in DOMAIN performed : i < j => performed[i] < performed[j]

(* A write that is answered was carried out, once and in its turn.         *)
WritesSound == MirrorTypeOK /\ AckIsTrue /\ PerformedInOrder

IsTarget(n) == n \in DOMAIN frames /\ frames[n] = "target"

(* The log of the mirror holds the edge's frames on the target channel, in *)
(* order and each once; one that is missing before the last was overwritten*)
(* in the edge's ring before the subscription got to it.                   *)
LogFollowsEdge ==
  /\ \A i \in DOMAIN logged : IsTarget(logged[i])
  /\ \A i, j \in DOMAIN logged : i < j => logged[i] < logged[j]
  /\ \A i \in DOMAIN logged : \A n \in 1..logged[i] :
       IsTarget(n) => n \in skipped \/ \E j \in DOMAIN logged : logged[j] = n

(* The mirror itself loses nothing and invents nothing, and local          *)
(* subscribers only see what is already in its log.                        *)
MirrorLogSound ==
  /\ LogFollowsEdge
  /\ Len(published) <= Len(logged)
  /\ \A i \in DOMAIN published : published[i] = logged[i]

(* The mirror waits in socket.send for ever, reading neither requests nor  *)
(* the socket: the edge does not read, because its device does not take a  *)
(* write or because its own queue is full.                                 *)
StuckSending == <>[](mirror.pc = "sending")

(* Every write call returns and gives the sink's lock back, unless the     *)
(* mirror is stuck: waiting for the answer is bounded by the timeout,      *)
(* waiting for a slot of the request channel is not.                       *)
WritesReturn == (Locked ~> ~Locked) \/ StuckSending

(* The edge has published a frame on the target channel that is neither in *)
(* the mirror's log nor overwritten in the edge's ring.                    *)
LogIsBehind == \E n \in DOMAIN frames : IsTarget(n) /\ n \notin Range(logged) \cup skipped

(* A mirror whose log is behind catches up (the frames of an edge are      *)
(* bounded here), unless it ends, the connection breaks or it is stuck: no *)
(* other wait of the two servers for each other lasts.                     *)
FramesReachLog ==
  (LogIsBehind ~> ~LogIsBehind \/ mirror.pc = "ended" \/ socket = "closed") \/ StuckSending

(* "mirrors inbound `data` frames into a local server-owned session-dir"   *)
(* (docs/requirements.md, FR-REMOTE-001): as long as the connection and    *)
(* the mirror live, every frame of the target channel gets into the log.   *)
FramesMirrored ==
  \A n \in 1..MaxEdgeFrames :
    IsTarget(n) ~>
      n \in Range(logged) \/ mirror.pc = "ended" \/ socket = "closed"
=============================================================================
