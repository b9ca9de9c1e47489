------------------------------- MODULE Sources -------------------------------
(***************************************************************************)
(* The byte and datagram sources of crates/core/src/source (serial, tcp,   *)
(* udp, syslog, pipe, process, mock and the stubs) under the two loops     *)
(* that read them: prefetch_for_detection, which samples a source for at   *)
(* most a quarter of a second per frame before the session is registered,  *)
(* and the runner, which logs until EOF.  PrefetchedSource hands the       *)
(* sampled frames to the runner.                                           *)
(*                                                                         *)
(* A frame is <<stream, number>>: its place in what the transport sent on  *)
(* that stream.  Only a child process has two streams, stdout and stderr,  *)
(* which two tasks drain into one channel.  Nothing under the server reads *)
(* the queue of control events, which is left out.                         *)
(***************************************************************************)
EXTENDS Naturals, Sequences

CONSTANTS MaxSent,      \* frames a transport sends on one stream
          SampleFrames  \* frames that fill DEFAULT_MAX_SAMPLE_BYTES

ASSUME SourcesAssumption == MaxSent \in Nat /\ SampleFrames \in Nat \ {0}

Stubs == {"mqtt", "http-webhook"}
Kinds == {"serial", "tcp", "udp", "syslog", "pipe", "process", "mock"}
Streams == {1, 2}
StreamsOf(kind) == IF kind = "process" THEN Streams ELSE {1}

(* Settings of a serial port: open_stream refuses what imp does not know. *)
SerialSettings == [data_bits : 4..9, parity : {"none", "even", "odd", "mark"},
                   stop_bits : 0..3, flow : {"none", "hardware", "software", "dtr"}]
SerialValid(p) ==
  /\ p.data_bits \in 5..8
  /\ p.parity \in {"none", "even", "odd"}
  /\ p.stop_bits \in {1, 2}
  /\ p.flow \in {"none", "hardware", "software"}

VARIABLES src_pc,    \* "idle", "sample", "run", "closing", "ended" or "failed"
          src,       \* [kind, handle, eof]: the source
          link,      \* the other end: "up", "closed" or "broken"
          sent,      \* frames sent on each stream
          got,       \* frames read from each stream
          rx,        \* channel of the process source
          draining,  \* its tasks that still read
          pre,       \* PrefetchedSource::prefetched
          log        \* frames appended to the log sink

src_vars == <<src_pc, src, link, sent, got, rx, draining, pre, log>>

SrcInit ==
  /\ src_pc = "idle"
  /\ src = [kind |-> "mock", handle |-> FALSE, eof |-> FALSE]
  /\ link = "up" /\ sent = [s \in Streams |-> 0] /\ got = [s \in Streams |-> 0]
  /\ rx = <<>> /\ draining = {} /\ pre = <<>> /\ log = <<>>

io == <<sent, link, log>>

-----------------------------------------------------------------------------
(* start_*_spec: open_duplex, connect_duplex, bind_duplex, spawn_duplex or *)
(* open; then start_default_pipeline, which samples when the detection     *)
(* mode says so.                                                           *)
Opened(kind) == [kind |-> kind, handle |-> TRUE, eof |-> FALSE]
OpenSerial(port) == SerialValid(port) /\ src' = Opened("serial") /\ draining' = {}
OpenTcp == src' = Opened("tcp") /\ draining' = {}
OpenUdp == src' = Opened("udp") /\ draining' = {}
OpenSyslog == src' = Opened("syslog") /\ draining' = {}
OpenPipe == src' = Opened("pipe") /\ draining' = {}
OpenMock == src' = Opened("mock") /\ draining' = {}
OpenProcess == src' = Opened("process") /\ draining' = Streams

Start(port, detect) ==
  /\ src_pc = "idle"
  /\ \/ OpenSerial(port) \/ OpenTcp \/ OpenUdp \/ OpenSyslog
     \/ OpenPipe \/ OpenMock \/ OpenProcess
  /\ src_pc' = IF detect THEN "sample" ELSE "run"
  /\ UNCHANGED <<io, got, rx, pre>>

(* The port, address, program or feature is not there. *)
StartFails(kind) ==
  /\ src_pc = "idle" /\ kind # "mock"
  /\ src_pc' = "failed"
  /\ UNCHANGED <<io, src, got, rx, draining, pre>>

-----------------------------------------------------------------------------
(* The other end. *)
SrcOpen == src_pc \in {"sample", "run"}
Send(s) ==
  /\ SrcOpen /\ link = "up" /\ s \in StreamsOf(src.kind) /\ sent[s] < MaxSent
  /\ sent' = [sent EXCEPT ![s] = @ + 1]
  /\ UNCHANGED <<src_pc, src, link, got, rx, draining, pre, log>>
Hangup(how) ==
  /\ SrcOpen /\ link = "up"
  /\ how = "closed" => src.kind \notin {"udp", "syslog"}
  /\ link' = how
  /\ UNCHANGED <<src_pc, src, sent, got, rx, draining, pre, log>>

-----------------------------------------------------------------------------
(* Source::recv: the outcomes it has now. *)
Frame(s, n) == [t |-> "frame", f |-> <<s, n>>]
NoMore == [t |-> "none", f |-> <<0, 0>>]
Err == [t |-> "err", f |-> <<0, 0>>]
Results == {Frame(s, n) : s \in Streams, n \in 1..MaxSent} \cup {NoMore, Err}

AtEof == link = "closed" /\ got[1] = sent[1]
Stay == UNCHANGED <<src, got, rx>>

ReadOne(res) ==
  /\ got[1] < sent[1] /\ res = Frame(1, got[1] + 1)
  /\ got' = [got EXCEPT ![1] = @ + 1]
  /\ UNCHANGED <<src, rx>>

TcpRecv(res) ==
  \/ src.handle /\ ReadOne(res)
  \/ src.handle /\ AtEof /\ res = NoMore
       /\ src' = [src EXCEPT !.handle = FALSE] /\ UNCHANGED <<got, rx>>
  \/ (~src.handle \/ link = "broken") /\ res = Err /\ Stay

SerialRecv(res) ==
  \/ ReadOne(res)
  \/ (AtEof \/ link = "broken") /\ res = NoMore /\ Stay
  \/ link = "broken" /\ res = Err /\ Stay

(* It also notes the sender: last_peer of Sinks. *)
UdpRecv(res) == ReadOne(res) \/ (link = "broken" /\ res = Err /\ Stay)

SyslogRecv(res) == ReadOne(res) \/ (link = "broken" /\ res = Err /\ Stay)

PipeRecv(res) ==
  \/ ReadOne(res)
  \/ AtEof /\ res = NoMore /\ Stay
  \/ link = "broken" /\ res = Err /\ Stay

MockRecv(res) == ReadOne(res) \/ (got[1] = sent[1] /\ res = NoMore /\ Stay)

ProcessRecv(res) ==
  \/ src.eof /\ res = NoMore /\ Stay
  \/ /\ ~src.eof /\ rx # <<>>
     /\ res = rx[1] /\ rx' = Tail(rx)
     /\ UNCHANGED <<src, got>>
  \/ /\ ~src.eof /\ rx = <<>> /\ draining = {}
     /\ res = NoMore /\ src' = [src EXCEPT !.eof = TRUE]
     /\ UNCHANGED <<got, rx>>

Recv(res) ==
  CASE src.kind = "tcp" -> TcpRecv(res)
    [] src.kind = "serial" -> SerialRecv(res)
    [] src.kind = "udp" -> UdpRecv(res)
    [] src.kind = "syslog" -> SyslogRecv(res)
    [] src.kind = "pipe" -> PipeRecv(res)
    [] src.kind = "mock" -> MockRecv(res)
    [] OTHER -> ProcessRecv(res)

(* recv would wait. *)
Waiting ==
  IF src.kind = "process" THEN ~src.eof /\ rx = <<>> /\ draining # {}
  ELSE src.handle /\ got[1] = sent[1] /\ link = "up" /\ src.kind # "mock"

(* Mutant of DrainEnd: the first pipe to close ends the source. *)
DrainEndsAll(s) ==
  /\ s \in draining /\ link = "closed" /\ got[s] = sent[s]
  /\ draining' = {}
  /\ UNCHANGED <<src_pc, src, io, got, rx, pre>>

(* The tasks that drain stdout and stderr. *)
Drain(s) ==
  /\ s \in draining /\ got[s] < sent[s]
  /\ got' = [got EXCEPT ![s] = @ + 1]
  /\ rx' = Append(rx, Frame(s, got[s] + 1))
  /\ UNCHANGED <<src_pc, src, io, draining, pre>>
DrainEnd(s) ==
  /\ s \in draining /\ link = "closed" /\ got[s] = sent[s]
  /\ draining' = draining \ {s}
  /\ UNCHANGED <<src_pc, src, io, got, rx, pre>>
DrainError(s) ==
  /\ s \in draining /\ link = "broken"
  /\ draining' = draining \ {s}
  /\ rx' = Append(rx, Err)
  /\ UNCHANGED <<src_pc, src, io, got, pre>>

-----------------------------------------------------------------------------
(* prefetch_for_detection. *)
Sampling == src_pc = "sample" /\ Len(pre) < SampleFrames
SampleFrame ==
  /\ Sampling
  /\ \E res \in Results :
       /\ Recv(res)
       /\ pre' = IF res.t = "frame" THEN Append(pre, res.f) ELSE pre
       /\ src_pc' = CASE res.t = "frame" -> "sample"
                      [] res.t = "none" -> "run" [] OTHER -> "failed"
  /\ UNCHANGED <<io, draining>>

(* The sample is large enough, or the source is silent for 250 ms. *)
SampleEnds ==
  /\ src_pc = "sample" /\ (Len(pre) >= SampleFrames \/ Waiting)
  /\ src_pc' = "run"
  /\ UNCHANGED <<io, src, got, rx, draining, pre>>

(* run_source_once_notify over PrefetchedSource::recv. *)
RunPrefetched ==
  /\ src_pc = "run" /\ pre # <<>>
  /\ log' = Append(log, pre[1]) /\ pre' = Tail(pre)
  /\ UNCHANGED <<src_pc, src, sent, link, got, rx, draining>>

RunFrame ==
  /\ src_pc = "run" /\ pre = <<>>
  /\ \E res \in Results :
       /\ Recv(res)
       /\ log' = IF res.t = "frame" THEN Append(log, res.f) ELSE log
       /\ src_pc' = CASE res.t = "frame" -> "run"
                      [] res.t = "none" -> "closing" [] OTHER -> "failed"
  /\ UNCHANGED <<sent, link, draining, pre>>

(* commit and close of the log sink, close of the source. *)
RunClose ==
  /\ src_pc = "closing"
  /\ src_pc' = "ended" /\ src' = [src EXCEPT !.handle = FALSE]
  /\ draining' = {}
  /\ UNCHANGED <<io, got, rx, pre>>

SrcNext ==
  \/ \E k \in Kinds \cup Stubs : StartFails(k)
  \/ \E p \in SerialSettings, d \in BOOLEAN : Start(p, d)
  \/ \E s \in Streams : Send(s) \/ Drain(s) \/ DrainEnd(s) \/ DrainError(s)
  \/ \E how \in {"closed", "broken"} : Hangup(how)
  \/ SampleFrame \/ SampleEnds \/ RunPrefetched \/ RunFrame \/ RunClose

SrcSpec == SrcInit /\ [][SrcNext]_src_vars

-----------------------------------------------------------------------------
(* The frames that the server holds: logged, sampled and drained, in that  *)
(* order; and whether the frames of stream s among some frames are its     *)
(* first n, each once and in order.                                        *)
Held == log \o pre \o [i \in DOMAIN rx |-> rx[i].f]
Carries(q, s, n) ==
  /\ \A k \in 1..n : \E i \in DOMAIN q : q[i] = <<s, k>>
  /\ \A i \in DOMAIN q : q[i][1] = s => q[i][2] \in 1..n
  /\ \A i, j \in DOMAIN q : i < j /\ q[i][1] = s /\ q[j][1] = s => q[i][2] < q[j][2]

(* Nothing that a source read is lost, repeated or reordered on its way    *)
(* to the log, whether the sampling loop read it, timed out over it, or    *)
(* the runner did; and when the run ends at EOF, without an error of the   *)
(* transport, the log has all that was sent: of a process, on both pipes.  *)
SourcesSound ==
  \A s \in Streams :
    /\ src_pc # "failed" => Carries(Held, s, got[s])
    /\ \E n \in 0..sent[s] : Carries(log, s, n)
    /\ src_pc = "ended" /\ link # "broken" => Carries(log, s, sent[s])
=============================================================================
