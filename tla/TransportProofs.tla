-------------------------- MODULE TransportProofs --------------------------
(***************************************************************************)
(* What goes out to and comes in from the transports is whole and in       *)
(* order: the bodies written back (Sinks), for any number of writers and   *)
(* any length, the frames that are read (Sources), for any number of them  *)
(* and any size of the sample, and the bytes of a file that is followed    *)
(* (FileTail).                                                             *)
(***************************************************************************)
EXTENDS Sinks, Sources, FileTail, SequenceTheorems, TLAPS

(* Most leaves need no arithmetic and are quick for Zenon; SMT takes the others. *)
USE ZenonT(1), SMTT(30), Zenon

-----------------------------------------------------------------------------
(* Write-back. *)
Asked == Peers \cup {NoPeer, NotAnAddress}
Calls == [pc : {"idle", "write", "acked", "failed"}, asked : Asked, done : Nat]
Taken == [by : SinkWriters, piece : Nat, to : Asked, heard : Peers \cup {NoPeer}]

SinkTypeOK ==
  /\ sink \in SinkKinds
  /\ last_peer \in Peers \cup {NoPeer} /\ target \in Asked
  /\ write \in [SinkWriters -> Calls]
  /\ wire \in Seq(Taken)

(* The mutex: one write at a time, and a target is left in the sink only   *)
(* by the write that is under way.                                         *)
OneWrites ==
  /\ \A v, w \in SinkWriters : Writing(v) /\ Writing(w) => v = w
  /\ target # NoPeer => sink = "udp" /\ \E w \in SinkWriters : Writing(w)
  /\ \A w \in SinkWriters :
       Writing(w) /\ sink = "udp" => write[w].asked = target /\ target # NotAnAddress

(* On a stream a write has put out its first `done` pieces, and while it   *)
(* goes on they are the last ones on the wire.                             *)
StreamInv ==
  sink # "udp" =>
    /\ \A i \in 1..Len(wire) : wire[i].piece \in 1..write[wire[i].by].done
    /\ \A w \in SinkWriters :
         /\ write[w].pc = "idle" => write[w].done = 0
         /\ write[w].pc = "acked" => write[w].done = Pieces
         /\ write[w].done > 0 =>
              \E i \in 1..Len(wire) : /\ wire[i].by = w /\ wire[i].piece = write[w].done
                                      /\ Writing(w) => i = Len(wire)

(* A datagram is there exactly when its write was acknowledged. *)
DatagramInv ==
  sink = "udp" =>
    /\ \A i \in 1..Len(wire) : wire[i].piece = 1 /\ write[wire[i].by].pc = "acked"
    /\ \A w \in SinkWriters :
         write[w].pc = "acked" => \E i \in 1..Len(wire) : wire[i].by = w

PiecesOnce ==
  \A i, j \in 1..Len(wire) :
    wire[i].by = wire[j].by /\ wire[i].piece = wire[j].piece => i = j

SinkInv ==
  /\ SinkTypeOK /\ OneWrites /\ StreamInv /\ DatagramInv
  /\ PiecesOnce /\ BodiesApart /\ TargetsOwn

(* No write has begun. *)
LEMMA SinkStart == SinkInit => SinkInv
<1> SUFFICES ASSUME SinkInit PROVE SinkInv
  OBVIOUS
<1> USE DEF SinkInit
<1>1. SinkTypeOK
  BY DEF SinkTypeOK, Calls, Asked
<1>2. \A w \in SinkWriters : write[w].pc = "idle" /\ write[w].done = 0
  OBVIOUS
<1>3. Len(wire) = 0
  OBVIOUS
<1> QED
  BY <1>1, <1>2, <1>3 DEF SinkInv, OneWrites, Writing, StreamInv, DatagramInv,
     PiecesOnce, BodiesApart, TargetsOwn

(* An appended entry comes last and moves nothing. *)
LEMMA WireGrows ==
  ASSUME SinkTypeOK, NEW e \in Taken, wire' = Append(wire, e)
  PROVE  /\ wire' \in Seq(Taken) /\ Len(wire) \in Nat /\ Len(wire') = Len(wire) + 1
         /\ wire'[Len(wire')] = e
         /\ \A i \in 1..Len(wire) : wire'[i] = wire[i] /\ wire[i] \in Taken
<1>1. wire \in Seq(Taken)
  BY DEF SinkTypeOK
<1> QED
  BY <1>1, AppendProperties, LenProperties, ElementOfSeq

(* The far end and the peers heard of touch no write. *)
LEMMA OthersStep ==
  ASSUME SinkInv,
         \/ \E how \in {"closed", "broken"} : FarEnd(how)
         \/ \E p \in Peers : Hear(p)
         \/ UNCHANGED sink_vars
  PROVE  SinkInv'
<1>1. UNCHANGED <<sink, target, write, wire>> /\ last_peer' \in Peers \cup {NoPeer}
  BY DEF FarEnd, Hear, sink_vars, SinkInv, SinkTypeOK
<1> QED
  BY <1>1 DEF SinkInv, SinkTypeOK, OneWrites, Writing, StreamInv, DatagramInv,
     PiecesOnce, BodiesApart, TargetsOwn

(* LockSink: the sink is free, so the target in it is this write's own. *)
LEMMA LockStep ==
  ASSUME SinkInv, NEW w \in SinkWriters, NEW a \in Asked, LockSink(w, a)
  PROVE  SinkInv'
<1> USE DEF SinkInv
<1>0. UNCHANGED <<sink, last_peer, wire>> /\ write \in [SinkWriters -> Calls]
  BY DEF LockSink, SinkTypeOK
<1>1. \A v \in SinkWriters : ~Writing(v)
  BY DEF LockSink
<1>2. target = NoPeer
  BY <1>1 DEF OneWrites
<1>3. PICK pc \in {"write", "failed"} :
        /\ write' = [write EXCEPT ![w].pc = pc, ![w].asked = a]
        /\ pc = "write" => target' = (IF sink = "udp" THEN a ELSE NoPeer)
        /\ pc = "write" /\ sink = "udp" => a # NotAnAddress
        /\ pc = "failed" => target' = NoPeer
  BY <1>2 DEF LockSink, Ctl
<1>4. /\ write' \in [SinkWriters -> Calls]
      /\ \A v \in SinkWriters : v # w => write'[v] = write[v]
      /\ write'[w].pc = pc /\ write'[w].asked = a /\ write'[w].done = write[w].done
  BY <1>0, <1>3, Zenon DEF Calls
<1>5. write[w].pc = "idle"
  BY DEF LockSink
<1>6. SinkTypeOK'
  BY <1>0, <1>3, <1>4 DEF SinkTypeOK, Asked
<1>7. OneWrites'
  BY <1>0, <1>1, <1>3, <1>4 DEF OneWrites, Writing
<1>8. \A i \in 1..Len(wire) : wire[i].by \in SinkWriters
  <2>1. \A i \in 1..Len(wire) : wire[i] \in Taken
    BY ElementOfSeq DEF SinkTypeOK
  <2> QED
    BY <2>1 DEF Taken
<1>9. StreamInv'
  <2> SUFFICES ASSUME sink # "udp" PROVE StreamInv'
    BY <1>0 DEF StreamInv
  <2>1. write[w].done = 0
    BY <1>5 DEF StreamInv
  <2>2. \A i \in 1..Len(wire) : wire[i].piece \in 1..write'[wire[i].by].done
    BY <1>4, <1>8 DEF StreamInv
  <2>3. \A v \in SinkWriters : write'[v].done > 0 => v # w
    BY <2>1, <1>4
  <2>4. ASSUME NEW v \in SinkWriters
        PROVE  /\ write'[v].pc = "idle" => write'[v].done = 0
               /\ write'[v].pc = "acked" => write'[v].done = Pieces
               /\ write'[v].done > 0 =>
                    \E i \in 1..Len(wire) : /\ wire[i].by = v /\ wire[i].piece = write'[v].done
                                            /\ write'[v].pc = "write" => i = Len(wire)
    BY <1>3, <1>4, <2>1, <2>3 DEF StreamInv, Writing
  <2> QED
    BY <1>0, <2>2, <2>4 DEF StreamInv, Writing
<1>10. \A i \in 1..Len(wire) : sink = "udp" => wire[i].by # w
  BY <1>5 DEF DatagramInv
<1>11. DatagramInv'
  BY <1>0, <1>3, <1>4, <1>8, <1>10 DEF DatagramInv
<1>12. TargetsOwn'
  BY <1>0, <1>4, <1>8, <1>10 DEF TargetsOwn
<1> QED
  BY <1>0, <1>6, <1>7, <1>9, <1>11, <1>12 DEF PiecesOnce, BodiesApart

(* A stream takes the next piece of the only body under way. *)
LEMMA PieceStep ==
  ASSUME SinkInv, NEW w \in SinkWriters, WritePiece(w)
  PROVE  SinkInv'
<1> USE DEF SinkInv
<1> DEFINE e == Took(w, write[w].done + 1, NoPeer)
<1>0. /\ UNCHANGED <<sink, last_peer, target>> /\ write \in [SinkWriters -> Calls]
      /\ sink # "udp" /\ Writing(w)
  BY DEF WritePiece, SinkTypeOK, StreamSinks
<1>1. e \in Taken /\ e.by = w /\ e.piece = write[w].done + 1 /\ write[w].done \in Nat
  BY <1>0 DEF Took, Taken, Calls, Asked, SinkTypeOK
<1>2. wire' = Append(wire, e)
  BY DEF WritePiece
<1> HIDE DEF e
<1>3. /\ wire' \in Seq(Taken) /\ Len(wire) \in Nat /\ Len(wire') = Len(wire) + 1
      /\ wire'[Len(wire) + 1] = e
      /\ \A i \in 1..Len(wire) : wire'[i] = wire[i] /\ wire[i] \in Taken
  BY <1>1, <1>2, WireGrows
<1>4. /\ write' \in [SinkWriters -> Calls]
      /\ \A v \in SinkWriters : v # w => write'[v] = write[v]
      /\ write'[w].pc = "write" /\ write'[w].asked = write[w].asked
      /\ write'[w].done = write[w].done + 1
  BY <1>0 DEF WritePiece, Calls, Writing
<1>5. SinkTypeOK'
  BY <1>0, <1>3, <1>4 DEF SinkTypeOK
<1>6. OneWrites'
  BY <1>0, <1>4 DEF OneWrites, Writing
<1>7. \A i \in 1..Len(wire) :
        /\ wire[i].by \in SinkWriters /\ wire[i].piece \in Nat
        /\ wire[i].by = w => wire[i].piece < e.piece
  BY <1>0, <1>1, <1>3 DEF StreamInv, Taken
<1>8. StreamInv'
  <2>1. \A i \in 1..Len(wire) : wire[i].piece \in 1..write'[wire[i].by].done
    BY <1>0, <1>1, <1>4, <1>7 DEF StreamInv
  <2>2. \A i \in 1..Len(wire') : wire'[i].piece \in 1..write'[wire'[i].by].done
    BY <1>1, <1>3, <1>4, <2>1
  <2>3. \A v \in SinkWriters : v # w => ~Writing(v) /\ ~Writing(v)'
    BY <1>0, <1>4 DEF OneWrites, Writing
  <2>4. ASSUME NEW v \in SinkWriters, v # w
        PROVE  /\ write'[v].pc = "idle" => write'[v].done = 0
               /\ write'[v].pc = "acked" => write'[v].done = Pieces
               /\ write'[v].done > 0 =>
                    \E i \in 1..Len(wire') : wire'[i].by = v /\ wire'[i].piece = write'[v].done
    <3>1. write'[v] = write[v]
      BY <1>4, <2>4
    <3>2. write[v].done > 0 =>
            \E i \in 1..Len(wire) : wire[i].by = v /\ wire[i].piece = write[v].done
      BY <1>0 DEF StreamInv
    <3>3. 1..Len(wire) \subseteq 1..Len(wire')
      BY <1>3
    <3>4. write'[v].done > 0 =>
            \E i \in 1..Len(wire') : wire'[i].by = v /\ wire'[i].piece = write'[v].done
      BY <1>3, <3>1, <3>2, <3>3
    <3> QED
      BY <1>0, <3>1, <3>4 DEF StreamInv
  <2>5. /\ Len(wire') \in 1..Len(wire') /\ wire'[Len(wire')].by = w
        /\ wire'[Len(wire')].piece = write'[w].done
    BY <1>1, <1>3, <1>4
  <2> QED
    BY <1>0, <1>4, <2>2, <2>3, <2>4, <2>5 DEF StreamInv
<1>9. DatagramInv' /\ TargetsOwn'
  BY <1>0 DEF DatagramInv, TargetsOwn
<1>10. PiecesOnce'
  BY <1>1, <1>3, <1>7 DEF PiecesOnce
<1>11. BodiesApart'
  <2>1. ASSUME e.piece # 1
        PROVE  /\ Len(wire) >= 1 /\ wire[Len(wire)].by = w
               /\ wire[Len(wire)].piece = e.piece - 1
    <3>1. write[w].done > 0 /\ e.piece - 1 = write[w].done
      BY <1>1, <2>1
    <3>2. PICK i \in 1..Len(wire) :
            wire[i].by = w /\ wire[i].piece = write[w].done /\ i = Len(wire)
      BY <1>0, <3>1 DEF StreamInv
    <3> QED
      BY <1>3, <3>1, <3>2
  <2> SUFFICES ASSUME NEW i \in 1..Len(wire'), wire'[i].piece # 1
               PROVE  /\ i > 1 /\ wire'[i - 1].by = wire'[i].by
                      /\ wire'[i - 1].piece = wire'[i].piece - 1
    BY DEF BodiesApart
  <2>2. CASE i = Len(wire) + 1
    BY <1>1, <1>3, <2>1, <2>2
  <2>3. CASE i \in 1..Len(wire)
    <3>1. i > 1 /\ wire[i - 1].by = wire[i].by /\ wire[i - 1].piece = wire[i].piece - 1
      BY <1>3, <2>3 DEF BodiesApart
    <3>2. i - 1 \in 1..Len(wire)
      BY <1>3, <2>3, <3>1
    <3> QED
      BY <1>3, <2>3, <3>1, <3>2
  <2> QED
    BY <1>3, <2>2, <2>3
<1> QED
  BY <1>5, <1>6, <1>8, <1>9, <1>10, <1>11

(* A body on a stream ends, taken whole or given up. *)
LEMMA StreamEnd ==
  ASSUME SinkInv, NEW w \in SinkWriters, WriteFails(w) \/ FlushSink(w)
  PROVE  SinkInv'
<1> USE DEF SinkInv
<1>0. /\ UNCHANGED <<sink, last_peer, target, wire>> /\ write \in [SinkWriters -> Calls]
      /\ sink # "udp" /\ Writing(w)
  BY DEF WriteFails, FlushSink, SinkTypeOK, StreamSinks
<1>1. PICK pc \in {"acked", "failed"} :
        write' = [write EXCEPT ![w].pc = pc] /\ (pc = "acked" => write[w].done = Pieces)
  BY DEF WriteFails, FlushSink, Becomes
<1>2. /\ write' \in [SinkWriters -> Calls]
      /\ \A v \in SinkWriters : v # w => write'[v] = write[v]
      /\ write'[w].pc = pc /\ write'[w].asked = write[w].asked
      /\ write'[w].done = write[w].done
  BY <1>0, <1>1 DEF Calls
<1>3. SinkTypeOK'
  BY <1>0, <1>2 DEF SinkTypeOK
<1>4. OneWrites'
  BY <1>0, <1>1, <1>2 DEF OneWrites, Writing
<1>5. \A i \in 1..Len(wire) : wire[i].by \in SinkWriters
  <2>1. \A i \in 1..Len(wire) : wire[i] \in Taken
    BY ElementOfSeq DEF SinkTypeOK
  <2> QED
    BY <2>1 DEF Taken
<1>6. StreamInv'
  <2>1. \A v \in SinkWriters : write'[v].done = write[v].done
    BY <1>2
  <2>2. \A v \in SinkWriters : Writing(v)' => Writing(v)
    BY <1>1, <1>2 DEF Writing
  <2> QED
    BY <1>0, <1>1, <1>2, <1>5, <2>1, <2>2 DEF StreamInv
<1>7. DatagramInv' /\ TargetsOwn'
  BY <1>0 DEF DatagramInv, TargetsOwn
<1> QED
  BY <1>0, <1>3, <1>4, <1>6, <1>7 DEF PiecesOnce, BodiesApart

(* A datagram goes out whole, or not at all; either way the target left in *)
(* the sink is used up.                                                    *)
LEMMA DatagramStep ==
  ASSUME SinkInv, NEW w \in SinkWriters, SendTo(w)
  PROVE  SinkInv'
<1> USE DEF SinkInv
<1> DEFINE e == Took(w, 1, Resolved)
<1>0. /\ UNCHANGED <<sink, last_peer>> /\ write \in [SinkWriters -> Calls]
      /\ sink = "udp" /\ Writing(w) /\ target' = NoPeer
  BY DEF SendTo, SinkTypeOK
<1>1. write[w].asked = target /\ target # NotAnAddress
  BY <1>0 DEF OneWrites
<1>2. /\ e \in Taken /\ e.by = w /\ e.piece = 1 /\ e.heard = last_peer
      /\ e.to = IF write[w].asked # NoPeer THEN write[w].asked ELSE last_peer
  BY <1>1 DEF Took, Taken, Resolved, Asked, SinkTypeOK
<1>3. PICK pc \in {"acked", "failed"} :
        /\ write' = [write EXCEPT ![w].pc = pc]
        /\ wire' = IF pc = "acked" THEN Append(wire, e) ELSE wire
  BY DEF SendTo, Becomes
<1> HIDE DEF e
<1>4. /\ write' \in [SinkWriters -> Calls]
      /\ \A v \in SinkWriters : v # w => write'[v] = write[v]
      /\ write'[w].pc = pc /\ write'[w].asked = write[w].asked
  BY <1>0, <1>3 DEF Calls
<1>5. \A i \in 1..Len(wire) :
        /\ wire[i].by \in SinkWriters /\ wire[i].by # w /\ wire[i].piece = 1
        /\ write[wire[i].by].pc = "acked"
  <2>1. \A i \in 1..Len(wire) : wire[i] \in Taken
    BY ElementOfSeq DEF SinkTypeOK
  <2>2. \A i \in 1..Len(wire) : wire[i].by \in SinkWriters
    BY <2>1 DEF Taken
  <2> QED
    BY <1>0, <2>2 DEF DatagramInv, Writing
<1>6. OneWrites'
  BY <1>0, <1>3, <1>4 DEF OneWrites, Writing
<1>7. CASE pc = "failed"
  <2>1. wire' = wire
    BY <1>3, <1>7
  <2>2. SinkTypeOK'
    BY <1>0, <1>4, <2>1 DEF SinkTypeOK, Asked
  <2>3. StreamInv' /\ DatagramInv' /\ TargetsOwn'
    BY <1>0, <1>4, <1>5, <1>7, <2>1 DEF StreamInv, DatagramInv, TargetsOwn
  <2> QED
    BY <1>6, <2>1, <2>2, <2>3 DEF PiecesOnce, BodiesApart
<1>8. CASE pc = "acked"
  <2>1. /\ wire' \in Seq(Taken) /\ Len(wire) \in Nat /\ Len(wire') = Len(wire) + 1
        /\ wire'[Len(wire) + 1] = e
        /\ \A i \in 1..Len(wire) : wire'[i] = wire[i] /\ wire[i] \in Taken
    BY <1>2, <1>3, <1>8, WireGrows
  <2>2. SinkTypeOK'
    BY <1>0, <1>4, <2>1 DEF SinkTypeOK, Asked
  <2>3. \A i \in 1..Len(wire') : i \in 1..Len(wire) \/ i = Len(wire) + 1
    BY <2>1
  <2>4. DatagramInv'
    <3>1. \A i \in 1..Len(wire') : wire'[i].piece = 1 /\ write'[wire'[i].by].pc = "acked"
      BY <1>2, <1>4, <1>5, <1>8, <2>1, <2>3
    <3>2. ASSUME NEW v \in SinkWriters, write'[v].pc = "acked"
          PROVE  \E i \in 1..Len(wire') : wire'[i].by = v
      <4>1. CASE v = w
        BY <1>2, <2>1, <4>1
      <4>2. CASE v # w
        <5>1. PICK i \in 1..Len(wire) : wire[i].by = v
          BY <1>0, <1>4, <3>2, <4>2 DEF DatagramInv
        <5>2. i \in 1..Len(wire')
          BY <2>1
        <5> QED
          BY <2>1, <5>1, <5>2
      <4> QED
        BY <4>1, <4>2
    <3> QED
      BY <3>1, <3>2 DEF DatagramInv
  <2>5. TargetsOwn'
    BY <1>0, <1>2, <1>4, <1>5, <2>1, <2>3 DEF TargetsOwn
  <2>6. PiecesOnce' /\ BodiesApart'
    <3>1. \A i \in 1..Len(wire') : wire'[i].piece = 1
      BY <1>2, <1>5, <2>1, <2>3
    <3> QED
      BY <1>2, <1>5, <2>1, <2>3, <3>1 DEF PiecesOnce, BodiesApart
  <2> QED
    BY <1>0, <1>6, <2>2, <2>4, <2>5, <2>6 DEF StreamInv
<1> QED
  BY <1>7, <1>8

(* Every step of a writer, of the far end and of a peer keeps the wire in  *)
(* order.                                                                  *)
LEMMA SinkStep == SinkInv /\ [SinkNext]_sink_vars => SinkInv'
<1> SUFFICES ASSUME SinkInv, [SinkNext]_sink_vars PROVE SinkInv'
  OBVIOUS
<1>1. CASE \/ \E how \in {"closed", "broken"} : FarEnd(how)
           \/ \E p \in Peers : Hear(p)
           \/ UNCHANGED sink_vars
  BY <1>1, OthersStep
<1>2. ASSUME NEW w \in SinkWriters, NEW a \in Asked, LockSink(w, a) PROVE SinkInv'
  BY <1>2, LockStep
<1>3. ASSUME NEW w \in SinkWriters, WritePiece(w) PROVE SinkInv'
  BY <1>3, PieceStep
<1>4. ASSUME NEW w \in SinkWriters, WriteFails(w) \/ FlushSink(w) PROVE SinkInv'
  BY <1>4, StreamEnd
<1>5. ASSUME NEW w \in SinkWriters, SendTo(w) PROVE SinkInv'
  BY <1>5, DatagramStep
<1> QED
  BY <1>1, <1>2, <1>3, <1>4, <1>5 DEF SinkNext, Asked

(* SourceManager::write: bodies go out one after another, an acknowledged  *)
(* one whole and once, and a datagram to the target of its own write,      *)
(* because the mutex is held from ctl to flush.                            *)
THEOREM BodiesArriveWhole == SinkSpec => []SinksSound
<1>1. SinkInv => SinksSound
  <2> SUFFICES ASSUME SinkInv PROVE AckedWhole
    BY DEF SinkInv, SinksSound
  <2> USE DEF SinkInv
  <2>1. ASSUME NEW w \in SinkWriters, write[w].pc = "acked"
        PROVE  \E i \in 1..Len(wire) : wire[i].by = w /\ wire[i].piece = BodyLen
    <3>1. CASE sink = "udp"
      BY <2>1, <3>1 DEF DatagramInv, BodyLen
    <3>2. CASE sink # "udp"
      <4>1. write[w].done = Pieces /\ Pieces > 0
        BY <2>1, <3>2, SinksAssumption DEF StreamInv
      <4> QED
        BY <3>2, <4>1 DEF StreamInv, BodyLen
    <3> QED
      BY <3>1, <3>2
  <2> QED
    BY <2>1 DEF AckedWhole, PiecesOnce
<1> QED
  BY <1>1, SinkStart, SinkStep, PTL DEF SinkSpec

-----------------------------------------------------------------------------
(* The frames of the sources. *)
Slots == Nat \X Nat
Arrivals == {Frame(s, n) : s \in Streams, n \in 1..MaxSent} \cup {Err}
Out(q) == [i \in DOMAIN q |-> q[i].f]

SrcTypeOK ==
  /\ src_pc \in {"idle", "sample", "run", "closing", "ended", "failed"}
  /\ src \in [kind : Kinds, handle : BOOLEAN, eof : BOOLEAN]
  /\ link \in {"up", "closed", "broken"}
  /\ sent \in [Streams -> Nat] /\ got \in [Streams -> Nat]
  /\ rx \in Seq(Arrivals) /\ draining \subseteq Streams
  /\ pre \in Seq(Slots) /\ log \in Seq(Slots)

(* What has been read is in one of the three places, and in the log it is  *)
(* without a gap.                                                          *)
HeldInv ==
  \A s \in Streams : /\ Carries(Held, s, got[s])
                     /\ \E n \in 0..got[s] : Carries(log, s, n)

(* Only a child process uses the channel and the second stream; a task     *)
(* that has stopped reading without an error has read all there was.       *)
DrainInv ==
  /\ src_pc = "idle" =>
       /\ src.kind = "mock" /\ rx = <<>> /\ draining = {} /\ link = "up"
       /\ \A s \in Streams : sent[s] = 0
  /\ src.kind # "process" => rx = <<>> /\ draining = {} /\ sent[2] = 0
  /\ src.kind = "process" /\ src_pc # "idle" /\ link # "broken" =>
       \A s \in Streams \ draining : link = "closed" /\ got[s] = sent[s]
  /\ src.kind = "process" /\ src.eof => rx = <<>> /\ draining = {}

(* The end of the run. *)
EndInv ==
  /\ \A s \in Streams : got[s] <= sent[s] /\ sent[s] <= MaxSent
  /\ src_pc \in {"closing", "ended"} /\ link # "broken" =>
       pre = <<>> /\ rx = <<>> /\ \A s \in Streams : got[s] = sent[s]
  /\ src_pc \in {"closing", "ended"} /\ src.kind = "process" => src.eof

SrcInv == SrcTypeOK /\ HeldInv /\ DrainInv /\ EndInv

(* The next frame of a stream is added at the end. *)
LEMMA CarriesNext ==
  ASSUME NEW q \in Seq(Slots), NEW f \in Slots, NEW s \in Streams, NEW n \in Nat,
         Carries(q, s, n), f[1] = s => f[2] = n + 1
  PROVE  Carries(Append(q, f), s, IF f[1] = s THEN n + 1 ELSE n)
<1> DEFINE r == Append(q, f)
           m == IF f[1] = s THEN n + 1 ELSE n
<1>1. /\ Len(q) \in Nat /\ DOMAIN q = 1..Len(q) /\ DOMAIN r = 1..(Len(q) + 1)
      /\ \A i \in 1..Len(q) : r[i] = q[i] /\ q[i] \in Slots
      /\ r[Len(q) + 1] = f
  BY AppendProperties, LenProperties, ElementOfSeq
<1> HIDE DEF r
<1>2. \A i \in DOMAIN r : i \in DOMAIN q \/ i = Len(q) + 1
  BY <1>1
<1>3. f = <<f[1], f[2]>> /\ f[1] \in Nat /\ f[2] \in Nat
  BY DEF Slots
<1>4. \A k \in 1..m : \E i \in DOMAIN r : r[i] = <<s, k>>
  <2> SUFFICES ASSUME NEW k \in 1..m PROVE \E i \in DOMAIN r : r[i] = <<s, k>>
    OBVIOUS
  <2>1. CASE k \in 1..n
    <3>1. PICK i \in DOMAIN q : q[i] = <<s, k>>
      BY <2>1 DEF Carries
    <3> QED
      BY <1>1, <3>1
  <2>2. CASE k = n + 1 /\ f[1] = s
    BY <1>1, <1>3, <2>2
  <2> QED
    BY <2>1, <2>2
<1>5. \A i \in DOMAIN r : r[i][1] = s => r[i][2] \in 1..m
  BY <1>1, <1>2, <1>3 DEF Carries
<1>6. \A i, j \in DOMAIN r : i < j /\ r[i][1] = s /\ r[j][1] = s => r[i][2] < r[j][2]
  BY <1>1, <1>2, <1>3 DEF Carries
<1> QED
  BY <1>4, <1>5, <1>6, Zenon DEF Carries, r

(* An entry of another stream in the middle may go. *)
LEMMA CarriesWithout ==
  ASSUME NEW a \in Seq(Slots), NEW b \in Seq(Slots), b # <<>>,
         NEW s \in Streams, NEW n \in Nat, Carries(a \o b, s, n), b[1][1] # s
  PROVE  Carries(a \o Tail(b), s, n)
<1> DEFINE q == a \o b
           r == a \o Tail(b)
           Old(i) == IF i <= Len(a) THEN i ELSE i + 1
           New(i) == IF i <= Len(a) THEN i ELSE i - 1
<1>1. /\ Len(a) \in Nat /\ Len(b) \in Nat \ {0} /\ Tail(b) \in Seq(Slots)
      /\ Len(Tail(b)) = Len(b) - 1 /\ \A i \in 1..(Len(b) - 1) : Tail(b)[i] = b[i + 1]
  BY HeadTailProperties, LenProperties, EmptySeq
<1>2. /\ DOMAIN q = 1..(Len(a) + Len(b)) /\ DOMAIN r = 1..(Len(a) + Len(b) - 1)
      /\ \A i \in DOMAIN q : q[i] = IF i <= Len(a) THEN a[i] ELSE b[i - Len(a)]
      /\ \A i \in DOMAIN r : r[i] = IF i <= Len(a) THEN a[i] ELSE Tail(b)[i - Len(a)]
  BY <1>1, ConcatProperties, LenProperties
<1> HIDE DEF q, r
<1>3. ASSUME NEW i \in DOMAIN r PROVE Old(i) \in DOMAIN q /\ r[i] = q[Old(i)]
  <2>1. CASE i <= Len(a)
    BY <1>1, <1>2, <2>1
  <2>2. CASE i > Len(a)
    <3>1. /\ i \in Int /\ i + 1 \in DOMAIN q /\ Old(i) = i + 1
          /\ i - Len(a) \in 1..(Len(b) - 1)
      BY <1>1, <1>2, <2>2
    <3>2. r[i] = Tail(b)[i - Len(a)] /\ q[i + 1] = b[(i + 1) - Len(a)]
      BY <1>1, <1>2, <2>2, <3>1
    <3>3. (i + 1) - Len(a) = (i - Len(a)) + 1
      BY <1>1, <3>1
    <3> QED
      BY <1>1, <3>1, <3>2, <3>3
  <2> QED
    BY <1>1, <1>2, <2>1, <2>2
<1>4. q[Len(a) + 1][1] # s
  BY <1>1, <1>2
<1>5. ASSUME NEW i \in DOMAIN q, i # Len(a) + 1 PROVE New(i) \in DOMAIN r /\ r[New(i)] = q[i]
  <2>1. New(i) \in DOMAIN r /\ Old(New(i)) = i
    BY <1>1, <1>2, <1>5
  <2> QED
    BY <1>3, <2>1
<1>6. \A i, j \in DOMAIN r : i < j => Old(i) < Old(j)
  BY <1>1, <1>2
<1>7. \A k \in 1..n : \E i \in DOMAIN r : r[i] = <<s, k>>
  <2> SUFFICES ASSUME NEW k \in 1..n PROVE \E i \in DOMAIN r : r[i] = <<s, k>>
    OBVIOUS
  <2>1. PICK i \in DOMAIN q : q[i] = <<s, k>>
    BY Zenon DEF Carries, q
  <2>2. i # Len(a) + 1
    BY <1>4, <2>1
  <2> QED
    BY <1>5, <2>1, <2>2
<1> HIDE DEF Old, New
<1>8. \A i \in DOMAIN r : r[i][1] = s => r[i][2] \in 1..n
  BY <1>3 DEF Carries, q
<1>9. \A i, j \in DOMAIN r : i < j /\ r[i][1] = s /\ r[j][1] = s => r[i][2] < r[j][2]
  BY <1>3, <1>6, Zenon DEF Carries, q
<1> QED
  BY <1>7, <1>8, <1>9, Zenon DEF Carries, r

(* The first frames of what is carried are carried. *)
LEMMA CarriesFirst ==
  ASSUME NEW l \in Seq(Slots), NEW f \in Slots, NEW r \in Seq(Slots), NEW s \in Streams,
         NEW n \in Nat, Carries(Append(l, f) \o r, s, n),
         NEW m \in 0..n, Carries(l, s, m)
  PROVE  \E k \in 0..n : Carries(Append(l, f), s, k)
<1> DEFINE a == Append(l, f)
           q == a \o r
<1>1. /\ a \in Seq(Slots) /\ Len(l) \in Nat /\ Len(a) = Len(l) + 1 /\ Len(r) \in Nat
      /\ \A i \in 1..Len(l) : a[i] = l[i]
      /\ a[Len(a)] = f
  BY AppendProperties, LenProperties
<1> HIDE DEF a
<1>2. /\ DOMAIN a = 1..Len(a) /\ DOMAIN l = 1..Len(l) /\ DOMAIN q = 1..(Len(a) + Len(r))
      /\ \A i \in DOMAIN a : i \in DOMAIN q /\ q[i] = a[i]
  <2>1. /\ q \in Seq(Slots) /\ Len(q) = Len(a) + Len(r)
        /\ \A i \in 1..(Len(a) + Len(r)) : q[i] = IF i <= Len(a) THEN a[i] ELSE r[i - Len(a)]
    BY <1>1, ConcatProperties, Zenon
  <2>2. /\ DOMAIN a = 1..Len(a) /\ DOMAIN l = 1..Len(l) /\ DOMAIN q = 1..(Len(a) + Len(r))
    BY <1>1, <2>1, LenProperties
  <2> QED
    BY <1>1, <2>1, <2>2
<1>3. f = <<f[1], f[2]>> /\ f[2] \in Nat
  BY DEF Slots
<1>4. Carries(q, s, n)
  BY DEF a
<1> HIDE DEF q
<1>5. CASE f[1] = s
  <2>1. Len(a) \in DOMAIN a /\ Len(a) \in DOMAIN q /\ q[Len(a)] = f
    BY <1>1, <1>2
  <2>2. f[2] \in 1..n
    BY <1>4, <1>5, <2>1 DEF Carries
  <2>3. \A k \in 1..f[2] : \E i \in DOMAIN a : a[i] = <<s, k>>
    <3> SUFFICES ASSUME NEW k \in 1..f[2] PROVE \E i \in DOMAIN a : a[i] = <<s, k>>
      OBVIOUS
    <3>1. PICK i \in DOMAIN q : q[i] = <<s, k>>
      BY <1>4, <2>2 DEF Carries
    <3>2. ~(Len(a) < i)
      <4>1. q[i][1] = s /\ q[i][2] = k
        BY <3>1
      <4>2. Len(a) < i => f[2] < k
        BY <1>4, <1>5, <2>1, <4>1 DEF Carries
      <4> QED
        BY <1>3, <4>2
    <3> QED
      BY <1>1, <1>2, <3>1, <3>2
  <2>4. \A i \in DOMAIN a : i < Len(a) \/ i = Len(a)
    BY <1>1, <1>2
  <2>5. \A i \in DOMAIN a : a[i][1] = s => a[i][2] \in 1..f[2]
    <3> SUFFICES ASSUME NEW i \in DOMAIN a, a[i][1] = s PROVE a[i][2] \in 1..f[2]
      OBVIOUS
    <3>1. a[i][2] \in 1..n
      BY <1>2, <1>4 DEF Carries
    <3>2. i < Len(a) => a[i][2] < f[2]
      BY <1>2, <1>4, <1>5, <2>1, Zenon DEF Carries
    <3>3. i = Len(a) => a[i][2] = f[2]
      BY <1>1
    <3> QED
      BY <1>3, <2>4, <3>1, <3>2, <3>3
  <2>6. \A i, j \in DOMAIN a : i < j /\ a[i][1] = s /\ a[j][1] = s => a[i][2] < a[j][2]
    BY <1>2, <1>4 DEF Carries
  <2>7. Carries(a, s, f[2])
    BY <2>3, <2>5, <2>6 DEF Carries
  <2> QED
    BY <2>2, <2>7 DEF a
<1>6. CASE f[1] # s
  <2>1. Carries(a, s, m)
    BY <1>6, CarriesNext DEF a
  <2> QED
    BY <2>1 DEF a
<1> QED
  BY <1>5, <1>6

(* A frame that goes from the head of one place to the end of the place    *)
(* before it stays where it was.                                           *)
LEMMA HeadShifts ==
  ASSUME NEW a \in Seq(Slots), NEW b \in Seq(Slots), b # <<>>
  PROVE  b[1] \in Slots /\ Tail(b) \in Seq(Slots) /\ Append(a, b[1]) \o Tail(b) = a \o b
<1>1. /\ Len(b) \in Nat \ {0} /\ b[1] \in Slots /\ Tail(b) \in Seq(Slots)
      /\ <<b[1]>> \in Seq(Slots)
  <2>1. Len(b) \in Nat \ {0}
    BY EmptySeq
  <2>2. b[1] \in Slots
    BY <2>1, ElementOfSeq
  <2> QED
    BY <2>1, <2>2, HeadTailProperties
<1>2. b = <<b[1]>> \o Tail(b)
  <2>1. SubSeq(b, 1, Len(b)) = <<b[1]>> \o SubSeq(b, 2, Len(b))
    BY <1>1, SubSeqRecursiveFirst
  <2> QED
    BY <2>1, SubSeqFull, TailIsSubSeq
<1>3. Append(a, b[1]) = a \o <<b[1]>>
  BY <1>1, AppendIsConcat
<1>4. (a \o <<b[1]>>) \o Tail(b) = a \o (<<b[1]>> \o Tail(b))
  BY <1>1, ConcatAssociative
<1> QED
  BY <1>1, <1>2, <1>3, <1>4

(* The frames in the channel. *)
LEMMA OutOf ==
  ASSUME NEW q \in Seq(Arrivals)
  PROVE  /\ Out(q) \in Seq(Slots) /\ (q = <<>> <=> Out(q) = <<>>)
         /\ q # <<>> => /\ q[1] \in Arrivals /\ Tail(q) \in Seq(Arrivals)
                        /\ Out(q)[1] = q[1].f /\ Out(Tail(q)) = Tail(Out(q))
         /\ \A e \in Arrivals : Append(q, e) \in Seq(Arrivals) /\ Out(Append(q, e)) = Append(Out(q), e.f)
<1>0. \A e \in Arrivals : e.f \in Slots
  BY DEF Arrivals, Frame, Err, Slots, Streams
<1>1. ASSUME NEW r \in Seq(Arrivals)
      PROVE  /\ Out(r) \in Seq(Slots) /\ Len(Out(r)) = Len(r) /\ Len(r) \in Nat
             /\ \A i \in 1..Len(r) : Out(r)[i] = r[i].f
  <2>1. DOMAIN r = 1..Len(r) /\ Len(r) \in Nat
    BY LenProperties
  <2>2. \A i \in 1..Len(r) : r[i].f \in Slots
    BY <1>0, ElementOfSeq
  <2> QED
    BY <2>1, <2>2 DEF Out
<1>2. q = <<>> <=> Out(q) = <<>>
  BY <1>1, EmptySeq
<1>3. ASSUME q # <<>>
      PROVE  /\ q[1] \in Arrivals /\ Tail(q) \in Seq(Arrivals)
             /\ Out(q)[1] = q[1].f /\ Out(Tail(q)) = Tail(Out(q))
  <2>1. Len(q) \in Nat \ {0} /\ Tail(q) \in Seq(Arrivals) /\ Len(Tail(q)) = Len(q) - 1
        /\ \A i \in 1..Len(Tail(q)) : Tail(q)[i] = q[i + 1]
    BY <1>3, EmptySeq, HeadTailProperties
  <2>2. Out(q) # <<>> /\ Out(q) \in Seq(Slots)
    BY <1>1, <1>2, <1>3
  <2>3. /\ Tail(Out(q)) \in Seq(Slots) /\ Len(Tail(Out(q))) = Len(q) - 1
        /\ \A i \in 1..(Len(q) - 1) : Tail(Out(q))[i] = Out(q)[i + 1]
    BY <1>1, <2>2, HeadTailProperties
  <2>4. /\ Out(Tail(q)) \in Seq(Slots) /\ Len(Out(Tail(q))) = Len(q) - 1
        /\ \A i \in 1..(Len(q) - 1) : Out(Tail(q))[i] = q[i + 1].f
    BY <1>1, <2>1, Zenon
  <2>5. \A i \in 1..(Len(q) - 1) : i + 1 \in 1..Len(q)
    BY <2>1
  <2>6. Out(Tail(q)) = Tail(Out(q))
    BY <1>1, <2>3, <2>4, <2>5, SeqEqual
  <2>7. 1 \in 1..Len(q)
    BY <2>1
  <2> QED
    BY <1>1, <2>1, <2>6, <2>7, ElementOfSeq
<1>4. ASSUME NEW e \in Arrivals
      PROVE  Append(q, e) \in Seq(Arrivals) /\ Out(Append(q, e)) = Append(Out(q), e.f)
  <2>1. /\ Append(q, e) \in Seq(Arrivals) /\ Len(Append(q, e)) = Len(q) + 1
        /\ \A i \in 1..Len(q) : Append(q, e)[i] = q[i]
        /\ Append(q, e)[Len(q) + 1] = e
    BY AppendProperties
  <2>2. /\ Append(Out(q), e.f) \in Seq(Slots) /\ Len(Append(Out(q), e.f)) = Len(q) + 1
        /\ \A i \in 1..Len(q) : Append(Out(q), e.f)[i] = q[i].f
        /\ Append(Out(q), e.f)[Len(q) + 1] = e.f
    BY <1>0, <1>1, AppendProperties
  <2>3. /\ Out(Append(q, e)) \in Seq(Slots) /\ Len(Out(Append(q, e))) = Len(q) + 1
        /\ \A i \in 1..(Len(q) + 1) : Out(Append(q, e))[i] = Append(q, e)[i].f
    BY <1>1, <2>1, Zenon
  <2>4. \A i \in 1..(Len(q) + 1) : i \in 1..Len(q) \/ i = Len(q) + 1
    BY <1>1
  <2>5. \A i \in 1..(Len(q) + 1) : Out(Append(q, e))[i] = Append(Out(q), e.f)[i]
    BY <2>1, <2>2, <2>3, <2>4
  <2> QED
    BY <2>1, <2>2, <2>3, <2>5, SeqEqual
<1> QED
  BY <1>1, <1>2, <1>3, <1>4

(* What is held is a sequence, and the log its beginning. *)
LEMMA HeldJoins ==
  ASSUME NEW l \in Seq(Slots), NEW b \in Seq(Slots), NEW q \in Seq(Arrivals)
  PROVE  /\ Out(q) \in Seq(Slots) /\ l \o b \in Seq(Slots) /\ b \o Out(q) \in Seq(Slots)
         /\ (l \o b) \o Out(q) \in Seq(Slots)
         /\ (l \o b) \o Out(q) = l \o (b \o Out(q))
<1>1. Out(q) \in Seq(Slots)
  BY OutOf
<1>2. l \o b \in Seq(Slots) /\ b \o Out(q) \in Seq(Slots)
  BY <1>1, ConcatProperties
<1>3. (l \o b) \o Out(q) \in Seq(Slots)
  BY <1>1, <1>2, ConcatProperties
<1> QED
  BY <1>1, <1>2, <1>3, ConcatAssociative

(* The same, of the present state. *)
LEMMA HeldIs ==
  ASSUME SrcTypeOK
  PROVE  /\ Out(rx) \in Seq(Slots) /\ log \o pre \in Seq(Slots) /\ Held \in Seq(Slots)
         /\ Held = (log \o pre) \o Out(rx)
<1>1. log \in Seq(Slots) /\ pre \in Seq(Slots) /\ rx \in Seq(Arrivals)
  BY DEF SrcTypeOK
<1> QED
  BY <1>1, HeldJoins DEF Held, Out

(* What the steps do to the frames held: nothing, the next frame of a      *)
(* stream comes in, an error does, or one goes.                            *)
HeldStays == Held' = Held /\ got' = got
HeldReads == \E t \in Streams : /\ Held' = Append(Held, <<t, got[t] + 1>>)
                                /\ got' = [got EXCEPT ![t] = @ + 1]
HeldFails == Held' = Append(Held, <<0, 0>>) /\ got' = got
HeldDrops == /\ rx # <<>> /\ rx[1] = Err /\ rx' = Tail(rx)
             /\ log' = log /\ pre' = pre /\ got' = got
LogGrows == log' = log \/ \E f \in Slots : log' = Append(log, f)

(* All of them keep the frames whole and in order. *)
LEMMA HeldStep ==
  ASSUME SrcTypeOK, SrcTypeOK', HeldInv, HeldStays \/ HeldReads \/ HeldFails \/ HeldDrops, LogGrows
  PROVE  HeldInv'
<1> SUFFICES ASSUME NEW s \in Streams
             PROVE  /\ Carries(Held', s, got'[s])
                    /\ \E n \in 0..got'[s] : Carries(log', s, n)
  BY DEF HeldInv
<1>0. /\ got[s] \in Nat /\ got'[s] \in Nat /\ got \in [Streams -> Nat] /\ s \in Nat /\ s # 0
      /\ log \in Seq(Slots) /\ log' \in Seq(Slots) /\ Held \in Seq(Slots)
  BY HeldIs DEF SrcTypeOK, Streams
<1>1. Carries(Held, s, got[s])
  BY DEF HeldInv
<1>2. got'[s] >= got[s]
  BY <1>0 DEF HeldStays, HeldReads, HeldFails, HeldDrops
<1>3. Carries(Held', s, got'[s])
  <2>1. CASE HeldStays
    BY <1>1, <2>1 DEF HeldStays
  <2>2. CASE HeldReads
    <3>1. PICK t \in Streams : /\ Held' = Append(Held, <<t, got[t] + 1>>)
                               /\ got' = [got EXCEPT ![t] = @ + 1]
      BY <2>2, Zenon DEF HeldReads
    <3> DEFINE f == <<t, got[t] + 1>>
    <3>2. f \in Slots /\ f[1] = t /\ f[2] = got[t] + 1
      BY <1>0 DEF Slots, Streams
    <3>3. got'[s] = IF t = s THEN got[s] + 1 ELSE got[s]
      BY <1>0, <3>1
    <3> HIDE DEF f
    <3>4. Carries(Append(Held, f), s, IF f[1] = s THEN got[s] + 1 ELSE got[s])
      BY <1>0, <1>1, <3>2, CarriesNext
    <3> QED
      BY <3>1, <3>2, <3>3, <3>4 DEF f
  <2>3. CASE HeldFails
    <3>1. <<0, 0>> \in Slots /\ <<0, 0>>[1] # s
      BY <1>0 DEF Slots
    <3>2. Carries(Append(Held, <<0, 0>>), s, got[s])
      BY <1>0, <1>1, <3>1, CarriesNext
    <3> QED
      BY <2>3, <3>2 DEF HeldFails
  <2>4. CASE HeldDrops
    <3> USE <2>4 DEF HeldDrops
    <3>1. rx \in Seq(Arrivals)
      BY DEF SrcTypeOK
    <3>2. Out(rx) # <<>> /\ Out(rx)[1] = <<0, 0>> /\ Out(rx') = Tail(Out(rx))
      BY <3>1, OutOf DEF Err
    <3>3. Out(rx)[1][1] # s
      BY <1>0, <3>2
    <3>4. Held = (log \o pre) \o Out(rx) /\ log \o pre \in Seq(Slots) /\ Out(rx) \in Seq(Slots)
      BY HeldIs
    <3>5. Held' = (log \o pre) \o Tail(Out(rx))
      BY <3>2 DEF Held, Out
    <3> QED
      BY <1>0, <1>1, <3>2, <3>3, <3>4, <3>5, CarriesWithout, Zenon
  <2> QED
    BY <2>1, <2>2, <2>3, <2>4
<1>4. PICK m \in 0..got[s] : Carries(log, s, m)
  BY DEF HeldInv
<1>5. m \in 0..got'[s]
  BY <1>0, <1>2
<1>6. CASE log' = log
  BY <1>3, <1>4, <1>5, <1>6
<1>7. ASSUME NEW f \in Slots, log' = Append(log, f)
      PROVE  \E n \in 0..got'[s] : Carries(log', s, n)
  <2>1. log' \in Seq(Slots) /\ pre' \in Seq(Slots) /\ rx' \in Seq(Arrivals)
    BY DEF SrcTypeOK
  <2>2. PICK r \in Seq(Slots) : Held' = Append(log, f) \o r
    <3>1. Held' = (log' \o pre') \o Out(rx')
      BY DEF Held, Out
    <3> QED
      BY <1>7, <2>1, <3>1, HeldJoins, Zenon
  <2>3. Carries(Append(log, f) \o r, s, got'[s])
    BY <1>3, <2>2
  <2>4. \E k \in 0..got'[s] : Carries(Append(log, f), s, k)
    BY <1>0, <1>4, <1>5, <2>3, CarriesFirst
  <2> QED
    BY <1>7, <2>4
<1> QED
  BY <1>3, <1>6, <1>7 DEF LogGrows

(* What a call of recv may come to: a frame of the only stream, the first  *)
(* entry of the channel, an error, or the end, at which a transport that   *)
(* did not break has nothing left.                                         *)
RecvReads(res) ==
  /\ src.kind # "process" /\ res = Frame(1, got[1] + 1) /\ got[1] < sent[1]
  /\ got' = [got EXCEPT ![1] = @ + 1] /\ src' = src /\ rx' = rx
RecvTakes(res) ==
  /\ src.kind = "process" /\ ~src.eof /\ rx # <<>> /\ res = rx[1]
  /\ rx' = Tail(rx) /\ got' = got /\ src' = src
RecvBreaks(res) == res = Err /\ src' = src /\ got' = got /\ rx' = rx
RecvEnds(res) ==
  /\ res = NoMore /\ rx = <<>> /\ rx' = rx /\ got' = got
  /\ src' \in [kind : {src.kind}, handle : BOOLEAN, eof : BOOLEAN]
  /\ src.kind = "process" => draining = {} /\ src'.eof
  /\ link # "broken" => \A s \in Streams : got[s] = sent[s]

(* The recv of every kind of source is one of these. *)
LEMMA RecvOutcome ==
  ASSUME SrcInv, NEW res, Recv(res)
  PROVE  RecvReads(res) \/ RecvTakes(res) \/ RecvBreaks(res) \/ RecvEnds(res)
<1> USE DEF SrcInv
<1>0. /\ src \in [kind : Kinds, handle : BOOLEAN, eof : BOOLEAN]
      /\ 1 \in Streams /\ 2 \in Streams /\ \A s \in Streams : s = 1 \/ s = 2
      /\ \A s \in Streams : got[s] \in Nat /\ sent[s] \in Nat /\ got[s] <= sent[s]
  BY DEF SrcTypeOK, Streams, EndInv
<1>1. CASE src.kind = "process"
  <2>1. ProcessRecv(res)
    BY <1>1 DEF Recv
  <2>2. CASE src.eof /\ res = NoMore /\ Stay
    <3>1. rx = <<>> /\ draining = {}
      BY <1>1, <2>2 DEF DrainInv
    <3>2. src_pc # "idle" \/ \A s \in Streams : sent[s] = 0
      BY DEF DrainInv
    <3>3. link # "broken" => \A s \in Streams : got[s] = sent[s]
      BY <1>0, <1>1, <3>1, <3>2 DEF DrainInv
    <3> QED
      BY <1>0, <2>2, <3>1, <3>3 DEF RecvEnds, Stay
  <2>3. CASE /\ ~src.eof /\ rx # <<>> /\ res = rx[1] /\ rx' = Tail(rx)
             /\ UNCHANGED <<src, got>>
    BY <1>1, <2>3 DEF RecvTakes
  <2>4. CASE /\ ~src.eof /\ rx = <<>> /\ draining = {} /\ res = NoMore
             /\ src' = [src EXCEPT !.eof = TRUE] /\ UNCHANGED <<got, rx>>
    <3>1. link # "broken" => \A s \in Streams : got[s] = sent[s]
      BY <1>0, <1>1, <2>4 DEF DrainInv
    <3> QED
      BY <1>0, <2>4, <3>1, Zenon DEF RecvEnds
  <2> QED
    BY <2>1, <2>2, <2>3, <2>4 DEF ProcessRecv
<1>2. CASE src.kind # "process"
  <2>1. rx = <<>> /\ got[2] = sent[2]
    BY <1>0, <1>2 DEF DrainInv
  <2>2. ReadOne(res) => RecvReads(res)
    BY <1>2 DEF ReadOne, RecvReads
  <2>3. res = Err /\ Stay => RecvBreaks(res)
    BY DEF Stay, RecvBreaks
  <2>4. res = NoMore /\ Stay /\ (link # "broken" => got[1] = sent[1]) => RecvEnds(res)
    BY <1>0, <1>2, <2>1 DEF Stay, RecvEnds
  <2>5. res = NoMore /\ src' = [src EXCEPT !.handle = FALSE] /\ UNCHANGED <<got, rx>> /\ got[1] = sent[1]
          => RecvEnds(res)
    BY <1>0, <1>2, <2>1, Zenon DEF RecvEnds
  <2> QED
    BY <1>0, <1>2, <2>2, <2>3, <2>4, <2>5 DEF Recv, Kinds, TcpRecv, SerialRecv, UdpRecv,
       SyslogRecv, PipeRecv, MockRecv, AtEof
<1> QED
  BY <1>1, <1>2

(* An entry added to the last of several places is added to the whole. *)
LEMMA AppendJoins ==
  ASSUME NEW a \in Seq(Slots), NEW b \in Seq(Slots), NEW f \in Slots
  PROVE  a \o Append(b, f) = Append(a \o b, f)
<1>1. <<f>> \in Seq(Slots) /\ a \o b \in Seq(Slots)
  BY ConcatProperties
<1>2. Append(b, f) = b \o <<f>> /\ Append(a \o b, f) = (a \o b) \o <<f>>
  BY <1>1, AppendIsConcat
<1> QED
  BY <1>1, <1>2, ConcatAssociative

(* A frame is taken over by the sampling loop or by the runner. *)
Kept(f) == \/ pre' = Append(pre, f) /\ log' = log
           \/ pre = <<>> /\ pre' = pre /\ log' = Append(log, f)

(* Either way it comes after all that was sampled or logged. *)
LEMMA KeptLast ==
  ASSUME SrcTypeOK, NEW f \in Slots, Kept(f)
  PROVE  /\ log' \in Seq(Slots) /\ pre' \in Seq(Slots) /\ LogGrows
         /\ log' \o pre' = Append(log \o pre, f)
<1>1. log \in Seq(Slots) /\ pre \in Seq(Slots)
  BY DEF SrcTypeOK
<1>2. Append(log, f) \in Seq(Slots) /\ Append(pre, f) \in Seq(Slots)
  BY <1>1, AppendProperties
<1>3. CASE pre' = Append(pre, f) /\ log' = log
  BY <1>1, <1>2, <1>3, AppendJoins DEF LogGrows
<1>4. CASE pre = <<>> /\ pre' = pre /\ log' = Append(log, f)
  BY <1>1, <1>2, <1>4, ConcatEmptySeq DEF LogGrows
<1> QED
  BY <1>3, <1>4 DEF Kept

(* recv gives a frame and it is kept. *)
LEMMA FrameKept ==
  ASSUME SrcInv, NEW res, RecvReads(res) \/ RecvTakes(res), res.t = "frame", Kept(res.f)
  PROVE  /\ HeldStays \/ HeldReads
         /\ LogGrows /\ log' \in Seq(Slots) /\ pre' \in Seq(Slots)
<1> USE DEF SrcInv
<1>0. /\ log \in Seq(Slots) /\ pre \in Seq(Slots) /\ rx \in Seq(Arrivals)
      /\ got \in [Streams -> Nat] /\ 1 \in Streams
      /\ Held = (log \o pre) \o Out(rx) /\ log \o pre \in Seq(Slots) /\ Out(rx) \in Seq(Slots)
  BY HeldIs DEF SrcTypeOK, Streams
<1>1. Held' = (log' \o pre') \o Out(rx')
  BY DEF Held, Out
<1>2. CASE RecvReads(res)
  <2>1. rx = <<>> /\ rx' = rx /\ res.f = <<1, got[1] + 1>>
    BY <1>2 DEF RecvReads, DrainInv, Frame
  <2>2. res.f \in Slots
    BY <1>0, <2>1 DEF Slots
  <2>3. /\ log' \o pre' = Append(log \o pre, res.f) /\ LogGrows
        /\ log' \in Seq(Slots) /\ pre' \in Seq(Slots)
    BY <2>2, KeptLast
  <2>4. Out(rx) = <<>> /\ Held = log \o pre
    BY <1>0, <2>1, OutOf, ConcatEmptySeq, Zenon
  <2>5. Append(log \o pre, res.f) \in Seq(Slots)
    BY <1>0, <2>2, AppendProperties
  <2>6. Held' = Append(Held, res.f)
    BY <1>1, <2>1, <2>3, <2>4, <2>5, ConcatEmptySeq
  <2>7. HeldReads
    BY <1>0, <1>2, <2>1, <2>6, Zenon DEF HeldReads, RecvReads
  <2> QED
    BY <2>3, <2>7
<1>3. CASE RecvTakes(res)
  <2>1. rx # <<>> /\ rx' = Tail(rx) /\ got' = got /\ res = rx[1]
    BY <1>3 DEF RecvTakes
  <2>2. Out(rx) # <<>> /\ Out(rx)[1] = res.f /\ Out(rx') = Tail(Out(rx))
    BY <1>0, <2>1, OutOf
  <2>3. res.f \in Slots /\ Append(log \o pre, res.f) \o Tail(Out(rx)) = Held
    BY <1>0, <2>2, HeadShifts
  <2>4. /\ log' \o pre' = Append(log \o pre, res.f) /\ LogGrows
        /\ log' \in Seq(Slots) /\ pre' \in Seq(Slots)
    BY <2>3, KeptLast
  <2> QED
    BY <1>1, <2>1, <2>2, <2>3, <2>4, Zenon DEF HeldStays
<1> QED
  BY <1>2, <1>3

(* No frame has been sent. *)
LEMMA SrcStart == SrcInit => SrcInv
<1> SUFFICES ASSUME SrcInit PROVE SrcInv
  OBVIOUS
<1> USE DEF SrcInit
<1>1. SrcTypeOK
  BY DEF SrcTypeOK, Kinds, Streams
<1>2. Held = <<>>
  BY DEF Held
<1>3. \A s \in Streams : Carries(<<>>, s, 0)
  BY DEF Carries
<1>4. HeldInv
  BY <1>2, <1>3 DEF HeldInv
<1>5. DrainInv /\ EndInv
  BY SourcesAssumption DEF DrainInv, EndInv, Streams
<1> QED
  BY <1>1, <1>4, <1>5 DEF SrcInv

(* Starts, the other end, and the steps that only go on or close. *)
LEMMA SrcOthers ==
  ASSUME SrcInv,
         \/ \E k \in Kinds \cup Stubs : StartFails(k)
         \/ \E p \in SerialSettings, d \in BOOLEAN : Start(p, d)
         \/ \E s \in Streams : Send(s)
         \/ \E how \in {"closed", "broken"} : Hangup(how)
         \/ SampleEnds \/ RunClose
         \/ UNCHANGED src_vars
  PROVE  SrcInv'
<1> USE DEF SrcInv
<1>1. UNCHANGED <<got, rx, pre, log>>
  BY DEF StartFails, Start, Send, Hangup, SampleEnds, RunClose, src_vars, io
<1>2. HeldInv'
  BY <1>1 DEF HeldInv, Held
<1>3. ASSUME NEW k \in Kinds \cup Stubs, StartFails(k) PROVE SrcInv'
  BY <1>1, <1>2, <1>3 DEF StartFails, io, SrcTypeOK, DrainInv, EndInv
<1>4. ASSUME NEW p \in SerialSettings, NEW d \in BOOLEAN, Start(p, d) PROVE SrcInv'
  <2>1. PICK k \in Kinds : /\ src' = Opened(k)
                           /\ draining' = IF k = "process" THEN Streams ELSE {}
    BY <1>4 DEF Start, OpenSerial, OpenTcp, OpenUdp, OpenSyslog, OpenPipe, OpenMock,
       OpenProcess, Kinds
  <2>2. /\ src' \in [kind : Kinds, handle : BOOLEAN, eof : BOOLEAN]
        /\ src'.kind = k /\ src'.eof = FALSE
    BY <2>1 DEF Opened
  <2>3. src_pc = "idle" /\ src_pc' \in {"sample", "run"} /\ UNCHANGED <<sent, link>>
    BY <1>4 DEF Start, io
  <2>4. SrcTypeOK'
    BY <1>1, <2>1, <2>2, <2>3 DEF SrcTypeOK
  <2>5. DrainInv'
    BY <1>1, <2>1, <2>2, <2>3 DEF DrainInv, Streams
  <2>6. EndInv'
    BY <1>1, <2>3 DEF EndInv
  <2> QED
    BY <1>2, <2>4, <2>5, <2>6
<1>5. ASSUME NEW s \in Streams, Send(s) PROVE SrcInv'
  <2>1. /\ UNCHANGED <<src_pc, src, link, draining>> /\ link = "up" /\ src_pc \in {"sample", "run"}
        /\ s \in StreamsOf(src.kind) /\ sent[s] < MaxSent
        /\ sent' = [sent EXCEPT ![s] = @ + 1]
    BY <1>5 DEF Send, SrcOpen
  <2>2. /\ sent' \in [Streams -> Nat]
        /\ \A t \in Streams : /\ sent[t] \in Nat /\ got[t] \in Nat
                              /\ sent'[t] = IF t = s THEN sent[t] + 1 ELSE sent[t]
    BY <2>1 DEF SrcTypeOK
  <2>3. SrcTypeOK'
    BY <1>1, <2>1, <2>2 DEF SrcTypeOK
  <2>4. src.kind = "process" => draining = Streams
    BY <2>1, Zenon DEF DrainInv, SrcTypeOK
  <2>5. src.kind # "process" => s # 2
    BY <2>1 DEF StreamsOf
  <2>6. DrainInv'
    BY <1>1, <2>1, <2>2, <2>4, <2>5 DEF DrainInv, Streams
  <2>7. EndInv'
    BY <1>1, <2>1, <2>2, SourcesAssumption DEF EndInv
  <2> QED
    BY <1>2, <2>3, <2>6, <2>7
<1>6. ASSUME NEW how \in {"closed", "broken"}, Hangup(how) PROVE SrcInv'
  <2>1. /\ UNCHANGED <<src_pc, src, sent, draining>> /\ link = "up" /\ link' = how
        /\ src_pc \in {"sample", "run"}
    BY <1>6 DEF Hangup, SrcOpen
  <2>2. SrcTypeOK'
    BY <1>1, <2>1 DEF SrcTypeOK
  <2>3. DrainInv' /\ EndInv'
    BY <1>1, <2>1 DEF DrainInv, EndInv
  <2> QED
    BY <1>2, <2>2, <2>3
<1>7. CASE SampleEnds
  BY <1>1, <1>2, <1>7 DEF SampleEnds, io, SrcTypeOK, DrainInv, EndInv
<1>8. CASE RunClose
  <2>1. /\ src_pc = "closing" /\ src_pc' = "ended" /\ src' = [src EXCEPT !.handle = FALSE]
        /\ draining' = {} /\ UNCHANGED <<sent, link>>
    BY <1>8 DEF RunClose, io
  <2>2. /\ src' \in [kind : Kinds, handle : BOOLEAN, eof : BOOLEAN]
        /\ src'.kind = src.kind /\ src'.eof = src.eof
    BY <2>1, Zenon DEF SrcTypeOK
  <2>3. src.kind = "process" => draining = {} /\ src.eof
    BY <2>1 DEF EndInv, DrainInv
  <2>4. SrcTypeOK'
    BY <1>1, <2>1, <2>2 DEF SrcTypeOK
  <2>5. DrainInv'
    BY <1>1, <2>1, <2>2, <2>3 DEF DrainInv
  <2>6. EndInv'
    BY <1>1, <2>1, <2>2 DEF EndInv
  <2> QED
    BY <1>2, <2>4, <2>5, <2>6
<1>9. CASE UNCHANGED src_vars
  BY <1>2, <1>9 DEF src_vars, SrcTypeOK, DrainInv, EndInv
<1> QED
  BY <1>3, <1>4, <1>5, <1>6, <1>7, <1>8, <1>9

(* The tasks that drain the pipes of a process. *)
LEMMA DrainStep ==
  ASSUME SrcInv, NEW s \in Streams, Drain(s) \/ DrainEnd(s) \/ DrainError(s)
  PROVE  SrcInv'
<1> USE DEF SrcInv
<1>0. /\ UNCHANGED <<src_pc, src, sent, link, log, pre>> /\ s \in draining
      /\ src.kind = "process" /\ ~src.eof /\ src_pc # "idle"
      /\ log \in Seq(Slots) /\ pre \in Seq(Slots) /\ rx \in Seq(Arrivals)
      /\ got \in [Streams -> Nat] /\ sent \in [Streams -> Nat]
      /\ \A t \in Streams : got[t] \in Nat /\ sent[t] \in Nat /\ got[t] <= sent[t] /\ sent[t] <= MaxSent
      /\ Held = (log \o pre) \o Out(rx) /\ log \o pre \in Seq(Slots) /\ Out(rx) \in Seq(Slots)
  BY HeldIs DEF Drain, DrainEnd, DrainError, io, DrainInv, EndInv, SrcTypeOK
<1>1. Held' = (log \o pre) \o Out(rx')
  BY <1>0 DEF Held, Out
<1>2. CASE Drain(s)
  <2> DEFINE e == Frame(s, got[s] + 1)
  <2>1. /\ got[s] < sent[s] /\ got' = [got EXCEPT ![s] = @ + 1]
        /\ rx' = Append(rx, e) /\ draining' = draining
    BY <1>2 DEF Drain
  <2>2. e \in Arrivals /\ e.f = <<s, got[s] + 1>> /\ e.f \in Slots
    <3>1. got[s] + 1 \in 1..MaxSent
      BY <1>0, <2>1, SourcesAssumption
    <3> QED
      BY <3>1 DEF Arrivals, Frame, Slots, Streams
  <2> HIDE DEF e
  <2>3. rx' \in Seq(Arrivals) /\ Out(rx') = Append(Out(rx), e.f)
    BY <1>0, <2>1, <2>2, OutOf
  <2>4. Held' = Append(Held, e.f)
    BY <1>0, <1>1, <2>2, <2>3, AppendJoins, Zenon
  <2>5. \A t \in Streams : got'[t] = IF t = s THEN got[t] + 1 ELSE got[t]
    BY <1>0, <2>1
  <2>6. SrcTypeOK'
    BY <1>0, <2>1, <2>3 DEF SrcTypeOK
  <2>7. HeldInv'
    BY <1>0, <2>1, <2>2, <2>4, <2>6, HeldStep, Zenon DEF HeldReads, LogGrows
  <2>8. DrainInv'
    BY <1>0, <2>1, <2>5 DEF DrainInv
  <2>9. EndInv'
    BY <1>0, <2>1, <2>5 DEF EndInv
  <2> QED
    BY <2>6, <2>7, <2>8, <2>9
<1>3. CASE DrainEnd(s)
  <2>1. /\ UNCHANGED <<got, rx>> /\ draining' = draining \ {s}
        /\ link = "closed" /\ got[s] = sent[s]
    BY <1>3 DEF DrainEnd
  <2>2. SrcTypeOK'
    BY <1>0, <2>1 DEF SrcTypeOK
  <2>3. HeldInv'
    BY <1>0, <1>1, <2>1 DEF HeldInv
  <2>4. DrainInv' /\ EndInv'
    BY <1>0, <2>1 DEF DrainInv, EndInv
  <2> QED
    BY <2>2, <2>3, <2>4
<1>4. CASE DrainError(s)
  <2>1. /\ UNCHANGED got /\ draining' = draining \ {s}
        /\ link = "broken" /\ rx' = Append(rx, Err)
    BY <1>4 DEF DrainError
  <2>2. Err \in Arrivals /\ Err.f = <<0, 0>> /\ Err.f \in Slots
    BY DEF Arrivals, Err, Slots
  <2>3. rx' \in Seq(Arrivals) /\ Out(rx') = Append(Out(rx), Err.f)
    BY <1>0, <2>1, <2>2, OutOf
  <2>4. Held' = Append(Held, <<0, 0>>)
    <3>1. Out(rx') = Append(Out(rx), <<0, 0>>) /\ <<0, 0>> \in Slots
      BY <2>2, <2>3
    <3>2. (log \o pre) \o Append(Out(rx), <<0, 0>>) = Append((log \o pre) \o Out(rx), <<0, 0>>)
      BY <1>0, <3>1, AppendJoins, Zenon
    <3> QED
      BY <1>0, <1>1, <3>1, <3>2, Zenon
  <2>5. SrcTypeOK'
    BY <1>0, <2>1, <2>3 DEF SrcTypeOK
  <2>6. HeldInv'
    BY <1>0, <2>1, <2>4, <2>5, HeldStep DEF HeldFails, LogGrows
  <2>7. DrainInv' /\ EndInv'
    BY <1>0, <2>1 DEF DrainInv, EndInv
  <2> QED
    BY <2>5, <2>6, <2>7
<1> QED
  BY <1>2, <1>3, <1>4

(* The sampling loop and the runner call recv. *)
LEMMA RecvStep ==
  ASSUME SrcInv, SampleFrame \/ RunFrame
  PROVE  SrcInv'
<1> USE DEF SrcInv
<1>0. PICK res \in Results :
        /\ Recv(res)
        /\ \/ /\ src_pc = "sample" /\ log' = log
              /\ pre' = IF res.t = "frame" THEN Append(pre, res.f) ELSE pre
              /\ src_pc' = CASE res.t = "frame" -> "sample"
                             [] res.t = "none" -> "run" [] OTHER -> "failed"
           \/ /\ src_pc = "run" /\ pre = <<>> /\ pre' = pre
              /\ log' = IF res.t = "frame" THEN Append(log, res.f) ELSE log
              /\ src_pc' = CASE res.t = "frame" -> "run"
                             [] res.t = "none" -> "closing" [] OTHER -> "failed"
  BY DEF SampleFrame, RunFrame, Sampling, io
<1>1. UNCHANGED <<sent, link, draining>>
  BY DEF SampleFrame, RunFrame, io
<1>2. /\ log \in Seq(Slots) /\ pre \in Seq(Slots) /\ rx \in Seq(Arrivals)
      /\ got \in [Streams -> Nat] /\ sent \in [Streams -> Nat]
      /\ \A t \in Streams : got[t] \in Nat /\ sent[t] \in Nat /\ got[t] <= sent[t] /\ sent[t] <= MaxSent
      /\ src \in [kind : Kinds, handle : BOOLEAN, eof : BOOLEAN] /\ src.kind \in Kinds
  BY DEF SrcTypeOK, EndInv
<1>3. RecvReads(res) \/ RecvTakes(res) \/ RecvBreaks(res) \/ RecvEnds(res)
  BY <1>0, RecvOutcome
<1>4. res.t = "frame" => Kept(res.f)
  BY <1>0 DEF Kept
<1>5. res.t # "frame" => log' = log /\ pre' = pre
  BY <1>0
<1>6. CASE (RecvReads(res) \/ RecvTakes(res)) /\ res.t = "frame"
  <2>1. /\ HeldStays \/ HeldReads
        /\ LogGrows /\ log' \in Seq(Slots) /\ pre' \in Seq(Slots)
    BY <1>4, <1>6, FrameKept
  <2>2. src_pc' = src_pc /\ src' = src /\ src_pc \in {"sample", "run"}
    BY <1>0, <1>6 DEF RecvReads, RecvTakes
  <2>3. /\ rx' \in Seq(Arrivals) /\ got' \in [Streams -> Nat]
        /\ \A t \in Streams : got'[t] <= sent[t] /\ got[t] <= got'[t]
        /\ src.kind = "process" => ~src.eof /\ got' = got
        /\ src.kind # "process" => rx' = rx
    <3>1. CASE RecvReads(res)
      BY <1>2, <3>1 DEF RecvReads, Streams
    <3>2. CASE RecvTakes(res)
      <4>1. Tail(rx) \in Seq(Arrivals)
        BY <1>2, <3>2, OutOf DEF RecvTakes
      <4> QED
        BY <1>2, <3>2, <4>1 DEF RecvTakes
    <3> QED
      BY <1>6, <3>1, <3>2
  <2>4. SrcTypeOK'
    BY <1>1, <2>1, <2>2, <2>3 DEF SrcTypeOK
  <2>5. HeldInv'
    BY <2>1, <2>4, HeldStep
  <2>6. DrainInv'
    BY <1>1, <1>2, <2>2, <2>3 DEF DrainInv, Streams
  <2>7. EndInv'
    BY <1>1, <1>2, <2>2, <2>3 DEF EndInv
  <2> QED
    BY <2>4, <2>5, <2>6, <2>7
<1>7. CASE RecvTakes(res) /\ res.t # "frame"
  <2>1. rx # <<>> /\ rx' = Tail(rx) /\ got' = got /\ src' = src /\ res = rx[1] /\ ~src.eof
    BY <1>7 DEF RecvTakes
  <2>2. res \in Arrivals /\ rx' \in Seq(Arrivals)
    BY <1>2, <2>1, OutOf
  <2>3. res = Err
    BY <1>7, <2>2 DEF Arrivals, Frame
  <2>4. src_pc' = "failed" /\ src_pc # "idle"
    BY <1>0, <2>3 DEF Err
  <2>5. SrcTypeOK'
    BY <1>1, <1>2, <1>5, <1>7, <2>1, <2>2, <2>4 DEF SrcTypeOK
  <2>6. HeldInv'
    BY <1>5, <1>7, <2>1, <2>3, <2>5, HeldStep DEF HeldDrops, LogGrows
  <2>7. src.kind = "process"
    BY <1>7 DEF RecvTakes
  <2>8. DrainInv' /\ EndInv'
    BY <1>1, <2>1, <2>4, <2>7 DEF DrainInv, EndInv
  <2> QED
    BY <2>5, <2>6, <2>8
<1>8. CASE RecvBreaks(res)
  <2>1. /\ src_pc' = "failed" /\ src_pc # "idle" /\ UNCHANGED <<src, got, rx, log, pre>>
    BY <1>0, <1>8 DEF RecvBreaks, Err
  <2>2. SrcTypeOK' /\ HeldInv'
    BY <1>1, <2>1, Zenon DEF SrcTypeOK, HeldInv, Held
  <2>3. DrainInv' /\ EndInv'
    BY <1>1, <2>1 DEF DrainInv, EndInv
  <2> QED
    BY <2>2, <2>3
<1>9. CASE RecvEnds(res)
  <2>1. /\ src_pc' \in {"run", "closing"} /\ src_pc # "idle" /\ UNCHANGED <<got, rx, log, pre>>
        /\ rx = <<>>
        /\ src_pc' = "closing" => pre = <<>>
    BY <1>0, <1>9 DEF RecvEnds, NoMore
  <2>2. /\ src' \in [kind : Kinds, handle : BOOLEAN, eof : BOOLEAN] /\ src'.kind = src.kind
        /\ src.kind = "process" => draining = {} /\ src'.eof
        /\ link # "broken" => \A s \in Streams : got[s] = sent[s]
    BY <1>2, <1>9 DEF RecvEnds
  <2>3. SrcTypeOK' /\ HeldInv'
    BY <1>1, <2>1, <2>2 DEF SrcTypeOK, HeldInv, Held
  <2>4. DrainInv'
    BY <1>1, <2>1, <2>2 DEF DrainInv
  <2>5. EndInv'
    BY <1>1, <1>2, <2>1, <2>2 DEF EndInv
  <2> QED
    BY <2>3, <2>4, <2>5
<1>10. RecvReads(res) => res.t = "frame"
  BY DEF RecvReads, Frame
<1> QED
  BY <1>3, <1>6, <1>7, <1>8, <1>9, <1>10

(* The runner takes over a frame that was sampled. *)
LEMMA PrefetchedStep ==
  ASSUME SrcInv, RunPrefetched
  PROVE  SrcInv'
<1> USE DEF SrcInv
<1>1. /\ UNCHANGED <<src_pc, src, sent, link, got, rx, draining>> /\ src_pc = "run" /\ pre # <<>>
      /\ log' = Append(log, pre[1]) /\ pre' = Tail(pre)
      /\ log \in Seq(Slots) /\ pre \in Seq(Slots)
  BY DEF RunPrefetched, SrcTypeOK
<1>2. pre[1] \in Slots /\ pre' \in Seq(Slots) /\ log' \o pre' = log \o pre
  BY <1>1, HeadShifts
<1>3. log' \in Seq(Slots)
  BY <1>1, <1>2, AppendProperties
<1>4. HeldStays /\ LogGrows
  BY <1>1, <1>2 DEF HeldStays, LogGrows, Held
<1>5. SrcTypeOK'
  BY <1>1, <1>2, <1>3 DEF SrcTypeOK
<1>6. HeldInv'
  BY <1>4, <1>5, HeldStep
<1>7. DrainInv' /\ EndInv'
  BY <1>1 DEF DrainInv, EndInv
<1> QED
  BY <1>5, <1>6, <1>7

(* Every step keeps the frames. *)
LEMMA SrcStep == SrcInv /\ [SrcNext]_src_vars => SrcInv'
<1> SUFFICES ASSUME SrcInv, [SrcNext]_src_vars PROVE SrcInv'
  OBVIOUS
<1>1. ASSUME NEW s \in Streams, Drain(s) \/ DrainEnd(s) \/ DrainError(s) PROVE SrcInv'
  BY <1>1, DrainStep
<1>2. CASE SampleFrame \/ RunFrame
  BY <1>2, RecvStep
<1>3. CASE RunPrefetched
  BY <1>3, PrefetchedStep
<1> QED
  BY <1>1, <1>2, <1>3, SrcOthers DEF SrcNext

(* prefetch_for_detection, PrefetchedSource and run_source_once_notify     *)
(* lose, repeat and reorder nothing that a source reads, and a run that    *)
(* ends at EOF has logged all that was sent, for every kind of source.     *)
THEOREM FramesReachTheLog == SrcSpec => []SourcesSound
<1>1. SrcInv => SourcesSound
  <2> SUFFICES ASSUME SrcInv, NEW s \in Streams
               PROVE  /\ Carries(Held, s, got[s])
                      /\ \E n \in 0..sent[s] : Carries(log, s, n)
                      /\ src_pc = "ended" /\ link # "broken" => Carries(log, s, sent[s])
    BY DEF SourcesSound
  <2> USE DEF SrcInv
  <2>1. got[s] \in Nat /\ sent[s] \in Nat /\ got[s] <= sent[s] /\ Carries(Held, s, got[s])
    BY DEF SrcTypeOK, EndInv, HeldInv
  <2>2. \E n \in 0..sent[s] : Carries(log, s, n)
    <3>1. PICK n \in 0..got[s] : Carries(log, s, n)
      BY DEF HeldInv
    <3> QED
      BY <2>1, <3>1
  <2>3. ASSUME src_pc = "ended", link # "broken" PROVE Carries(log, s, sent[s])
    <3>1. pre = <<>> /\ rx = <<>> /\ got[s] = sent[s]
      BY <2>3 DEF EndInv
    <3>2. Held = log
      <4>1. Out(rx) = <<>> /\ Held = (log \o pre) \o Out(rx) /\ log \in Seq(Slots)
        BY <3>1, HeldIs, OutOf, Zenon DEF SrcTypeOK
      <4> QED
        BY <3>1, <4>1, ConcatEmptySeq
    <3> QED
      BY <2>1, <3>1, <3>2
  <2> QED
    BY <2>1, <2>2, <2>3
<1> QED
  BY <1>1, SrcStart, SrcStep, PTL DEF SrcSpec

-----------------------------------------------------------------------------
(* The file that is followed. *)
TailTypeOK ==
  /\ path \in Nat /\ clock \in Nat /\ emitted \in Seq(Nat)
  /\ content \in [Files -> Seq(Nat)]
  /\ path \in Files /\ fd \in [file : Files, pos : Nat]

(* What is still to be read is newer than what was returned: after the     *)
(* position, and everywhere when the file has become shorter than that.    *)
(* Without a truncation the position tells how much was returned.          *)
Followed == path = 0 /\ cut # "shortened"
FollowInv ==
  Followed =>
    /\ fd.file = 0
    /\ tail_pc = "closed" => emitted = <<>>
    /\ \A i \in 1..Len(emitted) : emitted[i] <= clock
    /\ \A k \in 1..Len(content[0]) : content[0][k] <= clock
    /\ \A i, j \in 1..Len(emitted) : i < j => emitted[i] < emitted[j]
    /\ \A k, l \in 1..Len(content[0]) : k < l => content[0][k] < content[0][l]
    /\ \A i \in 1..Len(emitted), k \in 1..Len(content[0]) :
         k > fd.pos \/ Len(content[0]) < fd.pos => emitted[i] < content[0][k]
    /\ cut = "no" => fd.pos <= Len(content[0]) /\ emitted = SubSeq(content[0], 1, fd.pos)

TailInv == TailTypeOK /\ FollowInv

(* Nothing written, nothing read. *)
LEMMA TailStart == TailInit => TailInv
<1> SUFFICES ASSUME TailInit PROVE TailInv
  OBVIOUS
<1>1. 0 \in Files /\ TailTypeOK
  BY TailAssumption DEF TailInit, TailTypeOK, Files
<1>2. content[0] = <<>> /\ emitted = <<>> /\ fd.pos = 0 /\ fd.file = 0
  BY <1>1 DEF TailInit
<1>3. SubSeq(<<>>, 1, 0) = <<>>
  BY SubSeqEmpty
<1> QED
  BY <1>1, <1>2, <1>3 DEF TailInit, TailInv, FollowInv

(* The first n bytes of a file stay when it grows. *)
LEMMA BeginningStays ==
  ASSUME NEW c \in Seq(Nat), NEW x \in Nat, NEW n \in 0..Len(c)
  PROVE  SubSeq(Append(c, x), 1, n) = SubSeq(c, 1, n)
<1>1. /\ Len(c) \in Nat /\ \A i \in 1..n : c[i] \in Nat
      /\ \A i \in 1..n : Append(c, x)[i] = c[i] /\ i \in 1..Len(c)
  BY AppendProperties, LenProperties, ElementOfSeq
<1>2. /\ SubSeq(c, 1, n) \in Seq(Nat) /\ Len(SubSeq(c, 1, n)) = n
      /\ \A i \in 1..n : SubSeq(c, 1, n)[i] = c[i]
  BY <1>1, SubSeqProperties
<1>3. /\ SubSeq(Append(c, x), 1, n) \in Seq(Nat) /\ Len(SubSeq(Append(c, x), 1, n)) = n
      /\ \A i \in 1..n : SubSeq(Append(c, x), 1, n)[i] = Append(c, x)[i]
  BY <1>1, SubSeqProperties
<1> QED
  BY <1>1, <1>2, <1>3, SeqEqual

(* The writer. *)
LEMMA TailWriterStep ==
  ASSUME TailInv, TailAppend \/ TailTruncate \/ TailRotate
  PROVE  TailInv'
<1> USE DEF TailInv
<1>0. /\ path \in Files /\ content \in [Files -> Seq(Nat)] /\ clock \in Nat
      /\ content[path] \in Seq(Nat) /\ Len(content[path]) \in Nat /\ fd.pos \in Nat
      /\ emitted \in Seq(Nat) /\ Len(emitted) \in Nat
  BY LenProperties DEF TailTypeOK
<1>1. CASE TailAppend
  <2> DEFINE c == content[path]
             d == Append(content[path], clock + 1)
  <2>1. /\ clock' = clock + 1 /\ content' = [content EXCEPT ![path] = d]
        /\ UNCHANGED <<tail_pc, fd, path, emitted, cut>>
    BY <1>1 DEF TailAppend
  <2>2. /\ d \in Seq(Nat) /\ Len(d) = Len(c) + 1 /\ d[Len(c) + 1] = clock + 1
        /\ \A k \in 1..Len(c) : d[k] = c[k] /\ c[k] \in Nat
    BY <1>0, AppendProperties, ElementOfSeq
  <2>3. TailTypeOK'
    BY <1>0, <2>1, <2>2 DEF TailTypeOK
  <2>4. FollowInv'
    <3> SUFFICES ASSUME Followed PROVE FollowInv'
      BY <2>1, Zenon DEF FollowInv, Followed
    <3>0. path = 0
      BY DEF Followed
    <3>1. content'[0] = d /\ content[0] = c
      BY <1>0, <2>1, <3>0
    <3>2. cut = "no" => SubSeq(d, 1, fd.pos) = SubSeq(c, 1, fd.pos)
      BY <1>0, <3>1, BeginningStays DEF FollowInv
    <3> HIDE DEF d, c
    <3>3. \A k \in 1..Len(d) : k \in 1..Len(c) \/ k = Len(c) + 1
      BY <1>0, <2>2
    <3>4. \A i \in 1..Len(emitted) : emitted[i] \in Nat
      BY <1>0, ElementOfSeq
    <3>5. /\ \A i \in 1..Len(emitted) : emitted[i] <= clock'
          /\ \A k \in 1..Len(d) : d[k] <= clock'
      <4>1. \A i \in 1..Len(emitted) : emitted[i] <= clock
        BY DEF FollowInv
      <4>2. \A k \in 1..Len(c) : c[k] <= clock
        BY <3>1 DEF FollowInv
      <4>3. clock' = clock + 1 /\ clock \in Nat
        BY <1>0, <2>1
      <4>4. \A i \in 1..Len(emitted) : emitted[i] <= clock'
        BY <3>4, <4>1, <4>3
      <4>5. \A k \in 1..Len(c) : d[k] <= clock'
        BY <2>2, <4>2, <4>3
      <4>6. d[Len(c) + 1] <= clock'
        BY <2>2, <4>3
      <4> QED
        BY <3>3, <4>4, <4>5, <4>6
    <3>6. \A k, l \in 1..Len(d) : k < l => d[k] < d[l]
      <4> SUFFICES ASSUME NEW k \in 1..Len(d), NEW l \in 1..Len(d), k < l PROVE d[k] < d[l]
        OBVIOUS
      <4>1. CASE l \in 1..Len(c)
        <5>1. k \in 1..Len(c)
          BY <4>1
        <5> QED
          BY <2>2, <3>1, <4>1, <5>1 DEF FollowInv
      <4>2. CASE l = Len(c) + 1
        <5>1. k \in 1..Len(c)
          BY <3>3, <4>2
        <5>2. c[k] <= clock
          BY <3>1, <5>1 DEF FollowInv
        <5> QED
          BY <1>0, <2>2, <4>2, <5>1, <5>2
      <4> QED
        BY <3>3, <4>1, <4>2
    <3>7. \A i \in 1..Len(emitted), k \in 1..Len(d) :
            k > fd.pos \/ Len(d) < fd.pos => emitted[i] < d[k]
      <4> SUFFICES ASSUME NEW i \in 1..Len(emitted), NEW k \in 1..Len(d),
                          k > fd.pos \/ Len(d) < fd.pos
                   PROVE  emitted[i] < d[k]
        OBVIOUS
      <4>1. CASE k = Len(c) + 1
        BY <1>0, <2>2, <3>4, <4>1 DEF FollowInv
      <4>2. CASE k \in 1..Len(c)
        <5>1. k > fd.pos \/ Len(c) < fd.pos
          BY <1>0, <2>2, <3>1
        <5> QED
          BY <2>2, <3>1, <4>2, <5>1 DEF FollowInv
      <4> QED
        BY <3>3, <4>1, <4>2
    <3>8. cut = "no" => fd.pos <= Len(d)
      BY <1>0, <2>2, <3>1 DEF FollowInv
    <3> QED
      BY <2>1, <3>1, <3>2, <3>5, <3>6, <3>7, <3>8, Zenon DEF FollowInv
  <2> QED
    BY <2>3, <2>4
<1>2. CASE TailTruncate
  <2>1. PICK n \in 0..(Len(content[path]) - 1) :
          /\ content' = [content EXCEPT ![path] = SubSeq(content[path], 1, n)]
          /\ cut' = IF n = 0 /\ cut # "shortened" THEN "emptied" ELSE "shortened"
          /\ UNCHANGED <<tail_pc, fd, path, clock, emitted>>
    BY <1>2 DEF TailTruncate
  <2>2. TailTypeOK'
    <3>1. SubSeq(content[path], 1, n) \in Seq(Nat)
      BY <1>0, SubSeqProperties
    <3> QED
      BY <1>0, <2>1, <3>1 DEF TailTypeOK
  <2>3. Followed' => Followed /\ cut' = "emptied" /\ content'[0] = <<>>
    <3>1. ASSUME n = 0 PROVE SubSeq(content[path], 1, n) = <<>>
      BY <1>0, <3>1, SubSeqEmpty
    <3> QED
      BY <1>0, <2>1, <3>1 DEF Followed
  <2>4. FollowInv'
    BY <2>1, <2>3 DEF FollowInv
  <2> QED
    BY <2>2, <2>4
<1>3. CASE TailRotate
  <2>1. path' = path + 1 /\ path < Rotations /\ UNCHANGED <<fd, content, clock, emitted>>
    BY <1>3 DEF TailRotate
  <2>2. path' \in Files /\ path' \in Nat /\ path' # 0
    BY <1>0, <2>1, TailAssumption DEF Files
  <2> QED
    BY <2>1, <2>2 DEF TailTypeOK, FollowInv, Followed
<1> QED
  BY <1>1, <1>2, <1>3

(* The reader opens the file, and looks whether it was cut. *)
LEMMA OpenPollStep ==
  ASSUME TailInv, (\E follow \in BOOLEAN : TailOpen(follow)) \/ TailPoll
  PROVE  TailInv'
<1> USE DEF TailInv
<1>0. fd \in [file : Files, pos : Nat] /\ path \in Files
  BY DEF TailTypeOK
<1>1. ASSUME NEW follow \in BOOLEAN, TailOpen(follow) PROVE TailInv'
  <2>1. /\ tail_pc = "closed" /\ tail_pc' = "read" /\ fd' = [file |-> path, pos |-> 0]
        /\ UNCHANGED <<path, content, clock, emitted, cut>>
    BY <1>1 DEF TailOpen
  <2>2. TailTypeOK'
    BY <1>0, <2>1 DEF TailTypeOK
  <2>3. ASSUME Followed PROVE FollowInv'
    <3>1. emitted = <<>> /\ fd'.pos = 0 /\ fd'.file = 0
      BY <2>1, <2>3 DEF FollowInv, Followed
    <3>2. content[0] \in Seq(Nat)
      BY <2>3 DEF TailTypeOK, Followed
    <3>3. SubSeq(content[0], 1, 0) = <<>> /\ 0 <= Len(content[0])
      BY <3>2, SubSeqEmpty, LenProperties
    <3> QED
      BY <2>1, <2>3, <3>1, <3>3 DEF FollowInv
  <2> QED
    BY <2>1, <2>2, <2>3 DEF FollowInv, Followed
<1>2. CASE TailPoll
  <2>1. /\ tail_pc' = "read" /\ UNCHANGED <<path, content, clock, emitted, cut>>
        /\ fd' = IF Len(content[path]) < fd.pos THEN [fd EXCEPT !.pos = 0] ELSE fd
    BY <1>2 DEF TailPoll
  <2>2. TailTypeOK'
    BY <1>0, <2>1, Zenon DEF TailTypeOK
  <2>3. CASE Len(content[path]) < fd.pos
    <3>1. fd'.pos = 0 /\ fd'.file = fd.file
      BY <1>0, <2>1, <2>3
    <3>2. ASSUME Followed PROVE cut # "no" /\ path = 0
      <4>1. content[0] \in Seq(Nat) /\ fd.pos \in Nat /\ path = 0
        BY <1>0, <3>2 DEF TailTypeOK, Followed
      <4> QED
        BY <2>3, <3>2, <4>1, LenProperties DEF FollowInv
    <3>3. FollowInv'
      BY <2>1, <2>3, <3>1, <3>2 DEF FollowInv, Followed
    <3> QED
      BY <2>2, <3>3
  <2>4. CASE ~(Len(content[path]) < fd.pos)
    BY <2>1, <2>2, <2>4 DEF FollowInv, Followed
  <2> QED
    BY <2>3, <2>4
<1> QED
  BY <1>1, <1>2

(* A chunk is read: it continues what was returned. *)
LEMMA ChunkStep ==
  ASSUME TailInv, TailRead
  PROVE  TailInv'
<1> USE DEF TailInv
<1> DEFINE c == content[fd.file]
           n == IF Unread < ReadChunk THEN Unread ELSE ReadChunk
           chunk == SubSeq(c, fd.pos + 1, fd.pos + n)
<1>0. /\ UNCHANGED <<tail_follow, path, content, clock, cut>> /\ tail_pc = "read"
      /\ fd \in [file : Files, pos : Nat] /\ fd.pos \in Nat
      /\ c \in Seq(Nat) /\ Len(c) \in Nat /\ \A k \in 1..Len(c) : c[k] \in Nat
      /\ emitted \in Seq(Nat) /\ Len(emitted) \in Nat
      /\ \A i \in 1..Len(emitted) : emitted[i] \in Nat
  BY LenProperties, ElementOfSeq DEF TailRead, TailTypeOK
<1>1. CASE fd.pos < Len(c)
  <2>1. emitted' = emitted \o chunk /\ fd' = [fd EXCEPT !.pos = @ + n] /\ tail_pc' = tail_pc
    BY <1>1, Zenon DEF TailRead
  <2>2. n \in Nat /\ 1 <= n /\ fd.pos + n <= Len(c)
    BY <1>0, <1>1, TailAssumption DEF Unread
  <2> HIDE DEF n
  <2>3. \A i \in (fd.pos + 1)..(fd.pos + n) : i \in 1..Len(c) /\ c[i] \in Nat
    BY <1>0, <2>2
  <2>4. /\ chunk \in Seq(Nat) /\ Len(chunk) = n
        /\ \A i \in 1..n : chunk[i] = c[fd.pos + i]
    <3>0. fd.pos \in Int /\ n \in Int /\ 1 <= n
      BY <1>0, <2>2
    <3>1. /\ fd.pos + 1 \in Int /\ fd.pos + n \in Int /\ fd.pos + 1 <= fd.pos + n
          /\ (fd.pos + n) - (fd.pos + 1) + 1 = n
          /\ \A i \in 1..n : (fd.pos + 1) + i - 1 = fd.pos + i
      BY <3>0
    <3>2. /\ chunk \in Seq(Nat)
          /\ Len(chunk) = (fd.pos + n) - (fd.pos + 1) + 1
          /\ \A i \in 1..((fd.pos + n) - (fd.pos + 1) + 1) : chunk[i] = c[(fd.pos + 1) + i - 1]
      BY <2>3, <3>1, SubSeqProperties
    <3> QED
      BY <3>1, <3>2
  <2> HIDE DEF chunk
  <2>5. /\ emitted' \in Seq(Nat) /\ Len(emitted') = Len(emitted) + n
        /\ \A i \in 1..(Len(emitted) + n) :
             emitted'[i] = IF i <= Len(emitted) THEN emitted[i] ELSE chunk[i - Len(emitted)]
    BY <1>0, <2>1, <2>4, ConcatProperties, Zenon
  <2>6. fd' \in [file : Files, pos : Nat] /\ fd'.pos = fd.pos + n /\ fd'.file = fd.file
    <3>1. fd.pos + n \in Nat
      BY <1>0, <2>2
    <3> QED
      BY <1>0, <2>1, <3>1
  <2>7. TailTypeOK'
    BY <1>0, <2>5, <2>6 DEF TailTypeOK
  <2>8. ASSUME Followed PROVE FollowInv'
    <3>0. c = content[0] /\ content'[0] = content[0] /\ fd.file = 0
      BY <1>0, <2>8 DEF FollowInv
    <3> HIDE DEF c
    <3>1. /\ \A k \in 1..Len(c) : c[k] <= clock
          /\ \A k, l \in 1..Len(c) : k < l => c[k] < c[l]
          /\ \A i \in 1..Len(emitted), k \in 1..Len(c) : k > fd.pos => emitted[i] < c[k]
          /\ \A i \in 1..Len(emitted) : emitted[i] <= clock
          /\ \A i, j \in 1..Len(emitted) : i < j => emitted[i] < emitted[j]
          /\ cut = "no" => emitted = SubSeq(c, 1, fd.pos)
      BY <2>8, <3>0 DEF FollowInv
    <3>2. ASSUME NEW i \in 1..Len(emitted')
          PROVE  \/ i \in 1..Len(emitted) /\ emitted'[i] = emitted[i]
                 \/ /\ i > Len(emitted)
                    /\ fd.pos + (i - Len(emitted)) \in (fd.pos + 1)..(fd.pos + n)
                    /\ emitted'[i] = c[fd.pos + (i - Len(emitted))]
      <4>1. i \in 1..(Len(emitted) + n)
        BY <2>5
      <4>2. CASE i <= Len(emitted)
        BY <1>0, <2>5, <4>1, <4>2
      <4>3. CASE i > Len(emitted)
        <5>1. i - Len(emitted) \in 1..n
          BY <1>0, <2>2, <4>1, <4>3
        <5>2. emitted'[i] = chunk[i - Len(emitted)]
          BY <1>0, <2>5, <4>1, <4>3
        <5>3. chunk[i - Len(emitted)] = c[fd.pos + (i - Len(emitted))]
          BY <2>4, <5>1
        <5>4. fd.pos + (i - Len(emitted)) \in (fd.pos + 1)..(fd.pos + n)
          BY <1>0, <2>2, <5>1
        <5> QED
          BY <4>3, <5>2, <5>3, <5>4
      <4> QED
        BY <1>0, <4>1, <4>2, <4>3
    <3>3. \A i \in 1..Len(emitted') : emitted'[i] <= clock
      BY <2>3, <3>1, <3>2
    <3>4. ASSUME NEW i \in 1..Len(emitted'), NEW j \in 1..Len(emitted'), i < j
          PROVE  emitted'[i] < emitted'[j]
      <4>1. i \in Int /\ j \in Int /\ Len(emitted) \in Int /\ fd.pos \in Int
        BY <1>0
      <4>2. CASE j \in 1..Len(emitted) /\ emitted'[j] = emitted[j]
        <5>1. i \in 1..Len(emitted) /\ ~(i > Len(emitted))
          BY <3>4, <4>1, <4>2
        <5>2. emitted'[i] = emitted[i]
          BY <3>2, <5>1
        <5> QED
          BY <3>1, <3>4, <4>2, <5>1, <5>2
      <4>3. CASE /\ j > Len(emitted)
                 /\ fd.pos + (j - Len(emitted)) \in (fd.pos + 1)..(fd.pos + n)
                 /\ emitted'[j] = c[fd.pos + (j - Len(emitted))]
        <5>1. CASE i \in 1..Len(emitted) /\ emitted'[i] = emitted[i]
          <6>1. fd.pos + (j - Len(emitted)) \in 1..Len(c) /\ fd.pos + (j - Len(emitted)) > fd.pos
            BY <1>0, <2>3, <4>1, <4>3
          <6> QED
            BY <3>1, <4>3, <5>1, <6>1
        <5>2. CASE /\ i > Len(emitted)
                   /\ fd.pos + (i - Len(emitted)) \in (fd.pos + 1)..(fd.pos + n)
                   /\ emitted'[i] = c[fd.pos + (i - Len(emitted))]
          <6>1. fd.pos + (i - Len(emitted)) < fd.pos + (j - Len(emitted))
            BY <3>4, <4>1
          <6>2. fd.pos + (i - Len(emitted)) \in 1..Len(c) /\ fd.pos + (j - Len(emitted)) \in 1..Len(c)
            BY <2>3, <4>3, <5>2
          <6> QED
            BY <3>1, <4>3, <5>2, <6>1, <6>2
        <5> QED
          BY <3>2, <5>1, <5>2
      <4> QED
        BY <3>2, <4>2, <4>3
    <3>5. ASSUME NEW i \in 1..Len(emitted'), NEW k \in 1..Len(c), k > fd.pos + n
          PROVE  emitted'[i] < c[k]
      <4>1. k > fd.pos
        BY <1>0, <2>2, <3>5
      <4>2. CASE i \in 1..Len(emitted) /\ emitted'[i] = emitted[i]
        BY <3>1, <4>1, <4>2
      <4>3. CASE /\ fd.pos + (i - Len(emitted)) \in (fd.pos + 1)..(fd.pos + n)
                 /\ emitted'[i] = c[fd.pos + (i - Len(emitted))]
        <5>1. fd.pos + (i - Len(emitted)) \in 1..Len(c)
          BY <2>3, <4>3
        <5>2. fd.pos + n \in Int /\ k \in Int
          BY <1>0, <2>2
        <5>3. fd.pos + (i - Len(emitted)) < k
          BY <3>5, <4>3, <5>2
        <5> QED
          BY <3>1, <4>3, <5>1, <5>3
      <4> QED
        BY <3>2, <4>2, <4>3
    <3>6. ~(Len(c) < fd.pos + n)
      BY <1>0, <2>2
    <3>7. cut = "no" => fd.pos + n <= Len(c) /\ emitted' = SubSeq(c, 1, fd.pos + n)
      <4>1. /\ 1 \in 1..(Len(c) + 1) /\ fd.pos \in (1 - 1)..Len(c)
            /\ fd.pos + n \in fd.pos..Len(c)
        BY <1>0, <1>1, <2>2 DEF c
      <4>2. SubSeq(c, 1, fd.pos) \o SubSeq(c, fd.pos + 1, fd.pos + n) = SubSeq(c, 1, fd.pos + n)
        BY <1>0, <4>1, ConcatAdjacentSubSeq, Zenon
      <4>3. emitted' = emitted \o SubSeq(c, fd.pos + 1, fd.pos + n) /\ fd.pos + n <= Len(c)
        BY <2>1, <2>2 DEF chunk
      <4> QED
        BY <3>1, <4>2, <4>3, Zenon
    <3> QED
      BY <1>0, <2>1, <2>6, <3>0, <3>1, <3>3, <3>4, <3>5, <3>6, <3>7 DEF FollowInv
  <2> QED
    BY <1>0, <2>7, <2>8 DEF FollowInv, Followed
<1>2. CASE ~(fd.pos < Len(c))
  <2>1. UNCHANGED <<fd, emitted>> /\ tail_pc' # "closed"
    BY <1>2 DEF TailRead
  <2> QED
    BY <1>0, <2>1 DEF TailTypeOK, FollowInv, Followed
<1> QED
  BY <1>1, <1>2

(* FileSource::recv on a file that nobody rotates, and that is never       *)
(* truncated but to nothing: a byte is returned at most once and in the    *)
(* order of writing, and none is left out unless the file is truncated.    *)
THEOREM TailKeepsOrder == TailSpec => []TailInOrder
<1>1. TailInv /\ [TailNext]_tail_vars => TailInv'
  <2> SUFFICES ASSUME TailInv, [TailNext]_tail_vars PROVE TailInv'
    OBVIOUS
  <2>1. CASE UNCHANGED tail_vars
    BY <2>1 DEF tail_vars, TailInv, TailTypeOK, FollowInv, Followed
  <2> QED
    BY <2>1, TailWriterStep, OpenPollStep, ChunkStep DEF TailNext
<1>2. TailInv => TailInOrder
  <2> SUFFICES ASSUME TailInv PROVE TailInOrder
    OBVIOUS
  <2>1. DOMAIN emitted = 1..Len(emitted)
    BY LenProperties DEF TailInv, TailTypeOK
  <2> QED
    BY <2>1 DEF TailInv, FollowInv, Followed, TailInOrder
<1> QED
  BY <1>1, <1>2, TailStart, PTL DEF TailSpec
=============================================================================
