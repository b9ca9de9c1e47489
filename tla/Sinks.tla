-------------------------------- MODULE Sinks --------------------------------
(***************************************************************************)
(* Write-back: SourceManager::write on the sinks of crates/core/src/sink   *)
(* (serial, tcp, process and udp).  Several connections write to one       *)
(* session; the mutex of the sink is held from ctl to flush.  The streams  *)
(* take a body piece by piece (write_all), so that the other end may fail  *)
(* after a part of it; a datagram goes out whole, to the target that came  *)
(* with the write or to the peer the source heard last.                    *)
(*                                                                         *)
(* No code under the server closes a sink: it is dropped with its entry.   *)
(***************************************************************************)
EXTENDS Naturals, Sequences

CONSTANTS SinkWriters,  \* the writes, one for each request
          Pieces        \* pieces a stream takes a body in

ASSUME SinksAssumption == Pieces \in Nat \ {0}

StreamSinks == {"serial", "tcp", "process"}
SinkKinds == StreamSinks \cup {"udp"}
NoPeer == "none"
Peers == {"p", "q"}
NotAnAddress == "junk"

VARIABLES sink,      \* the kind of the sink
          far_end,   \* "up", "closed" (it sends no more) or "broken"
          last_peer, \* shared with the udp source
          target,    \* UdpSink::next_target
          write,     \* the calls of SourceManager::write: [pc, asked, done]
          wire       \* what the transport took: [by, piece, to, heard]

sink_vars == <<sink, far_end, last_peer, target, write, wire>>

SinkInit ==
  /\ sink \in SinkKinds /\ far_end = "up"
  /\ last_peer = NoPeer /\ target = NoPeer
  /\ write = [w \in SinkWriters |-> [pc |-> "idle", asked |-> NoPeer, done |-> 0]]
  /\ wire = <<>>

-----------------------------------------------------------------------------
(* The other end hangs up; the udp source hears a datagram. *)
FarEnd(how) ==
  /\ far_end = "up" /\ (how = "closed" => sink # "udp")
  /\ far_end' = how
  /\ UNCHANGED <<sink, last_peer, target, write, wire>>
Hear(p) ==
  /\ sink = "udp" /\ last_peer' = p
  /\ UNCHANGED <<sink, far_end, target, write, wire>>

-----------------------------------------------------------------------------
Writing(w) == write[w].pc = "write"
Becomes(w, pc) == write' = [write EXCEPT ![w].pc = pc]

(* UdpSink::ctl("udp-next-target"); the others keep the default of the     *)
(* trait, which does nothing.                                              *)
Ctl(asked) ==
  target' = IF sink = "udp" /\ asked # NoPeer THEN asked ELSE target

(* Mutant of LockSink: the sink is locked for each of its calls. *)
LockSinkShared(w, asked) ==
  /\ write[w].pc = "idle"
  /\ write' = [write EXCEPT ![w].pc = "write", ![w].asked = asked]
  /\ Ctl(asked)
  /\ UNCHANGED <<sink, far_end, last_peer, wire>>

(* write: lock the sink, then ctl when the request names a target. *)
LockSink(w, asked) ==
  /\ write[w].pc = "idle" /\ \A v \in SinkWriters : ~Writing(v)
  /\ IF sink = "udp" /\ asked = NotAnAddress
     THEN /\ write' = [write EXCEPT ![w].pc = "failed", ![w].asked = asked]
          /\ UNCHANGED target
     ELSE /\ write' = [write EXCEPT ![w].pc = "write", ![w].asked = asked]
          /\ Ctl(asked)
  /\ UNCHANGED <<sink, far_end, last_peer, wire>>

(* A tcp peer or a child that has sent its last byte may still read. *)
Takes == far_end # "broken"

Took(w, n, to) == [by |-> w, piece |-> n, to |-> to, heard |-> last_peer]

(* One step of write_all; ... *)
WritePiece(w) ==
  /\ Writing(w) /\ sink \in StreamSinks /\ write[w].done < Pieces /\ Takes
  /\ write' = [write EXCEPT ![w].done = @ + 1]
  /\ wire' = Append(wire, Took(w, write[w].done + 1, NoPeer))
  /\ UNCHANGED <<sink, far_end, last_peer, target>>

(* ... write_all or flush fails: E-1102, with a part of the body gone; ... *)
WriteFails(w) ==
  /\ Writing(w) /\ sink \in StreamSinks /\ far_end # "up"
  /\ Becomes(w, "failed")
  /\ UNCHANGED <<sink, far_end, last_peer, target, wire>>

(* ... the body is taken and flush returns: the byte count is the answer.  *)
FlushSink(w) ==
  /\ Writing(w) /\ sink \in StreamSinks /\ write[w].done = Pieces
  /\ Becomes(w, "acked")
  /\ UNCHANGED <<sink, far_end, last_peer, target, wire>>

(* UdpSink::resolve_target takes the target, or falls back to the peer. *)
Resolved == IF target # NoPeer THEN target ELSE last_peer

(* UdpSink::write, and the flush that does nothing. *)
SendTo(w) ==
  /\ Writing(w) /\ sink = "udp"
  /\ target' = NoPeer
  /\ \/ /\ Resolved # NoPeer
        /\ wire' = Append(wire, Took(w, 1, Resolved))
        /\ Becomes(w, "acked")
     \/ /\ Resolved = NoPeer \/ far_end = "broken"
        /\ Becomes(w, "failed")
        /\ UNCHANGED wire
  /\ UNCHANGED <<sink, far_end, last_peer>>

SinkNext ==
  \/ \E how \in {"closed", "broken"} : FarEnd(how)
  \/ \E p \in Peers : Hear(p)
  \/ \E w \in SinkWriters :
       \/ \E asked \in Peers \cup {NoPeer, NotAnAddress} : LockSink(w, asked)
       \/ WritePiece(w) \/ WriteFails(w) \/ FlushSink(w) \/ SendTo(w)

SinkSpec == SinkInit /\ [][SinkNext]_sink_vars

-----------------------------------------------------------------------------
BodyLen == IF sink = "udp" THEN 1 ELSE Pieces

(* The transport gets one body after another: two writers never mix, and   *)
(* a body starts at its first piece.                                       *)
BodiesApart ==
  \A i \in 1..Len(wire) :
    wire[i].piece # 1 =>
      i > 1 /\ wire[i - 1].by = wire[i].by /\ wire[i - 1].piece = wire[i].piece - 1

(* What was acknowledged went out whole, and once; only a write that was   *)
(* refused may have left a part of its body behind.                        *)
AckedWhole ==
  /\ \A w \in SinkWriters :
       write[w].pc = "acked" => \E i \in 1..Len(wire) : wire[i].by = w /\ wire[i].piece = BodyLen
  /\ \A i, j \in 1..Len(wire) :
       wire[i].by = wire[j].by /\ wire[i].piece = wire[j].piece => i = j

(* A datagram goes to the target that came with its own write, else to the *)
(* peer heard last, never to the target of an earlier write.               *)
TargetsOwn ==
  sink = "udp" => \A i \in 1..Len(wire) :
    LET asked == write[wire[i].by].asked
    IN wire[i].to = IF asked # NoPeer THEN asked ELSE wire[i].heard

(* Write-back keeps bodies whole and apart, and finds the right peer. *)
SinksSound == BodiesApart /\ AckedWhole /\ TargetsOwn
=============================================================================
