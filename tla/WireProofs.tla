----------------------------- MODULE WireProofs -----------------------------
(***************************************************************************)
(* The connections, for any number of writes, frames, requests and keys    *)
(* and any length of the queues: the acknowledgements of the writes that a *)
(* mirror proxies to the edge, and the subscription tasks of a connection. *)
(***************************************************************************)
EXTENDS RemoteMirror, WsConnection, SequenceTheorems, TLAPS

(* Most leaves need no arithmetic and are quick for Zenon; SMT takes the others. *)
USE ZenonT(1), SMTT(30), Zenon

(* The mirror of a remote channel. *)

Kinds == {"none", "write", "write_ack", "error", "target", "other"}
Msgs == [kind : Kinds, seq : Nat, w : Nat]
States == {"new", "locked", "queued", "ok", "error"}

(* The types that the acknowledgements need. *)
MirrorType ==
  /\ write \in [Writes -> States] /\ write_rx \in Seq(Nat)
  /\ mirror.w \in Nat /\ next_seq \in Nat /\ pending \subseteq Nat \X Nat
  /\ up \in Seq(Msgs) /\ down \in Seq(Msgs) /\ edge_out \in Seq(Msgs)
  /\ edge \in [pc : {"read", "write", "reply"}, msg : Msgs]
  /\ performed \in Seq(Nat) /\ frames \in Seq({"target", "other"})
  /\ feed \in [next : Nat \ {0}, msg : Msgs] /\ feed.msg.kind \in {"none", "target", "other"}

(* The writes that the edge has been asked for and has not finished. *)
Requests == Range(up) \cup IF edge.pc = "write" THEN {edge.msg} ELSE {}

(* The answers on their way to the mirror, wherever they are. *)
Answers == {edge.msg} \cup Range(edge_out) \cup Range(down)

(* A number is used for one write; a write whose number is acknowledged    *)
(* was performed.                                                          *)
Numbered == \A p \in pending : p[1] < next_seq
Asked == \A m \in Requests : /\ m.kind = "write" /\ m.seq < next_seq
                             /\ \A p \in pending : p[1] = m.seq => p[2] = m.w
Acked == \A a \in Answers : a.kind = "write_ack" =>
           /\ a.seq < next_seq
           /\ \A p \in pending : p[1] = a.seq => p[2] \in Range(performed)

AckInv == MirrorType /\ Numbered /\ Asked /\ Acked /\ AckIsTrue

-----------------------------------------------------------------------------
(* What the operations on queues do to the messages in them. *)
LEMMA AppendSet ==
  ASSUME NEW S, NEW q \in Seq(S), NEW x \in S
  PROVE  Append(q, x) \in Seq(S) /\ Range(Append(q, x)) = Range(q) \cup {x}
<1>1. /\ Append(q, x) \in Seq(S)
      /\ DOMAIN Append(q, x) = DOMAIN q \cup {Len(q) + 1}
      /\ \A i \in DOMAIN q : Append(q, x)[i] = q[i]
      /\ Append(q, x)[Len(q) + 1] = x
  OBVIOUS
<1> QED
  BY <1>1 DEF Range

(* Taking the head of a queue brings in nothing. *)
LEMMA TakeSet ==
  ASSUME NEW S, NEW q \in Seq(S), q # <<>>
  PROVE  /\ Head(q) \in Range(q) /\ Head(q) \in S
         /\ Tail(q) \in Seq(S) /\ Range(Tail(q)) \subseteq Range(q)
BY DEF Range

(* An empty queue has no messages. *)
LEMMA EmptySet ==
  ASSUME NEW S
  PROVE  <<>> \in Seq(S) /\ Range(<<>>) = {}
BY DEF Range

(* Steps that number no write and bring no new acknowledgement. *)
LEMMA NothingNew ==
  ASSUME AckInv, MirrorType',
         next_seq' = next_seq, pending' \subseteq pending,
         Requests' \subseteq Requests,
         \A a \in Answers' : a \in Answers \/ a.kind # "write_ack",
         Range(performed)' = Range(performed),
         \A w \in Writes : write'[w] = "ok" => write[w] = "ok"
  PROVE  AckInv'
<1>1. Numbered' /\ Asked' /\ Acked'
  BY DEF AckInv, Numbered, Asked, Acked
<1>2. AckIsTrue'
  BY DEF AckInv, AckIsTrue
<1> QED
  BY <1>1, <1>2 DEF AckInv

-----------------------------------------------------------------------------
(* The callers.  What they do to their own write makes none acknowledged. *)
LEMMA CallerStep ==
  ASSUME AckInv, NEW w \in Writes, Lock(w) \/ QueueRequest(w) \/ WriteTimesOut(w)
  PROVE  AckInv'
<1>1. \E s \in States \ {"ok"} : write' = [write EXCEPT ![w] = s]
  BY DEF Lock, QueueRequest, WriteTimesOut, States
<1>2. write_rx' \in Seq(Nat)
  <2>1. write_rx \in Seq(Nat) /\ w \in Nat
    BY MirrorAssumption DEF AckInv, MirrorType, Writes
  <2>2. write_rx' \in {write_rx, Append(write_rx, w)}
    BY DEF Lock, QueueRequest, WriteTimesOut
  <2> QED
    BY <2>1, <2>2, AppendSet
<1>3. UNCHANGED <<mirror, next_seq, pending, up, down, edge, edge_out,
                  performed, edge_feed>>
  BY DEF Lock, QueueRequest, WriteTimesOut
<1>4. MirrorType'
  BY <1>1, <1>2, <1>3 DEF AckInv, MirrorType, edge_feed
<1>5. \A v \in Writes : write'[v] = "ok" => write[v] = "ok"
  BY <1>1 DEF AckInv, MirrorType
<1> QED
  BY <1>3, <1>4, <1>5, NothingNew DEF Answers, Requests

(* The mirror ends: the writes that wait for it fail. *)
LEMMA ReturnStep ==
  ASSUME AckInv, MirrorReturns,
         UNCHANGED <<next_seq, up, edge, edge_out, performed, edge_feed>>
  PROVE  AckInv'
<1>1. \A v \in Writes : write'[v] \in {write[v], "error"}
  BY DEF MirrorReturns, Resolve
<1>2. MirrorType'
  BY EmptySet DEF AckInv, MirrorType, MirrorReturns, Resolve, States, edge_feed
<1>3. Answers' \subseteq Answers
  BY EmptySet DEF Answers, MirrorReturns
<1>4. pending' \subseteq pending /\ Requests' = Requests
  BY DEF MirrorReturns, Requests
<1> QED
  BY <1>1, <1>2, <1>3, <1>4, NothingNew

(* The mirror ends: every pending write is given up. *)
LEMMA EndStep ==
  ASSUME AckInv, SendFails \/ EncodeWriteFails \/ AppendFails \/ ReceiveClosed
                 \/ MirrorAborted
  PROVE  AckInv'
BY ReturnStep DEF SendFails, EncodeWriteFails, AppendFails, ReceiveClosed, MirrorAborted

(* A request is taken from the queue, ... *)
LEMMA TakeStep ==
  ASSUME AckInv, TakeRequest PROVE AckInv'
<1>1. MirrorType'
  BY TakeSet DEF AckInv, MirrorType, TakeRequest, edge_feed
<1> QED
  BY <1>1, NothingNew DEF TakeRequest, Answers, Requests

(* ... then sent, with a number that no message has had before. *)
LEMMA SendStep ==
  ASSUME AckInv, SendRequest PROVE AckInv'
<1> DEFINE m == WriteMsg(next_seq, mirror.w)
<1>1. m \in Msgs /\ m.kind = "write" /\ m.seq = next_seq /\ m.w = mirror.w
  BY DEF AckInv, MirrorType, WriteMsg, Msgs, Kinds
<1>2. up' \in Seq(Msgs) /\ Range(up)' = Range(up) \cup {m}
  BY <1>1, AppendSet DEF AckInv, MirrorType, SendRequest
<1> HIDE DEF m
<1>3. /\ next_seq' = next_seq + 1 /\ next_seq \in Nat
      /\ pending' = pending \cup {<<next_seq, mirror.w>>}
      /\ UNCHANGED <<write, performed, Answers>>
  BY DEF AckInv, MirrorType, SendRequest, Answers
<1>4. MirrorType'
  BY <1>2, <1>3 DEF AckInv, MirrorType, SendRequest, edge_feed
<1>5. /\ Requests \subseteq Msgs /\ Answers \subseteq Msgs
      /\ Requests' = Requests \cup {m}
  <2>1. Requests' = Requests \cup {m}
    BY <1>2 DEF SendRequest, Requests
  <2>2. Requests \subseteq Msgs /\ Answers \subseteq Msgs
    BY DEF AckInv, MirrorType, Answers, Requests, Range
  <2> QED
    BY <2>1, <2>2
<1>6. Numbered'
  BY <1>3 DEF AckInv, MirrorType, Numbered
<1>7. Asked'
  BY <1>1, <1>3, <1>5 DEF AckInv, MirrorType, Numbered, Asked, Msgs
<1>8. Acked'
  BY <1>3, <1>5 DEF AckInv, MirrorType, Acked, Msgs
<1>9. AckIsTrue'
  BY <1>3 DEF AckInv, AckIsTrue
<1> QED
  BY <1>4, <1>6, <1>7, <1>8, <1>9 DEF AckInv

(* A ctl frame: an acknowledgement resolves the write of its number, which *)
(* was performed; an error ends the mirror.                                *)
LEMMA CtlStep ==
  ASSUME AckInv, ReceiveCtl PROVE AckInv'
<1> DEFINE m == Head(down)
<1>1. UNCHANGED <<next_seq, up, edge, edge_out, performed, edge_feed>>
  BY DEF ReceiveCtl
<1>2. CASE m.kind = "error"
  BY <1>1, <1>2, ReturnStep DEF ReceiveCtl
<1>3. CASE m.kind = "write_ack"
  <2>0. /\ Resolve({p[2] : p \in Matching(m)}, "ok")
        /\ pending' = pending \ Matching(m) /\ UNCHANGED <<mirror, write_rx>>
        /\ down # <<>> /\ down' = Tail(down)
    BY <1>3 DEF ReceiveCtl
  <2>1. /\ m \in Range(down) /\ down' \in Seq(Msgs) /\ Range(down)' \subseteq Range(down)
    BY <2>0, TakeSet DEF AckInv, MirrorType
  <2>2. m \in Answers /\ Answers' \subseteq Answers /\ Requests' = Requests
    BY <1>1, <2>1 DEF Answers, Requests
  <2>3. \A p \in Matching(m) : p[2] \in Range(performed)
    BY <1>3, <2>2 DEF AckInv, Acked, Matching
  <2>4. \A w \in Writes : write'[w] = "ok" => w \in Range(performed)
    BY <2>0, <2>3 DEF Resolve, AckInv, AckIsTrue
  <2>5. MirrorType'
    BY <1>1, <2>0, <2>1 DEF AckInv, MirrorType, Resolve, States, edge_feed
  <2>6. Numbered' /\ Asked' /\ Acked'
    BY <1>1, <2>0, <2>2 DEF AckInv, Numbered, Asked, Acked
  <2>7. AckIsTrue'
    BY <1>1, <2>4 DEF AckIsTrue
  <2> QED
    BY <2>5, <2>6, <2>7 DEF AckInv
<1> QED
  BY <1>2, <1>3 DEF ReceiveCtl

(* A data frame. *)
LEMMA DataStep ==
  ASSUME AckInv, ReceiveData \/ PublishData PROVE AckInv'
<1>1. /\ UNCHANGED <<write, write_rx, next_seq, pending, up, edge, edge_out,
                     performed, edge_feed>>
      /\ mirror'.w \in {mirror.w, 0}
  BY DEF ReceiveData, PublishData
<1>2. down' \in Seq(Msgs) /\ Range(down)' \subseteq Range(down)
  <2>1. down \in Seq(Msgs)
    BY DEF AckInv, MirrorType
  <2>2. CASE ReceiveData
    BY <2>1, <2>2, TakeSet DEF ReceiveData
  <2>3. CASE PublishData
    BY <2>1, <2>3 DEF PublishData
  <2> QED
    BY <2>2, <2>3
<1>3. MirrorType'
  BY <1>1, <1>2 DEF AckInv, MirrorType, edge_feed
<1> QED
  BY <1>1, <1>2, <1>3, NothingNew DEF Answers, Requests

(* The edge takes a message: the write is asked for as before. *)
LEMMA EdgeReadStep ==
  ASSUME AckInv, EdgeRead PROVE AckInv'
<1> DEFINE m == Head(up)
<1>1. /\ m \in Range(up) /\ m \in Msgs /\ up' \in Seq(Msgs)
      /\ Range(up)' \subseteq Range(up) /\ edge' = [pc |-> "write", msg |-> m]
      /\ UNCHANGED <<write, write_rx, mirror, next_seq, pending, down, edge_out,
                     performed, edge_feed>>
  BY TakeSet DEF AckInv, MirrorType, EdgeRead, Edge
<1>2. m \in Requests /\ m.kind = "write"
  BY <1>1 DEF Requests, AckInv, Asked
<1> HIDE DEF m
<1>3. Requests' \subseteq Requests /\ Answers' \subseteq Answers \cup {m}
  BY <1>1, <1>2 DEF Requests, Answers
<1>4. MirrorType'
  BY <1>1 DEF AckInv, MirrorType, edge_feed
<1> QED
  BY <1>1, <1>2, <1>3, <1>4, NothingNew

(* The device takes the write, or the edge makes an error of it. *)
LEMMA EdgeDeviceStep ==
  ASSUME AckInv, EdgeDevice PROVE AckInv'
<1> DEFINE m == edge.msg
<1>1. /\ m \in Requests /\ m \in Msgs /\ m.w \in Nat /\ m.seq \in Nat
      /\ UNCHANGED <<write, write_rx, mirror, next_seq, pending, up, down, edge_out,
                     edge_feed>>
  BY DEF AckInv, MirrorType, EdgeDevice, Edge, Requests, Msgs
<1>2. PICK a \in {Ack(m.seq), Error(m.seq)} :
        /\ edge' = [pc |-> "reply", msg |-> a]
        /\ performed' \in {performed, Append(performed, m.w)}
        /\ a.kind = "write_ack" => performed' = Append(performed, m.w)
  BY DEF EdgeDevice, Error
<1>3. a \in Msgs /\ a.seq = m.seq
  BY <1>1, <1>2 DEF Ack, Error, Msgs, Kinds
<1> HIDE DEF m
<1>4. /\ performed' \in Seq(Nat) /\ Range(performed) \subseteq Range(performed)'
      /\ a.kind = "write_ack" => m.w \in Range(performed)'
  <2>1. performed \in Seq(Nat)
    BY DEF AckInv, MirrorType
  <2>2. CASE performed' = performed
    <3>1. a.kind # "write_ack" \/ performed' = Append(performed, m.w)
      BY <1>2
    <3> QED
      BY <1>1, <2>1, <2>2, <3>1, AppendSet
  <2>3. CASE performed' = Append(performed, m.w)
    BY <1>1, <2>1, <2>3, AppendSet
  <2> QED
    BY <1>2, <2>2, <2>3
<1>5. Requests' \subseteq Requests /\ Answers' \subseteq Answers \cup {a}
  BY <1>1, <1>2 DEF Requests, Answers
<1>6. MirrorType'
  BY <1>1, <1>2, <1>3, <1>4 DEF AckInv, MirrorType, edge_feed
<1>7. Numbered' /\ Asked'
  BY <1>1, <1>5 DEF AckInv, Numbered, Asked
<1>8. Acked'
  BY <1>1, <1>3, <1>4, <1>5 DEF AckInv, Asked, Acked
<1>9. AckIsTrue'
  BY <1>1, <1>4 DEF AckInv, AckIsTrue
<1> QED
  BY <1>6, <1>7, <1>8, <1>9 DEF AckInv

(* The answer is queued, and sent; data frames go the same way. *)
LEMMA EdgeRepliesStep ==
  ASSUME AckInv, EdgeReplies PROVE AckInv'
<1>1. /\ edge.msg \in Msgs /\ NoFrame \in Msgs /\ NoFrame.kind # "write_ack"
      /\ edge_out \in Seq(Msgs)
  BY DEF AckInv, MirrorType, NoFrame, Msgs, Kinds
<1>2. /\ edge_out' = Append(edge_out, edge.msg)
      /\ edge' = [pc |-> "read", msg |-> NoFrame]
      /\ UNCHANGED <<write, write_rx, mirror, next_seq, pending, up, down,
                     performed, edge_feed>>
  BY DEF EdgeReplies, Edge
<1>3. edge_out' \in Seq(Msgs) /\ Range(edge_out)' = Range(edge_out) \cup {edge.msg}
  BY <1>1, <1>2, AppendSet
<1>4. Answers' \subseteq Answers \cup {NoFrame}
  BY <1>2, <1>3 DEF Answers
<1>5. MirrorType'
  BY <1>1, <1>2, <1>3 DEF AckInv, MirrorType, edge_feed
<1>6. Requests' \subseteq Requests
  BY <1>2 DEF Requests
<1> QED
  BY <1>1, <1>2, <1>4, <1>5, <1>6, NothingNew

(* The edge publishes, takes and forwards a frame: it is no answer. *)
LEMMA EdgeFeedStep ==
  ASSUME AckInv, EdgePublishes \/ EdgeTakes PROVE AckInv'
<1>1. UNCHANGED <<write, write_rx, mirror, next_seq, pending, up, down, edge, edge_out,
                  performed>>
  BY DEF EdgePublishes, EdgeTakes, Edge
<1>2. frames' \in Seq({"target", "other"})
  <2>1. frames \in Seq({"target", "other"})
    BY DEF AckInv, MirrorType
  <2>2. frames' = frames \/ \E ch \in {"target", "other"} : frames' = Append(frames, ch)
    BY DEF EdgePublishes, EdgeTakes
  <2> QED
    BY <2>1, <2>2, AppendSet
<1>3. /\ feed' \in [next : Nat \ {0}, msg : Msgs]
      /\ feed'.msg.kind \in {"none", "target", "other"}
  <2>1. CASE EdgePublishes
    BY <2>1 DEF AckInv, MirrorType, EdgePublishes
  <2>2. CASE EdgeTakes /\ feed' = [next |-> Oldest, msg |-> NoFrame]
    <3>1. Len(frames) \in Nat /\ EdgeRing \in Nat
      BY MirrorAssumption DEF AckInv, MirrorType
    <3>2. Oldest \in Nat \ {0}
      BY <3>1 DEF Oldest
    <3> QED
      BY <2>2, <3>2 DEF NoFrame, Msgs, Kinds
  <2>3. CASE /\ EdgeTakes
             /\ feed' = [next |-> feed.next + 1, msg |-> Frame(feed.next, frames[feed.next])]
    <3>1. feed.next \in Nat \ {0} /\ feed.next <= Len(frames)
      BY <2>3 DEF AckInv, MirrorType, EdgeTakes
    <3>2. frames[feed.next] \in {"target", "other"}
      BY <3>1 DEF AckInv, MirrorType
    <3> QED
      BY <2>3, <3>1, <3>2 DEF Frame, Msgs, Kinds
  <2> QED
    BY <2>1, <2>2, <2>3 DEF EdgeTakes
<1>4. MirrorType'
  BY <1>1, <1>2, <1>3 DEF AckInv, MirrorType
<1> QED
  BY <1>1, <1>4, NothingNew DEF Answers, Requests

(* A frame that gets into the edge's queue answers no write. *)
LEMMA EdgeForwardsStep ==
  ASSUME AckInv, EdgeForwards PROVE AckInv'
<1>1. /\ UNCHANGED <<write, write_rx, mirror, next_seq, pending, up, down, edge,
                     performed, frames>>
      /\ feed' = [feed EXCEPT !.msg = NoFrame]
  BY DEF EdgeForwards, Edge
<1> DEFINE f == feed.msg
<1>2. f \in Msgs /\ f.kind # "write_ack"
  BY DEF AckInv, MirrorType
<1>3. edge_out \in Seq(Msgs) /\ edge_out' = Append(edge_out, f)
  BY DEF AckInv, MirrorType, EdgeForwards
<1> HIDE DEF f
<1>4. edge_out' \in Seq(Msgs) /\ Range(edge_out)' = Range(edge_out) \cup {f}
  BY <1>2, <1>3, AppendSet
<1>5. Answers' \subseteq Answers \cup {f}
  BY <1>1, <1>4 DEF Answers
<1>6. feed' \in [next : Nat \ {0}, msg : Msgs] /\ feed'.msg.kind = "none"
  BY <1>1 DEF AckInv, MirrorType, NoFrame, Msgs, Kinds
<1>7. MirrorType'
  BY <1>1, <1>4, <1>6 DEF AckInv, MirrorType
<1> QED
  BY <1>1, <1>2, <1>5, <1>7, NothingNew DEF Requests

(* The edge sends what it has queued. *)
LEMMA EdgeWritesStep ==
  ASSUME AckInv, EdgeWrites PROVE AckInv'
<1>1. /\ edge_out \in Seq(Msgs) /\ edge_out # <<>> /\ down \in Seq(Msgs)
      /\ down' = Append(down, Head(edge_out)) /\ edge_out' = Tail(edge_out)
      /\ UNCHANGED <<write, write_rx, mirror, next_seq, pending, up, edge,
                     performed, edge_feed>>
  BY DEF AckInv, MirrorType, EdgeWrites, Edge
<1>2. /\ Head(edge_out) \in Range(edge_out) /\ Head(edge_out) \in Msgs
      /\ edge_out' \in Seq(Msgs) /\ Range(edge_out)' \subseteq Range(edge_out)
  BY <1>1, TakeSet
<1>3. down' \in Seq(Msgs) /\ Range(down)' = Range(down) \cup {Head(edge_out)}
  BY <1>1, <1>2, AppendSet
<1>4. Answers' \subseteq Answers
  BY <1>1, <1>2, <1>3 DEF Answers
<1>5. MirrorType'
  BY <1>1, <1>2, <1>3 DEF AckInv, MirrorType, edge_feed
<1> QED
  BY <1>1, <1>4, <1>5, NothingNew DEF Requests

(* What is lost with the connection acknowledges nothing. *)
LEMMA DisconnectStep ==
  ASSUME AckInv, Disconnect PROVE AckInv'
<1>1. /\ up' \in {up, <<>>} /\ down' \in {down, <<>>}
      /\ UNCHANGED <<write, write_rx, mirror, next_seq, pending, edge, edge_out,
                     performed, edge_feed>>
  BY DEF Disconnect, Edge
<1>2. Range(up)' \subseteq Range(up) /\ Range(down)' \subseteq Range(down)
  BY <1>1, EmptySet
<1>3. MirrorType'
  BY <1>1, EmptySet, Zenon DEF AckInv, MirrorType, edge_feed
<1>4. Answers' \subseteq Answers /\ Requests' \subseteq Requests
  BY <1>1, <1>2 DEF Answers, Requests
<1> QED
  BY <1>1, <1>2, <1>3, <1>4, NothingNew

(* No answer is under way at the start. *)
LEMMA AckStart == MirrorInit => AckInv
<1> SUFFICES ASSUME MirrorInit PROVE AckInv
  OBVIOUS
<1>1. MirrorType
  BY EmptySet DEF MirrorInit, MirrorType, States, FirstWriteSeq, NoFrame, Msgs, Kinds
<1>2. Answers = {NoFrame} /\ Requests = {} /\ pending = {}
  BY EmptySet DEF MirrorInit, Answers, Requests
<1>3. Numbered /\ Asked /\ Acked
  BY <1>2 DEF Numbered, Asked, Acked, NoFrame
<1>4. AckIsTrue
  BY DEF MirrorInit, AckIsTrue
<1> QED
  BY <1>1, <1>3, <1>4 DEF AckInv

(* Every step keeps what is known of the answers. *)
LEMMA AckStep == AckInv /\ [MirrorNext]_mirror_vars => AckInv'
<1> SUFFICES ASSUME AckInv, [MirrorNext]_mirror_vars PROVE AckInv'
  OBVIOUS
<1>1. CASE UNCHANGED mirror_vars
  BY <1>1 DEF mirror_vars, AckInv, MirrorType, Numbered, Asked, Acked, AckIsTrue,
     Answers, Requests
<1> QED
  BY <1>1, CallerStep, EndStep, TakeStep, SendStep, CtlStep, DataStep,
     EdgeReadStep, EdgeDeviceStep, EdgeRepliesStep, EdgeFeedStep, EdgeForwardsStep,
     EdgeWritesStep, DisconnectStep
  DEF MirrorNext, SinkStep, MirrorStep, EdgeLoop, EdgeFeed

(* A write is reported as done only when the edge's device took it:        *)
(* resolve_write_ack never takes an answer for that of another write,      *)
(* however late it comes and whatever else failed meanwhile.               *)
THEOREM AcksAreTrue == MirrorSpec => []AckIsTrue
<1>1. AckInv => AckIsTrue
  BY DEF AckInv
<1> QED
  BY <1>1, AckStart, AckStep, PTL DEF MirrorSpec

-----------------------------------------------------------------------------
(* The way of a write: called, queued, taken by the mirror, under way to   *)
(* the edge, performed.  The writes that have not been sent yet, ...       *)
In(s) == {w \in Writes : write[w] = s}
Called == In("locked")
Sending == IF mirror.pc = "sending" THEN {mirror.w} ELSE {}
Unsent == Sending \cup Range(write_rx) \cup Called \cup In("new")

(* ... those under way to the edge, and the one before its device. *)
Asking == {m.w : m \in Range(up)}
Performing == IF edge.pc = "write" THEN {edge.msg.w} ELSE {}

WritesOf(q) == [i \in DOMAIN q |-> q[i].w]
Rising(q) == \A i, j \in DOMAIN q : i < j => q[i] < q[j]
Before(A, B) == \A a \in A, b \in B : a < b

(* Each stage is in order, and ahead of the stages before it; the lock     *)
(* lets one writer in at a time.                                           *)
OrderInv ==
  /\ Rising(performed) /\ Rising(write_rx) /\ Rising(WritesOf(up))
  /\ Before(Range(performed), Performing \cup Asking \cup Unsent)
  /\ Before(Performing, Asking \cup Unsent) /\ Before(Asking, Unsent)
  /\ Before(Sending, Range(write_rx) \cup Called \cup In("new"))
  /\ Before(Range(write_rx), Called \cup In("new")) /\ Before(Called, In("new"))
  /\ \A v, w \in Called : v = w

(* The queues keep their bounds; a write is numbered once, so there are    *)
(* no more numbers than writes.                                            *)
BoundInv ==
  /\ mirror.pc \in {"select", "sending", "publish", "ended"}
  /\ Unsent \subseteq Writes /\ \A p \in pending : p[2] \in Writes
  /\ next_seq \in FirstWriteSeq..(FirstWriteSeq + MaxWrites)
  /\ \A w \in Unsent : next_seq - FirstWriteSeq < w
  /\ Len(write_rx) <= RequestQueue /\ Len(up) <= NetLen /\ Len(down) <= NetLen
  /\ Len(edge_out) <= EdgeQueue

WriteInv == OrderInv /\ BoundInv

(* A number above all others joins a rising sequence at its end, ... *)
LEMMA RisingAppend ==
  ASSUME NEW q \in Seq(Nat), NEW x \in Nat, Rising(q), \A y \in Range(q) : y < x
  PROVE  Rising(Append(q, x))
<1> DEFINE a == Append(q, x)
<1>1. /\ Len(q) \in Nat /\ DOMAIN q = 1..Len(q) /\ DOMAIN a = 1..(Len(q) + 1)
      /\ a[Len(q) + 1] = x /\ \A i \in 1..Len(q) : a[i] = q[i] /\ a[i] < x
  BY DEF Range
<1> HIDE DEF a
<1>2. ASSUME NEW i \in DOMAIN a, NEW j \in DOMAIN a, i < j PROVE a[i] < a[j]
  <2>1. i \in 1..Len(q) /\ (j \in 1..Len(q) \/ j = Len(q) + 1)
    BY <1>1, <1>2
  <2> QED
    BY <1>1, <1>2, <2>1 DEF Rising
<1> QED
  BY <1>2 DEF Rising, a

(* ... and its head is below all that follow. *)
LEMMA RisingTail ==
  ASSUME NEW q \in Seq(Nat), q # <<>>, Rising(q)
  PROVE  /\ Rising(Tail(q)) /\ Head(q) \in Range(q) /\ Range(Tail(q)) \subseteq Range(q)
         /\ \A y \in Range(Tail(q)) : Head(q) < y
<1>1. /\ Len(q) \in Nat /\ Len(q) > 0 /\ DOMAIN q = 1..Len(q) /\ Head(q) = q[1]
      /\ DOMAIN Tail(q) = 1..(Len(q) - 1)
      /\ \A i \in 1..(Len(q) - 1) : Tail(q)[i] = q[i + 1]
  BY HeadTailProperties, EmptySeq
<1>2. \A i \in DOMAIN Tail(q) : i + 1 \in DOMAIN q /\ 1 \in DOMAIN q /\ 1 < i + 1
  BY <1>1
<1>3. Rising(Tail(q))
  BY <1>1, <1>2 DEF Rising
<1>4. \A i \in DOMAIN Tail(q) : Head(q) < Tail(q)[i]
  BY <1>1, <1>2 DEF Rising
<1>5. Head(q) \in Range(q) /\ \A i \in DOMAIN Tail(q) : Tail(q)[i] \in Range(q)
  BY <1>1, <1>2 DEF Range
<1> QED
  BY <1>3, <1>4, <1>5 DEF Range

(* The writes of the messages under way. *)
LEMMA WritesOfQueue ==
  ASSUME NEW q \in Seq(Msgs)
  PROVE  /\ WritesOf(q) \in Seq(Nat) /\ Range(WritesOf(q)) = {m.w : m \in Range(q)}
         /\ \A m \in Msgs : WritesOf(Append(q, m)) = Append(WritesOf(q), m.w)
         /\ q # <<>> => /\ WritesOf(Tail(q)) = Tail(WritesOf(q)) /\ WritesOf(q) # <<>>
                        /\ Head(WritesOf(q)) = Head(q).w
<1>1. /\ Len(q) \in Nat /\ DOMAIN q = 1..Len(q) /\ \A i \in 1..Len(q) : q[i].w \in Nat
  <2>1. \A i \in 1..Len(q) : q[i] \in Msgs
    OBVIOUS
  <2> QED
    BY <2>1 DEF Msgs
<1>2. WritesOf(q) \in Seq(Nat) /\ Len(WritesOf(q)) = Len(q)
  BY <1>1, IsASeq DEF WritesOf
<1>3. Range(WritesOf(q)) = {m.w : m \in Range(q)}
  BY <1>1 DEF Range, WritesOf
<1>4. ASSUME NEW m \in Msgs PROVE WritesOf(Append(q, m)) = Append(WritesOf(q), m.w)
  <2> DEFINE a == Append(q, m)
             b == Append(WritesOf(q), m.w)
  <2>1. /\ a \in Seq(Msgs) /\ DOMAIN a = 1..(Len(q) + 1) /\ a[Len(q) + 1] = m
        /\ \A i \in 1..Len(q) : a[i] = q[i]
    BY <1>1
  <2>2. m.w \in Nat
    BY DEF Msgs
  <2>3. /\ b \in Seq(Nat) /\ Len(b) = Len(q) + 1 /\ b[Len(q) + 1] = m.w
        /\ \A i \in 1..Len(q) : b[i] = WritesOf(q)[i]
    BY <1>2, <2>2, AppendProperties
  <2>4. b = [i \in 1..(Len(q) + 1) |-> b[i]]
    BY <2>3
  <2> HIDE DEF a, b
  <2>5. \A i \in 1..(Len(q) + 1) : b[i] = a[i].w
    BY <1>1, <2>1, <2>3 DEF WritesOf
  <2>6. WritesOf(a) = b
    BY <2>1, <2>4, <2>5 DEF WritesOf
  <2> QED
    BY <2>6 DEF a, b
<1>5. ASSUME q # <<>>
      PROVE  /\ WritesOf(Tail(q)) = Tail(WritesOf(q)) /\ WritesOf(q) # <<>>
             /\ Head(WritesOf(q)) = Head(q).w
  <2>1. /\ Len(q) > 0 /\ Head(q) = q[1] /\ Tail(q) \in Seq(Msgs)
        /\ DOMAIN Tail(q) = 1..(Len(q) - 1)
        /\ \A i \in 1..(Len(q) - 1) : Tail(q)[i] = q[i + 1]
    BY <1>1, <1>5, HeadTailProperties, EmptySeq
  <2>2. WritesOf(q) # <<>>
    BY <1>1, <1>2, <2>1
  <2> DEFINE b == Tail(WritesOf(q))
  <2>3. /\ Head(WritesOf(q)) = WritesOf(q)[1] /\ b \in Seq(Nat) /\ Len(b) = Len(q) - 1
        /\ \A i \in 1..(Len(q) - 1) : b[i] = WritesOf(q)[i + 1]
    BY <1>2, <2>2, HeadTailProperties
  <2> HIDE DEF b
  <2>4. b = [i \in 1..(Len(q) - 1) |-> b[i]]
    <3>1. b = [i \in 1..Len(b) |-> b[i]]
      BY <2>3
    <3> QED
      BY <2>3, <3>1
  <2>5. \A i \in 1..(Len(q) - 1) : i + 1 \in DOMAIN q
    BY <1>1, <2>1
  <2>6. \A i \in 1..(Len(q) - 1) : b[i] = Tail(q)[i].w
    BY <2>1, <2>3, <2>5, Zenon DEF WritesOf
  <2>7. WritesOf(Tail(q)) = b
    BY <2>1, <2>4, <2>6 DEF WritesOf
  <2>8. Head(WritesOf(q)) = Head(q).w
    BY <1>1, <2>1, <2>3 DEF WritesOf
  <2> QED
    BY <2>2, <2>7, <2>8 DEF b
<1> QED
  BY <1>2, <1>3, <1>4, <1>5

(* Steps that bring no write further on: a stage may lose some. *)
LEMMA StagesShrink ==
  ASSUME WriteInv, UNCHANGED performed, Rising(write_rx'), Rising(WritesOf(up')),
         Performing' \subseteq Performing, Asking' \subseteq Asking,
         Sending' \subseteq Sending,
         Range(write_rx') \subseteq Range(write_rx),
         Called' \subseteq Called, In("new")' \subseteq In("new")
  PROVE  OrderInv' /\ Unsent' \subseteq Unsent
<1>1. Unsent' \subseteq Unsent
  BY DEF Unsent
<1> QED
  BY <1>1 DEF WriteInv, OrderInv, Before

(* A step that only resolves writes leaves those that are not queued yet.  *)
LEMMA ResolveKeeps ==
  ASSUME NEW ws, NEW outcome \in {"ok", "error"}, Resolve(ws, outcome)
  PROVE  Called' = Called /\ In("new")' = In("new")
BY DEF Resolve, Called, In

(* The callers: the lock admits the first of the new writes. *)
LEMMA LockOrder ==
  ASSUME AckInv, WriteInv, NEW w \in Writes, Lock(w) PROVE OrderInv' /\ Unsent' = Unsent
<1>1. /\ write' = [write EXCEPT ![w] = "locked"] /\ write[w] = "new" /\ Called = {}
      /\ UNCHANGED <<write_rx, mirror, up, edge, performed>>
  BY DEF Lock, Locked, Called, In
<1>2. Called' = {w} /\ In("new")' = In("new") \ {w} /\ w \in In("new")
  BY <1>1 DEF Called, In, AckInv, MirrorType
<1>3. UNCHANGED <<Sending, Range(write_rx), Asking, Performing>>
  BY <1>1 DEF Sending, Asking, Performing
<1>4. Unsent' = Unsent
  BY <1>1, <1>2, <1>3 DEF Unsent
<1>5. \A v \in In("new") \ {w} : w < v
  BY MirrorAssumption DEF Lock, In, Writes
<1> QED
  BY <1>1, <1>2, <1>3, <1>4, <1>5 DEF WriteInv, OrderInv, Before

(* The caller with the lock queues its write behind those before it. *)
LEMMA QueueOrder ==
  ASSUME AckInv, WriteInv, NEW w \in Writes, write[w] = "locked",
         write_rx' = Append(write_rx, w), write' = [write EXCEPT ![w] = "queued"],
         UNCHANGED <<mirror, up, edge, performed>>
  PROVE  OrderInv' /\ Unsent' = Unsent
<1>1. Called = {w} /\ Called' = {} /\ In("new")' = In("new")
  <2>1. w \in Called /\ \A v \in Called : v = w
    BY DEF Called, In, WriteInv, OrderInv
  <2>2. \A v \in Writes \ {w} : write'[v] = write[v]
    BY DEF AckInv, MirrorType
  <2> QED
    BY <2>1, <2>2 DEF Called, In, AckInv, MirrorType
<1>2. write_rx \in Seq(Nat) /\ w \in Nat
  BY MirrorAssumption DEF AckInv, MirrorType, Writes
<1>3. Range(write_rx') = Range(write_rx) \cup {w}
  BY <1>2, AppendSet
<1>4. Rising(write_rx')
  <2>1. \A y \in Range(write_rx) : y < w
    BY <1>1 DEF WriteInv, OrderInv, Before
  <2> QED
    BY <1>2, <2>1, RisingAppend DEF WriteInv, OrderInv
<1>5. UNCHANGED <<Sending, Asking, Performing>>
  BY DEF Sending, Asking, Performing
<1>6. Unsent' = Unsent
  BY <1>1, <1>3, <1>5 DEF Unsent
<1>7. Before(Range(write_rx)', Called' \cup In("new")')
  BY <1>1, <1>3 DEF WriteInv, OrderInv, Before
<1> QED
  BY <1>1, <1>3, <1>4, <1>5, <1>6, <1>7 DEF WriteInv, OrderInv, Before

(* The mirror takes the first of the queued writes ... *)
LEMMA TakeOrder ==
  ASSUME AckInv, WriteInv, TakeRequest PROVE OrderInv' /\ Unsent' \subseteq Unsent
<1>1. /\ write_rx \in Seq(Nat) /\ write_rx # <<>> /\ write_rx' = Tail(write_rx)
      /\ UNCHANGED <<write, up, edge, performed>>
      /\ Sending = {} /\ Sending' = {Head(write_rx)}
  BY DEF TakeRequest, AckInv, MirrorType, Sending
<1>2. /\ Rising(write_rx') /\ Head(write_rx) \in Range(write_rx)
      /\ Range(write_rx') \subseteq Range(write_rx)
      /\ \A y \in Range(write_rx') : Head(write_rx) < y
  BY <1>1, RisingTail DEF WriteInv, OrderInv
<1>3. UNCHANGED <<Called, In("new"), Asking, Performing>>
  BY <1>1 DEF Called, In, Asking, Performing
<1>4. Unsent' \subseteq Unsent
  BY <1>1, <1>2, <1>3 DEF Unsent
<1> QED
  BY <1>1, <1>2, <1>3, <1>4 DEF WriteInv, OrderInv, Before

(* ... and sends it to the edge. *)
LEMMA SendOrder ==
  ASSUME AckInv, WriteInv, SendRequest
  PROVE  /\ OrderInv' /\ Unsent' \subseteq Unsent /\ mirror.w \in Unsent
         /\ \A w \in Unsent' : mirror.w < w
<1> DEFINE m == WriteMsg(next_seq, mirror.w)
<1>1. /\ up \in Seq(Msgs) /\ up' = Append(up, m) /\ mirror.w \in Nat
      /\ UNCHANGED <<write, write_rx, edge, performed>>
      /\ Sending = {mirror.w} /\ Sending' = {}
  BY DEF SendRequest, AckInv, MirrorType, Sending
<1>2. m \in Msgs /\ m.w = mirror.w
  BY DEF AckInv, MirrorType, WriteMsg, Msgs, Kinds
<1> HIDE DEF m
<1>3. Asking' = Asking \cup {mirror.w}
  BY <1>1, <1>2, AppendSet DEF Asking
<1>4. UNCHANGED <<Called, In("new"), Range(write_rx), Performing>>
  BY <1>1 DEF Called, In, Performing
<1>5. Unsent' \subseteq Unsent /\ mirror.w \in Unsent
  BY <1>1, <1>4 DEF Unsent
<1>6. \A w \in Unsent' : mirror.w < w
  BY <1>1, <1>4 DEF Unsent, WriteInv, OrderInv, Before
<1>7. Rising(WritesOf(up'))
  <2>1. /\ WritesOf(up) \in Seq(Nat) /\ Range(WritesOf(up)) = Asking
        /\ WritesOf(up') = Append(WritesOf(up), mirror.w)
    BY <1>1, <1>2, WritesOfQueue DEF Asking
  <2>2. \A y \in Range(WritesOf(up)) : y < mirror.w
    BY <1>5, <2>1 DEF WriteInv, OrderInv, Before
  <2> QED
    BY <1>1, <2>1, <2>2, RisingAppend DEF WriteInv, OrderInv
<1> QED
  BY <1>1, <1>3, <1>4, <1>5, <1>6, <1>7 DEF WriteInv, OrderInv, Before

(* The edge takes the first of the writes under way to its device ... *)
LEMMA ReadOrder ==
  ASSUME AckInv, WriteInv, EdgeRead PROVE OrderInv' /\ Unsent' = Unsent
<1> DEFINE w == Head(up).w
<1>1. /\ up \in Seq(Msgs) /\ up # <<>> /\ up' = Tail(up) /\ Performing' = {w}
      /\ UNCHANGED <<write, write_rx, mirror, performed>>
  BY DEF EdgeRead, Edge, AckInv, MirrorType, Performing
<1>2. Unsent' = Unsent /\ UNCHANGED <<Sending, Called, In("new"), Range(write_rx)>>
  BY <1>1 DEF Unsent, Sending, Called, In
<1>3. /\ WritesOf(up) \in Seq(Nat) /\ WritesOf(up) # <<>> /\ Head(WritesOf(up)) = w
      /\ WritesOf(up') = Tail(WritesOf(up)) /\ Range(WritesOf(up)) = Asking
      /\ Range(WritesOf(up')) = Asking'
  <2>1. up' \in Seq(Msgs)
    BY <1>1
  <2> QED
    BY <1>1, <2>1, WritesOfQueue, Zenon DEF Asking
<1>4. /\ Rising(WritesOf(up')) /\ Asking' \subseteq Asking /\ w \in Asking
      /\ \A y \in Asking' : w < y
  BY <1>3, RisingTail DEF WriteInv, OrderInv
<1> HIDE DEF w
<1> QED
  BY <1>1, <1>2, <1>4 DEF WriteInv, OrderInv, Before

(* ... which takes it, or not. *)
LEMMA PerformOrder ==
  ASSUME AckInv, WriteInv, EdgeDevice PROVE OrderInv' /\ Unsent' = Unsent
<1> DEFINE w == edge.msg.w
<1>1. /\ performed \in Seq(Nat) /\ w \in Nat /\ Performing = {w} /\ Performing' = {}
      /\ UNCHANGED <<write, write_rx, mirror, up>>
      /\ performed' \in {performed, Append(performed, w)}
  BY DEF EdgeDevice, Edge, AckInv, MirrorType, Msgs, Performing
<1>2. /\ Unsent' = Unsent
      /\ UNCHANGED <<Sending, Called, In("new"), Range(write_rx), Asking>>
  BY <1>1 DEF Unsent, Sending, Called, In, Asking
<1> HIDE DEF w
<1>3. CASE performed' = performed
  BY <1>1, <1>2, <1>3 DEF WriteInv, OrderInv, Before
<1>4. CASE performed' = Append(performed, w)
  <2>1. Rising(performed') /\ Range(performed') = Range(performed) \cup {w}
    <3>1. \A y \in Range(performed) : y < w
      BY <1>1 DEF WriteInv, OrderInv, Before
    <3> QED
      BY <1>1, <1>4, <3>1, RisingAppend, AppendSet, Zenon DEF WriteInv, OrderInv
  <2> QED
    BY <1>1, <1>2, <2>1 DEF WriteInv, OrderInv, Before
<1> QED
  BY <1>1, <1>3, <1>4

(* What the writes need of a step that numbers none. *)
LEMMA BoundKeeps ==
  ASSUME AckInv, WriteInv, UNCHANGED next_seq, Unsent' \subseteq Unsent,
         pending' \subseteq pending,
         mirror'.pc \in {"select", "sending", "publish", "ended"},
         Len(write_rx') <= RequestQueue, Len(up') <= NetLen, Len(down') <= NetLen,
         Len(edge_out') <= EdgeQueue
  PROVE  BoundInv'
BY DEF WriteInv, BoundInv

(* The end of the mirror drops the writes that are queued. *)
LEMMA ReturnOrder ==
  ASSUME AckInv, WriteInv, MirrorReturns,
         UNCHANGED <<next_seq, up, edge, edge_out, performed>>
  PROVE  WriteInv'
<1>1. /\ write_rx' = <<>> /\ pending' = {} /\ mirror' = [pc |-> "ended", w |-> 0]
      /\ UNCHANGED <<Called, In("new")>>
  BY ResolveKeeps DEF MirrorReturns
<1>2. Sending' = {} /\ Range(write_rx') = {} /\ Rising(write_rx') /\ Len(write_rx') = 0
  BY <1>1, EmptySet DEF Sending, Rising
<1>3. Asking' = Asking /\ Performing' = Performing /\ Rising(WritesOf(up'))
  BY DEF Asking, Performing, WriteInv, OrderInv
<1>4. OrderInv' /\ Unsent' \subseteq Unsent
  BY <1>1, <1>2, <1>3, StagesShrink
<1>5. Len(write_rx') <= RequestQueue /\ Len(down') <= NetLen
  BY <1>2, MirrorAssumption DEF MirrorReturns
<1>6. BoundInv'
  BY <1>1, <1>4, <1>5, BoundKeeps DEF WriteInv, BoundInv
<1> QED
  BY <1>4, <1>6 DEF WriteInv

(* Every step keeps the writes in order and the queues in bounds.          *)
LEMMA WriteStep ==
  ASSUME AckInv, WriteInv, [MirrorNext]_mirror_vars PROVE WriteInv'
<1>a. /\ write_rx \in Seq(Nat) /\ up \in Seq(Msgs) /\ down \in Seq(Msgs)
      /\ edge_out \in Seq(Msgs) /\ RequestQueue \in Nat /\ NetLen \in Nat /\ EdgeQueue \in Nat
  BY MirrorAssumption DEF AckInv, MirrorType
<1>b. /\ mirror.pc \in {"select", "sending", "publish", "ended"}
      /\ Len(write_rx) <= RequestQueue /\ Len(up) <= NetLen /\ Len(down) <= NetLen
      /\ Len(edge_out) <= EdgeQueue /\ Rising(write_rx) /\ Rising(WritesOf(up))
  BY DEF WriteInv, BoundInv, OrderInv
<1>c. ASSUME NEW q, NEW S, q \in Seq(S), q # <<>> PROVE Len(Tail(q)) < Len(q)
  BY <1>c
<1>1. ASSUME NEW w \in Writes, Lock(w) PROVE WriteInv'
  BY <1>1, <1>b, LockOrder, BoundKeeps, Zenon DEF Lock, WriteInv
<1>2. ASSUME NEW w \in Writes, QueueRequest(w) PROVE WriteInv'
  <2>1. /\ write[w] = "locked"
        /\ UNCHANGED <<mirror, next_seq, pending, up, down, edge, edge_out, performed>>
    BY <1>2 DEF QueueRequest
  <2>2. CASE /\ write_rx' = Append(write_rx, w) /\ Len(write_rx) < RequestQueue
             /\ write' = [write EXCEPT ![w] = "queued"]
    <3>1. Len(write_rx') <= RequestQueue
      <4>1. w \in Nat
        BY MirrorAssumption DEF Writes
      <4> QED
        BY <1>a, <2>2, <4>1
    <3>2. OrderInv' /\ Unsent' = Unsent
      BY <2>1, <2>2, QueueOrder, Zenon
    <3> QED
      BY <1>b, <2>1, <3>1, <3>2, BoundKeeps DEF WriteInv
  <2>3. CASE UNCHANGED write_rx /\ write' = [write EXCEPT ![w] = "error"]
    <3>1. Called' \subseteq Called /\ In("new")' \subseteq In("new")
      BY <2>1, <2>3 DEF Called, In, AckInv, MirrorType
    <3>2. OrderInv' /\ Unsent' \subseteq Unsent
      BY <1>b, <2>1, <2>3, <3>1, StagesShrink DEF Sending, Asking, Performing
    <3> QED
      BY <1>b, <2>1, <2>3, <3>2, BoundKeeps DEF WriteInv
  <2> QED
    BY <1>2, <2>2, <2>3 DEF QueueRequest
<1>3. ASSUME NEW w \in Writes, WriteTimesOut(w) PROVE WriteInv'
  <2>1. Called' \subseteq Called /\ In("new")' \subseteq In("new")
    BY <1>3 DEF WriteTimesOut, Called, In, AckInv, MirrorType
  <2>2. OrderInv' /\ Unsent' \subseteq Unsent
    BY <1>3, <1>b, <2>1, StagesShrink DEF WriteTimesOut, Sending, Asking, Performing
  <2> QED
    BY <1>3, <1>b, <2>2, BoundKeeps DEF WriteTimesOut, WriteInv
<1>4. CASE SendFails \/ EncodeWriteFails \/ AppendFails \/ ReceiveClosed \/ MirrorAborted
  BY <1>4, ReturnOrder
  DEF SendFails, EncodeWriteFails, AppendFails, ReceiveClosed, MirrorAborted
<1>5. CASE TakeRequest
  <2>1. Len(write_rx') <= RequestQueue
    BY <1>5, <1>a, <1>b, <1>c DEF TakeRequest
  <2> QED
    BY <1>5, <1>b, <2>1, TakeOrder, BoundKeeps DEF TakeRequest, WriteInv
<1>6. CASE SendRequest
  <2>1. /\ UNCHANGED <<write_rx, down, edge_out>> /\ mirror'.pc = "select"
        /\ next_seq' = next_seq + 1 /\ pending' = pending \cup {<<next_seq, mirror.w>>}
    BY <1>6 DEF SendRequest
  <2>2. Len(up') <= NetLen
    <3>1. WriteMsg(next_seq, mirror.w) \in Msgs
      BY DEF AckInv, MirrorType, WriteMsg, Msgs, Kinds
    <3> QED
      BY <1>6, <1>a, <3>1 DEF SendRequest
  <2>3. /\ OrderInv' /\ Unsent' \subseteq Unsent /\ mirror.w \in Unsent
        /\ \A w \in Unsent' : mirror.w < w
    BY <1>6, SendOrder
  <2>4. Unsent \subseteq Writes /\ next_seq \in FirstWriteSeq..(FirstWriteSeq + MaxWrites)
        /\ next_seq - FirstWriteSeq < mirror.w
    BY <2>3 DEF WriteInv, BoundInv
  <2>5. /\ next_seq' \in FirstWriteSeq..(FirstWriteSeq + MaxWrites)
        /\ \A w \in Unsent' : next_seq' - FirstWriteSeq < w
    <3>0. mirror.w \in 1..MaxWrites /\ MaxWrites \in Nat
      BY <2>3, <2>4, MirrorAssumption, Zenon DEF Writes
    <3>1. next_seq \in 2..(2 + MaxWrites) /\ next_seq - 2 < mirror.w
      BY <2>4 DEF FirstWriteSeq
    <3>2. next_seq + 1 \in 2..(2 + MaxWrites) /\ next_seq + 1 - 2 <= mirror.w
      BY <3>0, <3>1
    <3>3. \A w \in Unsent' : w \in Int /\ mirror.w < w
      BY <2>3, <2>4 DEF Writes
    <3>4. \A w \in Unsent' : next_seq + 1 - 2 < w
      BY <3>0, <3>1, <3>2, <3>3
    <3>5. next_seq' = next_seq + 1
      BY <2>1
    <3>6. next_seq' \in FirstWriteSeq..(FirstWriteSeq + MaxWrites)
      BY <3>2, <3>5 DEF FirstWriteSeq
    <3>7. ASSUME NEW w \in Unsent' PROVE next_seq' - FirstWriteSeq < w
      BY <3>1, <3>3, <3>4, <3>5 DEF FirstWriteSeq
    <3> QED
      BY <3>6, <3>7
  <2>6. \A p \in pending' : p[2] \in Writes
    BY <2>1, <2>3, <2>4 DEF WriteInv, BoundInv
  <2>7. BoundInv'
    BY <1>b, <2>1, <2>2, <2>3, <2>4, <2>5, <2>6 DEF BoundInv
  <2> QED
    BY <2>3, <2>7 DEF WriteInv
<1>7. CASE ReceiveCtl
  <2>1. UNCHANGED <<next_seq, up, edge, edge_out, performed>>
    BY <1>7 DEF ReceiveCtl
  <2>2. CASE MirrorReturns
    BY <2>1, <2>2, ReturnOrder
  <2>3. CASE /\ Resolve({p[2] : p \in Matching(Head(down))}, "ok")
             /\ pending' = pending \ Matching(Head(down))
             /\ UNCHANGED <<mirror, write_rx>> /\ down # <<>> /\ down' = Tail(down)
    <3>0. Len(down') <= NetLen
      BY <1>a, <1>b, <1>c, <2>3
    <3>1. Called' = Called /\ In("new")' = In("new")
      BY <2>3, ResolveKeeps
    <3>2. OrderInv' /\ Unsent' \subseteq Unsent
      BY <1>b, <2>1, <2>3, <3>1, StagesShrink DEF Sending, Asking, Performing
    <3> QED
      BY <1>b, <2>1, <2>3, <3>0, <3>2, BoundKeeps DEF WriteInv
  <2> QED
    BY <1>7, <2>2, <2>3 DEF ReceiveCtl
<1>8. CASE ReceiveData \/ PublishData
  <2>1. /\ UNCHANGED <<write, write_rx, next_seq, pending, up, edge, edge_out, performed>>
        /\ Sending' = Sending /\ mirror'.pc \in {"select", "publish"}
    BY <1>8 DEF ReceiveData, PublishData, Sending
  <2>2. Len(down') <= NetLen
    BY <1>8, <1>a, <1>b, <1>c DEF ReceiveData, PublishData
  <2>3. OrderInv' /\ Unsent' \subseteq Unsent
    BY <1>b, <2>1, StagesShrink DEF Called, In, Asking, Performing
  <2> QED
    BY <1>b, <2>1, <2>2, <2>3, BoundKeeps DEF WriteInv
<1>9. CASE EdgeRead \/ EdgeDevice
  <2>1. UNCHANGED <<write_rx, mirror, next_seq, pending, down, edge_out>> /\ Len(up') <= NetLen
    BY <1>9, <1>a, <1>b, <1>c DEF EdgeRead, EdgeDevice, Edge
  <2> QED
    BY <1>9, <1>b, <2>1, ReadOrder, PerformOrder, BoundKeeps DEF WriteInv
<1>10. CASE \/ EdgeReplies \/ EdgePublishes \/ EdgeTakes \/ EdgeForwards \/ EdgeWrites
            \/ UNCHANGED mirror_vars
  <2>1. /\ UNCHANGED <<write, write_rx, mirror, next_seq, pending, up, performed>>
        /\ Performing' \subseteq Performing
    BY <1>10 DEF EdgeReplies, EdgePublishes, EdgeTakes, EdgeForwards, EdgeWrites, Edge,
       mirror_vars, Performing
  <2>2. Len(edge_out') <= EdgeQueue /\ Len(down') <= NetLen
    <3>1. ASSUME NEW m, edge_out' = Append(edge_out, m), Len(edge_out) < EdgeQueue
          PROVE  Len(edge_out') <= EdgeQueue
      <4>1. Len(edge_out') = Len(edge_out) + 1
        BY <1>a, <3>1
      <4> QED
        BY <1>a, <3>1, <4>1
    <3>2. CASE EdgeReplies \/ EdgeForwards
      BY <1>b, <3>1, <3>2 DEF EdgeReplies, EdgeForwards
    <3>3. CASE EdgePublishes \/ EdgeTakes \/ UNCHANGED mirror_vars
      BY <1>b, <3>3 DEF EdgePublishes, EdgeTakes, mirror_vars
    <3>4. CASE EdgeWrites
      BY <1>a, <1>b, <1>c, <3>4 DEF EdgeWrites
    <3> QED
      BY <1>10, <3>2, <3>3, <3>4
  <2>3. OrderInv' /\ Unsent' \subseteq Unsent
    BY <1>b, <2>1, StagesShrink DEF Called, In, Asking, Sending
  <2> QED
    BY <1>b, <2>1, <2>2, <2>3, BoundKeeps DEF WriteInv
<1>11. CASE Disconnect
  <2>1. UNCHANGED <<write, write_rx, mirror, next_seq, pending, edge, edge_out, performed>>
        /\ up' \in {up, <<>>} /\ down' \in {down, <<>>}
    BY <1>11 DEF Disconnect, Edge
  <2>2. /\ Len(down') <= NetLen /\ Len(up') <= NetLen /\ Asking' \subseteq Asking
        /\ Rising(WritesOf(up'))
    BY <1>a, <1>b, <2>1, EmptySet DEF Asking, Rising, WritesOf
  <2>3. OrderInv' /\ Unsent' \subseteq Unsent
    BY <1>b, <2>1, <2>2, StagesShrink DEF Called, In, Sending, Performing
  <2> QED
    BY <1>b, <2>1, <2>2, <2>3, BoundKeeps DEF WriteInv
<1> QED
  BY <1>1, <1>2, <1>3, <1>4, <1>5, <1>6, <1>7, <1>8, <1>9, <1>10, <1>11
  DEF MirrorNext, SinkStep, MirrorStep, EdgeLoop, EdgeFeed

(* A write that is reported as done was taken by the edge's device, and    *)
(* no write reaches the device twice or out of the order in which they     *)
(* took the sink's lock (SourceManager::write, RemoteWriteSink::write      *)
(* and the mirror's loop), whatever times out, fails or breaks off.        *)
THEOREM WritesAreSound == MirrorSpec => []WritesSound
<1>1. MirrorInit => WriteInv
  <2> SUFFICES ASSUME MirrorInit PROVE WriteInv
    OBVIOUS
  <2>1. /\ write_rx = <<>> /\ up = <<>> /\ down = <<>> /\ edge_out = <<>> /\ performed = <<>>
        /\ mirror.pc = "select" /\ pending = {} /\ next_seq = 2
        /\ Called = {} /\ In("new") = Writes /\ Performing = {}
    BY DEF MirrorInit, Called, In, FirstWriteSeq, Performing
  <2>2. Range(write_rx) = {} /\ Range(performed) = {} /\ Asking = {} /\ Sending = {}
    BY <2>1, EmptySet DEF Asking, Sending
  <2>3. Unsent = Writes
    BY <2>1, <2>2 DEF Unsent
  <2>4. Rising(performed) /\ Rising(write_rx) /\ Rising(WritesOf(up))
    BY <2>1 DEF Rising, WritesOf
  <2>5. OrderInv
    BY <2>1, <2>2, <2>4 DEF OrderInv, Before
  <2>6. \A w \in Writes : 2 - 2 < w
    BY DEF Writes
  <2>7. BoundInv
    BY <2>1, <2>3, <2>6, MirrorAssumption DEF BoundInv, FirstWriteSeq
  <2> QED
    BY <2>5, <2>7 DEF WriteInv
<1>2. AckInv /\ WriteInv => WritesSound
  <2> SUFFICES ASSUME AckInv, WriteInv PROVE WritesSound
    OBVIOUS
  <2>1. MirrorTypeOK
    BY DEF MirrorTypeOK, AckInv, MirrorType, States, Numbered, WriteInv, BoundInv
  <2>2. PerformedInOrder /\ AckIsTrue
    BY DEF PerformedInOrder, AckInv, WriteInv, OrderInv, Rising
  <2> QED
    BY <2>1, <2>2 DEF WritesSound
<1> QED
  BY <1>1, <1>2, AckStart, AckStep, WriteStep, PTL DEF MirrorSpec

-----------------------------------------------------------------------------
(* The way of a frame: taken from the edge's ring, queued, under way,       *)
(* logged, published.                                                      *)
IsData(m) == m.kind \in {"target", "other"}
FramesIn(q) == {m.seq : m \in {d \in Range(q) : IsData(d)}}
DataRising(q) ==
  \A i, j \in DOMAIN q : i < j /\ IsData(q[i]) /\ IsData(q[j]) => q[i].seq < q[j].seq

(* A message is a frame that the edge published. *)
OfFrames(q) ==
  \A m \in Range(q) : IsData(m) => m.seq \in DOMAIN frames /\ frames[m.seq] = m.kind

(* The frame that the subscription holds, if any. *)
Held == IF IsData(feed.msg) THEN {feed.msg.seq} ELSE {}
HeldOfFrames ==
  IsData(feed.msg) => feed.msg.seq \in DOMAIN frames /\ frames[feed.msg.seq] = feed.msg.kind
Settled == skipped \cup Range(logged)

(* Each stage is in order and ahead of the stages before it; no frame of   *)
(* the target is missing before one that is under way, and none at all     *)
(* that the subscription has come past while the connection is up, but     *)
(* those that the ring had overwritten.                                    *)
FlowInv ==
  /\ logged \in Seq(Nat) /\ Range(logged) \subseteq DOMAIN frames
  /\ feed.next \in 1..(Len(frames) + 1)
  /\ OfFrames(down) /\ OfFrames(edge_out) /\ HeldOfFrames /\ ~IsData(edge.msg)
  /\ DataRising(down) /\ DataRising(edge_out)
  /\ Before(Range(logged), FramesIn(down) \cup FramesIn(edge_out) \cup Held)
  /\ Before(FramesIn(down), FramesIn(edge_out) \cup Held) /\ Before(FramesIn(edge_out), Held)
  /\ \A n \in Range(logged) \cup FramesIn(down) \cup FramesIn(edge_out) \cup Held :
       n < feed.next
  /\ \A d \in FramesIn(down) : \A n \in 1..d :
       IsTarget(n) => n \in Settled \cup FramesIn(down)
  /\ socket = "open" =>
       \A n \in 1..(feed.next - 1) :
         IsTarget(n) => n \in Settled \cup FramesIn(down) \cup FramesIn(edge_out) \cup Held

(* The mirror publishes what it has logged before it logs the next. *)
PublishInv ==
  /\ published \in Seq(Nat) /\ Len(published) <= Len(logged)
  /\ mirror.pc = "publish" => Len(logged) = Len(published) + 1
  /\ mirror.pc \in {"select", "sending"} => Len(logged) = Len(published)
  /\ \A i \in DOMAIN published : published[i] = logged[i]

FrameInv == FlowInv /\ LogFollowsEdge /\ PublishInv

(* What taking the head of a queue does to the frames in it, ... *)
LEMMA DataTake ==
  ASSUME NEW q \in Seq(Msgs), q # <<>>, DataRising(q)
  PROVE  /\ Head(q) \in Msgs /\ DataRising(Tail(q)) /\ Range(Tail(q)) \subseteq Range(q)
         /\ Head(q) \in Range(q)
         /\ ~IsData(Head(q)) => FramesIn(Tail(q)) = FramesIn(q)
         /\ IsData(Head(q)) => /\ FramesIn(q) = FramesIn(Tail(q)) \cup {Head(q).seq}
                               /\ \A d \in FramesIn(Tail(q)) : Head(q).seq < d
<1>1. /\ Len(q) \in Nat /\ Len(q) > 0 /\ DOMAIN q = 1..Len(q) /\ Head(q) = q[1]
      /\ Head(q) \in Msgs /\ DOMAIN Tail(q) = 1..(Len(q) - 1)
      /\ \A i \in 1..(Len(q) - 1) : Tail(q)[i] = q[i + 1]
  BY HeadTailProperties, EmptySeq
<1>2. \A i \in DOMAIN Tail(q) : i + 1 \in DOMAIN q /\ 1 \in DOMAIN q /\ 1 < i + 1
  BY <1>1
<1>3. \A j \in DOMAIN q : j = 1 \/ (j - 1 \in DOMAIN Tail(q) /\ Tail(q)[j - 1] = q[j])
  BY <1>1
<1>4. Range(q) = Range(Tail(q)) \cup {Head(q)}
  <2>1. Range(Tail(q)) \cup {Head(q)} \subseteq Range(q)
    BY TakeSet
  <2>2. \A j \in DOMAIN q : q[j] \in Range(Tail(q)) \cup {Head(q)}
    BY <1>1, <1>3, Zenon DEF Range
  <2> QED
    BY <2>1, <2>2 DEF Range
<1>5. DataRising(Tail(q))
  BY <1>1, <1>2 DEF DataRising
<1>6. \A m \in Range(Tail(q)) : IsData(m) /\ IsData(Head(q)) => Head(q).seq < m.seq
  BY <1>1, <1>2 DEF DataRising, Range
<1> QED
  BY <1>1, <1>4, <1>5, <1>6 DEF FramesIn

(* ... and what a message that joins it does. *)
LEMMA DataJoins ==
  ASSUME NEW q \in Seq(Msgs), NEW m \in Msgs, DataRising(q),
         IsData(m) => \A d \in FramesIn(q) : d < m.seq
  PROVE  /\ DataRising(Append(q, m)) /\ Range(Append(q, m)) = Range(q) \cup {m}
         /\ FramesIn(Append(q, m)) = FramesIn(q) \cup (IF IsData(m) THEN {m.seq} ELSE {})
<1> DEFINE a == Append(q, m)
<1>1. /\ Len(q) \in Nat /\ DOMAIN q = 1..Len(q) /\ DOMAIN a = 1..(Len(q) + 1)
      /\ a[Len(q) + 1] = m /\ \A i \in 1..Len(q) : a[i] = q[i]
  OBVIOUS
<1>2. Range(a) = Range(q) \cup {m}
  BY AppendSet
<1> HIDE DEF a
<1>3. FramesIn(a) = FramesIn(q) \cup (IF IsData(m) THEN {m.seq} ELSE {})
  BY <1>2 DEF FramesIn
<1>4. ASSUME NEW i \in DOMAIN a, NEW j \in DOMAIN a, i < j, IsData(a[i]), IsData(a[j])
      PROVE  a[i].seq < a[j].seq
  <2>1. i \in 1..Len(q) /\ (j \in 1..Len(q) \/ j = Len(q) + 1)
    BY <1>1, <1>4
  <2>2. a[i].seq \in FramesIn(q)
    BY <1>1, <1>4, <2>1 DEF FramesIn, Range
  <2> QED
    BY <1>1, <1>4, <2>1, <2>2 DEF DataRising
<1> QED
  BY <1>2, <1>3, <1>4 DEF DataRising, a

(* Steps that log and publish nothing and take no frame of the target out  *)
(* of the flow, unless the connection breaks and all of it is lost.        *)
LEMMA FlowKeeps ==
  ASSUME FrameInv, UNCHANGED <<edge_feed, logged, published>>,
         mirror'.pc = "publish" => mirror.pc = "publish",
         mirror'.pc \in {"select", "sending"} => mirror.pc \in {"select", "sending"},
         OfFrames(down'), OfFrames(edge_out'), ~IsData(edge'.msg),
         DataRising(down'), DataRising(edge_out'),
         FramesIn(down') \subseteq FramesIn(down), FramesIn(edge_out') = FramesIn(edge_out),
         FramesIn(down') # {} \/ socket' = "open" =>
           \A n \in FramesIn(down) : IsTarget(n) => n \in FramesIn(down'),
         socket' = "open" => socket = "open"
  PROVE  FrameInv'
<1>0. UNCHANGED <<frames, feed, skipped, Held, Settled>> /\ (HeldOfFrames <=> HeldOfFrames')
  BY DEF edge_feed, Held, Settled, HeldOfFrames
<1>1. LogFollowsEdge' /\ PublishInv'
  BY <1>0 DEF FrameInv, LogFollowsEdge, PublishInv, IsTarget
<1>2. OfFrames(down)' /\ OfFrames(edge_out)'
  BY <1>0 DEF OfFrames
<1>3. \A n : IsTarget(n)' <=> IsTarget(n)
  BY <1>0 DEF IsTarget
<1>4. FlowInv'
  BY <1>0, <1>2, <1>3 DEF FrameInv, FlowInv, Before
<1> QED
  BY <1>1, <1>4 DEF FrameInv

(* A frame of the target that comes in is the next one. *)
LEMMA LogNext ==
  ASSUME AckInv, FrameInv, ReceiveData, Head(down).kind = "target" PROVE FrameInv'
<1> DEFINE h == Head(down).seq
<1>1. /\ down \in Seq(Msgs) /\ down # <<>> /\ down' = Tail(down)
      /\ logged' = Append(logged, h) /\ mirror'.pc = "publish" /\ mirror.pc = "select"
      /\ UNCHANGED <<frames, feed, skipped, published, edge, edge_out, socket>>
  BY DEF ReceiveData, AckInv, MirrorType, edge_feed
<1>2. /\ DataRising(down') /\ Range(down') \subseteq Range(down) /\ IsTarget(h) /\ h \in Nat
      /\ FramesIn(down) = FramesIn(down') \cup {h}
      /\ \A d \in FramesIn(down') : h < d
  <2>1. IsData(Head(down))
    BY DEF IsData
  <2>2. /\ Head(down) \in Msgs /\ DataRising(down') /\ Range(down') \subseteq Range(down)
        /\ FramesIn(down) = FramesIn(down') \cup {h}
        /\ \A d \in FramesIn(down') : h < d
    BY <1>1, <2>1, DataTake DEF FrameInv, FlowInv
  <2>3. Head(down) \in Range(down)
    BY <1>1, TakeSet
  <2>4. IsTarget(h) /\ h \in Nat
    BY <2>1, <2>2, <2>3 DEF FrameInv, FlowInv, OfFrames, IsTarget, Msgs
  <2> QED
    BY <2>2, <2>4
<1> HIDE DEF h
<1>3. /\ logged \in Seq(Nat) /\ logged' \in Seq(Nat) /\ Range(logged') = Range(logged) \cup {h}
      /\ Len(logged') = Len(logged) + 1 /\ Len(logged) \in Nat
      /\ \A i \in 1..Len(logged) : logged'[i] = logged[i]
  <2>1. logged \in Seq(Nat)
    BY DEF FrameInv, FlowInv
  <2>2. logged' \in Seq(Nat) /\ Range(logged') = Range(logged) \cup {h}
    BY <1>1, <1>2, <2>1, AppendSet
  <2>3. /\ Len(logged') = Len(logged) + 1 /\ Len(logged) \in Nat
        /\ \A i \in 1..Len(logged) : logged'[i] = logged[i]
    BY <1>1, <1>2, <2>1, AppendProperties
  <2> QED
    BY <2>1, <2>2, <2>3
<1>4. /\ \A n : IsTarget(n)' <=> IsTarget(n)
      /\ Held' = Held /\ HeldOfFrames' = HeldOfFrames /\ Settled' = Settled \cup {h}
  BY <1>1, <1>3 DEF IsTarget, Held, HeldOfFrames, Settled
<1>5. \A y \in Range(logged) : y < h
  BY <1>2 DEF FrameInv, FlowInv, Before
<1>6. FlowInv'
  <2>1. OfFrames(down)' /\ OfFrames(edge_out)' /\ Range(logged') \subseteq DOMAIN frames'
    BY <1>1, <1>2, <1>3 DEF FrameInv, FlowInv, OfFrames, IsTarget
  <2>2. Before(Range(logged'), FramesIn(down') \cup FramesIn(edge_out') \cup Held)
    BY <1>1, <1>2, <1>3, Zenon DEF FrameInv, FlowInv, Before
  <2>3. Before(FramesIn(down'), FramesIn(edge_out') \cup Held) /\ Before(FramesIn(edge_out'), Held)
    BY <1>1, <1>2 DEF FrameInv, FlowInv, Before
  <2>4. \A n \in Range(logged') \cup FramesIn(down') \cup FramesIn(edge_out') \cup Held :
          n < feed.next
    BY <1>1, <1>2, <1>3 DEF FrameInv, FlowInv
  <2>5. \A d \in FramesIn(down') : \A n \in 1..d :
          IsTarget(n) => n \in Settled' \cup FramesIn(down')
    BY <1>2, <1>4 DEF FrameInv, FlowInv
  <2>6. socket' = "open" => \A n \in 1..(feed.next - 1) : IsTarget(n) =>
          n \in Settled' \cup FramesIn(down') \cup FramesIn(edge_out') \cup Held
    BY <1>1, <1>2, <1>4 DEF FrameInv, FlowInv
  <2>7. feed.next \in 1..(Len(frames) + 1) /\ HeldOfFrames /\ ~IsData(edge.msg)
        /\ DataRising(edge_out)
    BY DEF FrameInv, FlowInv
  <2> QED
    BY <1>1, <1>2, <1>3, <1>4, <2>1, <2>2, <2>3, <2>4, <2>5, <2>6, <2>7 DEF FlowInv
<1>7. LogFollowsEdge'
  <2>1. Rising(logged')
    BY <1>1, <1>2, <1>3, <1>5, RisingAppend, Zenon DEF FrameInv, LogFollowsEdge, Rising
  <2>2. \A i \in DOMAIN logged' :
          \/ i \in DOMAIN logged /\ logged'[i] = logged[i]
          \/ logged'[i] = h
    BY <1>1, <1>2, <1>3
  <2>3. \A n \in Range(logged') : \E j \in DOMAIN logged' : logged'[j] = n
    BY DEF Range
  <2>4. \A n \in 1..h : IsTarget(n) => n \in Settled'
    <3> SUFFICES ASSUME NEW n \in 1..h, IsTarget(n), n \notin Settled', n \in FramesIn(down)
                 PROVE  FALSE
      BY <1>2, <1>4 DEF FrameInv, FlowInv
    <3> QED
      BY <1>2, <1>4
  <2>5. \A i \in DOMAIN logged : \A n \in 1..logged[i] : IsTarget(n) => n \in Settled'
    BY <1>4, Zenon DEF FrameInv, LogFollowsEdge, Range, Settled
  <2>6. \A i \in DOMAIN logged' : IsTarget(logged'[i])
    BY <1>2, <2>2 DEF FrameInv, LogFollowsEdge
  <2>7. \A i \in DOMAIN logged' : \A n \in 1..logged'[i] : IsTarget(n) => n \in Settled'
    BY <2>2, <2>4, <2>5
  <2>8. \A n \in Settled' : n \in skipped' \/ \E j \in DOMAIN logged' : logged'[j] = n
    BY <2>3 DEF Settled
  <2> QED
    BY <1>4, <2>1, <2>6, <2>7, <2>8 DEF LogFollowsEdge, Rising
<1>8. PublishInv'
  BY <1>1, <1>3 DEF FrameInv, PublishInv
<1> QED
  BY <1>6, <1>7, <1>8 DEF FrameInv

(* The frame that was logged is published. *)
LEMMA PublishNext ==
  ASSUME AckInv, FrameInv, PublishData PROVE FrameInv'
<1>1. /\ published' = Append(published, logged[Len(logged)])
      /\ mirror.pc = "publish" /\ mirror'.pc = "select"
      /\ UNCHANGED <<down, edge, edge_out, frames, feed, skipped, logged, socket>>
  BY DEF PublishData, edge_feed
<1>2. FlowInv' /\ LogFollowsEdge'
  BY <1>1 DEF FrameInv, FlowInv, LogFollowsEdge, OfFrames, IsTarget, Held, HeldOfFrames,
     Settled
<1>3. /\ logged \in Seq(Nat) /\ published \in Seq(Nat) /\ Len(logged) = Len(published) + 1
      /\ Len(published) \in Nat
  <2>1. logged \in Seq(Nat) /\ published \in Seq(Nat)
    BY Zenon DEF FrameInv, FlowInv, PublishInv
  <2>2. Len(logged) = Len(published) + 1
    BY <1>1, Zenon DEF FrameInv, PublishInv
  <2> QED
    BY <2>1, <2>2
<1>4. logged[Len(logged)] = logged[Len(published) + 1] /\ logged[Len(logged)] \in Nat
  BY <1>3
<1> DEFINE x == logged[Len(logged)]
<1>5. x = logged[Len(published) + 1] /\ x \in Nat /\ published' = Append(published, x)
  BY <1>1, <1>4
<1> HIDE DEF x
<1>6. /\ published' \in Seq(Nat) /\ Len(published') = Len(published) + 1
      /\ DOMAIN published' = 1..(Len(published) + 1)
      /\ \A i \in 1..Len(published) : published'[i] = published[i]
      /\ published'[Len(published) + 1] = x
  BY <1>3, <1>5, AppendProperties
<1>7. \A i \in DOMAIN published' : published'[i] = logged[i]
  <2>1. \A i \in 1..Len(published) : published[i] = logged[i]
    BY <1>3 DEF FrameInv, PublishInv
  <2>2. \A i \in DOMAIN published' : i \in 1..Len(published) \/ i = Len(published) + 1
    BY <1>3, <1>6
  <2> QED
    BY <1>5, <1>6, <2>1, <2>2
<1>8. PublishInv'
  BY <1>1, <1>3, <1>6, <1>7 DEF PublishInv
<1> QED
  BY <1>2, <1>8 DEF FrameInv

(* A frame gets into the edge's ring, behind all that were taken from it. *)
LEMMA PublishesNext ==
  ASSUME AckInv, FrameInv, EdgePublishes PROVE FrameInv'
<1>1. PICK ch \in {"target", "other"} : frames' = Append(frames, ch)
  BY DEF EdgePublishes
<1>2. /\ frames \in Seq({"target", "other"})
      /\ UNCHANGED <<feed, skipped, logged, published, mirror, down, edge, edge_out, socket>>
  BY DEF AckInv, MirrorType, EdgePublishes, Edge
<1>3. /\ Len(frames) \in Nat /\ DOMAIN frames = 1..Len(frames)
      /\ Len(frames') = Len(frames) + 1 /\ DOMAIN frames' = 1..(Len(frames) + 1)
      /\ \A n \in DOMAIN frames : frames'[n] = frames[n]
  BY <1>1, <1>2
<1>4. \A n \in DOMAIN frames : n \in DOMAIN frames' /\ (IsTarget(n)' <=> IsTarget(n))
  BY <1>3 DEF IsTarget
<1>5. UNCHANGED <<Held, Settled, FramesIn(down), FramesIn(edge_out)>>
  BY <1>2 DEF Held, Settled
<1>6. feed.next \in 1..(Len(frames) + 1)
  BY DEF FrameInv, FlowInv
<1>7. FlowInv'
  <2>1. OfFrames(down)' /\ OfFrames(edge_out)' /\ HeldOfFrames'
    BY <1>2, <1>3, <1>4 DEF FrameInv, FlowInv, OfFrames, HeldOfFrames
  <2>2. ASSUME NEW d \in FramesIn(down), NEW n \in 1..d, IsTarget(n)'
        PROVE  n \in Settled \cup FramesIn(down)
    <3>1. d \in 1..Len(frames)
      BY <1>3 DEF FrameInv, FlowInv, OfFrames, FramesIn
    <3>2. n \in DOMAIN frames
      BY <1>3, <3>1
    <3> QED
      BY <1>4, <2>2, <3>2 DEF FrameInv, FlowInv
  <2>3. ASSUME socket = "open", NEW n \in 1..(feed.next - 1), IsTarget(n)'
        PROVE  n \in Settled \cup FramesIn(down) \cup FramesIn(edge_out) \cup Held
    <3>1. n \in DOMAIN frames
      BY <1>3, <1>6
    <3> QED
      BY <1>4, <2>3, <3>1 DEF FrameInv, FlowInv
  <2>4. feed'.next \in 1..(Len(frames') + 1) /\ Range(logged') \subseteq DOMAIN frames'
    BY <1>2, <1>3, <1>4, <1>6 DEF FrameInv, FlowInv
  <2> QED
    BY <1>2, <1>5, <2>1, <2>2, <2>3, <2>4 DEF FrameInv, FlowInv
<1>8. LogFollowsEdge'
  <2>1. \A i \in DOMAIN logged : logged[i] \in 1..Len(frames)
    BY <1>3 DEF Range, FrameInv, FlowInv
  <2>2. \A i \in DOMAIN logged : \A n \in 1..logged[i] : n \in DOMAIN frames
    BY <1>3, <2>1
  <2>3. \A i \in DOMAIN logged : IsTarget(logged[i])'
    BY <1>2, <1>3, <1>4, <2>1 DEF FrameInv, LogFollowsEdge, IsTarget
  <2> QED
    BY <1>2, <1>4, <2>2, <2>3 DEF FrameInv, LogFollowsEdge
<1>9. PublishInv'
  BY <1>2 DEF FrameInv, PublishInv
<1> QED
  BY <1>7, <1>8, <1>9 DEF FrameInv

(* The subscription takes the next frame, or goes past those that the ring *)
(* has overwritten.                                                        *)
LEMMA TakesNext ==
  ASSUME AckInv, FrameInv, EdgeTakes PROVE FrameInv'
<1>1. /\ frames \in Seq({"target", "other"}) /\ Len(frames) \in Nat
      /\ DOMAIN frames = 1..Len(frames) /\ feed.next \in 1..Len(frames) /\ EdgeRing \in Nat \ {0}
      /\ UNCHANGED <<frames, logged, published, mirror, down, edge, edge_out, socket>>
  BY MirrorAssumption DEF AckInv, MirrorType, EdgeTakes, Edge, FrameInv, FlowInv
<1>2. Held = {} /\ UNCHANGED <<FramesIn(down), FramesIn(edge_out), Range(logged)>>
  BY <1>1 DEF EdgeTakes, Held, NoFrame, IsData
<1>3. /\ \A n : IsTarget(n)' <=> IsTarget(n)
      /\ OfFrames(down)' /\ OfFrames(edge_out)' /\ PublishInv'
  BY <1>1 DEF IsTarget, FrameInv, FlowInv, OfFrames, PublishInv
<1>4. CASE /\ feed.next < Oldest /\ feed' = [next |-> Oldest, msg |-> NoFrame]
           /\ skipped' = skipped \cup feed.next..(Oldest - 1)
  <2>1. Oldest \in 1..(Len(frames) + 1) /\ feed'.next = Oldest
    BY <1>1, <1>4 DEF Oldest
  <2>2. /\ Held' = {} /\ HeldOfFrames' /\ Settled \subseteq Settled'
        /\ feed.next..(Oldest - 1) \subseteq Settled'
    BY <1>1, <1>4 DEF Held, HeldOfFrames, Settled, NoFrame, IsData
  <2>3. \A n \in Range(logged) \cup FramesIn(down) \cup FramesIn(edge_out) : n < Oldest
    <3>1. \A n \in Range(logged) \cup FramesIn(down) \cup FramesIn(edge_out) :
            n \in 1..Len(frames) /\ n < feed.next
      BY <1>1 DEF FrameInv, FlowInv, OfFrames, FramesIn
    <3> QED
      BY <1>1, <1>4, <2>1, <3>1
  <2>4. \A n \in 1..(Oldest - 1) : n \in 1..(feed.next - 1) \/ n \in feed.next..(Oldest - 1)
    BY <1>1, <2>1
  <2>5. socket = "open" => \A n \in 1..(Oldest - 1) :
          IsTarget(n) => n \in Settled' \cup FramesIn(down) \cup FramesIn(edge_out)
    BY <1>2, <2>2, <2>4 DEF FrameInv, FlowInv
  <2>6. FlowInv'
    BY <1>1, <1>2, <1>3, <2>1, <2>2, <2>3, <2>5 DEF FrameInv, FlowInv, Before
  <2>7. LogFollowsEdge'
    BY <1>1, <1>3, <1>4 DEF FrameInv, LogFollowsEdge
  <2> QED
    BY <1>3, <2>6, <2>7 DEF FrameInv
<1>5. CASE /\ feed' = [next |-> feed.next + 1, msg |-> Frame(feed.next, frames[feed.next])]
           /\ UNCHANGED skipped
  <2>1. feed'.next = feed.next + 1 /\ feed'.next \in 1..(Len(frames) + 1)
    BY <1>1, <1>5
  <2>2. Held' = {feed.next} /\ HeldOfFrames' /\ Settled' = Settled
    <3>1. frames[feed.next] \in {"target", "other"}
      BY <1>1
    <3> QED
      BY <1>1, <1>5, <3>1 DEF Held, HeldOfFrames, Settled, Frame, IsData
  <2>3. \A n \in Range(logged) \cup FramesIn(down) \cup FramesIn(edge_out) :
          n < feed.next /\ n < feed'.next
    <3>1. \A n \in Range(logged) \cup FramesIn(down) \cup FramesIn(edge_out) :
            n \in 1..Len(frames) /\ n < feed.next
      BY <1>1 DEF FrameInv, FlowInv, OfFrames, FramesIn
    <3> QED
      BY <1>1, <2>1, <3>1
  <2>4. \A n \in 1..(feed'.next - 1) : n \in 1..(feed.next - 1) \/ n = feed.next
    BY <1>1, <2>1
  <2>5. socket = "open" => \A n \in 1..(feed'.next - 1) :
          IsTarget(n) => n \in Settled \cup FramesIn(down) \cup FramesIn(edge_out) \cup Held'
    BY <1>2, <2>2, <2>4 DEF FrameInv, FlowInv
  <2>6. feed.next < feed'.next
    BY <1>1, <2>1
  <2>7. FlowInv'
    BY <1>1, <1>2, <1>3, <2>1, <2>2, <2>3, <2>5, <2>6 DEF FrameInv, FlowInv, Before
  <2>8. LogFollowsEdge'
    BY <1>1, <1>3, <1>5 DEF FrameInv, LogFollowsEdge
  <2> QED
    BY <1>3, <2>7, <2>8 DEF FrameInv
<1> QED
  BY <1>4, <1>5 DEF EdgeTakes

(* The frame that the subscription holds is queued, the last. *)
LEMMA ForwardNext ==
  ASSUME AckInv, FrameInv, EdgeForwards PROVE FrameInv'
<1> DEFINE f == feed.msg
<1>1. /\ edge_out \in Seq(Msgs) /\ f \in Msgs /\ edge_out' = Append(edge_out, f)
      /\ feed' = [feed EXCEPT !.msg = NoFrame] /\ feed \in [next : Nat \ {0}, msg : Msgs]
      /\ UNCHANGED <<frames, skipped, logged, published, mirror, down, edge, socket>>
  BY DEF AckInv, MirrorType, EdgeForwards, Edge
<1>2. feed'.next = feed.next /\ Held' = {} /\ HeldOfFrames'
  BY <1>1 DEF Held, HeldOfFrames, NoFrame, IsData
<1>3. /\ DataRising(edge_out') /\ Range(edge_out') = Range(edge_out) \cup {f}
      /\ FramesIn(edge_out') = FramesIn(edge_out) \cup Held
  <2>1. IsData(f) => \A d \in FramesIn(edge_out) : d < f.seq
    BY DEF FrameInv, FlowInv, Before, Held
  <2>2. Held = IF IsData(f) THEN {f.seq} ELSE {}
    BY DEF Held
  <2> HIDE DEF f
  <2> QED
    BY <1>1, <2>1, <2>2, DataJoins DEF FrameInv, FlowInv
<1>4. OfFrames(down)' /\ OfFrames(edge_out)'
  BY <1>1, <1>3 DEF FrameInv, FlowInv, OfFrames, HeldOfFrames
<1>5. /\ \A n : IsTarget(n)' <=> IsTarget(n)
      /\ UNCHANGED <<Settled, FramesIn(down), Range(logged)>>
  BY <1>1 DEF IsTarget, Settled
<1>6. FlowInv'
  BY <1>1, <1>2, <1>3, <1>4, <1>5 DEF FrameInv, FlowInv, Before
<1>7. LogFollowsEdge' /\ PublishInv'
  BY <1>1 DEF FrameInv, LogFollowsEdge, PublishInv, IsTarget
<1> QED
  BY <1>6, <1>7 DEF FrameInv

(* The edge's writer puts the first of its queue on the way. *)
LEMMA EdgeWritesNext ==
  ASSUME AckInv, FrameInv, EdgeWrites PROVE FrameInv'
<1> DEFINE m == Head(edge_out)
<1>1. /\ edge_out \in Seq(Msgs) /\ edge_out # <<>> /\ down \in Seq(Msgs)
      /\ down' = Append(down, m) /\ edge_out' = Tail(edge_out)
      /\ socket = "open"
      /\ UNCHANGED <<logged, published, mirror, edge, frames, feed, skipped, socket>>
  BY DEF AckInv, MirrorType, EdgeWrites, Edge, edge_feed
<1>2. /\ m \in Msgs /\ m \in Range(edge_out) /\ Range(edge_out') \subseteq Range(edge_out)
      /\ DataRising(edge_out')
      /\ ~IsData(m) => FramesIn(edge_out') = FramesIn(edge_out)
      /\ IsData(m) => /\ FramesIn(edge_out) = FramesIn(edge_out') \cup {m.seq}
                      /\ \A d \in FramesIn(edge_out') : m.seq < d
  BY <1>1, DataTake DEF FrameInv, FlowInv
<1> HIDE DEF m
<1>3. IsData(m) => m.seq \in FramesIn(edge_out) /\ m.seq \in DOMAIN frames /\ frames[m.seq] = m.kind
  BY <1>2 DEF FrameInv, FlowInv, OfFrames
<1>4. /\ DataRising(down') /\ Range(down') = Range(down) \cup {m}
      /\ FramesIn(down') = FramesIn(down) \cup (IF IsData(m) THEN {m.seq} ELSE {})
  <2>1. IsData(m) => \A d \in FramesIn(down) : d < m.seq
    BY <1>3 DEF FrameInv, FlowInv, Before
  <2> QED
    BY <1>1, <1>2, <2>1, DataJoins DEF FrameInv, FlowInv
<1>5. OfFrames(down)' /\ OfFrames(edge_out)'
  BY <1>1, <1>2, <1>3, <1>4 DEF FrameInv, FlowInv, OfFrames
<1>6. /\ \A n : IsTarget(n)' <=> IsTarget(n)
      /\ UNCHANGED <<Held, Settled>> /\ HeldOfFrames' = HeldOfFrames
  BY <1>1 DEF IsTarget, Held, Settled, HeldOfFrames
<1>7. FramesIn(down') \cup FramesIn(edge_out') = FramesIn(down) \cup FramesIn(edge_out)
  BY <1>2, <1>4
<1>8. FlowInv'
  <2>1. /\ Before(Range(logged'), FramesIn(down') \cup FramesIn(edge_out') \cup Held)
        /\ \A n \in Range(logged') \cup FramesIn(down') \cup FramesIn(edge_out') \cup Held :
             n < feed.next
    BY <1>1, <1>7 DEF FrameInv, FlowInv, Before
  <2>2. Before(FramesIn(down'), FramesIn(edge_out') \cup Held) /\ Before(FramesIn(edge_out'), Held)
    BY <1>2, <1>4 DEF FrameInv, FlowInv, Before
  <2>3. ASSUME NEW d \in FramesIn(down'), NEW n \in 1..d, IsTarget(n)
        PROVE  n \in Settled \cup FramesIn(down')
    <3>1. CASE d \in FramesIn(down)
      BY <1>4, <2>3, <3>1 DEF FrameInv, FlowInv
    <3>2. CASE IsData(m) /\ d = m.seq
      <4>0. /\ m.seq \in Nat /\ m.seq < feed.next /\ feed.next \in Nat
            /\ \A e \in Held : m.seq < e /\ e \in Nat
        <5>1. m.seq \in Nat
          BY <1>2 DEF Msgs
        <5>2. m.seq < feed.next /\ \A e \in Held : m.seq < e
          BY <1>3, <3>2 DEF FrameInv, FlowInv, Before
        <5>3. feed.next \in Nat /\ \A e \in Held : e \in Nat
          BY DEF AckInv, MirrorType, Held, Msgs
        <5> QED
          BY <5>1, <5>2, <5>3
      <4>a. n \in 1..(feed.next - 1) /\ n \notin Held
        BY <3>2, <4>0
      <4>1. n \in Settled \cup FramesIn(down) \cup FramesIn(edge_out)
        BY <1>1, <2>3, <4>a DEF FrameInv, FlowInv
      <4>2. m.seq \in Nat /\ \A e \in FramesIn(edge_out') : ~(e <= m.seq)
        <5>1. \A e \in FramesIn(edge_out') : e \in Nat
          <6>1. \A x \in Range(edge_out) : x.seq \in Nat
            <7>1. \A i \in DOMAIN edge_out : edge_out[i] \in Msgs
              BY <1>1
            <7> QED
              BY <7>1 DEF Range, Msgs
          <6> QED
            BY <1>2, <6>1 DEF FramesIn
        <5>2. m.seq \in Nat
          BY <1>2 DEF Msgs
        <5> QED
          BY <1>2, <3>2, <5>1, <5>2
      <4>3. n \notin FramesIn(edge_out')
        BY <3>2, <4>2
      <4> QED
        BY <1>2, <1>4, <3>2, <4>1, <4>3
    <3> QED
      BY <1>4, <3>1, <3>2
  <2>4. \A n \in 1..(feed.next - 1) :
          IsTarget(n) => n \in Settled \cup FramesIn(down') \cup FramesIn(edge_out') \cup Held
    BY <1>1, <1>7 DEF FrameInv, FlowInv
  <2> QED
    BY <1>1, <1>2, <1>4, <1>5, <1>6, <2>1, <2>2, <2>3, <2>4 DEF FrameInv, FlowInv
<1>9. LogFollowsEdge' /\ PublishInv'
  BY <1>1 DEF FrameInv, LogFollowsEdge, PublishInv, IsTarget
<1> QED
  BY <1>8, <1>9 DEF FrameInv

(* Every step keeps the frames in order and complete. *)
LEMMA FrameStep ==
  ASSUME AckInv, FrameInv, [MirrorNext]_mirror_vars PROVE FrameInv'
<1>a. /\ down \in Seq(Msgs) /\ edge_out \in Seq(Msgs) /\ edge.msg \in Msgs
      /\ OfFrames(down) /\ OfFrames(edge_out) /\ ~IsData(edge.msg)
      /\ DataRising(down) /\ DataRising(edge_out)
  BY DEF AckInv, MirrorType, FrameInv, FlowInv
<1>0. Range(<<>>) = {} /\ FramesIn(<<>>) = {} /\ OfFrames(<<>>) /\ DataRising(<<>>)
  BY EmptySet DEF FramesIn, OfFrames, DataRising
<1>1. CASE \/ \E w \in Writes : Lock(w) \/ QueueRequest(w) \/ WriteTimesOut(w)
           \/ TakeRequest \/ SendRequest \/ UNCHANGED mirror_vars
  <2>1. /\ UNCHANGED <<edge_feed, logged, published, down, edge, edge_out, socket>>
        /\ mirror'.pc = "publish" => mirror.pc = "publish"
        /\ mirror'.pc \in {"select", "sending"} => mirror.pc \in {"select", "sending"}
    <3>1. CASE \E w \in Writes : Lock(w) \/ QueueRequest(w) \/ WriteTimesOut(w)
      BY <3>1 DEF Lock, QueueRequest, WriteTimesOut
    <3>2. CASE TakeRequest \/ SendRequest
      BY <3>2 DEF TakeRequest, SendRequest
    <3>3. CASE UNCHANGED mirror_vars
      BY <3>3 DEF mirror_vars, edge_feed
    <3> QED
      BY <1>1, <3>1, <3>2, <3>3
  <2> QED
    BY <1>a, <2>1, FlowKeeps
<1>b. ASSUME MirrorReturns, UNCHANGED <<edge_feed, logged, published, edge, edge_out>>
      PROVE  FrameInv'
  <2>1. down' = <<>> /\ socket' = "closed" /\ mirror'.pc = "ended"
    BY <1>b DEF MirrorReturns
  <2> QED
    BY <1>0, <1>a, <1>b, <2>1, FlowKeeps
<1>c. CASE SendFails \/ EncodeWriteFails \/ AppendFails \/ ReceiveClosed \/ MirrorAborted
  BY <1>b, <1>c DEF SendFails, EncodeWriteFails, AppendFails, ReceiveClosed, MirrorAborted
<1>2. ASSUME down # <<>>, down' = Tail(down), Head(down).kind # "target",
             UNCHANGED <<edge_feed, logged, published, edge, edge_out, socket>>,
             mirror'.pc = "publish" => mirror.pc = "publish",
             mirror'.pc \in {"select", "sending"} => mirror.pc \in {"select", "sending"}
      PROVE  FrameInv'
  <2>1. /\ DataRising(down') /\ Range(down') \subseteq Range(down)
        /\ ~IsData(Head(down)) => FramesIn(down') = FramesIn(down)
        /\ IsData(Head(down)) => FramesIn(down) = FramesIn(down') \cup {Head(down).seq}
    BY <1>2, <1>a, DataTake
  <2>2. IsData(Head(down)) => ~IsTarget(Head(down).seq)
    <3>1. Head(down) \in Range(down)
      BY <1>2, <1>a, TakeSet
    <3> QED
      BY <1>2, <1>a, <3>1 DEF OfFrames, IsTarget
  <2>3. OfFrames(down')
    BY <1>a, <2>1 DEF OfFrames
  <2>4. FramesIn(down') \subseteq FramesIn(down)
        /\ \A n \in FramesIn(down) : IsTarget(n) => n \in FramesIn(down')
    BY <2>1, <2>2
  <2> QED
    BY <1>2, <1>a, <2>1, <2>3, <2>4, FlowKeeps
<1>3. CASE ReceiveCtl
  BY <1>2, <1>3, <1>b DEF ReceiveCtl
<1>4. CASE ReceiveData
  <2>1. CASE Head(down).kind = "target"
    BY <1>4, <2>1, LogNext
  <2>2. CASE Head(down).kind = "other"
    BY <1>2, <1>4, <2>2 DEF ReceiveData
  <2> QED
    BY <1>4, <2>1, <2>2 DEF ReceiveData
<1>5. CASE EdgeRead \/ EdgeDevice
  <2>1. UNCHANGED <<edge_feed, logged, published, mirror, down, edge_out, socket>>
    BY <1>5 DEF EdgeRead, EdgeDevice, Edge
  <2>2. CASE EdgeRead
    <3>1. edge'.msg = Head(up) /\ Head(up) \in Range(up)
      BY <2>2, TakeSet DEF EdgeRead, AckInv, MirrorType
    <3>2. Head(up).kind = "write"
      BY <3>1 DEF AckInv, Asked, Requests
    <3> QED
      BY <1>a, <2>1, <3>1, <3>2, FlowKeeps DEF IsData
  <2>3. CASE EdgeDevice
    <3>1. ~IsData(edge'.msg)
      BY <2>3 DEF EdgeDevice, Ack, Error, IsData
    <3> QED
      BY <1>a, <2>1, <3>1, FlowKeeps
  <2> QED
    BY <1>5, <2>2, <2>3
<1>6. CASE EdgeReplies
  <2>1. /\ UNCHANGED <<edge_feed, logged, published, mirror, down, socket>>
        /\ edge_out' = Append(edge_out, edge.msg) /\ ~IsData(edge'.msg)
    BY <1>6 DEF EdgeReplies, Edge, NoFrame, IsData
  <2>2. /\ DataRising(edge_out') /\ Range(edge_out') = Range(edge_out) \cup {edge.msg}
        /\ FramesIn(edge_out') = FramesIn(edge_out)
    BY <1>a, <2>1, DataJoins, Zenon
  <2>3. OfFrames(edge_out')
    BY <1>a, <2>2 DEF OfFrames
  <2> QED
    BY <1>a, <2>1, <2>2, <2>3, FlowKeeps
<1>7. CASE Disconnect
  <2>1. /\ UNCHANGED <<edge_feed, logged, published, mirror, edge, edge_out>>
        /\ down' \in {down, <<>>} /\ socket' = "closed"
    BY <1>7 DEF Disconnect, Edge
  <2>2. CASE down' = down
    BY <1>a, <2>1, <2>2, FlowKeeps
  <2>3. CASE down' = <<>>
    BY <1>0, <1>a, <2>1, <2>3, FlowKeeps
  <2> QED
    BY <2>1, <2>2, <2>3
<1> QED
  BY <1>1, <1>c, <1>3, <1>4, <1>5, <1>6, <1>7, PublishNext, PublishesNext, TakesNext,
     ForwardNext, EdgeWritesNext
  DEF MirrorNext, SinkStep, MirrorStep, EdgeLoop, EdgeFeed

(* The session-dir of a mirror holds what the edge published on the target *)
(* channel, in order and each frame once; before the last that it holds    *)
(* none is missing but those that the edge's own ring dropped, and local   *)
(* subscribers see only what is in it (remote_mirror.rs: append_raw before *)
(* publish, the channel filter), whatever the writes that are proxied at   *)
(* the same time do, and wherever the connection breaks.                   *)
THEOREM MirrorLogFollows == MirrorSpec => []MirrorLogSound
<1>1. MirrorInit => FrameInv
  <2> SUFFICES ASSUME MirrorInit PROVE FrameInv
    OBVIOUS
  <2>1. /\ logged = <<>> /\ published = <<>> /\ frames = <<>> /\ down = <<>> /\ edge_out = <<>>
        /\ ~IsData(edge.msg) /\ feed.next = 1 /\ ~IsData(feed.msg)
    BY DEF MirrorInit, NoFrame, IsData
  <2>2. Range(<<>>) = {} /\ FramesIn(<<>>) = {} /\ OfFrames(<<>>) /\ DataRising(<<>>)
    BY EmptySet DEF FramesIn, OfFrames, DataRising
  <2>3. FlowInv
    BY <2>1, <2>2 DEF FlowInv, Before, Held, HeldOfFrames
  <2>4. LogFollowsEdge
    BY <2>1 DEF LogFollowsEdge
  <2>5. PublishInv
    BY <2>1 DEF MirrorInit, PublishInv
  <2> QED
    BY <2>3, <2>4, <2>5 DEF FrameInv
<1>2. FrameInv => MirrorLogSound
  BY DEF FrameInv, PublishInv, MirrorLogSound
<1> QED
  BY <1>1, <1>2, AckStart, AckStep, FrameStep, PTL DEF MirrorSpec

-----------------------------------------------------------------------------
(* The subscription tasks of a connection. *)

FeedMsgs == [kind : {"none", "reply", "pong", "data"}, n : Nat, pos : Int]
Feeds == [pc : {"unused", "recv", "send", "ended"}, key : Keys \cup {None},
          chan : Nat, start : Int, pos : Int, msg : FeedMsgs]

(* The types that the tasks need. *)
FeedType ==
  /\ chan \in Seq(Nat) /\ Len(chan) > 0
  /\ requests \in Nat
  /\ subscriptions \in [Keys -> Tasks \cup {None}]
  /\ task \in [Tasks -> Feeds]
  /\ \A t \in Tasks :
       Running(t) => task[t].key \in Keys /\ task[t].chan \in DOMAIN chan

(* Tasks are numbered by the request that made them. *)
Fresh == \A t \in Tasks : t > requests => task[t].pc = "unused"

(* The end of the loop leaves an empty map, and waits for the writer. *)
Ending ==
  /\ loop.pc \in {"drain", "done"} => \A k \in Keys : subscriptions[k] = None
  /\ loop.pc = "done" => writer = "ended"

FeedInv == FeedType /\ Fresh /\ OneFeedPerKey /\ Ending

-----------------------------------------------------------------------------
(* A connection starts with no task. *)
LEMMA FeedStart == Init => FeedInv
<1> SUFFICES ASSUME Init PROVE FeedInv
  OBVIOUS
<1>1. Unused \in Feeds /\ Unused.pc = "unused"
  BY DEF Unused, Feeds, FeedMsgs, NoMsg
<1>2. FeedType
  BY <1>1 DEF Init, FeedType, Running
<1> QED
  BY <1>1, <1>2 DEF Init, FeedInv, Fresh, OneFeedPerKey, Ending, Running

(* Steps that leave the tasks and the map alone, and the loop where it is  *)
(* or on its way through "read" to "close".                                *)
LEMMA LoopOnly ==
  ASSUME FeedInv, UNCHANGED <<session, subscriptions, task, aborted>>,
         requests' \in Nat, requests' >= requests,
         loop'.pc \in {"drain", "done"} =>
           /\ loop.pc \in {"drain", "done"}
           /\ loop'.pc = "done" => writer' = "ended"
  PROVE  FeedInv'
<1>1. FeedType' /\ OneFeedPerKey'
  BY DEF FeedInv, FeedType, OneFeedPerKey, Running, session
<1>2. Fresh'
  BY DEF FeedInv, FeedType, Fresh, Tasks
<1>3. Ending'
  BY DEF FeedInv, Ending
<1> QED
  BY <1>1, <1>2, <1>3 DEF FeedInv

(* Steps of one running task, which may end it. *)
LEMMA TaskOnly ==
  ASSUME FeedInv, NEW t \in Tasks, Running(t), task' \in [Tasks -> Feeds],
         \A u \in Tasks \ {t} : task'[u] = task[u],
         task'[t].key = task[t].key, task'[t].chan = task[t].chan,
         UNCHANGED <<session, subscriptions, aborted, requests, loop, writer>>
  PROVE  FeedInv'
<1>1. FeedType'
  BY DEF FeedInv, FeedType, Running, session
<1>2. Fresh'
  BY DEF FeedInv, FeedType, Fresh, Running
<1>3. OneFeedPerKey'
  BY DEF FeedInv, FeedType, OneFeedPerKey, Running
<1>4. Ending'
  BY DEF FeedInv, Ending
<1> QED
  BY <1>1, <1>2, <1>3, <1>4 DEF FeedInv

(* The session's steps. *)
LEMMA SessionStep ==
  ASSUME FeedInv, Publish \/ Register \/ RemoveSession PROVE FeedInv'
<1>1. /\ chan' \in Seq(Nat) /\ Len(chan') > 0
      /\ DOMAIN chan \subseteq DOMAIN chan'
  <2>1. CASE Publish
    BY <2>1 DEF FeedInv, FeedType, Publish
  <2>2. CASE Register
    BY <2>2 DEF FeedInv, FeedType, Register
  <2>3. CASE RemoveSession
    BY <2>3 DEF FeedInv, FeedType, RemoveSession
  <2> QED
    BY <2>1, <2>2, <2>3
<1>2. UNCHANGED Connection
  BY DEF Publish, Register, RemoveSession
<1> QED
  BY <1>1, <1>2 DEF FeedInv, FeedType, Fresh, OneFeedPerKey, Ending, Running,
                    Connection, ghosts

(* sub and unsub change the map together with the tasks. *)
LEMMA SubscribeStep ==
  ASSUME FeedInv, NEW k \in Keys, Subscribe(k) PROVE FeedInv'
<1>1. /\ requests' = requests + 1 /\ requests' \in Tasks /\ loop.pc = "read"
      /\ requests' \in Nat /\ requests' >= requests
      /\ UNCHANGED <<session, aborted>>
  BY WsAssumption DEF FeedInv, FeedType, Subscribe, Read, Tasks
<1>2. CASE SubscribedAlready(k)
  <2>1. UNCHANGED <<loop, subscriptions, task>>
    BY <1>2 DEF SubscribedAlready
  <2> QED
    BY <1>1, <2>1, LoopOnly
<1>3. CASE SubscribeRefused(k)
  <2>1. loop'.pc = "queue" /\ UNCHANGED <<subscriptions, task>>
    BY <1>3 DEF SubscribeRefused, Answer
  <2> QED
    BY <1>1, <2>1, LoopOnly
<1>4. CASE SubscribeNew(k)
  <2> DEFINE end == chan[Len(chan)]
             r == [pc |-> "recv", key |-> k, chan |-> Len(chan),
                   start |-> end, pos |-> end, msg |-> NoMsg]
  <2>1. /\ subscriptions[k] = None
        /\ subscriptions' = [subscriptions EXCEPT ![k] = requests']
        /\ task' = [task EXCEPT ![requests'] = r]
        /\ loop' = loop
    BY <1>4 DEF SubscribeNew, FeedFrom
  <2>2. r \in Feeds /\ r.pc = "recv" /\ r.key = k /\ r.chan \in DOMAIN chan
    <3>1. Len(chan) \in DOMAIN chan /\ Len(chan) \in Nat /\ end \in Nat
      BY DEF FeedInv, FeedType
    <3>2. NoMsg \in FeedMsgs
      BY DEF NoMsg, FeedMsgs
    <3> QED
      BY <3>1, <3>2 DEF Feeds
  <2> HIDE DEF r
  <2>3. FeedType'
    BY <1>1, <2>1, <2>2 DEF FeedInv, FeedType, Running, session
  <2>4. Fresh'
    BY <1>1, <2>1 DEF FeedInv, FeedType, Fresh, Tasks
  <2>5. OneFeedPerKey'
    <3> SUFFICES ASSUME NEW t \in Tasks, Running(t)', t \notin aborted'
                 PROVE  subscriptions'[task'[t].key] = t
      BY DEF OneFeedPerKey
    <3>1. CASE t = requests'
      BY <1>1, <2>1, <2>2, <3>1 DEF FeedInv, FeedType
    <3>2. CASE t # requests'
      <4>1. task'[t] = task[t] /\ Running(t) /\ t \notin aborted
        BY <1>1, <2>1, <3>2 DEF FeedInv, FeedType, Running
      <4>2. subscriptions[task[t].key] = t /\ task[t].key \in Keys
        BY <4>1 DEF FeedInv, FeedType, OneFeedPerKey
      <4>3. task[t].key # k
        BY <2>1, <4>2, WsAssumption DEF Tasks
      <4> QED
        BY <2>1, <4>1, <4>2, <4>3 DEF FeedInv, FeedType
    <3> QED
      BY <3>1, <3>2
  <2>6. Ending'
    BY <1>1, <2>1 DEF Ending
  <2> QED
    BY <2>3, <2>4, <2>5, <2>6 DEF FeedInv
<1> QED
  BY <1>2, <1>3, <1>4 DEF Subscribe

(* Unsubscribe aborts the feed of the key. *)
LEMMA UnsubscribeStep ==
  ASSUME FeedInv, NEW k \in Keys, Unsubscribe(k) PROVE FeedInv'
<1>1. /\ requests' = requests + 1 /\ loop.pc = "read"
      /\ subscriptions' = [subscriptions EXCEPT ![k] = None]
      /\ aborted' = aborted \cup ({subscriptions[k]} \ {None})
      /\ UNCHANGED <<session, task, loop>>
  BY DEF Unsubscribe, Read
<1>2. FeedType' /\ Fresh' /\ Ending'
  BY <1>1 DEF FeedInv, FeedType, Fresh, Ending, Running, session, Tasks
<1>3. OneFeedPerKey'
  BY <1>1, WsAssumption DEF FeedInv, FeedType, OneFeedPerKey, Running, Tasks
<1> QED
  BY <1>2, <1>3 DEF FeedInv

(* The loop ends: what the map still holds is aborted. *)
LEMMA CloseStep ==
  ASSUME FeedInv, Close PROVE FeedInv'
<1>1. /\ loop'.pc = "drain"
      /\ subscriptions' = [k \in Keys |-> None]
      /\ aborted' = aborted \cup ({subscriptions[k] : k \in Keys} \ {None})
      /\ UNCHANGED <<session, task, requests>>
  BY DEF Close
<1>2. FeedType' /\ Fresh' /\ Ending'
  BY <1>1 DEF FeedInv, FeedType, Fresh, Ending, Running, session
<1>3. OneFeedPerKey'
  BY <1>1, WsAssumption DEF FeedInv, FeedType, OneFeedPerKey, Running, Tasks
<1> QED
  BY <1>2, <1>3 DEF FeedInv

(* A task that runs keeps its key and its channel. *)
LEMMA TaskKept ==
  ASSUME FeedInv, NEW t \in Tasks, TaskStep(t) PROVE FeedInv'
<1>1. /\ Running(t) /\ task \in [Tasks -> Feeds] /\ Fed(t) \in Nat
      /\ task[t].pos \in Int /\ Capacity \in Nat
  BY WsAssumption DEF FeedInv, FeedType, TaskStep, Receive, Forward,
     AbortTakesEffect, Running, Fed, Feeds
<1>2. UNCHANGED <<session, subscriptions, aborted, requests, loop, writer>>
  BY DEF TaskStep, Receive, Forward, AbortTakesEffect
<1> DEFINE kept == /\ task' \in [Tasks -> Feeds]
                   /\ \A u \in Tasks \ {t} : task'[u] = task[u]
                   /\ task'[t].key = task[t].key /\ task'[t].chan = task[t].chan
<1>3. ASSUME Receive(t) PROVE kept
  <2>1. CASE Overtaken(t)
    <3>1. Fed(t) - Capacity \in Int
      BY <1>1
    <3> QED
      BY <1>1, <2>1, <3>1 DEF Overtaken, Feeds
  <2>2. CASE TakeFrame(t)
    <3>1. /\ task[t].pos + 1 \in Int
          /\ Data(t, task[t].pos + 1) \in FeedMsgs
      BY <1>1 DEF Data, FeedMsgs, Tasks
    <3> QED
      BY <1>1, <2>2, <3>1, Zenon DEF TakeFrame, Feeds
  <2>3. CASE FeedEnds(t)
    BY <1>1, <2>3 DEF FeedEnds, Feeds
  <2> QED
    BY <1>3, <2>1, <2>2, <2>3 DEF Receive
<1>4. ASSUME Forward(t) \/ AbortTakesEffect(t) PROVE kept
  <2>1. NoMsg \in FeedMsgs
    BY DEF NoMsg, FeedMsgs
  <2>2. \/ task' = [task EXCEPT ![t].pc = "recv", ![t].msg = NoMsg]
        \/ task' = [task EXCEPT ![t].pc = "ended", ![t].msg = NoMsg]
    BY <1>4 DEF Forward, AbortTakesEffect
  <2>3. CASE task' = [task EXCEPT ![t].pc = "recv", ![t].msg = NoMsg]
    BY <1>1, <2>1, <2>3, Zenon DEF Feeds
  <2>4. CASE task' = [task EXCEPT ![t].pc = "ended", ![t].msg = NoMsg]
    BY <1>1, <2>1, <2>4, Zenon DEF Feeds
  <2> QED
    BY <2>2, <2>3, <2>4
<1>5. kept
  BY <1>3, <1>4 DEF TaskStep
<1> QED
  BY <1>1, <1>2, <1>5, TaskOnly

(* Every step keeps the invariant. *)
LEMMA FeedStep == FeedInv /\ [Next]_vars => FeedInv'
<1> SUFFICES ASSUME FeedInv, [Next]_vars PROVE FeedInv'
  OBVIOUS
<1>a. requests \in Nat
  BY DEF FeedInv, FeedType
<1>1. ASSUME ReadRequest \/ ReadPing \/ ReadOther PROVE FeedInv'
  <2>1. /\ requests' = requests + 1 /\ loop'.pc \in {"read", "handle", "queue"}
        /\ UNCHANGED <<session, subscriptions, task, aborted>>
    BY <1>1 DEF ReadRequest, ReadPing, ReadOther, Read, Answer
  <2>2. requests' \in Nat /\ requests' >= requests
    BY <1>a, <2>1
  <2> QED
    BY <2>1, <2>2, LoopOnly
<1>2. ASSUME HandlerReturns \/ ReadEnds \/ EncodeFails \/ QueueReply PROVE FeedInv'
  <2>1. /\ loop'.pc \in {"read", "queue", "close"}
        /\ UNCHANGED <<session, subscriptions, task, aborted, requests>>
    BY <1>2 DEF HandlerReturns, Answer, ReadEnds, EncodeFails, QueueReply
  <2> QED
    BY <1>a, <2>1, LoopOnly
<1>3. ASSUME Closed PROVE FeedInv'
  <2>1. /\ loop.pc = "drain" /\ loop'.pc = "done" /\ writer' = "ended"
        /\ UNCHANGED <<session, subscriptions, task, aborted, requests>>
    BY <1>3 DEF Closed
  <2> QED
    BY <1>a, <2>1, LoopOnly
<1>4. ASSUME WriterSends \/ WriterEnds \/ PeerVanishes \/ UNCHANGED vars
      PROVE  FeedInv'
  <2>1. UNCHANGED <<session, subscriptions, task, aborted, requests, loop>>
    BY <1>4 DEF WriterSends, WriterEnds, PeerVanishes, vars
  <2>2. loop.pc = "done" => writer' = "ended"
    BY <1>4 DEF FeedInv, Ending, WriterSends, WriterEnds, PeerVanishes, vars
  <2> QED
    BY <1>a, <2>1, <2>2, LoopOnly
<1> QED
  BY <1>1, <1>2, <1>3, <1>4, SessionStep, SubscribeStep, UnsubscribeStep,
     CloseStep, TaskKept DEF Next, LoopStep, WriterStep

(* A key has one feed at most, which the map knows and so can stop, and no *)
(* task outlives the connection unless it was told to stop                 *)
(* (subscribe_session, unsubscribe_session and the end of the connection). *)
THEOREM FeedsAccounted == Spec => []NoStrayFeed
<1>1. FeedInv => NoStrayFeed
  BY WsAssumption DEF FeedInv, FeedType, Ending, NoStrayFeed, OneFeedPerKey,
     NothingLeaks, Running, Tasks
<1> QED
  BY <1>1, FeedStart, FeedStep, PTL DEF Spec

-----------------------------------------------------------------------------
(* What the loop, the writer and the queue hold. *)
ConnType ==
  /\ live \in BOOLEAN /\ requests \in 0..MaxRequests
  /\ Len(chan) <= MaxRestarts + 1
  /\ aborted \subseteq Tasks /\ lagged \subseteq Tasks
  /\ loop.pc \in {"read", "handle", "queue", "close", "drain", "done"}
  /\ loop.msg \in FeedMsgs /\ loop.msg.kind # "data"
  /\ client \in Seq(FeedMsgs) /\ out \in Seq(FeedMsgs) /\ Len(out) <= QueueLen

(* A task stands somewhere in its channel, after all that it has sent; the *)
(* frame it has in hand is the one it stands at.                           *)
Marked(t) ==
  /\ task[t].pc # "unused" =>
       /\ task[t].chan \in DOMAIN chan
       /\ task[t].start <= task[t].pos /\ task[t].pos <= Fed(t)
  /\ task[t].pc = "send" => task[t].msg = Data(t, task[t].pos)
  /\ task[t].pc = "recv" => task[t].msg = NoMsg
  /\ \A i \in DOMAIN Sent :
       IsDataOf(t, Sent[i]) =>
         /\ task[t].pc # "unused" /\ Sent[i].pos <= task[t].pos
         /\ task[t].pc = "send" => Sent[i].pos < task[t].pos

MarkInv == \A t \in Tasks : Marked(t)

DeliveryInv == ConnType /\ MarkInv /\ InOrder /\ NoLossWithoutLag

(* The writer moves the head of the queue to the client, which leaves what *)
(* was sent as it is.                                                      *)
LEMMA HeadMoves ==
  ASSUME NEW S, NEW c \in Seq(S), NEW o \in Seq(S), o # <<>>
  PROVE  /\ Append(c, Head(o)) \o Tail(o) = c \o o
         /\ Append(c, Head(o)) \in Seq(S) /\ Tail(o) \in Seq(S)
         /\ Len(Tail(o)) = Len(o) - 1
<1>1. /\ Head(o) = o[1] /\ Head(o) \in S /\ Tail(o) \in Seq(S)
      /\ Len(Tail(o)) = Len(o) - 1 /\ Len(o) \in Nat /\ Len(o) > 0
      /\ \A i \in 1..(Len(o) - 1) : Tail(o)[i] = o[i + 1]
  BY HeadTailProperties, EmptySeq
<1> DEFINE a == Append(c, Head(o))
           l == a \o Tail(o)
           m == c \o o
<1>2. /\ a \in Seq(S) /\ Len(a) = Len(c) + 1 /\ a[Len(c) + 1] = o[1]
      /\ \A i \in 1..Len(c) : a[i] = c[i]
  BY <1>1
<1> HIDE DEF a
<1>3. /\ l \in Seq(S) /\ Len(l) = Len(c) + Len(o)
      /\ \A i \in 1..Len(l) : l[i] = IF i <= Len(a) THEN a[i] ELSE Tail(o)[i - Len(a)]
  <2>1. /\ l \in Seq(S) /\ Len(l) = Len(a) + Len(Tail(o))
        /\ \A i \in 1..(Len(a) + Len(Tail(o))) :
             l[i] = IF i <= Len(a) THEN a[i] ELSE Tail(o)[i - Len(a)]
    BY <1>1, <1>2, ConcatProperties, Zenon
  <2>2. Len(a) + Len(Tail(o)) = Len(c) + Len(o)
    BY <1>1, <1>2
  <2> QED
    BY <2>1, <2>2
<1>4. /\ m \in Seq(S) /\ Len(m) = Len(c) + Len(o)
      /\ \A i \in 1..Len(m) : m[i] = IF i <= Len(c) THEN c[i] ELSE o[i - Len(c)]
  BY ConcatProperties
<1>5. ASSUME NEW i \in 1..Len(l) PROVE l[i] = m[i]
  <2>1. CASE i <= Len(c)
    BY <1>2, <1>3, <1>4, <2>1
  <2>2. CASE i = Len(c) + 1
    BY <1>2, <1>3, <1>4, <2>2
  <2>3. CASE i > Len(c) + 1
    <3>1. /\ i - Len(a) \in 1..(Len(o) - 1) /\ i - Len(a) + 1 = i - Len(c)
          /\ i > Len(a)
      BY <1>1, <1>2, <1>3, <2>3
    <3>2. l[i] = Tail(o)[i - Len(a)] /\ Tail(o)[i - Len(a)] = o[i - Len(c)]
      BY <1>1, <1>2, <1>3, <3>1
    <3>3. m[i] = o[i - Len(c)]
      BY <1>3, <1>4, <2>3
    <3> QED
      BY <3>2, <3>3, Zenon
  <2> QED
    BY <1>3, <2>1, <2>2, <2>3
<1> HIDE DEF l, m
<1>6. l = m
  BY <1>3, <1>4, <1>5, SeqEqual
<1> QED
  BY <1>1, <1>2, <1>6 DEF a, l, m
(* What is queued comes after all that was sent. *)
LEMMA QueueGrows ==
  ASSUME NEW S, NEW c \in Seq(S), NEW o \in Seq(S), NEW m \in S
  PROVE  c \o Append(o, m) = Append(c \o o, m)
<1>1. Append(o, m) = o \o <<m>> /\ <<m>> \in Seq(S)
  BY AppendIsConcat
<1>2. c \o (o \o <<m>>) = (c \o o) \o <<m>>
  BY <1>1, ConcatAssociative
<1>3. c \o o \in Seq(S)
  BY ConcatProperties
<1>4. (c \o o) \o <<m>> = Append(c \o o, m)
  BY <1>3, AppendIsConcat
<1> QED
  BY <1>1, <1>2, <1>4

(* What was sent is a sequence of messages. *)
LEMMA SentType == ASSUME ConnType PROVE Sent \in Seq(FeedMsgs)
BY ConcatProperties DEF ConnType, Sent

(* A new connection has sent nothing. *)
LEMMA DeliveryStart == Init => DeliveryInv
<1> SUFFICES ASSUME Init PROVE DeliveryInv
  OBVIOUS
<1>1. Sent = <<>> /\ DOMAIN Sent = {}
  BY DEF Init, Sent
<1>2. NoMsg \in FeedMsgs /\ NoMsg.kind = "none"
  BY DEF NoMsg, FeedMsgs
<1>3. ConnType
  BY <1>2, WsAssumption DEF Init, ConnType
<1>4. \A t \in Tasks : task[t].pc = "unused"
  BY DEF Init, Unused
<1>5. MarkInv /\ InOrder /\ NoLossWithoutLag
  BY <1>1, <1>4 DEF MarkInv, Marked, InOrder, NoLossWithoutLag, Running
<1> QED
  BY <1>3, <1>5 DEF DeliveryInv

(* The types: every step of the loop, the writer, the session and the      *)
(* tasks keeps them.                                                       *)
LEMMA ConnStep ==
  ASSUME FeedInv, DeliveryInv, [Next]_vars PROVE ConnType'
<1> USE DEF DeliveryInv, ConnType
<1>a. requests \in Nat /\ MaxRequests \in Nat /\ QueueLen \in Nat /\ MaxRestarts \in Nat
      /\ chan \in Seq(Nat)
  BY WsAssumption DEF FeedInv, FeedType
<1>b. NoMsg \in FeedMsgs /\ NoMsg.kind # "data"
  BY DEF NoMsg, FeedMsgs
<1>c. ASSUME NEW n \in Nat
      PROVE  /\ Reply(n) \in FeedMsgs /\ Reply(n).kind # "data"
             /\ Pong(n) \in FeedMsgs /\ Pong(n).kind # "data"
  BY DEF Reply, Pong, FeedMsgs
<1>1. CASE Publish \/ Register \/ RemoveSession
  <2>1. UNCHANGED Connection
    BY <1>1 DEF Publish, Register, RemoveSession
  <2>2. live' \in BOOLEAN
    BY <1>1, Zenon DEF Publish, Register, RemoveSession
  <2>3. Len(chan') <= MaxRestarts + 1
    BY <1>1, <1>a DEF Publish, Register, RemoveSession
  <2> QED
    BY <2>1, <2>2, <2>3 DEF Connection
<1>2. CASE ReadRequest \/ ReadPing \/ ReadOther
  BY <1>2, <1>a, <1>c DEF ReadRequest, ReadPing, ReadOther, Read, Answer, session
<1>3. ASSUME NEW k \in Keys, Subscribe(k) PROVE ConnType'
  BY <1>3, <1>a, <1>c DEF Subscribe, SubscribedAlready, SubscribeRefused, SubscribeNew,
     FeedFrom, Read, Answer, session
<1>4. ASSUME NEW k \in Keys, Unsubscribe(k) PROVE ConnType'
  <2>1. {subscriptions[k]} \ {None} \subseteq Tasks
    BY DEF FeedInv, FeedType
  <2> QED
    BY <1>4, <1>a, <2>1 DEF Unsubscribe, Read, session
<1>5. CASE \/ HandlerReturns \/ ReadEnds \/ EncodeFails \/ Closed \/ PeerVanishes
           \/ UNCHANGED vars
  BY <1>5, <1>b DEF HandlerReturns, Answer, ReadEnds, EncodeFails, Closed, PeerVanishes, vars, session
<1>6. CASE Close
  <2>1. {subscriptions[k] : k \in Keys} \ {None} \subseteq Tasks
    BY DEF FeedInv, FeedType
  <2> QED
    BY <1>6, <1>b, <2>1 DEF Close, session
<1>7. CASE QueueReply
  <2>1. Append(out, loop.msg) \in Seq(FeedMsgs) /\ Len(Append(out, loop.msg)) = Len(out) + 1
    BY AppendProperties
  <2>2. Len(out) \in Nat /\ (Len(out) < QueueLen => Len(out) + 1 <= QueueLen)
    BY <1>a
  <2>3. \/ out' = Append(out, loop.msg) /\ Len(out) < QueueLen
        \/ out' = out
    BY <1>7 DEF QueueReply
  <2>4. out' \in Seq(FeedMsgs) /\ Len(out') <= QueueLen
    BY <2>1, <2>2, <2>3
  <2>5. loop'.pc \in {"read", "close"} /\ loop'.msg = NoMsg
    BY <1>7 DEF QueueReply
  <2> QED
    BY <1>7, <1>b, <2>4, <2>5 DEF QueueReply, session
<1>8. CASE WriterSends
  BY <1>8, <1>a, HeadMoves DEF WriterSends, session
<1>9. CASE WriterEnds
  BY <1>9, <1>a DEF WriterEnds, session
<1>10. ASSUME NEW t \in Tasks, TaskStep(t) PROVE ConnType'
  <2>1. CASE Receive(t)
    BY <2>1 DEF Receive, Overtaken, TakeFrame, FeedEnds, session
  <2>2. CASE Forward(t)
    <3>1. task[t].msg \in FeedMsgs
      BY DEF FeedInv, FeedType, Feeds
    <3>2. /\ Append(out, task[t].msg) \in Seq(FeedMsgs)
          /\ Len(Append(out, task[t].msg)) = Len(out) + 1
      BY <3>1, AppendProperties
    <3>3. Len(out) \in Nat /\ (Len(out) < QueueLen => Len(out) + 1 <= QueueLen)
      BY <1>a
    <3>4. \/ out' = Append(out, task[t].msg) /\ Len(out) < QueueLen
          \/ out' = out
      BY <2>2 DEF Forward
    <3>5. out' \in Seq(FeedMsgs) /\ Len(out') <= QueueLen
      BY <3>2, <3>3, <3>4
    <3> QED
      BY <2>2, <3>5 DEF Forward, session
  <2>3. CASE AbortTakesEffect(t)
    BY <2>3 DEF AbortTakesEffect, session
  <2> QED
    BY <1>10, <2>1, <2>2, <2>3 DEF TaskStep
<1> HIDE DEF DeliveryInv, ConnType
<1> QED
  BY <1>1, <1>2, <1>3, <1>4, <1>5, <1>6, <1>7, <1>8, <1>9, <1>10
  DEF Next, LoopStep, WriterStep

(* Steps that send nothing and move no task; the channels may grow, and    *)
(* the writer may end and take what is still queued with it.               *)
LEMMA NothingSent ==
  ASSUME FeedInv, DeliveryInv, UNCHANGED task,
         DOMAIN chan \subseteq DOMAIN chan', \A e \in DOMAIN chan : chan'[e] >= chan[e],
         chan' \in Seq(Nat),
         lagged \subseteq lagged', aborted \subseteq aborted',
         writer' = "running" => writer = "running" /\ Sent' = Sent,
         \A i \in DOMAIN Sent' : i \in DOMAIN Sent /\ Sent'[i] = Sent[i]
  PROVE  MarkInv' /\ InOrder' /\ NoLossWithoutLag'
<1>1. MarkInv'
  <2> SUFFICES ASSUME NEW t \in Tasks PROVE Marked(t)'
    BY DEF MarkInv
  <2>1. Marked(t) /\ task[t] \in Feeds /\ chan \in Seq(Nat)
    BY DEF DeliveryInv, MarkInv, FeedInv, FeedType
  <2>2. task[t].pc # "unused" =>
          /\ task[t].chan \in DOMAIN chan'
          /\ task[t].start <= task[t].pos /\ task[t].pos <= chan'[task[t].chan]
    BY <2>1 DEF Marked, Fed, Feeds
  <2> QED
    BY <2>1, <2>2 DEF Marked, Fed, IsDataOf
<1>2. InOrder'
  BY DEF DeliveryInv, InOrder, IsDataOf
<1>3. NoLossWithoutLag'
  BY DEF DeliveryInv, NoLossWithoutLag, Running
<1> QED
  BY <1>1, <1>2, <1>3
(* A reply joins the queue. *)
LEMMA ReplySent ==
  ASSUME FeedInv, DeliveryInv, UNCHANGED <<chan, task, lagged, aborted, writer, client>>,
         NEW m \in FeedMsgs, m.kind # "data", out' = Append(out, m)
  PROVE  MarkInv' /\ InOrder' /\ NoLossWithoutLag'
<1>1. Sent \in Seq(FeedMsgs) /\ Sent' = Append(Sent, m)
  BY SentType, QueueGrows DEF DeliveryInv, ConnType, Sent
<1>2. /\ DOMAIN Sent \subseteq DOMAIN Sent' /\ \A i \in DOMAIN Sent : Sent'[i] = Sent[i]
      /\ \A i \in DOMAIN Sent' : i \in DOMAIN Sent \/ Sent'[i] = m
  BY <1>1
<1>3. MarkInv'
  BY <1>2 DEF DeliveryInv, MarkInv, Marked, Fed, IsDataOf
<1>4. InOrder'
  BY <1>2 DEF DeliveryInv, InOrder, IsDataOf
<1>5. NoLossWithoutLag'
  BY <1>2 DEF DeliveryInv, NoLossWithoutLag, Running
<1> QED
  BY <1>3, <1>4, <1>5

(* A step of one task that sends nothing: it ends, or it moves on through  *)
(* the channel, noting a lag or taking the next frame in hand.             *)
LEMMA TaskMoves ==
  ASSUME FeedInv, DeliveryInv, NEW t \in Tasks, NEW f \in Feeds,
         UNCHANGED <<chan, aborted, writer, out, client>>, lagged \subseteq lagged',
         task' = [task EXCEPT ![t] = f],
         task[t].pc # "unused", f.pc # "unused",
         f.chan = task[t].chan, f.start = task[t].start,
         f.pos >= task[t].pos, f.pos <= Fed(t),
         f.pc = "send" => f.pos > task[t].pos /\ f.msg = Data(t, f.pos),
         f.pc = "recv" => f.msg = NoMsg,
         \/ f.pc = "ended" \/ t \in lagged'
         \/ f.pc = "send" /\ f.pos = task[t].pos + 1 /\ task[t].pc = "recv"
  PROVE  MarkInv' /\ InOrder' /\ NoLossWithoutLag'
<1>1. Sent' = Sent /\ chan' = chan
  BY DEF Sent
<1>2. task'[t] = f /\ \A u \in Tasks \ {t} : task'[u] = task[u]
  BY DEF FeedInv, FeedType
<1>3. task[t] \in Feeds
  BY DEF FeedInv, FeedType
<1>4. MarkInv'
  <2>1. ASSUME NEW u \in Tasks \ {t} PROVE Marked(u)'
    BY <1>1, <1>2, <2>1 DEF DeliveryInv, MarkInv, Marked, Fed, IsDataOf
  <2>2. Marked(t)'
    <3>1. Marked(t) /\ Sent \in Seq(FeedMsgs)
      BY SentType DEF DeliveryInv, MarkInv
    <3>2. /\ f.chan \in DOMAIN chan' /\ f.start <= f.pos /\ f.pos <= chan'[f.chan]
      BY <1>1, <1>3, <3>1 DEF Marked, Fed, Feeds
    <3>3. ASSUME NEW i \in DOMAIN Sent, IsDataOf(t, Sent[i])
          PROVE  Sent[i].pos <= f.pos /\ (f.pc = "send" => Sent[i].pos < f.pos)
      <4>1. Sent[i] \in FeedMsgs /\ Sent[i].pos <= task[t].pos
        BY <3>1, <3>3 DEF Marked
      <4> QED
        BY <1>3, <4>1 DEF Feeds, FeedMsgs
    <3> QED
      BY <1>1, <1>2, <3>2, <3>3 DEF Marked, Fed, IsDataOf
  <2> QED
    BY <2>1, <2>2 DEF MarkInv
<1>5. InOrder'
  BY <1>1 DEF DeliveryInv, InOrder, IsDataOf
<1>6. NoLossWithoutLag'
  <2> SUFFICES ASSUME NEW u \in Tasks \ (lagged' \cup aborted'), Running(u)',
                      writer' = "running", NEW p \in (task'[u].start + 1)..task'[u].pos
               PROVE  \/ task'[u].msg = Data(u, p)
                      \/ \E i \in DOMAIN Sent : Sent[i] = Data(u, p)
    BY <1>1 DEF NoLossWithoutLag
  <2>1. CASE u # t
    BY <1>2, <2>1 DEF DeliveryInv, NoLossWithoutLag, Running
  <2>2. CASE u = t
    <3>1. f.pc = "send" /\ f.pos = task[t].pos + 1 /\ task[t].pc = "recv"
          /\ f.msg = Data(t, f.pos) /\ task'[u] = f
      BY <1>2, <2>2 DEF Running
    <3>2. CASE p = f.pos
      BY <2>2, <3>1, <3>2
    <3>3. CASE p # f.pos
      <4>1. p \in (task[t].start + 1)..task[t].pos
        BY <1>3, <3>1, <3>3 DEF Feeds
      <4>2. task[t].msg # Data(t, p)
        <5>1. task[t].msg = NoMsg
          BY <3>1 DEF DeliveryInv, MarkInv, Marked
        <5> QED
          BY <5>1 DEF NoMsg, Data
      <4>3. Running(t) /\ t \notin lagged \cup aborted /\ writer = "running"
        BY <2>2, <3>1 DEF Running
      <4> QED
        BY <2>2, <4>1, <4>2, <4>3 DEF DeliveryInv, NoLossWithoutLag
    <3> QED
      BY <3>2, <3>3
  <2> QED
    BY <2>1, <2>2
<1> QED
  BY <1>4, <1>5, <1>6

(* A task hands its frame to the queue. *)
LEMMA FrameSent ==
  ASSUME FeedInv, DeliveryInv, NEW t \in Tasks, task[t].pc = "send",
         UNCHANGED <<chan, aborted, lagged, writer, client>>,
         out' = Append(out, task[t].msg),
         task' = [task EXCEPT ![t].pc = "recv", ![t].msg = NoMsg]
  PROVE  MarkInv' /\ InOrder' /\ NoLossWithoutLag'
<1> DEFINE m == task[t].msg
<1>1. /\ task[t] \in Feeds /\ Marked(t) /\ m = Data(t, task[t].pos) /\ m \in FeedMsgs
      /\ m.kind = "data" /\ m.n = t /\ m.pos = task[t].pos
  BY DEF DeliveryInv, MarkInv, Marked, FeedInv, FeedType, Feeds, Data
<1> HIDE DEF m
<1>2. Sent \in Seq(FeedMsgs) /\ Sent' = Append(Sent, m)
  BY <1>1, SentType, QueueGrows DEF DeliveryInv, ConnType, Sent, m
<1>3. /\ DOMAIN Sent = 1..Len(Sent) /\ DOMAIN Sent' = 1..(Len(Sent) + 1)
      /\ Len(Sent) \in Nat /\ Sent'[Len(Sent) + 1] = m
      /\ \A i \in DOMAIN Sent : Sent'[i] = Sent[i] /\ Sent[i] \in FeedMsgs
  BY <1>1, <1>2
<1>4. DOMAIN Sent \subseteq DOMAIN Sent'
      /\ \A i \in DOMAIN Sent' : i \in DOMAIN Sent \/ i = Len(Sent) + 1
  BY <1>3
<1>5. /\ task'[t] = [task[t] EXCEPT !.pc = "recv", !.msg = NoMsg]
      /\ \A u \in Tasks \ {t} : task'[u] = task[u]
  BY DEF FeedInv, FeedType
<1>6. /\ task'[t].pc = "recv" /\ task'[t].msg = NoMsg /\ task'[t].chan = task[t].chan
      /\ task'[t].start = task[t].start /\ task'[t].pos = task[t].pos
  <2> DEFINE f == [task[t] EXCEPT !.pc = "recv", !.msg = NoMsg]
  <2>1. /\ f.pc = "recv" /\ f.msg = NoMsg /\ f.chan = task[t].chan
        /\ f.start = task[t].start /\ f.pos = task[t].pos
    BY <1>1 DEF Feeds
  <2> QED
    BY <1>5, <2>1, Zenon
<1>7. MarkInv'
  <2>1. ASSUME NEW u \in Tasks \ {t} PROVE Marked(u)'
    <3>1. \A i \in DOMAIN Sent' : IsDataOf(u, Sent'[i]) => i \in DOMAIN Sent /\ Sent'[i] = Sent[i]
      BY <1>1, <1>3, <1>4 DEF IsDataOf
    <3> QED
      BY <1>5, <2>1, <3>1, Zenon DEF DeliveryInv, MarkInv, Marked, Fed, IsDataOf
  <2>2. Marked(t)'
    <3>1. ASSUME NEW i \in DOMAIN Sent', IsDataOf(t, Sent'[i])
          PROVE  Sent'[i].pos <= task[t].pos
      <4>1. CASE i \in DOMAIN Sent
        BY <1>1, <1>3, <3>1, <4>1 DEF Marked, IsDataOf
      <4>2. CASE i = Len(Sent) + 1
        BY <1>1, <1>3, <4>2 DEF Feeds
      <4> QED
        BY <1>4, <4>1, <4>2
    <3> QED
      BY <1>1, <1>6, <3>1, Zenon DEF Marked, Fed, IsDataOf
  <2> QED
    BY <2>1, <2>2 DEF MarkInv
<1>8. InOrder'
  <2> SUFFICES ASSUME NEW u \in Tasks, NEW i \in DOMAIN Sent', NEW j \in DOMAIN Sent',
                      i < j, IsDataOf(u, Sent'[i]), IsDataOf(u, Sent'[j])
               PROVE  Sent'[i].pos < Sent'[j].pos
    BY DEF InOrder, IsDataOf
  <2>1. i \in DOMAIN Sent
    BY <1>3
  <2>2. CASE j \in DOMAIN Sent
    BY <1>3, <2>1, <2>2 DEF DeliveryInv, InOrder, IsDataOf
  <2>3. CASE j = Len(Sent) + 1
    <3>1. u = t
      BY <1>1, <1>3, <2>3 DEF IsDataOf
    <3>2. Sent[i].pos < task[t].pos
      BY <1>1, <1>3, <2>1, <3>1 DEF Marked, IsDataOf
    <3> QED
      BY <1>1, <1>3, <2>1, <2>3, <3>2
  <2> QED
    BY <1>4, <2>2, <2>3
<1>9. NoLossWithoutLag'
  <2> SUFFICES ASSUME NEW u \in Tasks \ (lagged' \cup aborted'), Running(u)',
                      writer' = "running", NEW p \in (task'[u].start + 1)..task'[u].pos
               PROVE  \/ task'[u].msg = Data(u, p)
                      \/ \E i \in DOMAIN Sent' : Sent'[i] = Data(u, p)
    BY Zenon DEF NoLossWithoutLag
  <2>1. p \in (task[u].start + 1)..task[u].pos /\ Running(u)
    BY <1>5, <1>6, Zenon DEF Running
  <2>2. task[u].msg = Data(u, p) \/ \E i \in DOMAIN Sent : Sent[i] = Data(u, p)
    BY <2>1 DEF DeliveryInv, NoLossWithoutLag
  <2>3. CASE \E i \in DOMAIN Sent : Sent[i] = Data(u, p)
    BY <1>3, <1>4, <2>3
  <2>4. CASE task[u].msg = Data(u, p) /\ u # t
    BY <1>5, <2>4, Zenon
  <2>5. CASE task[u].msg = Data(u, p) /\ u = t
    <3>1. Len(Sent) + 1 \in DOMAIN Sent' /\ Sent'[Len(Sent) + 1] = Data(u, p)
      BY <1>3, <2>5 DEF m
    <3> QED
      BY <3>1
  <2> QED
    BY <2>2, <2>3, <2>4, <2>5
<1> QED
  BY <1>7, <1>8, <1>9
(* A new task begins at the end of its channel and has sent nothing.       *)
LEMMA FeedBegins ==
  ASSUME FeedInv, DeliveryInv, NEW k \in Keys, Read, SubscribeNew(k),
         UNCHANGED <<aborted, lagged>>
  PROVE  MarkInv' /\ InOrder' /\ NoLossWithoutLag'
<1>0. PICK t \in Nat : t = requests'
  BY DEF Read, FeedInv, FeedType
<1> DEFINE f == [pc |-> "recv", key |-> k, chan |-> Len(chan), start |-> chan[Len(chan)],
                 pos |-> chan[Len(chan)], msg |-> NoMsg]
<1>1. /\ task' = [task EXCEPT ![t] = f]
      /\ UNCHANGED <<chan, writer, out, client>>
      /\ t = requests + 1 /\ requests < MaxRequests
  BY <1>0 DEF SubscribeNew, FeedFrom, Read, session
<1>2. t \in Tasks /\ t > requests
  BY <1>1, WsAssumption DEF FeedInv, FeedType, Tasks
<1>3. task[t].pc = "unused"
  BY <1>2 DEF FeedInv, Fresh
<1>4. Sent' = Sent
  BY <1>1 DEF Sent
<1>5. task'[t] = f /\ \A u \in Tasks \ {t} : task'[u] = task[u]
  BY <1>1, <1>2 DEF FeedInv, FeedType
<1>6. MarkInv'
  <2>1. ASSUME NEW u \in Tasks \ {t} PROVE Marked(u)'
    BY <1>1, <1>4, <1>5, <2>1 DEF DeliveryInv, MarkInv, Marked, Fed, IsDataOf
  <2>2. Marked(t)'
    <3>1. Len(chan) \in DOMAIN chan /\ chan[Len(chan)] \in Nat
      BY DEF FeedInv, FeedType
    <3>2. \A i \in DOMAIN Sent : ~IsDataOf(t, Sent[i])
      BY <1>2, <1>3 DEF DeliveryInv, MarkInv, Marked
    <3>3. /\ f.pc = "recv" /\ f.msg = NoMsg /\ f.chan = Len(chan)
          /\ f.start = chan[Len(chan)] /\ f.pos = chan[Len(chan)]
      OBVIOUS
    <3> HIDE DEF f
    <3>4. /\ f.chan \in DOMAIN chan' /\ f.start <= f.pos /\ f.pos <= chan'[f.chan]
      BY <1>1, <3>1, <3>3
    <3> QED
      BY <1>4, <1>5, <3>2, <3>3, <3>4 DEF Marked, Fed, IsDataOf
  <2> QED
    BY <1>2, <2>1, <2>2 DEF MarkInv
<1>7. InOrder'
  BY <1>4 DEF DeliveryInv, InOrder, IsDataOf
<1>8. NoLossWithoutLag'
  <2> SUFFICES ASSUME NEW u \in Tasks \ (lagged' \cup aborted'), Running(u)',
                      writer' = "running", NEW p \in (task'[u].start + 1)..task'[u].pos
               PROVE  \/ task'[u].msg = Data(u, p)
                      \/ \E i \in DOMAIN Sent : Sent[i] = Data(u, p)
    BY <1>4 DEF NoLossWithoutLag
  <2>1. u # t
    <3>1. chan[Len(chan)] \in Nat
      BY DEF FeedInv, FeedType
    <3> QED
      BY <1>5, <3>1
  <2> QED
    BY <1>1, <1>5, <2>1 DEF DeliveryInv, NoLossWithoutLag, Running
<1> QED
  BY <1>6, <1>7, <1>8

(* The steps of a subscription task. *)
LEMMA TaskDelivers ==
  ASSUME FeedInv, DeliveryInv, NEW t \in Tasks, TaskStep(t)
  PROVE  MarkInv' /\ InOrder' /\ NoLossWithoutLag'
<1>1. /\ task[t] \in Feeds /\ task \in [Tasks -> Feeds] /\ Marked(t)
      /\ Capacity \in Nat /\ Capacity > 0
      /\ DOMAIN task[t] = {"pc", "key", "chan", "start", "pos", "msg"}
  BY WsAssumption DEF DeliveryInv, MarkInv, FeedInv, FeedType, Feeds
<1>2. task[t].pc # "unused"
  BY DEF TaskStep, Receive, Forward, AbortTakesEffect, Running
<1>3. /\ task[t].chan \in DOMAIN chan /\ Fed(t) \in Nat /\ task[t].pos \in Int
      /\ task[t].pos <= Fed(t)
  BY <1>1, <1>2 DEF Marked, Fed, FeedInv, FeedType, Feeds
<1>4. NoMsg \in FeedMsgs
  BY DEF NoMsg, FeedMsgs
<1>5. CASE Receive(t)
  <2>1. /\ UNCHANGED <<chan, aborted, writer, out, client>> /\ task[t].pc = "recv"
        /\ lagged \subseteq lagged' /\ task[t].msg = NoMsg
    BY <1>1, <1>5 DEF Receive, Overtaken, TakeFrame, FeedEnds, session, Marked
  <2>2. CASE Overtaken(t)
    <3> DEFINE f == [task[t] EXCEPT !.pos = Fed(t) - Capacity]
    <3>1. /\ f \in Feeds /\ f.pc = "recv" /\ f.chan = task[t].chan /\ f.msg = NoMsg
          /\ f.start = task[t].start /\ f.pos = Fed(t) - Capacity
      BY <1>1, <1>3, <2>1 DEF Feeds
    <3>2. task' = [task EXCEPT ![t] = f] /\ t \in lagged' /\ Fed(t) - task[t].pos > Capacity
      BY <2>2 DEF Overtaken, Behind
    <3> HIDE DEF f
    <3>3. f.pos >= task[t].pos /\ f.pos <= Fed(t)
      BY <1>1, <1>3, <3>1, <3>2
    <3> QED
      BY <1>2, <2>1, <3>1, <3>2, <3>3, TaskMoves, Zenon
  <2>3. CASE TakeFrame(t)
    <3> DEFINE p == task[t].pos + 1
               m == Data(t, p)
               f == [task[t] EXCEPT !.pos = p, !.pc = "send", !.msg = m]
    <3>1. m \in FeedMsgs /\ p \in Int
      BY <1>3 DEF Data, FeedMsgs, Tasks
    <3> HIDE DEF m, p
    <3>2. /\ f \in Feeds /\ f.pc = "send" /\ f.chan = task[t].chan /\ f.msg = m
          /\ f.start = task[t].start /\ f.pos = p
      BY <1>1, <3>1, Zenon DEF Feeds
    <3> USE DEF m, p
    <3>3. task' = [task EXCEPT ![t] = f] /\ Fed(t) - task[t].pos \in 1..Capacity
      BY <2>3, Zenon DEF TakeFrame, Behind
    <3> HIDE DEF f
    <3>4. f.pos > task[t].pos /\ f.pos >= task[t].pos /\ f.pos <= Fed(t)
      BY <1>1, <1>3, <3>2, <3>3
    <3> QED
      BY <1>2, <2>1, <3>2, <3>3, <3>4, TaskMoves, Zenon
  <2>4. CASE FeedEnds(t)
    <3> DEFINE f == [task[t] EXCEPT !.pc = "ended"]
    <3>1. /\ f \in Feeds /\ f.pc = "ended" /\ f.chan = task[t].chan
          /\ f.start = task[t].start /\ f.pos = task[t].pos
      BY <1>1 DEF Feeds
    <3>2. task' = [task EXCEPT ![t] = f]
      BY <2>4 DEF FeedEnds
    <3> HIDE DEF f
    <3>3. f.pos >= task[t].pos
      BY <1>3, <3>1
    <3> QED
      BY <1>2, <1>3, <2>1, <3>1, <3>2, <3>3, TaskMoves, Zenon
  <2> QED
    BY <1>5, <2>2, <2>3, <2>4 DEF Receive
<1>6. ASSUME task' = [task EXCEPT ![t].pc = "ended", ![t].msg = NoMsg],
             UNCHANGED <<chan, aborted, lagged, writer, out, client>>
      PROVE  MarkInv' /\ InOrder' /\ NoLossWithoutLag'
  <2> DEFINE f == [task[t] EXCEPT !.pc = "ended", !.msg = NoMsg]
  <2>1. /\ f \in Feeds /\ f.pc = "ended" /\ f.chan = task[t].chan
        /\ f.start = task[t].start /\ f.pos = task[t].pos
    BY <1>1, <1>4, Zenon DEF Feeds
  <2>2. task' = [task EXCEPT ![t] = f]
    BY <1>6, Zenon
  <2> HIDE DEF f
  <2>3. f.pos >= task[t].pos
    BY <1>3, <2>1
  <2> QED
    BY <1>2, <1>3, <1>6, <2>1, <2>2, <2>3, TaskMoves, Zenon
<1>7. CASE Forward(t)
  <2>1. CASE out' = Append(out, task[t].msg)
             /\ task' = [task EXCEPT ![t].pc = "recv", ![t].msg = NoMsg]
    BY <1>7, <2>1, FrameSent, Zenon DEF Forward, session
  <2>2. CASE UNCHANGED out /\ task' = [task EXCEPT ![t].pc = "ended", ![t].msg = NoMsg]
    BY <1>6, <1>7, <2>2 DEF Forward, session
  <2> QED
    BY <1>7, <2>1, <2>2 DEF Forward
<1>8. CASE AbortTakesEffect(t)
  BY <1>6, <1>8 DEF AbortTakesEffect, session
<1> QED
  BY <1>5, <1>7, <1>8 DEF TaskStep

(* Every step of the connection keeps the deliveries. *)
LEMMA DeliveryStep ==
  ASSUME FeedInv, DeliveryInv, [Next]_vars PROVE DeliveryInv'
<1>a. chan \in Seq(Nat) /\ Len(chan) > 0 /\ \A e \in DOMAIN chan : chan[e] >= chan[e]
  BY DEF FeedInv, FeedType
<1>b. Sent \in Seq(FeedMsgs) /\ client \in Seq(FeedMsgs) /\ out \in Seq(FeedMsgs)
  BY SentType DEF DeliveryInv, ConnType
<1> DEFINE Delivers == MarkInv' /\ InOrder' /\ NoLossWithoutLag'
<1>1. ASSUME Publish PROVE Delivers
  <2>1. /\ chan' \in Seq(Nat) /\ DOMAIN chan' = DOMAIN chan
        /\ \A e \in DOMAIN chan : chan'[e] >= chan[e]
    BY <1>1, <1>a DEF Publish
  <2> QED
    BY <1>1, <2>1, NothingSent DEF Publish, Connection, Sent
<1>2. ASSUME Register PROVE Delivers
  <2>1. /\ chan' \in Seq(Nat) /\ DOMAIN chan \subseteq DOMAIN chan'
        /\ \A e \in DOMAIN chan : chan'[e] >= chan[e]
    BY <1>2, <1>a DEF Register
  <2> QED
    BY <1>2, <2>1, NothingSent DEF Register, Connection, Sent
<1>3. ASSUME RemoveSession \/ HandlerReturns \/ ReadRequest \/ ReadPing \/ ReadOther \/ ReadEnds
             \/ EncodeFails \/ Close \/ Closed \/ PeerVanishes \/ UNCHANGED vars
      PROVE  Delivers
  <2>1. UNCHANGED <<chan, task, lagged, writer, out, client>> /\ aborted \subseteq aborted'
    BY <1>3 DEF RemoveSession, Connection, HandlerReturns, ReadRequest, ReadPing, ReadOther, Read, ReadEnds,
       EncodeFails, Close, Closed, PeerVanishes, vars, session
  <2> QED
    BY <1>a, <2>1, NothingSent DEF Sent
<1>4. ASSUME NEW k \in Keys, Subscribe(k) PROVE Delivers
  <2>1. CASE SubscribedAlready(k) \/ SubscribeRefused(k)
    <3>1. UNCHANGED <<chan, task, lagged, aborted, writer, out, client>>
      BY <1>4, <2>1 DEF Subscribe, Read, SubscribedAlready, SubscribeRefused, session
    <3> QED
      BY <1>a, <3>1, NothingSent DEF Sent
  <2>2. CASE SubscribeNew(k)
    BY <1>4, <2>2, FeedBegins DEF Subscribe
  <2> QED
    BY <1>4, <2>1, <2>2 DEF Subscribe
<1>5. ASSUME NEW k \in Keys, Unsubscribe(k) PROVE Delivers
  <2>1. UNCHANGED <<chan, task, lagged, writer, out, client>> /\ aborted \subseteq aborted'
    BY <1>5 DEF Unsubscribe, Read, session
  <2> QED
    BY <1>a, <2>1, NothingSent DEF Sent
<1>6. ASSUME QueueReply PROVE Delivers
  <2>1. UNCHANGED <<chan, task, lagged, aborted, writer, client>>
    BY <1>6 DEF QueueReply, session
  <2>2. CASE out' = Append(out, loop.msg)
    BY <2>1, <2>2, ReplySent DEF DeliveryInv, ConnType
  <2>3. CASE UNCHANGED out
    BY <1>a, <2>1, <2>3, NothingSent DEF Sent
  <2> QED
    BY <1>6, <2>2, <2>3 DEF QueueReply
<1>7. ASSUME WriterSends PROVE Delivers
  <2>1. Sent' = Sent
    BY <1>7, <1>b, HeadMoves DEF WriterSends, Sent
  <2> QED
    BY <1>7, <1>a, <2>1, NothingSent DEF WriterSends, session
<1>8. ASSUME WriterEnds PROVE Delivers
  <2>1. Sent' = client
    BY <1>8, <1>b, ConcatEmptySeq DEF WriterEnds, Sent
  <2>2. \A i \in DOMAIN client : i \in DOMAIN Sent /\ Sent[i] = client[i]
    BY <1>b DEF Sent
  <2> QED
    BY <1>8, <1>a, <2>1, <2>2, NothingSent DEF WriterEnds, session
<1>9. Delivers
  BY <1>1, <1>2, <1>3, <1>4, <1>5, <1>6, <1>7, <1>8, TaskDelivers
  DEF Next, LoopStep, WriterStep
<1> QED
  BY <1>9, ConnStep DEF DeliveryInv

(* What a subscriber is sent is its channel, in the order of publication,  *)
(* none twice, and all of it unless it was overtaken: through the queue    *)
(* that the replies and the other feeds share, lags, aborts and the end of *)
(* the writer (subscribe_session, queue_envelope and the writer task).     *)
THEOREM FeedsAreSound == Spec => []FeedsSound
<1>1. FeedInv /\ DeliveryInv => FeedsSound
  <2> SUFFICES ASSUME FeedInv, DeliveryInv PROVE TypeOK
    BY DEF DeliveryInv, FeedsSound
  <2>1. \A t \in Tasks :
          /\ task[t].pc \in {"unused", "recv", "send", "ended"}
          /\ task[t].pc # "unused" =>
               task[t].start <= task[t].pos /\ task[t].pos <= Fed(t)
    BY DEF FeedInv, FeedType, Feeds, DeliveryInv, MarkInv, Marked
  <2> QED
    BY <2>1 DEF TypeOK, FeedInv, FeedType, DeliveryInv, ConnType
<1> QED
  BY <1>1, FeedStart, FeedStep, DeliveryStart, DeliveryStep, PTL DEF Spec
=============================================================================
