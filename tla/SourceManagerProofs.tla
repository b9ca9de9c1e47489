------------------------ MODULE SourceManagerProofs ------------------------
(***************************************************************************)
(* What holds of SourceManager for every set of clients, runners and frame *)
(* lengths, and every bound.                                               *)
(***************************************************************************)
EXTENDS SourceManager, FiniteSetTheorems, TLAPS

(* Most leaves need no arithmetic and are quick for Zenon; SMT takes the others. *)
USE ZenonT(1), SMTT(30), Zenon

(* Appending n copies of a byte gives a sequence n longer. *)
LEMMA AppendCopies ==
  ASSUME NEW S, NEW s \in Seq(S), NEW x \in S, NEW n \in Nat
  PROVE  /\ s \o [i \in 1..n |-> x] \in Seq(S)
         /\ Len(s \o [i \in 1..n |-> x]) = Len(s) + n
<1> DEFINE t == [i \in 1..n |-> x]
<1>1. t \in Seq(S)
  OBVIOUS
<1>2. Len(t) = n
  BY <1>1
<1> HIDE DEF t
<1>3. s \o t \in Seq(S) /\ Len(s \o t) = Len(s) + Len(t)
  BY <1>1
<1> QED
  BY <1>2, <1>3 DEF t

(* Every variable keeps its type (TypeOK).                                 *)
LEMMA TypeStep == TypeOK /\ [Next]_vars => TypeOK'
<1> USE ConstantsAssumption
<1> SUFFICES ASSUME TypeOK, [Next]_vars PROVE TypeOK'
  OBVIOUS
<1> USE DEF TypeOK
<1>a. Idle \in CallStates
  BY DEF Idle, CallStates
<1>b. ASSUME NEW c \in Clients, Return(c) PROVE call' \in [Clients -> CallStates]
  BY <1>a, <1>b DEF Return
<1>1. ASSUME NEW c \in Clients, NEW backed \in BOOLEAN, Start(c, backed)
      PROVE  TypeOK'
  BY <1>1 DEF Start, Enter, CallStates, taskVars, dirVars
<1>2. ASSUME NEW c \in Clients, Resume(c) PROVE TypeOK'
  <2>1. CASE spec
    <3>a. Enter(c, "opening", None, TRUE)
      BY <1>2, <2>1, Zenon DEF Resume
    <3>1. call' \in [Clients -> CallStates]
      BY <3>a DEF Enter, CallStates
    <3> QED
      BY <1>2, <3>1 DEF Resume, taskVars, dirVars
  <2>2. CASE ~spec
    BY <1>2, <2>2 DEF Resume, taskVars, dirVars
  <2> QED
    BY <2>1, <2>2
<1>3. ASSUME NEW c \in Clients, Restart(c) PROVE TypeOK'
  BY <1>3 DEF Restart, Enter, CallStates, dirVars
<1>4. ASSUME NEW c \in Clients, Stop(c) PROVE TypeOK'
  BY <1>4 DEF Stop, dirVars
<1>5. ASSUME NEW c \in Clients, Remove(c) PROVE TypeOK'
  BY <1>5, Zenon DEF Remove, Enter, CallStates, dirVars
<1>6. ASSUME NEW c \in Clients, Write(c) PROVE TypeOK'
  <2>1. sink' \in Runners \cup {None} /\ handle' \in Runners \cup {None}
    BY <1>6 DEF Write
  <2>2. call' \in [Clients -> CallStates]
    <3>1. CASE sink' # None
      <4>1. Enter(c, "writing", sink', FALSE)
        BY <1>6, <3>1, Zenon DEF Write
      <4> QED
        BY <2>1, <4>1 DEF Enter, CallStates
    <3>2. CASE sink' = None
      BY <1>6, <3>2, Zenon DEF Write
    <3> QED
      BY <3>1, <3>2
  <2> QED
    BY <1>6, <2>1, <2>2 DEF Write, taskVars, dirVars
<1>7. ASSUME NEW c \in Clients, Wait(c) PROVE TypeOK'
  BY <1>7 DEF Wait, Enter, CallStates, taskVars, dirVars
<1>8. ASSUME NEW c \in Clients, ReapFinished(c) PROVE TypeOK'
  BY <1>8 DEF ReapFinished, taskVars, dirVars
<1>9. ASSUME NEW c \in Clients, NEW r \in Runners, Spawn(c, r) PROVE TypeOK'
  BY <1>9 DEF Spawn, OpenLogSink, Enter, CallStates, TaskStates, mgrVars
<1>10. ASSUME NEW c \in Clients, OpenFails(c) \/ StartFails(c) \/ WriteSink(c)
       PROVE  TypeOK'
  BY <1>10, <1>b DEF OpenFails, StartFails, WriteSink, mgrVars, taskVars, dirVars
<1>11. ASSUME NEW c \in Clients, Insert(c) PROVE TypeOK'
  BY <1>11 DEF Insert, Return, Idle, CallStates, taskVars, dirVars
<1>12. ASSUME NEW c \in Clients, Unregister(c) PROVE TypeOK'
  BY <1>12, Zenon DEF Unregister, Return, Idle, CallStates, mgrVars, taskVars, dirVars
<1>13. ASSUME NEW c \in Clients, WaitDone(c) PROVE TypeOK'
  BY <1>13, Zenon DEF WaitDone, Return, Idle, CallStates, taskVars, dirVars
<1>14. ASSUME NEW r \in Runners, Register(r) PROVE TypeOK'
  BY <1>14 DEF Register, TaskStates, mgrVars, dirVars
<1>15. ASSUME NEW r \in Runners, NEW len \in FrameLens, AppendRaw(r, len)
       PROVE  TypeOK'
  <2>1. len \in Nat
    BY ConstantsAssumption
  <2>a. sent[r] + 1 \in Nat
    OBVIOUS
  <2>b. <<r, sent[r] + 1>> \in Frames
    BY <2>a DEF Frames
  <2>2. raw' \in Seq(Frames)
    BY <1>15, <2>1, <2>b, AppendCopies DEF AppendRaw
  <2> QED
    <3>1. span' \in [Runners -> Spans]
      BY <1>15, <2>1 DEF AppendRaw, Spans
    <3>2. pos' \in [Runners -> Nat] /\ sent' \in [Runners -> Nat]
      BY <1>15, <2>1 DEF AppendRaw
    <3>3. task' \in [Runners -> TaskStates]
      BY <1>15 DEF AppendRaw, TaskStates
    <3> QED
      BY <1>15, <2>2, <3>1, <3>2, <3>3, Zenon DEF AppendRaw, mgrVars
<1>16. ASSUME NEW r \in Runners, AppendIndex(r) PROVE TypeOK'
  <2>1. [frame |-> <<r, sent[r]>>, off |-> span[r].off, len |-> span[r].len] \in Rows
    BY DEF Rows, Frames, Spans
  <2> QED
    BY <1>16, <2>1 DEF AppendIndex, TaskStates, mgrVars
<1>17. ASSUME NEW r \in Runners, Publish(r) PROVE TypeOK'
  BY <1>17 DEF Publish, TaskStates, mgrVars
<1>18. ASSUME NEW r \in Runners, DecodeRecord(r) PROVE TypeOK'
  <2>1. <<r, sent[r]>> \in Frames
    BY DEF Frames
  <2> QED
    BY <1>18, <2>1 DEF DecodeRecord, mgrVars, taskVars
<1>19. ASSUME NEW r \in Runners, DecodeDone(r) PROVE TypeOK'
  BY <1>19 DEF DecodeDone, TaskStates, mgrVars, dirVars
<1>20. ASSUME NEW r \in Runners, Finish(r) PROVE TypeOK'
  BY <1>20 DEF Finish, TaskStates, mgrVars, dirVars
<1>21. CASE UNCHANGED vars
  BY <1>21 DEF vars, mgrVars, taskVars, dirVars
<1> HIDE DEF TypeOK
<1> QED
  BY <1>1, <1>2, <1>3, <1>4, <1>5, <1>6, <1>7, <1>8, <1>9, <1>10, <1>11, <1>12,
     <1>13, <1>14, <1>15, <1>16, <1>17, <1>18, <1>19, <1>20, <1>21
  DEF Next, Request, DeviceStep, CallStep, OpenStep, FrameStep, RunnerOpenFails, RunnerEnds,
      AbortTakesEffect

(* A new manager is well typed. *)
LEMMA TypeInit == Init => TypeOK
<1> SUFFICES ASSUME Init PROVE TypeOK
  OBVIOUS
<1>1. Idle \in CallStates /\ "none" \in TaskStates
  BY DEF Idle, CallStates, TaskStates
<1>2. [off |-> 0, len |-> 0] \in Spans
  BY DEF Spans
<1>3. call \in [Clients -> CallStates] /\ task \in [Runners -> TaskStates]
  BY <1>1 DEF Init
<1>4. span \in [Runners -> Spans]
  BY <1>2 DEF Init
<1>5. pos \in [Runners -> Nat] /\ sent \in [Runners -> Nat] /\ framesIn \in Nat
  BY DEF Init
<1>6. raw \in Seq(Frames) /\ index \in Seq(Rows) /\ records \in Seq(Frames)
  BY DEF Init
<1> QED
  BY <1>3, <1>4, <1>5, <1>6, Zenon DEF Init, TypeOK

(* Every reachable state of the lifecycle model is well typed.             *)
THEOREM TypeCorrect == Spec => []TypeOK
BY TypeInit, TypeStep, PTL DEF Spec
-----------------------------------------------------------------------------
(* IndexInBounds is not inductive by itself: the row of a frame is written *)
(* a step after its bytes, from the span that RawWriter::append returned.  *)
(* What makes that safe is that no writer's position, and no span that is  *)
(* still to be indexed, passes the end of raw.bin, which only grows.       *)
WritersInBounds ==
  \A r \in Runners :
    /\ pos[r] <= Len(raw)
    /\ task[r] = "index" => span[r].off + span[r].len <= Len(raw)

(* A step that touches neither the files nor the phases that matter.       *)
LEMMA BoundsFrame ==
  ASSUME IndexInBounds, WritersInBounds, UNCHANGED <<pos, span, raw, index>>,
         \A r \in Runners : task'[r] = "index" => task[r] = "index"
  PROVE  IndexInBounds' /\ WritersInBounds'
BY DEF IndexInBounds, WritersInBounds

(* Every step of a caller or a runner keeps rows and writers in bounds:    *)
(* AppendRaw lengthens raw.bin by what it adds to pos, AppendIndex uses a  *)
(* span that was already inside.                                           *)
LEMMA BoundsStep ==
  TypeOK /\ IndexInBounds /\ WritersInBounds /\ [Next]_vars
    => IndexInBounds' /\ WritersInBounds'
<1> SUFFICES ASSUME TypeOK, IndexInBounds, WritersInBounds, [Next]_vars
             PROVE  IndexInBounds' /\ WritersInBounds'
  OBVIOUS
<1> USE ConstantsAssumption DEF TypeOK
<1>1. ASSUME NEW c \in Clients, Request(c) PROVE UNCHANGED <<task, dirVars>>
  BY <1>1, Zenon DEF Request, Start, Resume, Restart, Stop, Remove, Write, Wait,
              ReapFinished, taskVars
<1>2. ASSUME NEW c \in Clients,
             OpenFails(c) \/ Insert(c) \/ StartFails(c) \/ Unregister(c)
               \/ WriteSink(c) \/ WaitDone(c)
      PROVE  UNCHANGED <<task, dirVars>>
  BY <1>2 DEF OpenFails, Insert, StartFails, Unregister, WriteSink, WaitDone,
              taskVars
<1>3. ASSUME UNCHANGED <<task, dirVars>>
      PROVE  IndexInBounds' /\ WritersInBounds'
  BY <1>3, BoundsFrame DEF dirVars
<1>4. ASSUME NEW c \in Clients, NEW r \in Runners, Spawn(c, r)
      PROVE  IndexInBounds' /\ WritersInBounds'
  BY <1>4 DEF Spawn, OpenLogSink, IndexInBounds, WritersInBounds
<1>5. ASSUME NEW r \in Runners, NEW len \in FrameLens, AppendRaw(r, len)
      PROVE  IndexInBounds' /\ WritersInBounds'
  <2>1. len \in Nat
    BY ConstantsAssumption
  <2>2. sent[r] + 1 \in Nat
    OBVIOUS
  <2>3. <<r, sent[r] + 1>> \in Frames
    BY <2>2 DEF Frames
  <2>4. Len(raw') = Len(raw) + len /\ Len(raw) \in Nat
    BY <1>5, <2>1, <2>3, AppendCopies DEF AppendRaw
  <2>5. IndexInBounds'
    <3> SUFFICES ASSUME NEW i \in DOMAIN index
                 PROVE  index[i].off + index[i].len <= Len(raw')
      BY <1>5, Zenon DEF AppendRaw, IndexInBounds
    <3>a. index[i] \in Rows
      OBVIOUS
    <3>1. index[i].off \in Nat /\ index[i].len \in Nat
      BY <3>a DEF Rows
    <3> QED
      BY <2>1, <2>4, <3>1 DEF IndexInBounds
  <2>6. WritersInBounds'
    <3> SUFFICES ASSUME NEW q \in Runners
                 PROVE  /\ pos'[q] <= Len(raw')
                        /\ task'[q] = "index"
                             => span'[q].off + span'[q].len <= Len(raw')
      BY DEF WritersInBounds
    <3>1. CASE q = r
      <4>1. pos'[q] = pos[q] + len /\ span'[q].off = pos[q] /\ span'[q].len = len
        BY <1>5, <3>1 DEF AppendRaw
      <4>2. pos[q] \in Nat /\ pos[q] <= Len(raw)
        BY DEF WritersInBounds
      <4> QED
        BY <2>1, <2>4, <4>1, <4>2
    <3>2. CASE q # r
      <4>1. pos'[q] = pos[q] /\ span'[q] = span[q] /\ task'[q] = task[q]
        BY <1>5, <3>2 DEF AppendRaw
      <4>2. span[q].off \in Nat /\ span[q].len \in Nat /\ pos[q] \in Nat
        BY DEF Spans
      <4> QED
        BY <2>1, <2>4, <4>1, <4>2 DEF WritersInBounds
    <3> QED
      BY <3>1, <3>2
  <2> QED
    BY <2>5, <2>6
<1>6. ASSUME NEW r \in Runners, AppendIndex(r)
      PROVE  IndexInBounds' /\ WritersInBounds'
  <2> DEFINE row == [frame |-> <<r, sent[r]>>, off |-> span[r].off, len |-> span[r].len]
  <2>1. row \in Rows /\ row.off + row.len <= Len(raw)
    BY <1>6 DEF AppendIndex, WritersInBounds, Rows, Frames, Spans
  <2>2. index' = Append(index, row) /\ raw' = raw
    BY <1>6 DEF AppendIndex
  <2> HIDE DEF row
  <2>3. IndexInBounds'
    BY <2>1, <2>2 DEF IndexInBounds
  <2>4. WritersInBounds'
    BY <1>6 DEF AppendIndex, WritersInBounds, TaskStates
  <2> QED
    BY <2>3, <2>4
<1>7. ASSUME NEW r \in Runners,
             Register(r) \/ Publish(r) \/ DecodeRecord(r) \/ DecodeDone(r) \/ Finish(r)
      PROVE  IndexInBounds' /\ WritersInBounds'
  <2>1. UNCHANGED <<pos, span, raw, index>>
    BY <1>7 DEF Register, Publish, DecodeRecord, DecodeDone, Finish, dirVars
  <2>2. \A q \in Runners : task'[q] = "index" => task[q] = "index"
    BY <1>7 DEF Register, Publish, DecodeRecord, DecodeDone, Finish, taskVars
  <2> QED
    BY <2>1, <2>2, BoundsFrame
<1>8. CASE UNCHANGED vars
  BY <1>3, <1>8 DEF vars, taskVars
<1> HIDE DEF TypeOK
<1> QED
  BY <1>1, <1>2, <1>3, <1>4, <1>5, <1>6, <1>7, <1>8
  DEF Next, DeviceStep, CallStep, OpenStep, FrameStep, RunnerOpenFails, RunnerEnds,
      AbortTakesEffect

(* However many clients and runners share a session-dir, and whatever the  *)
(* frame lengths, no row of index.jsonl reaches past the end of raw.bin    *)
(* (IndexInBounds; append_raw flushes the bytes before it writes the row). *)
THEOREM IndexStaysInBounds == Spec => []IndexInBounds
<1>1. Init => IndexInBounds /\ WritersInBounds
  BY DEF Init, IndexInBounds, WritersInBounds
<1> QED
  BY <1>1, TypeCorrect, BoundsStep, PTL DEF Spec
-----------------------------------------------------------------------------
(* The lossless log.  A runner has the row of every frame it received,     *)
(* except of the one it has in hand between raw.bin and index.jsonl, or    *)
(* had when an error ended it.                                             *)
LogInv ==
  /\ RowsInOrder
  /\ \A r \in Runners :
       /\ task[r] \in {"index", "publish", "decode"} => sent[r] >= 1
       /\ \/ task[r] # "index" /\ IndexedUpTo(r, sent[r])
          \/ task[r] \in {"index", "finished"} /\ IndexedUpTo(r, sent[r] - 1)
  /\ \A i \in DOMAIN records : \E j \in DOMAIN index : index[j].frame = records[i]

(* The rows of frames that their runner has still to publish: framesIn     *)
(* counts none of them.                                                    *)
Unpublished ==
  {i \in DOMAIN index :
     \E r \in Runners : task[r] = "publish" /\ index[i].frame = <<r, sent[r]>>}
CountInv == framesIn + Cardinality(Unpublished) <= Len(index)

(* Where no file of the session-dir changes and no runner gets a frame in  *)
(* hand, LogInv stays: every step of the manager, and the end of a task.   *)
LEMMA LogFrame ==
  ASSUME TypeOK, LogInv, UNCHANGED <<sent, index, records>>,
         \A r \in Runners :
           \/ task'[r] = task[r]
           \/ task[r] = "none" /\ task'[r] = "spawned"
           \/ task[r] = "spawned" /\ task'[r] = "recv"
           \/ task[r] = "publish" /\ task'[r] = "decode"
           \/ task[r] = "decode" /\ task'[r] = "recv"
           \/ task'[r] = "finished"
  PROVE  LogInv'
<1>1. RowsInOrder'
  BY DEF LogInv, RowsInOrder
<1>2. ASSUME NEW r \in Runners, NEW n \in Int, IndexedUpTo(r, n)
      PROVE  IndexedUpTo(r, n)'
  BY <1>2 DEF IndexedUpTo
<1>3. ASSUME NEW r \in Runners
      PROVE  /\ task'[r] \in {"index", "publish", "decode"} => sent'[r] >= 1
             /\ \/ task'[r] # "index" /\ IndexedUpTo(r, sent[r])'
                \/ task'[r] \in {"index", "finished"} /\ IndexedUpTo(r, sent[r] - 1)'
  <2>1. sent[r] \in Nat /\ sent'[r] = sent[r]
    BY DEF TypeOK
  <2>2. IndexedUpTo(r, sent[r]) => IndexedUpTo(r, sent[r])'
    BY <1>2, <2>1, Zenon DEF IndexedUpTo
  <2>3. IndexedUpTo(r, sent[r] - 1) => IndexedUpTo(r, sent[r] - 1)'
    BY <1>2, <2>1, Zenon DEF IndexedUpTo
  <2> QED
    BY <2>1, <2>2, <2>3 DEF LogInv
<1>4. (\A i \in DOMAIN records : \E j \in DOMAIN index : index[j].frame = records[i])'
  BY DEF LogInv
<1> QED
  BY <1>1, <1>3, <1>4 DEF LogInv

(* AppendRaw puts the next frame of a runner in hand. *)
LEMMA LogAppendRaw ==
  ASSUME TypeOK, LogInv, NEW r \in Runners, NEW len \in FrameLens, AppendRaw(r, len)
  PROVE  LogInv'
<1>1. UNCHANGED <<index, records>> /\ task[r] = "recv" /\ task'[r] = "index"
  BY DEF AppendRaw, TypeOK
<1>2. sent[r] \in Nat /\ sent'[r] = sent[r] + 1
  BY DEF AppendRaw, TypeOK
<1>3. \A q \in Runners \ {r} : task'[q] = task[q] /\ sent'[q] = sent[q]
  BY DEF AppendRaw, TypeOK
<1>4. RowsInOrder' /\ (\A i \in DOMAIN records : \E j \in DOMAIN index : index[j].frame = records[i])'
  BY <1>1 DEF LogInv, RowsInOrder
<1>5. IndexedUpTo(r, sent[r] - 1)'
  <2>1. IndexedUpTo(r, sent[r])
    BY <1>1 DEF LogInv
  <2>2. sent'[r] - 1 = sent[r]
    BY <1>2
  <2> QED
    BY <1>1, <2>1, <2>2 DEF IndexedUpTo
<1>6. ASSUME NEW q \in Runners \ {r}
      PROVE  /\ task'[q] \in {"index", "publish", "decode"} => sent'[q] >= 1
             /\ \/ task'[q] # "index" /\ IndexedUpTo(q, sent[q])'
                \/ task'[q] \in {"index", "finished"} /\ IndexedUpTo(q, sent[q] - 1)'
  BY <1>1, <1>3, Zenon DEF LogInv, IndexedUpTo
<1> QED
  BY <1>1, <1>2, <1>4, <1>5, <1>6 DEF LogInv

(* AppendIndex writes the row of the frame in hand at the end of           *)
(* index.jsonl, after all the earlier frames of the same runner.           *)
LEMMA LogAppendIndex ==
  ASSUME TypeOK, LogInv, NEW r \in Runners, AppendIndex(r)
  PROVE  LogInv'
<1> DEFINE row == [frame |-> <<r, sent[r]>>, off |-> span[r].off, len |-> span[r].len]
           N == Len(index)
<1>1. /\ index' = Append(index, row) /\ UNCHANGED <<records, sent>>
      /\ task[r] = "index" /\ task'[r] = "publish"
      /\ \A q \in Runners \ {r} : task'[q] = task[q]
  BY DEF AppendIndex, TypeOK
<1>2. sent[r] \in Nat /\ sent[r] >= 1 /\ IndexedUpTo(r, sent[r] - 1)
  BY <1>1 DEF LogInv, TypeOK
<1>3. /\ N \in Nat /\ DOMAIN index = 1..N /\ DOMAIN index' = 1..(N + 1)
      /\ index'[N + 1].frame = <<r, sent[r]>> /\ \A i \in 1..N : index'[i] = index[i]
  BY <1>1 DEF TypeOK
<1>a. \A i \in 1..N : index[i].frame \in Runners \X Nat
  <2>1. ASSUME NEW i \in 1..N PROVE index[i] \in Rows
    BY DEF TypeOK
  <2> QED
    BY <2>1 DEF Rows, Frames
<1> HIDE DEF row, N
<1>4. RowsInOrder'
  <2> SUFFICES ASSUME NEW i \in 1..(N + 1), NEW j \in 1..(N + 1), i < j,
                      index'[i].frame[1] = index'[j].frame[1]
               PROVE  index'[i].frame[2] < index'[j].frame[2]
    BY <1>3 DEF RowsInOrder
  <2>1. CASE j \in 1..N
    BY <1>3, <2>1 DEF LogInv, RowsInOrder
  <2>2. CASE j = N + 1
    <3>1. i \in 1..N /\ index[i].frame[1] = r
      BY <1>3, <2>2
    <3>2. index[i].frame[2] \in 1..(sent[r] - 1)
      BY <1>2, <1>3, <3>1 DEF IndexedUpTo
    <3> QED
      BY <1>2, <1>3, <2>2, <3>1, <3>2
  <2> QED
    BY <1>3, <2>1, <2>2
<1>5. IndexedUpTo(r, sent[r])'
  <2>1. ASSUME NEW k \in 1..sent[r]
        PROVE  \E i \in 1..(N + 1) : index'[i].frame = <<r, k>>
    <3>1. CASE k = sent[r]
      BY <1>3, <3>1
    <3>2. CASE k \in 1..(sent[r] - 1)
      <4>1. PICK i \in 1..N : index[i].frame = <<r, k>>
        BY <1>2, <1>3, <3>2, Zenon DEF IndexedUpTo
      <4> QED
        BY <1>3, <4>1
    <3> QED
      BY <1>2, <3>1, <3>2
  <2>2. ASSUME NEW i \in 1..(N + 1), index'[i].frame[1] = r
        PROVE  index'[i].frame[2] \in 1..sent[r]
    BY <1>2, <1>3, <2>2 DEF IndexedUpTo
  <2> QED
    BY <1>1, <1>3, <2>1, <2>2, Zenon DEF IndexedUpTo
<1>6. ASSUME NEW q \in Runners \ {r}, NEW n \in Int, IndexedUpTo(q, n)
      PROVE  /\ \A k \in 1..n : \E i \in DOMAIN index' : index'[i].frame = <<q, k>>
             /\ \A i \in DOMAIN index' : index'[i].frame[1] = q => index'[i].frame[2] \in 1..n
  <2>1. ASSUME NEW k \in 1..n PROVE \E i \in 1..(N + 1) : index'[i].frame = <<q, k>>
    <3>1. PICK i \in 1..N : index[i].frame = <<q, k>>
      BY <1>3, <1>6, Zenon DEF IndexedUpTo
    <3> QED
      BY <1>3, <3>1
  <2>2. ASSUME NEW i \in 1..(N + 1), index'[i].frame[1] = q
        PROVE  index'[i].frame[2] \in 1..n
    <3>1. i # N + 1
      BY <1>3, <2>2
    <3>2. i \in 1..N /\ index'[i] = index[i]
      BY <1>3, <3>1
    <3> QED
      BY <1>3, <1>6, <2>2, <3>2 DEF IndexedUpTo
  <2> QED
    BY <1>3, <2>1, <2>2, Zenon
<1>7. ASSUME NEW q \in Runners \ {r}
      PROVE  /\ task'[q] \in {"index", "publish", "decode"} => sent'[q] >= 1
             /\ \/ task'[q] # "index" /\ IndexedUpTo(q, sent[q])'
                \/ task'[q] \in {"index", "finished"} /\ IndexedUpTo(q, sent[q] - 1)'
  <2>1. sent[q] \in Int /\ sent[q] - 1 \in Int
    BY DEF TypeOK
  <2>2. IndexedUpTo(q, sent[q]) => IndexedUpTo(q, sent[q])'
    BY <1>1, <1>6, <2>1, Zenon DEF IndexedUpTo
  <2>3. IndexedUpTo(q, sent[q] - 1) => IndexedUpTo(q, sent[q] - 1)'
    BY <1>1, <1>6, <2>1, Zenon DEF IndexedUpTo
  <2> QED
    BY <1>1, <2>2, <2>3 DEF LogInv
<1>8. (\A i \in DOMAIN records : \E j \in DOMAIN index : index[j].frame = records[i])'
  BY <1>1, <1>3 DEF LogInv
<1> QED
  BY <1>1, <1>2, <1>4, <1>5, <1>7, <1>8 DEF LogInv

(* DecodeRecord appends a record of the runner's last frame, which has its *)
(* row.                                                                    *)
LEMMA LogDecodeRecord ==
  ASSUME TypeOK, LogInv, NEW r \in Runners, DecodeRecord(r)
  PROVE  LogInv'
<1>1. /\ records' = Append(records, <<r, sent[r]>>)
      /\ UNCHANGED <<task, index, sent>> /\ task[r] = "decode"
  BY DEF DecodeRecord, taskVars
<1>2. \E j \in DOMAIN index : index[j].frame = <<r, sent[r]>>
  <2>1. IndexedUpTo(r, sent[r]) /\ sent[r] >= 1 /\ sent[r] \in Nat
    BY <1>1, Zenon DEF LogInv, TypeOK
  <2>2. sent[r] \in 1..sent[r]
    BY <2>1
  <2> QED
    BY <2>1, <2>2 DEF IndexedUpTo
<1>3. (\A i \in DOMAIN records : \E j \in DOMAIN index : index[j].frame = records[i])'
  <2>1. records \in Seq(Frames) /\ <<r, sent[r]>> \in Frames
    BY DEF TypeOK, Frames
  <2> QED
    BY <1>1, <1>2, <2>1 DEF LogInv
<1>4. RowsInOrder'
  BY <1>1 DEF LogInv, RowsInOrder
<1>5. ASSUME NEW q \in Runners
      PROVE  /\ task'[q] \in {"index", "publish", "decode"} => sent'[q] >= 1
             /\ \/ task'[q] # "index" /\ IndexedUpTo(q, sent[q])'
                \/ task'[q] \in {"index", "finished"} /\ IndexedUpTo(q, sent[q] - 1)'
  BY <1>1, Zenon DEF LogInv, IndexedUpTo
<1> QED
  BY <1>3, <1>4, <1>5 DEF LogInv

(* Every step keeps LogInv. *)
LEMMA LogStep == TypeOK /\ LogInv /\ [Next]_vars => LogInv'
<1> SUFFICES ASSUME TypeOK, LogInv, [Next]_vars PROVE LogInv'
  OBVIOUS
<1>1. ASSUME NEW c \in Clients, Request(c) PROVE UNCHANGED <<task, sent, index, records>>
  BY <1>1, Zenon DEF Request, Start, Resume, Restart, Stop, Remove, Write, Wait,
              ReapFinished, taskVars, dirVars
<1>2. ASSUME NEW c \in Clients,
             OpenFails(c) \/ Insert(c) \/ StartFails(c) \/ Unregister(c)
               \/ WriteSink(c) \/ WaitDone(c)
      PROVE  UNCHANGED <<task, sent, index, records>>
  BY <1>2 DEF OpenFails, Insert, StartFails, Unregister, WriteSink, WaitDone,
              taskVars, dirVars
<1>3. CASE UNCHANGED vars
  BY <1>3, LogFrame DEF vars, taskVars, dirVars
<1>4. ASSUME NEW c \in Clients, NEW r \in Runners, Spawn(c, r) PROVE LogInv'
  <2>1. UNCHANGED <<sent, index, records>> /\ task[r] = "none" /\ task'[r] = "spawned"
    BY <1>4 DEF Spawn, TypeOK
  <2>2. \A q \in Runners \ {r} : task'[q] = task[q]
    BY <1>4 DEF Spawn, TypeOK
  <2> QED
    BY <2>1, <2>2, LogFrame
<1>5. ASSUME NEW r \in Runners,
             Register(r) \/ Publish(r) \/ DecodeDone(r) \/ Finish(r)
      PROVE  LogInv'
  <2>1. UNCHANGED <<sent, index, records>>
    BY <1>5 DEF Register, Publish, DecodeDone, Finish, dirVars
  <2>2. \A q \in Runners \ {r} : task'[q] = task[q]
    BY <1>5 DEF Register, Publish, DecodeDone, Finish, TypeOK
  <2>3. \/ task[r] = "spawned" /\ task'[r] = "recv"
        \/ task[r] = "publish" /\ task'[r] = "decode"
        \/ task[r] = "decode" /\ task'[r] = "recv"
        \/ task'[r] = "finished"
    BY <1>5 DEF Register, Publish, DecodeDone, Finish, TypeOK
  <2> QED
    BY <2>1, <2>2, <2>3, LogFrame
<1>6. ASSUME UNCHANGED <<task, sent, index, records>> PROVE LogInv'
  BY <1>6, LogFrame
<1> QED
  BY <1>1, <1>2, <1>3, <1>4, <1>5, <1>6, LogAppendRaw, LogAppendIndex, LogDecodeRecord
  DEF Next, DeviceStep, CallStep, OpenStep, FrameStep, RunnerOpenFails, RunnerEnds,
      AbortTakesEffect

(* Unpublished is a finite set of rows. *)
LEMMA UnpublishedFinite ==
  ASSUME TypeOK
  PROVE  IsFiniteSet(Unpublished) /\ Cardinality(Unpublished) \in Nat
<1>1. Unpublished \subseteq 1..Len(index) /\ Len(index) \in Nat
  BY DEF Unpublished, TypeOK
<1>2. IsFiniteSet(1..Len(index))
  BY <1>1, FS_Interval
<1>3. IsFiniteSet(Unpublished)
  BY <1>1, <1>2, FS_Subset, Zenon
<1> QED
  BY <1>3, FS_CardinalityType

(* Fewer frames to be published, and none more counted. *)
LEMMA CountFrame ==
  ASSUME TypeOK, CountInv, UNCHANGED <<index, sent, framesIn>>,
         \A r \in Runners : task'[r] = "publish" => task[r] = "publish"
  PROVE  CountInv'
<1>1. Unpublished' \subseteq Unpublished
  BY DEF Unpublished
<1>2. /\ Cardinality(Unpublished) \in Nat
      /\ Cardinality(Unpublished') <= Cardinality(Unpublished)
      /\ Cardinality(Unpublished') \in Nat
  BY <1>1, UnpublishedFinite, FS_Subset, FS_CardinalityType
<1> QED
  BY <1>2 DEF CountInv, TypeOK

(* A frame is counted when it leaves Unpublished, and it comes there with  *)
(* its row: so framesIn stays below the number of rows.                    *)
LEMMA CountStep ==
  TypeOK /\ LogInv /\ CountInv /\ [Next]_vars => CountInv'
<1> SUFFICES ASSUME TypeOK, LogInv, CountInv, [Next]_vars PROVE CountInv'
  OBVIOUS
<1>1. ASSUME NEW c \in Clients, Request(c) PROVE UNCHANGED <<task, index, sent, framesIn>>
  BY <1>1, Zenon DEF Request, Start, Resume, Restart, Stop, Remove, Write, Wait,
              ReapFinished, taskVars, dirVars
<1>2. ASSUME NEW c \in Clients,
             OpenFails(c) \/ Insert(c) \/ StartFails(c) \/ Unregister(c)
               \/ WriteSink(c) \/ WaitDone(c)
      PROVE  UNCHANGED <<task, index, sent, framesIn>>
  BY <1>2 DEF OpenFails, Insert, StartFails, Unregister, WriteSink, WaitDone,
              taskVars, dirVars
<1>3. CASE UNCHANGED vars
  BY <1>3, CountFrame DEF vars, taskVars, dirVars
<1>4. ASSUME NEW c \in Clients, NEW r \in Runners, Spawn(c, r) PROVE CountInv'
  BY <1>4, CountFrame DEF Spawn, TypeOK
<1>5. ASSUME NEW r \in Runners,
             Register(r) \/ DecodeRecord(r) \/ DecodeDone(r) \/ Finish(r)
      PROVE  CountInv'
  <2>1. UNCHANGED <<index, sent, framesIn>>
    BY <1>5 DEF Register, DecodeRecord, DecodeDone, Finish, dirVars
  <2>2. \A q \in Runners : task'[q] = "publish" => task[q] = "publish"
    BY <1>5 DEF Register, DecodeRecord, DecodeDone, Finish, TypeOK, taskVars
  <2> QED
    BY <2>1, <2>2, CountFrame
<1>6. ASSUME NEW r \in Runners, NEW len \in FrameLens, AppendRaw(r, len) PROVE CountInv'
  <2>1. UNCHANGED <<index, framesIn>> /\ task[r] = "recv" /\ task'[r] = "index"
    BY <1>6 DEF AppendRaw, TypeOK
  <2>2. \A q \in Runners \ {r} : task'[q] = task[q] /\ sent'[q] = sent[q]
    BY <1>6 DEF AppendRaw, TypeOK
  <2>3. Unpublished' = Unpublished
    BY <2>1, <2>2 DEF Unpublished
  <2> QED
    BY <2>1, <2>3 DEF CountInv
<1>7. ASSUME NEW r \in Runners, AppendIndex(r) PROVE CountInv'
  <2> DEFINE N == Len(index)
  <2>1. /\ UNCHANGED <<sent, framesIn>> /\ task[r] = "index" /\ task'[r] = "publish"
        /\ \A q \in Runners \ {r} : task'[q] = task[q]
    BY <1>7 DEF AppendIndex, TypeOK
  <2>2. /\ N \in Nat /\ Len(index') = N + 1
        /\ index'[N + 1].frame = <<r, sent[r]>> /\ \A i \in 1..N : index'[i] = index[i]
        /\ DOMAIN index = 1..N /\ DOMAIN index' = 1..(N + 1)
    BY <1>7 DEF AppendIndex, TypeOK
  <2>3. \A i \in 1..N : index[i].frame # <<r, sent[r]>>
    <3>1. IndexedUpTo(r, sent[r] - 1) /\ sent[r] \in Nat
      BY <2>1 DEF LogInv, TypeOK
    <3>2. sent[r] \notin 1..(sent[r] - 1)
      BY <3>1
    <3> QED
      BY <2>2, <3>1, <3>2 DEF IndexedUpTo
  <2> HIDE DEF N
  <2>4. Unpublished' = Unpublished \cup {N + 1}
    <3>1. ASSUME NEW i \in 1..N PROVE i \in Unpublished' <=> i \in Unpublished
      BY <2>1, <2>2, <2>3 DEF Unpublished
    <3>2. N + 1 \in Unpublished'
      BY <2>1, <2>2 DEF Unpublished
    <3>3. Unpublished' \subseteq 1..(N + 1) /\ Unpublished \subseteq 1..N
      BY <2>2 DEF Unpublished
    <3>4. \A i \in 1..(N + 1) : i \in 1..N \/ i = N + 1
      BY <2>2
    <3> QED
      BY <3>1, <3>2, <3>3, <3>4, Zenon
  <2>5. N + 1 \notin Unpublished
    BY <2>2 DEF Unpublished
  <2>6. Cardinality(Unpublished') = Cardinality(Unpublished) + 1
    BY <2>4, <2>5, UnpublishedFinite, FS_AddElement
  <2> QED
    BY <2>1, <2>2, <2>6, UnpublishedFinite DEF CountInv, TypeOK, N
<1>8. ASSUME NEW r \in Runners, Publish(r) PROVE CountInv'
  <2>1. /\ UNCHANGED <<sent, index>> /\ task[r] = "publish" /\ task'[r] = "decode"
        /\ \A q \in Runners \ {r} : task'[q] = task[q]
        /\ framesIn' \in {framesIn, framesIn + 1}
    BY <1>8 DEF Publish, TypeOK
  <2>2. PICK j \in DOMAIN index : index[j].frame = <<r, sent[r]>>
    <3>1. IndexedUpTo(r, sent[r]) /\ sent[r] >= 1 /\ sent[r] \in Nat
      BY <2>1, Zenon DEF LogInv, TypeOK
    <3>2. sent[r] \in 1..sent[r]
      BY <3>1
    <3> QED
      BY <3>1, <3>2, Zenon DEF IndexedUpTo
  <2>3. j \in Unpublished /\ Unpublished' \subseteq Unpublished \ {j}
    BY <2>1, <2>2 DEF Unpublished
  <2>4. Cardinality(Unpublished \ {j}) = Cardinality(Unpublished) - 1
        /\ IsFiniteSet(Unpublished \ {j})
    BY <2>3, UnpublishedFinite, FS_RemoveElement
  <2>5. Cardinality(Unpublished') <= Cardinality(Unpublished) - 1
        /\ Cardinality(Unpublished') \in Nat
    BY <2>3, <2>4, FS_Subset, FS_CardinalityType
  <2> QED
    BY <2>1, <2>5, UnpublishedFinite DEF CountInv, TypeOK
<1>9. ASSUME UNCHANGED <<task, index, sent, framesIn>> PROVE CountInv'
  BY <1>9, CountFrame
<1> QED
  BY <1>1, <1>2, <1>3, <1>4, <1>5, <1>6, <1>7, <1>8, <1>9
  DEF Next, DeviceStep, CallStep, OpenStep, FrameStep, RunnerOpenFails, RunnerEnds,
      AbortTakesEffect

(* The lossless logger, for any number of clients, runners and frames: the *)
(* frames of each runner are in index.jsonl once and in order, at most the *)
(* one in hand excepted, records and counted frames are indexed ones       *)
(* (LosslessLog), whatever is stopped, restarted or removed meanwhile.     *)
THEOREM LogIsLossless == Spec => []LosslessLog
<1>1. Init => LogInv /\ CountInv
  <2> SUFFICES ASSUME Init PROVE LogInv /\ CountInv
    OBVIOUS
  <2>1. DOMAIN index = {} /\ DOMAIN records = {} /\ Len(index) = 0 /\ framesIn = 0
    BY DEF Init
  <2>2. ASSUME NEW r \in Runners PROVE IndexedUpTo(r, sent[r])
    BY <2>1 DEF Init, IndexedUpTo
  <2>3. LogInv
    BY <2>1, <2>2 DEF Init, LogInv, RowsInOrder
  <2>4. Unpublished = {}
    BY <2>1 DEF Unpublished
  <2> QED
    BY <2>1, <2>3, <2>4, FS_EmptySet DEF CountInv
<1>2. TypeOK /\ LogInv /\ CountInv => LosslessLog
  <2> SUFFICES ASSUME TypeOK, LogInv, CountInv PROVE LosslessLog
    OBVIOUS
  <2>1. framesIn <= Len(index)
    BY UnpublishedFinite DEF CountInv, TypeOK
  <2> QED
    BY <2>1 DEF LogInv, LosslessLog
<1> QED
  BY <1>1, <1>2, TypeCorrect, LogStep, CountStep, PTL DEF Spec

-----------------------------------------------------------------------------
(* The entry never holds the handle of a task that did not register        *)
(* (HandleIsRegistered): start_source_with_sid inserts only after the      *)
(* registration channel has delivered the sid.                             *)
THEOREM HandlesAreRegistered == Spec => []HandleIsRegistered
<1>1. Init => HandleIsRegistered
  BY DEF Init, HandleIsRegistered
<1>2. HandleIsRegistered /\ [Next]_vars => HandleIsRegistered'
  <2> SUFFICES ASSUME HandleIsRegistered, [Next]_vars PROVE HandleIsRegistered'
    OBVIOUS
  <2> USE DEF HandleIsRegistered
  <2>1. ASSUME NEW c \in Clients, Request(c)
        PROVE  handle' \in {handle, None} /\ UNCHANGED announced
    BY <2>1, Zenon DEF Request, Start, Resume, Restart, Stop, Remove, Write, Wait,
                ReapFinished, taskVars
  <2>2. ASSUME NEW c \in Clients, NEW r \in Runners, Spawn(c, r)
        PROVE  UNCHANGED <<handle, announced>>
    BY <2>2 DEF Spawn, mgrVars
  <2>3. ASSUME NEW c \in Clients,
               OpenFails(c) \/ StartFails(c) \/ Unregister(c) \/ WriteSink(c)
                 \/ WaitDone(c)
        PROVE  handle' \in {handle, None} /\ UNCHANGED announced
    BY <2>3 DEF OpenFails, StartFails, Unregister, WriteSink, WaitDone, mgrVars,
                taskVars
  <2>4. ASSUME NEW c \in Clients, Insert(c) PROVE HandleIsRegistered'
    BY <2>4 DEF Insert, taskVars
  <2>5. ASSUME NEW r \in Runners,
               \/ Register(r) \/ AppendIndex(r) \/ Publish(r) \/ DecodeRecord(r)
               \/ DecodeDone(r) \/ Finish(r) \/ \E len \in FrameLens : AppendRaw(r, len)
        PROVE  UNCHANGED handle /\ announced \subseteq announced'
    BY <2>5, Zenon DEF Register, AppendIndex, Publish, DecodeRecord, DecodeDone, Finish,
                AppendRaw, mgrVars, taskVars
  <2>6. CASE UNCHANGED vars
    BY <2>6 DEF vars, mgrVars, taskVars
  <2> QED
    BY <2>1, <2>2, <2>3, <2>4, <2>5, <2>6
    DEF Next, DeviceStep, CallStep, OpenStep, FrameStep, RunnerOpenFails, RunnerEnds,
        AbortTakesEffect
<1> QED
  BY <1>1, <1>2, PTL DEF Spec

-----------------------------------------------------------------------------
(* With one caller at a time the manager keeps exactly one owner for every *)
(* task: the entry's handle, or the call in progress, never both.  The     *)
(* strengthening says when each of the two is empty, and that whoever owns *)
(* a running task has it registered.                                       *)
OneOwner ==
  /\ NoOrphan
  /\ handle # None => known /\ registered
  /\ \A c \in Clients :
       /\ call[c].pc \in {"opening", "awaiting", "waiting", "unregister"}
            => handle = None
       /\ call[c].pc \in {"opening", "unregister", "idle"} => call[c].r = None
       /\ call[c].pc = "awaiting" /\ call[c].r \in announced => registered
  /\ \A r \in announced : task[r] # "none"
  /\ ~issued => /\ ~known /\ ~registered
                /\ \A c \in Clients : call[c] = Idle
                /\ \A r \in Runners : task[r] = "none"

OneCaller == \A c, d \in Clients : c = d

(* A new manager owns no task. *)
LEMMA OneOwnerInit == Init => OneOwner
BY ConstantsAssumption DEF Init, OneOwner, NoOrphan, Unstopped, Live, Idle

(* Each operation of the manager hands the task over or aborts it; the     *)
(* steps of a runner change no owner.                                      *)
LEMMA OneOwnerStep ==
  ASSUME OneCaller, TypeOK, OneOwner, [Next]_vars
  PROVE  OneOwner'
<1> USE ConstantsAssumption DEF TypeOK, OneCaller, OneOwner, NoOrphan, Unstopped, Live
<1>1. ASSUME NEW c \in Clients, NEW backed \in BOOLEAN, Start(c, backed)
      PROVE  OneOwner'
  BY <1>1 DEF Start, Enter, Idle, taskVars
<1>2. ASSUME NEW c \in Clients, Resume(c) PROVE OneOwner'
  BY <1>2 DEF Resume, Enter, Idle, HandleFinished, taskVars
<1>3. ASSUME NEW c \in Clients, Restart(c) PROVE OneOwner'
  BY <1>3 DEF Restart, Enter, Idle
<1>4. ASSUME NEW c \in Clients, Stop(c) PROVE OneOwner'
  BY <1>4 DEF Stop, Idle
<1>5. ASSUME NEW c \in Clients, Remove(c) PROVE OneOwner'
  BY <1>5 DEF Remove, Enter, Idle
<1>6. ASSUME NEW c \in Clients, Write(c) PROVE OneOwner'
  BY <1>6 DEF Write, Enter, Idle, HandleFinished, taskVars
<1>7. ASSUME NEW c \in Clients, Wait(c) PROVE OneOwner'
  BY <1>7 DEF Wait, Enter, Idle, taskVars
<1>8. ASSUME NEW c \in Clients, ReapFinished(c) PROVE OneOwner'
  BY <1>8 DEF ReapFinished, Idle, HandleFinished, taskVars
<1>9. ASSUME NEW c \in Clients, NEW r \in Runners, Spawn(c, r) PROVE OneOwner'
  <2>1. handle' = None /\ UNCHANGED <<mgrVars, registered, announced, aborted>>
    BY <1>9 DEF Spawn, mgrVars
  <2>2. call'[c].pc = "awaiting" /\ call'[c].r = r /\ issued
    BY <1>9 DEF Spawn, Enter, Idle
  <2>3. \A d \in Clients : d = c
    OBVIOUS
  <2>4. NoOrphan'
    <3>1. call[c].r = None /\ handle = None
      BY <1>9 DEF Spawn
    <3>2. \A q \in Runners : ~Unstopped(q)
      <4>1. \A d \in Clients : call[d].r = None
        BY <2>3, <3>1
      <4>2. \A q \in Runners : q # None
        OBVIOUS
      <4> HIDE DEF Unstopped
      <4> QED
        BY <3>1, <4>1, <4>2
    <3>3. \A q \in Runners : q # r => task'[q] = task[q]
      BY <1>9 DEF Spawn
    <3>4. \A q \in Runners : Unstopped(q)' => q = r
      BY <2>1, <3>2, <3>3
    <3> QED
      BY <2>2, <3>4
  <2> QED
    BY <1>9, <2>1, <2>2, <2>3, <2>4 DEF Spawn, mgrVars
<1>10. ASSUME NEW c \in Clients, OpenFails(c) \/ WriteSink(c) PROVE OneOwner'
  <2>1. issued /\ UNCHANGED <<mgrVars, registered, taskVars>>
    BY <1>10 DEF OpenFails, WriteSink, Idle, mgrVars
  <2>2. call'[c] = Idle /\ \A d \in Clients : d = c
    BY <1>10 DEF OpenFails, WriteSink, Return
  <2>3. call[c].r = None \/ call[c].pc = "writing"
    BY <1>10 DEF OpenFails, WriteSink
  <2>4. \A r \in Runners : Unstopped(r) => handle = r
    BY <2>2, <2>3
  <2>5. NoOrphan'
    BY <2>1, <2>4 DEF mgrVars, taskVars
  <2>6. \A d \in Clients : call'[d].pc = "idle" /\ call'[d].r = None
    BY <2>2 DEF Idle
  <2>7. /\ (handle # None => known /\ registered)'
        /\ (\A r \in announced : task[r] # "none")'
        /\ issued'
    BY <2>1 DEF mgrVars, taskVars
  <2> QED
    BY <2>5, <2>6, <2>7
<1>11. ASSUME NEW c \in Clients, StartFails(c) PROVE OneOwner'
  <2>1. handle' = None /\ issued /\ UNCHANGED <<mgrVars, registered, taskVars>>
    BY <1>11 DEF StartFails, Idle, mgrVars
  <2>2. call'[c] = Idle /\ \A d \in Clients : d = c
    BY <1>11 DEF StartFails, Return
  <2>3. \A r \in Runners : ~Unstopped(r)
    <3>1. handle = None /\ ~Live(call[c].r)
      BY <1>11 DEF StartFails
    <3> QED
      BY <2>2, <3>1, Zenon
  <2> QED
    BY <2>1, <2>2, <2>3 DEF Idle, mgrVars, taskVars
<1>12. ASSUME NEW c \in Clients, Insert(c) PROVE OneOwner'
  BY <1>12 DEF Insert, Return, Idle, taskVars
<1>13. ASSUME NEW c \in Clients, Unregister(c) PROVE OneOwner'
  <2>1. handle' = None /\ UNCHANGED <<mgrVars, taskVars>> /\ issued
    BY <1>13 DEF Unregister, Idle, mgrVars
  <2>2. call'[c] = Idle /\ \A d \in Clients : d = c
    BY <1>13 DEF Unregister, Return
  <2>3. \A r \in Runners : ~Unstopped(r)
    <3>1. handle = None /\ call[c].r = None
      BY <1>13 DEF Unregister
    <3> QED
      BY <2>2, <3>1
  <2> QED
    BY <2>1, <2>2, <2>3 DEF Idle, mgrVars, taskVars
<1>14. ASSUME NEW c \in Clients, WaitDone(c) PROVE OneOwner'
  BY <1>14 DEF WaitDone, Return, Idle, taskVars
<1>15. ASSUME NEW r \in Runners, Register(r) PROVE OneOwner'
  BY <1>15 DEF Register, mgrVars
<1>16. ASSUME NEW r \in Runners,
              \/ AppendIndex(r) \/ Publish(r) \/ DecodeRecord(r) \/ DecodeDone(r)
              \/ Finish(r) /\ task[r] # "none"
              \/ \E len \in FrameLens : AppendRaw(r, len)
       PROVE  OneOwner'
  <2>1. UNCHANGED <<mgrVars, registered, call, announced, aborted>>
    BY <1>16, Zenon DEF AppendIndex, Publish, DecodeRecord, DecodeDone, Finish, AppendRaw,
                 taskVars
  <2>2. Live(r) \/ task'[r] = "finished"
    BY <1>16, Zenon DEF AppendIndex, Publish, DecodeRecord, DecodeDone, Finish, AppendRaw
  <2>3. task[r] # "none" /\ task'[r] # "none"
    BY <1>16, Zenon DEF AppendIndex, Publish, DecodeRecord, DecodeDone, Finish, AppendRaw,
                 taskVars
  <2>4. \A q \in Runners : q # r => task'[q] = task[q]
    BY <1>16, Zenon DEF AppendIndex, Publish, DecodeRecord, DecodeDone, Finish, AppendRaw,
                 taskVars
  <2>5. \A q \in Runners : Unstopped(q)' => Unstopped(q)
    BY <2>1, <2>2, <2>4
  <2> QED
    BY <2>1, <2>3, <2>4, <2>5 DEF mgrVars
<1>17. CASE UNCHANGED vars
  BY <1>17 DEF vars, mgrVars, taskVars
<1> HIDE DEF TypeOK, OneCaller, OneOwner, NoOrphan, Unstopped, Live
<1> QED
  <2> USE DEF Next, Request, DeviceStep, CallStep, OpenStep, FrameStep, RunnerOpenFails,
              RunnerEnds, AbortTakesEffect
  <2>1. CASE \E c \in Clients : Request(c) \/ DeviceStep(c) \/ CallStep(c) \/ WriteSink(c)
                                 \/ WaitDone(c)
    BY <2>1, <1>1, <1>2, <1>3, <1>4, <1>5, <1>6, <1>7, <1>8, <1>9, <1>10, <1>11,
       <1>12, <1>13, <1>14
  <2>2. CASE ~ \E c \in Clients : Request(c) \/ DeviceStep(c) \/ CallStep(c) \/ WriteSink(c)
                                 \/ WaitDone(c)
    BY <2>2, <1>15, <1>16, <1>17
  <2> QED
    BY <2>1, <2>2

(* What one caller at a time can rely on, from TypeOK and OneOwner.        *)
LEMMA OneOwnerMeans ==
  ASSUME OneCaller, TypeOK, OneOwner
  PROVE  NoOrphan /\ OneRunnerPerSession /\ StoppedMeansStopped
<1>1. NoOrphan
  BY DEF OneOwner
<1>2. OneRunnerPerSession
  <2> SUFFICES ASSUME NEW r \in Runners, NEW q \in Runners,
                      Unstopped(r), Unstopped(q)
               PROVE  r = q
    BY DEF OneRunnerPerSession
  <2>1. ASSUME NEW c \in Clients, call[c].pc # "writing", call[c].r \in Runners
        PROVE  handle = None
    BY <2>1, ConstantsAssumption DEF TypeOK, OneOwner, CallStates
  <2>2. CASE handle = r
    BY <2>1, <2>2, ConstantsAssumption DEF OneOwner, NoOrphan
  <2>3. CASE handle # r
    BY <2>1, <2>3, ConstantsAssumption DEF OneOwner, NoOrphan, OneCaller
  <2> QED
    BY <2>2, <2>3
<1>3. StoppedMeansStopped
  <2> SUFFICES ASSUME AllIdle, NEW r \in Runners, Unstopped(r)
               PROVE  Status = "running"
    BY DEF StoppedMeansStopped
  <2>1. handle = r
    BY ConstantsAssumption DEF OneOwner, NoOrphan, AllIdle, Idle
  <2> QED
    BY <2>1, ConstantsAssumption DEF OneOwner, Status, Unstopped
<1> QED
  BY <1>1, <1>2, <1>3

(* One caller at a time (a single connection handles its frames one after  *)
(* the other): every task that runs and has not been aborted is held by    *)
(* the entry or by the call in progress.  The runs with two callers show   *)
(* that the assumption is needed.                                          *)
THEOREM SequentialCallers ==
  ASSUME OneCaller
  PROVE  Spec => []NoOrphan
<1>1. TypeOK /\ OneOwner => NoOrphan
  BY OneOwnerMeans
<1>2. TypeOK /\ OneOwner /\ [Next]_vars => OneOwner'
  BY OneOwnerStep
<1> QED
  BY <1>1, <1>2, OneOwnerInit, TypeCorrect, PTL DEF Spec

(* One caller at a time: there is at most one task that runs and has not   *)
(* been aborted, and a source that list_sources reports as anything but    *)
(* running has none (OneRunnerShown).                                      *)
THEOREM OneRunnerIsShown ==
  ASSUME OneCaller
  PROVE  Spec => []OneRunnerShown
<1>1. TypeOK /\ OneOwner => OneRunnerShown
  BY OneOwnerMeans DEF OneRunnerShown
<1>2. TypeOK /\ OneOwner /\ [Next]_vars => OneOwner'
  BY OneOwnerStep
<1> QED
  BY <1>1, <1>2, OneOwnerInit, TypeCorrect, PTL DEF Spec
=============================================================================
