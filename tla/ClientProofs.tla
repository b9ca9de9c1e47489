---------------------------- MODULE ClientProofs ----------------------------
(***************************************************************************)
(* Proofs about the clients of one connection: the commands send and       *)
(* watch, for all encodings and any number of frames, and the page in the  *)
(* browser, for any number of sources, panels and reconnections.           *)
(***************************************************************************)
EXTENDS CliClients, WebClient, SequenceTheorems, FiniteSetTheorems, TLAPS

(* Most leaves need no arithmetic and are quick for Zenon; SMT takes the others. *)
USE ZenonT(1), SMTT(30), Zenon

-----------------------------------------------------------------------------
(* The commands. *)

CliEncodings == Labels \cup {Default}
CliPhases == {"idle", "handshake", "ack", "list", "stream", "exited"}
Clis == [opt : Invocations \cup {Idle_.opt}, phase : CliPhases, encoding : CliEncodings,
         exit : {"none", "ok", "error"}]

CliMessages ==
  [t : {"write_ack", "error"}] \cup [t : {"sources"}, encoding : CliEncodings]
    \cup [t : {"data"}, ch : {0}, n : Nat]

CliRows == [n : Nat, encoding : CliEncodings]

CliTypeOK ==
  /\ cli \in Clis /\ source \in [known : BOOLEAN, encoding : Labels]
  /\ replies \in Seq(CliMessages)
  /\ feed_on \in BOOLEAN /\ forwarded \in Seq(Nat)
  /\ printed \in Seq(CliRows)

(* Before the handshake is over nothing has happened. *)
NothingYet ==
  /\ requests_ = <<>> /\ replies = <<>> /\ feed_on = FALSE /\ forwarded = <<>> /\ printed = <<>>
  /\ listed = {} /\ writes = <<>> /\ audit = <<>>

WroteIt == writes = <<"all">> /\ audit \in {<<"ok">>, <<"failed">>}
Untold ==
  \/ writes = <<>> /\ audit = <<>>
  \/ WroteIt
  \/ writes \in {<<>>, <<"part">>, <<"all">>} /\ audit \in {<<"error">>, <<"failed">>}

(* send: one write is asked for, and the answer follows what was done. *)
SendInv ==
  /\ cli.phase \in {"ack", "exited"} /\ feed_on = FALSE
  /\ cli.exit = "ok" /\ cli.opt.wait => WroteIt
  /\ \/ requests_ = <<"write">> /\ replies = <<>> /\ writes = <<>> /\ audit = <<>>
     \/ requests_ = <<>> /\ replies = <<>> /\ Untold
     \/ requests_ = <<>> /\ replies = <<Told("write_ack")>> /\ WroteIt
     \/ requests_ = <<>> /\ replies = <<Told("error")>> /\ Untold

(* watch, waiting for the list of the sources. *)
ListInv ==
  /\ cli.opt.auto /\ feed_on = FALSE /\ forwarded = <<>> /\ printed = <<>>
  /\ \/ requests_ = <<"list">> /\ replies = <<>>
     \/ requests_ = <<>> /\ replies = <<>>
     \/ requests_ = <<>> /\ \E e \in listed : replies = <<[t |-> "sources", encoding |-> e]>>

(* watch, in its loop: the frames on their way follow those printed, and   *)
(* as long as the feed is on they reach to the last one forwarded.         *)
InStep ==
  /\ \A k \in 1..Len(replies) :
       replies[k].t = "data" /\ replies[k].ch = 0 /\ (cli.opt.ch = 0 => replies[k].n = Len(printed) + k)
  /\ cli.opt.ch = 0 => /\ Len(printed) + Len(replies) <= Len(forwarded)
                       /\ feed_on => Len(printed) + Len(replies) = Len(forwarded)

StreamInv ==
  /\ printed = <<>> \/ Len(printed) < cli.opt.max
  /\ cli.encoding \in (IF cli.opt.auto THEN listed ELSE {Default})
  /\ \/ requests_ = <<"sub">> /\ replies = <<>> /\ feed_on = FALSE /\ forwarded = <<>>
     \/ requests_ = <<>> /\ replies = <<Told("error")>> /\ feed_on = FALSE /\ forwarded = <<>>
     \/ requests_ = <<>> /\ InStep

WatchInv ==
  /\ cli.phase \in {"list", "stream", "exited"}
  /\ cli.phase = "list" => ListInv
  /\ cli.phase = "stream" => StreamInv
  /\ WatchPrintsTheFeed

CliInv ==
  /\ CliTypeOK
  /\ cli.phase = "idle" <=> cli.opt = Idle_.opt
  /\ cli.phase # "exited" => cli.exit = "none"
  /\ cli.phase \in {"idle", "handshake"} => NothingYet
  /\ cli.phase \in {"idle", "handshake", "list"} => cli.encoding = Default
  /\ cli.phase \notin {"idle", "handshake"} => /\ cli.opt.cmd = "send" => SendInv
                                               /\ cli.opt.cmd = "watch" => WatchInv

(* What a command line says. *)
LEMMA OptionIs ==
  ASSUME NEW o \in Invocations
  PROVE  /\ o.cmd \in {"send", "watch"} /\ o # Idle_.opt
         /\ o.ch \in {0, 1} /\ o.max \in {0, 1, 2}
         /\ o.cmd = "watch" => o.wait = FALSE
<1>1. /\ o.cmd \in {"send", "watch"} /\ o.ch \in {0, 1} /\ o.max \in {0, 1, 2}
      /\ o.cmd = "watch" => o.wait = FALSE
  <2> DEFINE S == [cmd : {"send"}, wait : BOOLEAN, auto : {FALSE}, ch : {0}, max : {1}]
             W == [cmd : {"watch"}, wait : {FALSE}, auto : BOOLEAN, ch : {0, 1}, max : {0, 1, 2}]
  <2>1. ASSUME o \in S PROVE o.cmd = "send" /\ o.ch = 0 /\ o.max = 1
    BY <2>1
  <2>2. ASSUME o \in W
        PROVE  o.cmd = "watch" /\ o.ch \in {0, 1} /\ o.max \in {0, 1, 2} /\ o.wait = FALSE
    BY <2>2, Zenon
  <2>3. o \in S \/ o \in W
    BY Zenon DEF Invocations
  <2> HIDE DEF S, W
  <2> QED
    BY <2>1, <2>2, <2>3, Zenon
<1>2. Idle_.opt.cmd = "none"
  BY DEF Idle_
<1> QED
  BY <1>1, <1>2

(* No messages, no frames and no rows. *)
LEMMA CliEmpty == <<>> \in Seq(CliMessages) /\ <<>> \in Seq(Nat) /\ <<>> \in Seq(CliRows)
  OBVIOUS

(* The parts of a command that has ended. *)
LEMMA ExitIs ==
  ASSUME cli \in Clis, NEW code \in {"ok", "error"}
  PROVE  /\ Exit(code) \in Clis /\ Exit(code).opt = cli.opt /\ Exit(code).phase = "exited"
         /\ Exit(code).exit = code /\ Exit(code).encoding = cli.encoding
  BY Zenon DEF Exit, Clis, CliPhases

(* A client that was not started has told nothing. *)
LEMMA CliStart == CliInit => CliInv
<1> SUFFICES ASSUME CliInit PROVE CliInv
  OBVIOUS
<1>1. cli = Idle_ /\ NothingYet /\ source \in [known : BOOLEAN, encoding : Labels]
  BY Zenon DEF CliInit, NothingYet
<1>2. /\ Idle_.phase = "idle" /\ Idle_.encoding = Default /\ Idle_.exit = "none"
      /\ Idle_ \in Clis
  BY DEF Idle_, Clis, CliPhases, CliEncodings
<1>3. CliTypeOK
  BY <1>1, <1>2, CliEmpty, Zenon DEF CliTypeOK, NothingYet
<1> QED
  BY <1>1, <1>2, <1>3 DEF CliInv

(* The command line is read, and the handshake refused or passed. *)
LEMMA InvokeStep ==
  ASSUME CliInv, NEW o \in Invocations, Invoke(o)
  PROVE  CliInv'
<1>1. /\ cli.phase = "idle" /\ NothingYet /\ cli.encoding = Default /\ cli.exit = "none"
      /\ cli \in Clis /\ CliTypeOK
  BY DEF CliInv, CliTypeOK, Invoke
<1>2. /\ cli' \in Clis /\ cli'.opt = o /\ cli'.phase = "handshake" /\ cli'.encoding = Default
      /\ cli'.exit = "none"
  BY <1>1, Zenon DEF Invoke, Clis, CliPhases
<1>3. /\ requests_' = requests_ /\ replies' = replies /\ source' = source /\ feed_on' = feed_on
      /\ forwarded' = forwarded /\ printed' = printed /\ listed' = listed /\ writes' = writes
      /\ audit' = audit
  BY DEF Invoke
<1>4. CliTypeOK' /\ NothingYet'
  BY <1>1, <1>2, <1>3 DEF CliTypeOK, NothingYet
<1>5. o # Idle_.opt
  BY OptionIs, Zenon
<1> QED
  BY <1>2, <1>4, <1>5 DEF CliInv

(* What holds of a command that ends where it stands. *)
LEMMA RefusedStep ==
  ASSUME CliInv, cli.phase = "handshake", cli' = Exit("error"),
         requests_' = requests_, replies' = replies, source' = source, feed_on' = feed_on,
         forwarded' = forwarded, printed' = printed, listed' = listed, writes' = writes,
         audit' = audit
  PROVE  CliInv'
<1>1. NothingYet /\ cli \in Clis /\ CliTypeOK /\ cli.opt # Idle_.opt
  BY DEF CliInv, CliTypeOK
<1>2. /\ cli' \in Clis /\ cli'.opt = cli.opt /\ cli'.phase = "exited" /\ cli'.exit = "error"
  BY <1>1, ExitIs
<1>3. CliTypeOK' /\ NothingYet'
  BY <1>1, <1>2 DEF CliTypeOK, NothingYet
<1>4. SendInv'
  BY <1>2, <1>3 DEF SendInv, NothingYet, Untold
<1>5. cli.opt \in Invocations
  BY <1>1 DEF Clis
<1>6. WatchPrintsTheFeed'
  <2>1. cli.opt.max \in {0, 1, 2}
    BY <1>5, OptionIs, Zenon
  <2>2. printed' = <<>> /\ DOMAIN printed' = {} /\ Len(printed') = 0
    BY <1>3 DEF NothingYet
  <2> QED
    BY <1>2, <2>1, <2>2 DEF WatchPrintsTheFeed
<1>7. WatchInv'
  BY <1>2, <1>6 DEF WatchInv
<1> QED
  BY <1>1, <1>2, <1>3, <1>4, <1>7 DEF CliInv

(* A client the server lets in goes on to its command. *)
LEMMA AdmittedStep ==
  ASSUME CliInv, NEW token, NEW loopback, NEW no_auth, Admitted(token, loopback, no_auth)
  PROVE  CliInv'
<1>1. /\ cli.phase = "handshake" /\ NothingYet /\ cli \in Clis /\ CliTypeOK
      /\ cli.opt # Idle_.opt /\ cli.exit = "none" /\ cli.encoding = Default
  BY DEF CliInv, CliTypeOK, Admitted
<1>2. cli.opt \in Invocations
  BY <1>1 DEF Clis
<1>3. /\ cli.opt.cmd \in {"send", "watch"} /\ cli.opt.max \in {0, 1, 2}
      /\ cli.opt.cmd = "watch" => cli.opt.wait = FALSE
  BY <1>2, OptionIs, Zenon
<1>4. /\ replies' = <<>> /\ source' = source /\ feed_on' = FALSE /\ forwarded' = <<>>
      /\ printed' = <<>> /\ listed' = {} /\ writes' = <<>> /\ audit' = <<>>
      /\ requests_' = FirstRequests
  BY <1>1 DEF Admitted, NothingYet
<1>5. CASE cli.opt.cmd = "send" /\ ~cli.opt.wait
  <2>1. cli' = Exit("ok") /\ requests_' = <<"write">>
    BY <1>3, <1>4, <1>5 DEF Admitted, FirstRequests
  <2>2. cli' \in Clis /\ cli'.opt = cli.opt /\ cli'.phase = "exited" /\ cli'.exit = "ok"
    BY <1>1, <2>1, ExitIs
  <2>3. CliTypeOK'
    BY <1>1, <1>4, <2>2, CliEmpty, Zenon DEF CliTypeOK
  <2>4. SendInv'
    BY <1>4, <1>5, <2>1, <2>2 DEF SendInv
  <2> QED
    BY <1>1, <1>5, <2>2, <2>3, <2>4 DEF CliInv
<1>6. CASE cli.opt.cmd = "send" /\ cli.opt.wait
  <2>1. cli' = [cli EXCEPT !.phase = "ack"] /\ requests_' = <<"write">>
    BY <1>4, <1>6 DEF Admitted, FirstRequests
  <2>2. cli' \in Clis /\ cli'.opt = cli.opt /\ cli'.phase = "ack" /\ cli'.exit = "none"
    BY <1>1, <2>1 DEF Clis, CliPhases
  <2>3. CliTypeOK'
    BY <1>1, <1>4, <2>2, CliEmpty, Zenon DEF CliTypeOK
  <2>4. SendInv'
    BY <1>4, <2>1, <2>2 DEF SendInv
  <2> QED
    BY <1>1, <1>6, <2>2, <2>3, <2>4 DEF CliInv
<1>7. CASE cli.opt.cmd = "watch"
  <2>1. cli' = [cli EXCEPT !.phase = IF cli.opt.auto THEN "list" ELSE "stream"]
    BY <1>7 DEF Admitted
  <2>2. /\ cli' \in Clis /\ cli'.opt = cli.opt /\ cli'.exit = "none" /\ cli'.encoding = Default
        /\ cli'.phase = IF cli.opt.auto THEN "list" ELSE "stream"
    BY <1>1, <2>1 DEF Clis, CliPhases
  <2>3. CliTypeOK'
    BY <1>1, <1>4, <2>2, CliEmpty, Zenon DEF CliTypeOK
  <2>4. DOMAIN printed' = {} /\ Len(printed') = 0
    BY <1>4
  <2>5. WatchPrintsTheFeed'
    BY <1>3, <1>4, <2>2, <2>4 DEF WatchPrintsTheFeed
  <2>6. CASE cli.opt.auto
    <3>1. ListInv' /\ cli'.phase = "list"
      BY <1>4, <1>7, <2>2, <2>6 DEF ListInv, FirstRequests
    <3>2. WatchInv'
      BY <2>5, <3>1 DEF WatchInv
    <3> QED
      BY <1>1, <1>7, <2>2, <2>3, <3>1, <3>2 DEF CliInv
  <2>7. CASE ~cli.opt.auto
    <3>1. StreamInv' /\ cli'.phase = "stream"
      BY <1>4, <1>7, <2>2, <2>7 DEF StreamInv, FirstRequests
    <3>2. WatchInv'
      BY <2>5, <3>1 DEF WatchInv
    <3> QED
      BY <1>1, <1>7, <2>2, <2>3, <3>1, <3>2 DEF CliInv
  <2> QED
    BY <2>6, <2>7
<1> QED
  BY <1>3, <1>5, <1>6, <1>7

(* A single message. *)
LEMMA OneMessage == ASSUME NEW x PROVE Head(<<x>>) = x /\ Tail(<<x>>) = <<>> /\ <<x>> # <<>>
  OBVIOUS

(* The answer to a write: the command ends as it says. *)
LEMMA AckStep ==
  ASSUME CliInv, CliReceive, cli.phase = "ack"
  PROVE  CliInv'
<1> DEFINE m == Head(replies)
<1>1. /\ CliTypeOK /\ cli \in Clis /\ cli.opt # Idle_.opt /\ cli.exit = "none"
      /\ cli.opt.cmd = "send" => SendInv
      /\ cli.opt.cmd = "watch" => WatchInv
  BY DEF CliInv, CliTypeOK
<1>2. cli.opt \in Invocations
  BY <1>1 DEF Clis
<1>3. cli.opt.cmd = "send" /\ SendInv
  BY <1>1, <1>2, OptionIs, Zenon DEF WatchInv
<1>4. /\ replies # <<>> /\ replies' = Tail(replies) /\ WaitAck(m) /\ requests_' = requests_
      /\ printed' = printed /\ source' = source /\ feed_on' = feed_on /\ forwarded' = forwarded
      /\ listed' = listed /\ writes' = writes /\ audit' = audit
  BY DEF CliReceive
<1>5. /\ requests_ = <<>> /\ feed_on = FALSE
      /\ \/ replies = <<Told("write_ack")>> /\ WroteIt
         \/ replies = <<Told("error")>> /\ Untold
  BY <1>3, <1>4, Zenon DEF SendInv
<1>6. /\ replies' = <<>>
      /\ \/ m = Told("write_ack") /\ WroteIt
         \/ m = Told("error") /\ Untold
  BY <1>4, <1>5, OneMessage, Zenon
<1>7. \/ cli' = Exit("ok") /\ WroteIt
      \/ cli' = Exit("error") /\ Untold
  BY <1>4, <1>6 DEF WaitAck, Told
<1>8. /\ cli' \in Clis /\ cli'.opt = cli.opt /\ cli'.phase = "exited"
      /\ cli'.exit = "ok" => WroteIt
      /\ Untold
  BY <1>1, <1>7, ExitIs DEF Untold
<1>9. SendInv'
  <2>1. (WroteIt => WroteIt') /\ (Untold => Untold')
    BY <1>4 DEF WroteIt, Untold
  <2> QED
    BY <1>4, <1>5, <1>6, <1>8, <2>1 DEF SendInv
<1>10. CliTypeOK'
  BY <1>1, <1>4, <1>6, <1>8, CliEmpty DEF CliTypeOK
<1> QED
  BY <1>1, <1>3, <1>8, <1>9, <1>10 DEF CliInv

(* The list of the sources: the encoding is found and the frames asked for. *)
LEMMA ListStep ==
  ASSUME CliInv, CliReceive, cli.phase = "list"
  PROVE  CliInv'
<1> DEFINE m == Head(replies)
<1>1. /\ CliTypeOK /\ cli \in Clis /\ cli.opt # Idle_.opt /\ cli.exit = "none"
      /\ cli.opt.cmd = "send" => SendInv
      /\ cli.opt.cmd = "watch" => WatchInv
  BY DEF CliInv, CliTypeOK
<1>2. cli.opt \in Invocations
  BY <1>1 DEF Clis
<1>3. cli.opt.cmd = "watch" /\ WatchInv /\ ListInv
  BY <1>1, <1>2, OptionIs, Zenon DEF WatchInv, SendInv
<1>4. /\ replies # <<>> /\ replies' = Tail(replies) /\ ResolveEncoding(m)
      /\ printed' = printed /\ source' = source /\ feed_on' = feed_on /\ forwarded' = forwarded
      /\ listed' = listed /\ writes' = writes /\ audit' = audit
  BY DEF CliReceive
<1>5. PICK e \in listed : replies = <<[t |-> "sources", encoding |-> e]>> /\ requests_ = <<>>
  BY <1>3, <1>4 DEF ListInv
<1>6. replies' = <<>> /\ m = [t |-> "sources", encoding |-> e]
  BY <1>4, <1>5
<1>7. m.t = "sources" /\ m.encoding = e
  BY <1>6
<1>8. m \in CliMessages
  BY <1>1, <1>4, HeadTailProperties DEF CliTypeOK
<1>9. e \in CliEncodings
  BY <1>7, <1>8 DEF CliMessages
<1>10. /\ cli' = [cli EXCEPT !.phase = "stream", !.encoding = e]
       /\ requests_' = <<>> \/ requests_' = <<"sub">>
  <2>1. /\ cli' = CASE m.t = "error" -> Exit("error")
                    [] m.t = "sources" -> [cli EXCEPT !.phase = "stream", !.encoding = m.encoding]
                    [] OTHER -> cli
        /\ requests_' = requests_ \/ requests_' = Append(requests_, "sub")
    BY <1>4 DEF ResolveEncoding, source_list_encoding
  <2>2. Append(<<>>, "sub") = <<"sub">>
    OBVIOUS
  <2> HIDE DEF m
  <2> QED
    BY <1>5, <1>7, <2>1, <2>2
<1>11. /\ cli' \in Clis /\ cli'.opt = cli.opt /\ cli'.phase = "stream" /\ cli'.exit = "none"
       /\ cli'.encoding = e
  BY <1>1, <1>9, <1>10, Zenon DEF Clis, CliPhases
<1>12. CliTypeOK'
  BY <1>1, <1>4, <1>6, <1>11, CliEmpty DEF CliTypeOK
<1>13. /\ cli.opt.auto /\ feed_on' = FALSE /\ forwarded' = <<>> /\ printed' = <<>> /\ e \in listed'
       /\ Len(replies') = 0 /\ Len(printed') = 0 /\ Len(forwarded') = 0 /\ DOMAIN printed' = {}
  BY <1>3, <1>4, <1>5, <1>6 DEF ListInv
<1>14. InStep'
  BY <1>13 DEF InStep
<1>15. StreamInv'
  BY <1>6, <1>10, <1>11, <1>13, <1>14 DEF StreamInv
<1>16. WatchPrintsTheFeed'
  BY <1>3, <1>4, <1>11 DEF WatchInv, WatchPrintsTheFeed
<1>17. WatchInv'
  BY <1>11, <1>15, <1>16 DEF WatchInv
<1> QED
  BY <1>1, <1>3, <1>11, <1>12, <1>17 DEF CliInv

(* A frame of the channel asked for is printed after those before it, and  *)
(* the command ends with the row that reaches the limit.                   *)
LEMMA PrintStep ==
  ASSUME CliInv, CliReceive, cli.phase = "stream", cli.opt.cmd = "watch", cli.opt.ch = 0,
         StreamInv, InStep, requests_ = <<>>
  PROVE  CliInv'
<1> DEFINE m == Head(replies)
           p == Len(printed)
           row == [n |-> m.n, encoding |-> cli.encoding]
           max == cli.opt.max
<1>1. /\ CliTypeOK /\ cli \in Clis /\ cli.opt # Idle_.opt /\ cli.exit = "none" /\ WatchInv
      /\ replies \in Seq(CliMessages) /\ printed \in Seq(CliRows)
  BY DEF CliInv, CliTypeOK
<1>2. cli.opt \in Invocations
  BY <1>1 DEF Clis
<1>3. max \in Nat
  <2>1. max \in {0, 1, 2}
    BY <1>2, OptionIs, Zenon
  <2> HIDE DEF max
  <2> QED
    BY <2>1
<1>4. /\ replies # <<>> /\ replies' = Tail(replies) /\ WatchFrame(m) /\ requests_' = requests_
      /\ source' = source /\ feed_on' = feed_on /\ forwarded' = forwarded
      /\ listed' = listed /\ writes' = writes /\ audit' = audit
  BY DEF CliReceive
<1>5. /\ p \in Nat /\ Len(replies) \in Nat /\ Len(replies) >= 1 /\ Len(forwarded) \in Nat
      /\ m = replies[1] /\ 1 \in 1..Len(replies)
      /\ Tail(replies) \in Seq(CliMessages) /\ Len(Tail(replies)) = Len(replies) - 1
      /\ \A k \in 1..(Len(replies) - 1) : Tail(replies)[k] = replies[k + 1] /\ k + 1 \in 1..Len(replies)
  BY <1>1, <1>4, LenProperties, HeadTailProperties, EmptySeq DEF CliTypeOK
<1>6. /\ m.t = "data" /\ m.ch = 0 /\ m.n = p + 1
      /\ p + Len(replies) <= Len(forwarded)
      /\ feed_on => p + Len(replies) = Len(forwarded)
      /\ \A k \in 1..Len(replies) : replies[k].t = "data" /\ replies[k].ch = 0 /\ replies[k].n = p + k
  BY <1>5 DEF InStep
<1>7. printed' = Append(printed, row)
  BY <1>4, <1>6 DEF WatchFrame, is_target_data
<1>8. cli' = IF p + 1 >= max THEN Exit("ok") ELSE cli
  <2>1. is_target_data(m) /\ m.t # "error"
    BY <1>6 DEF is_target_data
  <2> HIDE DEF m
  <2> QED
    BY <1>4, <2>1 DEF WatchFrame
<1>9. row \in CliRows
  BY <1>1, <1>5, <1>6 DEF CliRows, Clis
<1>10. /\ printed' \in Seq(CliRows) /\ Len(printed') = p + 1 /\ printed'[p + 1] = row
       /\ \A k \in 1..p : printed'[k] = printed[k]
       /\ DOMAIN printed' = 1..(p + 1) /\ DOMAIN printed = 1..p
  BY <1>1, <1>7, <1>9, AppendProperties, LenProperties
<1>11. /\ cli' \in Clis /\ cli'.opt = cli.opt /\ cli'.encoding = cli.encoding
       /\ \/ cli'.phase = "exited" /\ p + 1 >= max
          \/ cli'.phase = "stream" /\ cli'.exit = "none" /\ ~ (p + 1 >= max)
  BY <1>1, <1>8, ExitIs
<1>12. CliTypeOK'
  BY <1>1, <1>4, <1>5, <1>10, <1>11 DEF CliTypeOK
<1>13. /\ printed = <<>> \/ p < max
       /\ cli.encoding \in (IF cli.opt.auto THEN listed ELSE {Default})
  BY DEF StreamInv
<1>14. WatchPrintsTheFeed
  BY <1>1 DEF WatchInv
<1> DEFINE f == Len(forwarded)
           l == Len(replies)
<1>15. WatchPrintsTheFeed'
  <2>1. \A k \in 1..p : printed[k].n = k /\ k <= f
    BY <1>10, <1>14 DEF WatchPrintsTheFeed
  <2>2. \A k \in 1..(p + 1) : k \in 1..p \/ k = p + 1
    BY <1>5
  <2>3. p + 1 <= f
    BY <1>5, <1>6
  <2> HIDE DEF p, f, l
  <2>4. \A k \in DOMAIN printed' : printed'[k].n = k /\ k <= f
    BY <1>6, <1>10, <2>1, <2>2, <2>3
  <2>5. p = 0 \/ p < max
    BY <1>13 DEF p
  <2>6. Len(printed') <= IF max = 0 THEN 1 ELSE max
    BY <1>3, <1>5, <1>10, <2>5
  <2>7. \A k \in DOMAIN printed' : printed'[k].encoding \in (IF cli.opt.auto THEN listed ELSE {Default})
    BY <1>10, <1>13, <1>14, <2>2 DEF WatchPrintsTheFeed
  <2> QED
    BY <1>4, <1>11, <2>4, <2>6, <2>7 DEF WatchPrintsTheFeed, f
<1>16. cli'.phase = "stream" => StreamInv'
  <2> SUFFICES ASSUME cli'.phase = "stream" PROVE StreamInv'
    OBVIOUS
  <2>1. ~ (p + 1 >= max)
    BY <1>11
  <2>2. \A k \in 1..(l - 1) : /\ Tail(replies)[k].t = "data" /\ Tail(replies)[k].ch = 0
                              /\ Tail(replies)[k].n = (p + 1) + k
    <3> SUFFICES ASSUME NEW k \in 1..(l - 1)
                 PROVE  /\ Tail(replies)[k].t = "data" /\ Tail(replies)[k].ch = 0
                        /\ Tail(replies)[k].n = (p + 1) + k
      OBVIOUS
    <3>1. Tail(replies)[k] = replies[k + 1] /\ k + 1 \in 1..l
      BY <1>5
    <3>2. replies[k + 1].t = "data" /\ replies[k + 1].ch = 0 /\ replies[k + 1].n = p + (k + 1)
      BY <1>6, <3>1
    <3>3. p + (k + 1) = (p + 1) + k
      BY <1>5
    <3> QED
      BY <3>1, <3>2, <3>3
  <2>3. /\ (p + 1) + (l - 1) <= f
        /\ feed_on => (p + 1) + (l - 1) = f
    <3> HIDE DEF p, l, f
    <3> QED
      BY <1>5, <1>6 DEF l, f
  <2>4. Len(replies') = l - 1 /\ Len(printed') = p + 1 /\ Len(forwarded') = f
    BY <1>4, <1>5, <1>10
  <2> HIDE DEF p, l, f, m, row, max
  <2>5. InStep'
    BY <1>4, <1>11, <2>2, <2>3, <2>4, Zenon DEF InStep
  <2>6. p + 1 < max
    BY <1>3, <1>5, <2>1
  <2> QED
    BY <1>4, <1>11, <1>13, <2>4, <2>5, <2>6 DEF StreamInv, max
<1>17. WatchInv'
  BY <1>11, <1>15, <1>16 DEF WatchInv
<1> QED
  BY <1>1, <1>11, <1>12, <1>17 DEF CliInv

(* Every step of the loop of watch. *)
LEMMA StreamStep ==
  ASSUME CliInv, CliReceive, cli.phase = "stream"
  PROVE  CliInv'
<1> DEFINE m == Head(replies)
<1>1. /\ CliTypeOK /\ cli \in Clis /\ cli.opt # Idle_.opt /\ cli.exit = "none"
      /\ replies \in Seq(CliMessages)
      /\ cli.opt.cmd = "send" => SendInv
      /\ cli.opt.cmd = "watch" => WatchInv
  BY DEF CliInv, CliTypeOK
<1>2. cli.opt \in Invocations
  BY <1>1 DEF Clis
<1>3. cli.opt.cmd = "watch" /\ WatchInv /\ StreamInv
  BY <1>1, <1>2, OptionIs, Zenon DEF WatchInv, SendInv
<1>4. /\ replies # <<>> /\ replies' = Tail(replies) /\ WatchFrame(m) /\ requests_' = requests_
      /\ source' = source /\ feed_on' = feed_on /\ forwarded' = forwarded
      /\ listed' = listed /\ writes' = writes /\ audit' = audit
  BY DEF CliReceive
<1>5. ASSUME replies = <<Told("error")>> PROVE CliInv'
  <2>1. m = Told("error") /\ replies' = <<>>
    BY <1>4, <1>5, OneMessage
  <2>2. printed' = printed /\ cli' = Exit("error")
    BY <1>4, <2>1 DEF WatchFrame, is_target_data, Told
  <2>3. cli' \in Clis /\ cli'.opt = cli.opt /\ cli'.phase = "exited"
    BY <1>1, <2>2, ExitIs
  <2>4. CliTypeOK'
    BY <1>1, <1>4, <2>1, <2>2, <2>3, CliEmpty DEF CliTypeOK
  <2>5. WatchPrintsTheFeed'
    BY <1>3, <1>4, <2>2, <2>3 DEF WatchInv, WatchPrintsTheFeed
  <2>6. WatchInv'
    BY <2>3, <2>5 DEF WatchInv
  <2> QED
    BY <1>1, <1>3, <2>3, <2>4, <2>6 DEF CliInv
<1>6. ASSUME requests_ = <<>>, InStep, cli.opt.ch # 0 PROVE CliInv'
  <2>1. /\ Len(replies) \in Nat /\ m = replies[1] /\ 1 \in 1..Len(replies)
        /\ Tail(replies) \in Seq(CliMessages) /\ Len(Tail(replies)) = Len(replies) - 1
        /\ \A k \in 1..(Len(replies) - 1) :
             Tail(replies)[k] = replies[k + 1] /\ k + 1 \in 1..Len(replies)
    BY <1>1, <1>4, LenProperties, HeadTailProperties, EmptySeq
  <2>2. \A k \in 1..Len(replies) : replies[k].t = "data" /\ replies[k].ch = 0
    BY <1>6 DEF InStep
  <2>3. ~is_target_data(m) /\ m.t # "error"
    BY <1>6, <2>1, <2>2 DEF is_target_data
  <2>4. printed' = printed /\ cli' = cli
    <3> HIDE DEF m
    <3> QED
      BY <1>4, <2>3 DEF WatchFrame
  <2>5. \A k \in 1..(Len(replies) - 1) : Tail(replies)[k].t = "data" /\ Tail(replies)[k].ch = 0
    BY <2>1, <2>2
  <2>6. InStep'
    BY <1>4, <1>6, <2>1, <2>4, <2>5 DEF InStep
  <2>7. StreamInv'
    BY <1>3, <1>4, <1>6, <2>4, <2>6 DEF StreamInv
  <2>8. CliTypeOK'
    BY <1>1, <1>4, <2>1, <2>4 DEF CliTypeOK
  <2>9. WatchInv'
    BY <1>3, <1>4, <2>4, <2>7 DEF WatchInv, WatchPrintsTheFeed
  <2> QED
    BY <1>1, <1>3, <2>4, <2>8, <2>9 DEF CliInv
<1>7. \/ replies = <<Told("error")>>
      \/ requests_ = <<>> /\ InStep
  BY <1>3, <1>4, Zenon DEF StreamInv
<1> QED
  BY <1>3, <1>5, <1>6, <1>7, PrintStep

(* The connection ends: a part of what was on its way arrives. *)
LEMMA LinkStep ==
  ASSUME CliInv, NEW how, NEW kept \in 0..Len(replies), LinkEnds(how, kept)
  PROVE  CliInv'
<1> DEFINE l == Len(replies)
           r == SubSeq(replies, 1, kept)
<1>1. /\ CliTypeOK /\ replies \in Seq(CliMessages) /\ l \in Nat /\ kept \in Nat /\ kept <= l
      /\ Len(printed) \in Nat /\ Len(forwarded) \in Nat
  BY LenProperties DEF CliInv, CliTypeOK
<1>2. /\ cli' = cli /\ requests_' \in {<<>>, requests_} /\ feed_on' = FALSE /\ replies' = r /\ source' = source
      /\ forwarded' = forwarded /\ printed' = printed /\ listed' = listed /\ writes' = writes
      /\ audit' = audit
  BY DEF LinkEnds
<1>3. r \in Seq(CliMessages) /\ Len(r) = kept /\ \A k \in 1..kept : r[k] = replies[k] /\ k \in 1..l
  <2>1. \A k \in 1..kept : k \in 1..l
    BY <1>1
  <2>2. \A k \in 1..kept : replies[k] \in CliMessages
    BY <1>1, <2>1, ElementOfSeq
  <2> QED
    BY <1>1, <2>1, <2>2, SubSeqProperties
<1>4. ASSUME l = 0 PROVE r = <<>>
  BY <1>1, <1>3, <1>4, EmptySeq
<1>5. ASSUME NEW x, replies = <<x>> PROVE r = <<>> \/ r = <<x>>
  <2>1. l = 1 /\ replies[1] = x
    BY <1>5
  <2>2. kept = 0 \/ kept = 1
    BY <1>1, <2>1
  <2>3. CASE kept = 0
    BY <1>3, <2>3, EmptySeq
  <2>4. CASE kept = 1
    <3>1. r = replies
      BY <1>1, <2>1, <2>4, SubSeqFull
    <3> QED
      BY <1>5, <3>1
  <2> QED
    BY <2>2, <2>3, <2>4
<1>6. CliTypeOK'
  BY <1>1, <1>2, <1>3, Zenon DEF CliTypeOK
<1>7. ASSUME NothingYet PROVE NothingYet'
  <2>1. l = 0
    BY <1>7 DEF NothingYet
  <2> QED
    BY <1>2, <1>4, <1>7, <2>1 DEF NothingYet
<1>8. ASSUME SendInv PROVE SendInv'
  <2>1. (WroteIt => WroteIt' /\ Untold) /\ (Untold => Untold')
    BY <1>2 DEF WroteIt, Untold
  <2>2. \/ /\ requests_ = <<"write">> /\ replies = <<>> /\ writes = <<>> /\ audit = <<>>
        \/ requests_ = <<>> /\ replies = <<>> /\ Untold
        \/ requests_ = <<>> /\ replies = <<Told("write_ack")>> /\ WroteIt
        \/ requests_ = <<>> /\ replies = <<Told("error")>> /\ Untold
    BY <1>8, Zenon DEF SendInv
  <2>3. ASSUME replies = <<>> PROVE r = <<>>
    BY <1>4, <2>3
  <2> HIDE DEF r, l
  <2>4. \/ requests_ = <<"write">> /\ r = <<>> /\ writes = <<>> /\ audit = <<>>
        \/ requests_ = <<>> /\ r = <<>> /\ Untold
        \/ requests_ = <<>> /\ r = <<Told("write_ack")>> /\ WroteIt
        \/ requests_ = <<>> /\ r = <<Told("error")>> /\ Untold
    BY <1>5, <2>1, <2>2, <2>3
  <2>5. writes = <<>> /\ audit = <<>> => Untold
    BY DEF Untold
  <2>6. /\ cli'.phase \in {"ack", "exited"} /\ feed_on' = FALSE
        /\ cli'.exit = "ok" /\ cli'.opt.wait => WroteIt'
    BY <1>2, <1>8, <2>1 DEF SendInv
  <2> QED
    BY <1>2, <2>1, <2>4, <2>5, <2>6, Zenon DEF SendInv
<1>9. ASSUME ListInv PROVE ListInv'
  <2>1. \/ replies = <<>> /\ (requests_ = <<"list">> \/ requests_ = <<>>)
        \/ requests_ = <<>> /\ \E e \in listed : replies = <<[t |-> "sources", encoding |-> e]>>
    BY <1>9, Zenon DEF ListInv
  <2>2. ASSUME replies = <<>> PROVE r = <<>>
    BY <1>4, <2>2
  <2> HIDE DEF r, l
  <2>3. \/ r = <<>> /\ (requests_ = <<"list">> \/ requests_ = <<>>)
        \/ requests_ = <<>> /\ \E e \in listed : r = <<[t |-> "sources", encoding |-> e]>>
    <3>1. CASE replies = <<>> /\ (requests_ = <<"list">> \/ requests_ = <<>>)
      BY <2>2, <3>1
    <3>2. ASSUME NEW e \in listed, replies = <<[t |-> "sources", encoding |-> e]>>
          PROVE  r = <<>> \/ r = <<[t |-> "sources", encoding |-> e]>>
      BY <1>5, <3>2
    <3> QED
      BY <2>1, <3>1, <3>2
  <2> QED
    BY <1>2, <1>9, <2>3 DEF ListInv
<1>10. ASSUME StreamInv, WatchPrintsTheFeed, cli.opt.cmd = "watch" PROVE StreamInv'
  <2>1. ASSUME InStep PROVE InStep'
    <3>1. \A k \in 1..kept : r[k].t = "data" /\ r[k].ch = 0 /\ (cli.opt.ch = 0 => r[k].n = Len(printed) + k)
      BY <1>3, <2>1 DEF InStep
    <3>2. cli.opt.ch = 0 => Len(printed) + l <= Len(forwarded)
      BY <2>1 DEF InStep
    <3> DEFINE p == Len(printed)
               f == Len(forwarded)
    <3> HIDE DEF r, l, p, f
    <3>3. cli.opt.ch = 0 => p + kept <= f
      BY <1>1, <3>2 DEF p, f
    <3> QED
      BY <1>2, <1>3, <3>1, <3>3 DEF InStep, p, f
  <2>2. ASSUME forwarded = <<>>, r = <<>> PROVE InStep'
    <3>1. Len(printed) = 0
      <4>1. \A k \in DOMAIN printed : k <= Len(forwarded)
        BY <1>10 DEF WatchPrintsTheFeed
      <4>2. \A k \in 1..Len(printed) : k <= 0
        BY <1>1, <2>2, <4>1, LenProperties DEF CliTypeOK
      <4> QED
        BY <1>1, <4>2
    <3>2. Len(replies') = 0 /\ Len(printed') = 0 /\ Len(forwarded') = 0
      BY <1>2, <2>2, <3>1
    <3> QED
      BY <1>2, <3>2 DEF InStep
  <2>3. \/ requests_ = <<"sub">> /\ replies = <<>> /\ forwarded = <<>>
        \/ requests_ = <<>> /\ replies = <<Told("error")>> /\ forwarded = <<>>
        \/ requests_ = <<>> /\ InStep
    BY <1>10, Zenon DEF StreamInv
  <2>4. ASSUME replies = <<>> PROVE r = <<>>
    BY <1>4, <2>4
  <2> HIDE DEF r, l
  <2>5. \/ requests_' = <<"sub">> /\ r = <<>> /\ forwarded = <<>>
        \/ requests_' = <<>> /\ r = <<Told("error")>> /\ forwarded = <<>>
        \/ requests_' = <<>> /\ InStep'
    BY <1>2, <1>5, <2>1, <2>2, <2>3, <2>4
  <2> QED
    BY <1>2, <1>10, <2>5 DEF StreamInv
<1>11. ASSUME WatchInv, cli.opt.cmd = "watch" PROVE WatchInv'
  <2>1. WatchPrintsTheFeed'
    BY <1>2, <1>11 DEF WatchInv, WatchPrintsTheFeed
  <2> QED
    BY <1>2, <1>9, <1>10, <1>11, <2>1 DEF WatchInv
<1> QED
  BY <1>2, <1>6, <1>7, <1>8, <1>11 DEF CliInv

(* The end of the stream is the end of the command. *)
LEMMA EndStep == CliInv /\ StreamEnds => CliInv'
<1> SUFFICES ASSUME CliInv, StreamEnds PROVE CliInv'
  OBVIOUS
<1>1. /\ CliTypeOK /\ cli \in Clis /\ cli.phase \in {"ack", "list", "stream"} /\ cli.exit = "none"
      /\ cli.opt # Idle_.opt
      /\ cli.opt.cmd = "send" => SendInv
      /\ cli.opt.cmd = "watch" => WatchInv
  BY DEF CliInv, CliTypeOK, StreamEnds
<1>2. PICK code \in {"ok", "error"} : /\ cli' = Exit(code)
                                      /\ code = "ok" => cli.phase = "stream"
  BY DEF StreamEnds
<1>3. /\ requests_' = requests_ /\ replies' = replies /\ source' = source /\ feed_on' = feed_on
      /\ forwarded' = forwarded /\ printed' = printed /\ listed' = listed /\ writes' = writes
      /\ audit' = audit
  BY DEF StreamEnds
<1>4. /\ cli' \in Clis /\ cli'.opt = cli.opt /\ cli'.phase = "exited" /\ cli'.exit = code
  BY <1>1, <1>2, ExitIs
<1>5. CliTypeOK'
  BY <1>1, <1>3, <1>4 DEF CliTypeOK
<1>6. ASSUME cli.opt.cmd = "send" PROVE SendInv'
  <2>1. SendInv /\ cli.phase = "ack" /\ code = "error"
    BY <1>1, <1>2, <1>6 DEF SendInv
  <2> QED
    BY <1>3, <1>4, <2>1 DEF SendInv, WroteIt, Untold
<1>7. ASSUME cli.opt.cmd = "watch" PROVE WatchInv'
  BY <1>1, <1>3, <1>4, <1>7 DEF WatchInv, WatchPrintsTheFeed
<1> QED
  BY <1>1, <1>4, <1>5, <1>6, <1>7 DEF CliInv

(* The requests that can be waiting: of send its write, of watch the one   *)
(* its phase has asked for.                                                *)
LEMMA RequestIs ==
  ASSUME CliInv, NEW q, Request(q)
  PROVE  /\ cli.phase \notin {"idle", "handshake"} /\ cli.opt \in Invocations
         /\ \/ cli.opt.cmd = "send" /\ SendInv /\ q = "write"
            \/ cli.opt.cmd = "watch" /\ cli.phase = "list" /\ ListInv /\ q = "list"
            \/ cli.opt.cmd = "watch" /\ cli.phase = "stream" /\ StreamInv /\ q = "sub"
            \/ cli.opt.cmd = "watch" /\ cli.phase = "exited"
         /\ cli.opt.cmd = "watch" => WatchInv
         /\ (cli.phase # "exited" \/ cli.opt.cmd = "send") => requests_ = <<q>> /\ requests_' = <<>>
<1>1. requests_ # <<>> /\ Head(requests_) = q /\ requests_' = Tail(requests_)
  BY DEF Request
<1>2. cli.phase \notin {"idle", "handshake"}
  BY <1>1 DEF CliInv, NothingYet
<1>3. cli.opt \in Invocations
  BY <1>2 DEF CliInv, CliTypeOK, Clis
<1>4. ASSUME NEW x, requests_ = <<x>> PROVE requests_ = <<q>> /\ x = q /\ requests_' = <<>>
  BY <1>1, <1>4, OneMessage
<1>5. cli.opt.cmd = "send" \/ cli.opt.cmd = "watch"
  BY <1>3, OptionIs, Zenon
<1>6. ASSUME cli.opt.cmd = "send" PROVE SendInv /\ requests_ = <<"write">>
  <2>1. SendInv
    BY <1>2, <1>6 DEF CliInv
  <2> QED
    BY <1>1, <2>1, Zenon DEF SendInv
<1>7. ASSUME cli.opt.cmd = "watch"
      PROVE  /\ WatchInv /\ cli.phase \in {"list", "stream", "exited"}
             /\ cli.phase = "list" => ListInv /\ requests_ = <<"list">>
             /\ cli.phase = "stream" => StreamInv /\ requests_ = <<"sub">>
  <2>1. WatchInv
    BY <1>2, <1>7 DEF CliInv
  <2>2. ListInv => requests_ = <<"list">>
    BY <1>1, Zenon DEF ListInv
  <2>3. StreamInv => requests_ = <<"sub">>
    BY <1>1, Zenon DEF StreamInv
  <2> QED
    BY <2>1, <2>2, <2>3 DEF WatchInv
<1> QED
  BY <1>2, <1>3, <1>4, <1>5, <1>6, <1>7

(* The list of the sources is sent. *)
LEMMA ServeListStep == CliInv /\ CliServeList => CliInv'
<1> SUFFICES ASSUME CliInv, CliServeList PROVE CliInv'
  OBVIOUS
<1> DEFINE e == IF source.known THEN source.encoding ELSE Default
           m == [t |-> "sources", encoding |-> e]
<1>1. /\ Request("list") /\ replies' \in {replies, Append(replies, m)} /\ listed' = listed \cup {e}
      /\ cli' = cli /\ source' = source /\ feed_on' = feed_on /\ forwarded' = forwarded
      /\ printed' = printed /\ writes' = writes /\ audit' = audit
  BY DEF CliServeList, CliReply
<1>2. CliTypeOK /\ replies \in Seq(CliMessages) /\ cli.opt # Idle_.opt
  BY <1>1, RequestIs DEF CliInv, CliTypeOK
<1>3. e \in CliEncodings
  BY <1>2 DEF CliTypeOK, CliEncodings
<1> HIDE DEF e
<1>4. m \in CliMessages
  BY <1>3 DEF CliMessages
<1>5. Append(replies, m) \in Seq(CliMessages)
  BY <1>2, <1>4, AppendProperties
<1>6. CliTypeOK'
  BY <1>1, <1>2, <1>5 DEF CliTypeOK
<1>7. /\ cli.phase \notin {"idle", "handshake"} /\ cli.opt.cmd = "watch" /\ WatchInv
      /\ \/ cli.phase = "list" /\ ListInv /\ requests_ = <<"list">> /\ requests_' = <<>>
         \/ cli.phase = "exited"
  BY <1>1, RequestIs
<1>8. WatchPrintsTheFeed'
  BY <1>1, <1>7 DEF WatchInv, WatchPrintsTheFeed
<1>9. ASSUME cli.phase = "list" PROVE ListInv'
  <2>0. ListInv /\ requests_ = <<"list">> /\ requests_ # <<>> /\ requests_' = <<>>
    BY <1>7, <1>9, OneMessage
  <2>1. replies = <<>> /\ requests_' = <<>>
    BY <2>0, Zenon DEF ListInv
  <2>2. replies' \in {<<>>, <<m>>} /\ e \in listed'
    BY <1>1, <2>1
  <2> QED
    BY <1>1, <1>7, <1>9, <2>1, <2>2, Zenon DEF ListInv
<1>10. WatchInv'
  BY <1>1, <1>7, <1>8, <1>9 DEF WatchInv
<1> QED
  BY <1>1, <1>6, <1>7, <1>10 DEF CliInv

(* The subscription: the feed starts where nothing was forwarded yet, or   *)
(* the source is not there.                                                *)
LEMMA ServeSubStep == CliInv /\ CliServeSub => CliInv'
<1> SUFFICES ASSUME CliInv, CliServeSub PROVE CliInv'
  OBVIOUS
<1>1. /\ Request("sub") /\ cli' = cli /\ source' = source /\ forwarded' = forwarded
      /\ printed' = printed /\ listed' = listed /\ writes' = writes /\ audit' = audit
      /\ \/ feed_on' \in BOOLEAN /\ replies' = replies
         \/ feed_on' = feed_on /\ replies' \in {replies, Append(replies, Told("error"))}
  BY DEF CliServeSub, CliReply, CliInv, CliTypeOK
<1>2. CliTypeOK /\ replies \in Seq(CliMessages)
  BY DEF CliInv, CliTypeOK
<1>3. Told("error") \in CliMessages
  BY DEF CliMessages, Told
<1>4. Append(replies, Told("error")) \in Seq(CliMessages)
  BY <1>2, <1>3, AppendProperties
<1>5. CliTypeOK'
  BY <1>1, <1>2, <1>4, Zenon DEF CliTypeOK
<1>6. /\ cli.phase \notin {"idle", "handshake"} /\ cli.opt.cmd = "watch" /\ WatchInv
      /\ \/ cli.phase = "stream" /\ StreamInv /\ requests_ = <<"sub">> /\ requests_' = <<>>
         \/ cli.phase = "exited"
  BY <1>1, RequestIs
<1>7. WatchPrintsTheFeed'
  BY <1>1, <1>6 DEF WatchInv, WatchPrintsTheFeed
<1>8. ASSUME cli.phase = "stream" PROVE StreamInv'
  <2>1. replies = <<>> /\ forwarded = <<>> /\ feed_on = FALSE /\ requests_' = <<>> /\ StreamInv
    <3>1. StreamInv /\ requests_ = <<"sub">> /\ requests_ # <<>> /\ requests_' = <<>>
      BY <1>6, <1>8, OneMessage, Zenon
    <3> QED
      BY <3>1, Zenon DEF StreamInv
  <2>2. Len(printed) = 0
    <3>1. Len(printed) \in Nat /\ DOMAIN printed = 1..Len(printed)
      BY <1>2, LenProperties DEF CliTypeOK
    <3>2. \A k \in 1..Len(printed) : k <= 0
      BY <1>6, <2>1, <3>1 DEF WatchInv, WatchPrintsTheFeed
    <3> QED
      BY <3>1, <3>2
  <2>3. CASE replies' = replies
    <3>1. Len(replies') = 0 /\ Len(printed') = 0 /\ Len(forwarded') = 0
      BY <1>1, <2>1, <2>2, <2>3
    <3>2. InStep'
      BY <3>1 DEF InStep
    <3> QED
      BY <1>1, <2>1, <3>2 DEF StreamInv
  <2>4. CASE feed_on' = feed_on /\ replies' = Append(replies, Told("error"))
    <3>1. replies' = <<Told("error")>>
      BY <2>1, <2>4
    <3> QED
      BY <1>1, <2>1, <2>4, <3>1 DEF StreamInv
  <2> QED
    BY <1>1, <2>3, <2>4
<1>9. WatchInv'
  BY <1>1, <1>6, <1>7, <1>8 DEF WatchInv
<1>10. cli.opt # Idle_.opt
  BY <1>6 DEF CliInv
<1> QED
  BY <1>1, <1>5, <1>6, <1>9, <1>10 DEF CliInv

(* The write: done, audited and answered, or done in part or not at all,   *)
(* audited and answered.                                                   *)
LEMMA ServeWriteStep == CliInv /\ ServeWrite => CliInv'
<1> SUFFICES ASSUME CliInv, ServeWrite PROVE CliInv'
  OBVIOUS
<1>1. /\ Request("write") /\ cli' = cli /\ source' = source /\ feed_on' = feed_on
      /\ forwarded' = forwarded /\ printed' = printed /\ listed' = listed
      /\ \/ /\ writes' = Append(writes, "all") /\ replies' \in {replies, Append(replies, Told("write_ack"))}
            /\ audit' = Append(audit, "ok") \/ audit' = Append(audit, "failed")
         \/ /\ writes' \in {writes, Append(writes, "part"), Append(writes, "all")}
            /\ replies' \in {replies, Append(replies, Told("error"))}
            /\ audit' = Append(audit, "error") \/ audit' = Append(audit, "failed")
  BY DEF ServeWrite, CliReply, audit_write
<1>2. CliTypeOK /\ replies \in Seq(CliMessages)
  BY DEF CliInv, CliTypeOK
<1>3. Told("error") \in CliMessages /\ Told("write_ack") \in CliMessages
  BY DEF CliMessages, Told
<1>4. /\ Append(replies, Told("error")) \in Seq(CliMessages)
      /\ Append(replies, Told("write_ack")) \in Seq(CliMessages)
  BY <1>2, <1>3, AppendProperties
<1>5. CliTypeOK'
  BY <1>1, <1>2, <1>4, Zenon DEF CliTypeOK
<1>6. /\ cli.phase \notin {"idle", "handshake"}
      /\ \/ cli.opt.cmd = "send" /\ SendInv /\ requests_ = <<"write">> /\ requests_' = <<>>
         \/ cli.opt.cmd = "watch" /\ WatchInv /\ cli.phase = "exited"
  BY <1>1, RequestIs
<1>7. ASSUME cli.opt.cmd = "send" PROVE SendInv'
  <2>1. replies = <<>> /\ writes = <<>> /\ audit = <<>> /\ requests_' = <<>> /\ SendInv
    <3>1. SendInv /\ requests_ = <<"write">> /\ requests_ # <<>> /\ requests_' = <<>>
      BY <1>6, <1>7, OneMessage
    <3> QED
      BY <3>1, Zenon DEF SendInv
  <2>2. ~ (cli.exit = "ok" /\ cli.opt.wait)
    BY <2>1 DEF SendInv, WroteIt
  <2>3. \A x : Append(<<>>, x) = <<x>>
    OBVIOUS
  <2>4. \/ replies' \in {<<>>, <<Told("write_ack")>>} /\ WroteIt'
        \/ replies' \in {<<>>, <<Told("error")>>} /\ Untold'
    BY <1>1, <2>1, <2>3 DEF WroteIt, Untold
  <2>5. WroteIt' => Untold'
    BY DEF Untold
  <2> QED
    BY <1>1, <2>1, <2>2, <2>4, <2>5, Zenon DEF SendInv
<1>8. ASSUME cli.opt.cmd = "watch" PROVE WatchInv'
  BY <1>1, <1>6, <1>8 DEF WatchInv, WatchPrintsTheFeed
<1>9. cli.opt # Idle_.opt
  BY <1>6 DEF CliInv
<1> QED
  BY <1>1, <1>5, <1>6, <1>7, <1>8, <1>9 DEF CliInv

(* A frame is forwarded behind those on their way. *)
LEMMA ForwardStep == CliInv /\ ForwardFrame => CliInv'
<1> SUFFICES ASSUME CliInv, ForwardFrame PROVE CliInv'
  OBVIOUS
<1> DEFINE f == Len(forwarded)
           l == Len(replies)
           p == Len(printed)
           m == [t |-> "data", ch |-> 0, n |-> f + 1]
<1>1. /\ feed_on = TRUE /\ forwarded' = Append(forwarded, f + 1) /\ replies' = Append(replies, m)
      /\ cli' = cli /\ requests_' = requests_ /\ source' = source /\ feed_on' = feed_on
      /\ printed' = printed /\ listed' = listed /\ writes' = writes /\ audit' = audit
  BY DEF ForwardFrame, CliInv, CliTypeOK
<1>2. /\ CliTypeOK /\ replies \in Seq(CliMessages) /\ forwarded \in Seq(Nat) /\ f \in Nat
      /\ l \in Nat /\ p \in Nat
  BY LenProperties DEF CliInv, CliTypeOK
<1>3. m \in CliMessages /\ f + 1 \in Nat
  BY <1>2 DEF CliMessages
<1>4. /\ replies' \in Seq(CliMessages) /\ Len(replies') = l + 1 /\ replies'[l + 1] = m
      /\ \A k \in 1..l : replies'[k] = replies[k]
      /\ forwarded' \in Seq(Nat) /\ Len(forwarded') = f + 1
  BY <1>1, <1>2, <1>3, AppendProperties
<1>5. CliTypeOK'
  BY <1>1, <1>2, <1>4 DEF CliTypeOK
<1>6. /\ cli.phase \notin {"idle", "handshake"} /\ cli.opt # Idle_.opt
      /\ cli.opt.cmd # "send"
  BY <1>1 DEF CliInv, NothingYet, SendInv
<1>7. cli.opt.cmd = "watch" => WatchInv
  BY <1>6 DEF CliInv
<1>8. ASSUME cli.opt.cmd = "watch" PROVE WatchInv'
  <2>1. WatchInv /\ cli.phase # "list"
    BY <1>1, <1>7, <1>8 DEF WatchInv, ListInv
  <2>2. WatchPrintsTheFeed'
    <3>1. \A k \in DOMAIN printed : printed[k].n = k /\ k <= f
      BY <1>8, <2>1 DEF WatchInv, WatchPrintsTheFeed
    <3>2. DOMAIN printed = 1..p
      BY <1>2, LenProperties DEF CliTypeOK
    <3> HIDE DEF f, p
    <3>3. \A k \in DOMAIN printed : printed[k].n = k /\ k <= f + 1
      BY <1>2, <3>1, <3>2
    <3> QED
      BY <1>1, <1>4, <1>8, <2>1, <3>3 DEF WatchInv, WatchPrintsTheFeed
  <2>3. ASSUME cli.phase = "stream" PROVE StreamInv'
    <3>1. StreamInv
      BY <2>1, <2>3 DEF WatchInv
    <3>2. requests_ = <<>> /\ InStep
      BY <1>1, <3>1 DEF StreamInv
    <3>3. /\ \A k \in 1..l : /\ replies[k].t = "data" /\ replies[k].ch = 0
                             /\ cli.opt.ch = 0 => replies[k].n = p + k
          /\ cli.opt.ch = 0 => p + l = f
      BY <1>1, <3>2, Zenon DEF InStep
    <3>4. m.t = "data" /\ m.ch = 0 /\ m.n = f + 1
      OBVIOUS
    <3>5. \A k \in 1..(l + 1) : k \in 1..l \/ k = l + 1
      BY <1>2
    <3>6. cli.opt.ch = 0 => f + 1 = p + (l + 1)
      <4>1. cli.opt.ch = 0 => p + l = f
        BY <3>3
      <4> HIDE DEF f, l, p
      <4> QED
        BY <1>2, <4>1
    <3>7. Len(printed') = p
      BY <1>1
    <3> HIDE DEF f, l, p, m
    <3>8. \A k \in 1..(l + 1) : /\ replies'[k].t = "data" /\ replies'[k].ch = 0
                                /\ cli.opt.ch = 0 => replies'[k].n = p + k
      BY <1>4, <3>3, <3>4, <3>5, <3>6
    <3>9. cli.opt.ch = 0 => p + (l + 1) <= f + 1
      BY <1>2, <3>6
    <3>10. /\ Len(replies') = l + 1 /\ Len(forwarded') = f + 1 /\ cli' = cli
           /\ cli.opt.ch = 0 => p + (l + 1) = f + 1
      BY <1>1, <1>4, <3>6
    <3>11. InStep'
      BY <1>1, <3>7, <3>8, <3>9, <3>10 DEF InStep
    <3> QED
      BY <1>1, <3>1, <3>2, <3>11 DEF StreamInv
  <2> QED
    BY <1>1, <2>1, <2>2, <2>3 DEF WatchInv
<1> QED
  BY <1>1, <1>5, <1>6, <1>8 DEF CliInv

(* Every step of the command and of the server it talks to. *)
LEMMA CliStep == CliInv /\ [CliNext]_cli_vars => CliInv'
<1> SUFFICES ASSUME CliInv, [CliNext]_cli_vars PROVE CliInv'
  BY SMTT(20)
<1>1. ASSUME NEW token, NEW loopback, NEW no_auth, NEW full, Refused(token, loopback, no_auth, full)
      PROVE  CliInv'
  BY <1>1, RefusedStep DEF Refused
<1>2. ASSUME CliReceive PROVE CliInv'
  <2>1. cli.phase \in {"ack", "list", "stream"}
    BY <1>2 DEF CliReceive
  <2> QED
    BY <1>2, <2>1, AckStep, ListStep, StreamStep
<1>3. ASSUME NEW s \in [known : BOOLEAN, encoding : Labels], SourceChanges(s) PROVE CliInv'
  BY <1>3 DEF SourceChanges, CliInv, CliTypeOK, NothingYet, SendInv, WroteIt, Untold, WatchInv, ListInv,
              StreamInv, InStep, WatchPrintsTheFeed
<1>4. ASSUME UNCHANGED cli_vars PROVE CliInv'
  BY <1>4 DEF cli_vars, CliInv, CliTypeOK, NothingYet, SendInv, WroteIt, Untold, WatchInv, ListInv,
              StreamInv, InStep, WatchPrintsTheFeed
<1> QED
  BY <1>1, <1>2, <1>3, <1>4, InvokeStep, AdmittedStep, LinkStep, EndStep, ServeListStep,
     ServeSubStep, ServeWriteStep, ForwardStep DEF CliNext

(* For all encodings and any number of frames, whenever the connection     *)
(* breaks and however the source is restarted or removed meanwhile: the    *)
(* payload of `tracemux send` is written once at most and not without an   *)
(* audit row, `--wait-ack` succeeds only when all of it was, and           *)
(* `tracemux watch` prints the frames forwarded, in order and without a    *)
(* gap, within its limit and in the encoding that was listed.              *)
THEOREM CommandsReportTrue == CliSpec => []CliReportsTrue
<1>1. CliInv => SendExitIsTrue
  <2> SUFFICES ASSUME CliInv, cli.opt.cmd = "send" PROVE SendExitIsTrue
    BY DEF SendExitIsTrue
  <2>1. CASE cli.phase \in {"idle", "handshake"}
    <3>1. writes = <<>> /\ audit = <<>> /\ cli.exit = "none"
      BY <2>1 DEF CliInv, NothingYet
    <3> QED
      BY <3>1 DEF SendExitIsTrue
  <2>2. CASE cli.phase \notin {"idle", "handshake"}
    <3>1. SendInv
      BY <2>2 DEF CliInv
    <3>2. (cli.exit = "ok" /\ cli.opt.wait => WroteIt) /\ Untold
      BY <3>1, Zenon DEF SendInv, Untold
    <3>3. /\ Len(writes) <= 1 /\ Len(writes) <= Len(audit) /\ Len(audit) <= 1
          /\ audit = <<"ok">> => writes = <<"all">>
      <4>1. Len(<<>>) = 0 /\ \A x : Len(<<x>>) = 1
        OBVIOUS
      <4>2. /\ <<"error">> # <<"ok">> /\ <<"failed">> # <<"ok">> /\ <<>> # <<"ok">>
        OBVIOUS
      <4>3. ASSUME Len(audit) = 1, Len(writes) \in {0, 1}
            PROVE  Len(writes) <= 1 /\ Len(writes) <= Len(audit) /\ Len(audit) <= 1
        <5> DEFINE a == Len(audit)
                   w == Len(writes)
        <5>1. a = 1 /\ w \in {0, 1}
          BY <4>3
        <5> HIDE DEF a, w
        <5>2. w <= 1 /\ w <= a /\ a <= 1
          BY <5>1
        <5> QED
          BY <5>2 DEF a, w
      <4>4. CASE writes = <<>> /\ audit = <<>>
        BY <4>1, <4>2, <4>4
      <4>5. CASE WroteIt
        <5>1. Len(audit) = 1 /\ writes = <<"all">> /\ Len(writes) \in {0, 1}
          BY <4>1, <4>5, Zenon DEF WroteIt
        <5> QED
          BY <4>3, <5>1
      <4>6. CASE writes \in {<<>>, <<"part">>, <<"all">>} /\ audit \in {<<"error">>, <<"failed">>}
        <5>1. Len(audit) = 1 /\ audit # <<"ok">> /\ Len(writes) \in {0, 1}
          BY <4>1, <4>2, <4>6, Zenon
        <5> QED
          BY <4>3, <5>1
      <4> QED
        BY <3>2, <4>5, <4>6, <4>4 DEF Untold
    <3> QED
      BY <3>2, <3>3 DEF SendExitIsTrue, WroteIt
  <2> QED
    BY <2>1, <2>2
<1>2. CliInv => WatchPrintsTheFeed
  <2> SUFFICES ASSUME CliInv, cli.opt.cmd = "watch" PROVE WatchPrintsTheFeed
    BY DEF WatchPrintsTheFeed
  <2>1. CASE cli.phase \in {"idle", "handshake"}
    <3>1. printed = <<>> /\ DOMAIN printed = {} /\ Len(printed) = 0
      BY <2>1 DEF CliInv, NothingYet
    <3>2. cli.opt \in Invocations
      BY DEF CliInv, CliTypeOK, Clis, Idle_
    <3>3. cli.opt.max \in {0, 1, 2}
      BY <3>2, OptionIs, Zenon
    <3> QED
      BY <3>1, <3>3 DEF WatchPrintsTheFeed
  <2>2. CASE cli.phase \notin {"idle", "handshake"}
    BY <2>2 DEF CliInv, WatchInv
  <2> QED
    BY <2>1, <2>2
<1> QED
  BY <1>1, <1>2, CliStart, CliStep, PTL DEF CliSpec, CliReportsTrue

-----------------------------------------------------------------------------
(* The page and the server. *)

(* Of the messages of R in a queue, and of the one applied before them,    *)
(* the last is in G.                                                       *)
Ends(q, R, G, applied) ==
  \E i \in 0..Len(q) :
    /\ \A j \in (i + 1)..Len(q) : q[j] \in R => q[j] \in G
    /\ IF i = 0 THEN applied \in G ELSE q[i] \in G

(* A message that changes nothing leaves the queue with a good end. *)
LEMMA EndsAppend ==
  ASSUME NEW X, NEW q \in Seq(X), NEW m \in X, NEW R, NEW G, NEW e, Ends(q, R, G, e), m \notin R \/ m \in G
  PROVE  Ends(Append(q, m), R, G, e)
<1>1. PICK i \in 0..Len(q) : /\ \A j \in (i + 1)..Len(q) : q[j] \in R => q[j] \in G
                             /\ IF i = 0 THEN e \in G ELSE q[i] \in G
  BY DEF Ends
<1> DEFINE r == Append(q, m)
<1>2. Len(q) \in Nat /\ Len(r) = Len(q) + 1 /\ r[Len(q) + 1] = m /\ \A j \in 1..Len(q) : r[j] = q[j]
  OBVIOUS
<1> HIDE DEF r
<1>3. i \in 0..Len(r) /\ IF i = 0 THEN e \in G ELSE r[i] \in G
  BY <1>1, <1>2
<1>4. ASSUME NEW j \in (i + 1)..Len(r), r[j] \in R PROVE r[j] \in G
  <2>1. CASE j = Len(q) + 1
    BY <1>2, <1>4, <2>1
  <2>2. CASE j # Len(q) + 1
    <3>1. j \in (i + 1)..Len(q) /\ j \in 1..Len(q)
      BY <1>2, <2>2
    <3> QED
      BY <1>1, <1>2, <1>4, <3>1
  <2> QED
    BY <2>1, <2>2
<1>5. Ends(r, R, G, e)
  BY <1>3, <1>4 DEF Ends
<1> QED
  BY <1>5 DEF r

(* A good message at the end makes the end good. *)
LEMMA EndsNew ==
  ASSUME NEW X, NEW q \in Seq(X), NEW m \in X, NEW R, NEW G, NEW e, m \in G
  PROVE  Ends(Append(q, m), R, G, e)
<1> DEFINE r == Append(q, m)
<1>1. Len(q) \in Nat /\ Len(r) = Len(q) + 1 /\ r[Len(q) + 1] = m
  OBVIOUS
<1> HIDE DEF r
<1>2. Len(r) \in 0..Len(r) /\ Len(r) # 0 /\ r[Len(r)] \in G /\ (Len(r) + 1)..Len(r) = {}
  BY <1>1
<1>3. Ends(r, R, G, e)
  BY <1>2 DEF Ends
<1> QED
  BY <1>3 DEF r

(* The first message is applied. *)
LEMMA EndsPop ==
  ASSUME NEW X, NEW q \in Seq(X), q # <<>>, NEW R, NEW G, NEW e, NEW f, Ends(q, R, G, e),
         Head(q) \in G => f \in G, Head(q) \notin R /\ e \in G => f \in G
  PROVE  Ends(Tail(q), R, G, f)
<1>1. PICK i \in 0..Len(q) : /\ \A j \in (i + 1)..Len(q) : q[j] \in R => q[j] \in G
                             /\ IF i = 0 THEN e \in G ELSE q[i] \in G
  BY DEF Ends
<1> DEFINE r == Tail(q)
<1>2. /\ Len(q) \in Nat /\ Len(q) > 0 /\ Len(r) = Len(q) - 1 /\ Head(q) = q[1]
      /\ \A j \in 1..Len(r) : r[j] = q[j + 1]
  OBVIOUS
<1> HIDE DEF r
<1>3. CASE i \in {0, 1}
  <2>1. f \in G
    <3>1. CASE i = 1
      BY <1>1, <1>2, <3>1
    <3>2. CASE i = 0
      <4>1. q[1] \in R => q[1] \in G
        BY <1>1, <1>2, <3>2
      <4> QED
        BY <1>1, <1>2, <3>2, <4>1
    <3> QED
      BY <1>3, <3>1, <3>2
  <2>2. ASSUME NEW j \in 1..Len(r), r[j] \in R PROVE r[j] \in G
    <3>1. j + 1 \in (i + 1)..Len(q) /\ r[j] = q[j + 1]
      BY <1>2, <1>3
    <3> QED
      BY <1>1, <2>2, <3>1
  <2>3. 0 \in 0..Len(r) /\ 0 + 1 = 1
    BY <1>2
  <2>4. Ends(r, R, G, f)
    BY <2>1, <2>2, <2>3 DEF Ends
  <2> QED
    BY <2>4 DEF r
<1>4. CASE i \notin {0, 1}
  <2>1. i - 1 \in 0..Len(r) /\ i - 1 # 0 /\ r[i - 1] = q[i] /\ (i - 1) + 1 = i
    BY <1>2, <1>4
  <2>2. ASSUME NEW j \in i..Len(r), r[j] \in R PROVE r[j] \in G
    <3>1. j + 1 \in (i + 1)..Len(q) /\ r[j] = q[j + 1]
      BY <1>2, <1>4
    <3> QED
      BY <1>1, <2>2, <3>1
  <2>3. r[i - 1] \in G
    BY <1>1, <1>4, <2>1
  <2>4. Ends(r, R, G, f)
    BY <2>1, <2>2, <2>3 DEF Ends
  <2> QED
    BY <2>4 DEF r
<1> QED
  BY <1>3, <1>4

(* With nothing under way, the one applied is the last. *)
LEMMA EndsEmpty ==
  ASSUME NEW R, NEW G, NEW e, Ends(<<>>, R, G, e)
  PROVE  e \in G
  BY DEF Ends

(* What is in a queue after a message is added, taken, or the rest lost. *)
LEMMA InQueue ==
  ASSUME NEW X, NEW q \in Seq(X)
  PROVE  /\ \A m \in X : Append(q, m) \in Seq(X) /\ Range(Append(q, m)) = Range(q) \cup {m}
         /\ q # <<>> => /\ Tail(q) \in Seq(X) /\ Head(q) \in X
                        /\ Range(q) = {Head(q)} \cup Range(Tail(q))
         /\ \A n \in 0..Len(q) : SubSeq(q, 1, n) \in Seq(X) /\ Range(SubSeq(q, 1, n)) \subseteq Range(q)
         /\ Range(q) \subseteq X
<1>1. ASSUME NEW m \in X
      PROVE  Append(q, m) \in Seq(X) /\ Range(Append(q, m)) = Range(q) \cup {m}
  <2> DEFINE r == Append(q, m)
  <2>1. /\ Len(q) \in Nat /\ DOMAIN r = 1..(Len(q) + 1) /\ r[Len(q) + 1] = m
        /\ DOMAIN q = 1..Len(q) /\ \A j \in 1..Len(q) : r[j] = q[j]
    OBVIOUS
  <2>2. \A j \in 1..(Len(q) + 1) : j \in 1..Len(q) \/ j = Len(q) + 1
    BY <2>1
  <2>3. 1..Len(q) \subseteq 1..(Len(q) + 1) /\ Len(q) + 1 \in 1..(Len(q) + 1)
    BY <2>1
  <2> HIDE DEF r
  <2>4. Range(r) = Range(q) \cup {m}
    BY <2>1, <2>2, <2>3, Zenon DEF Range
  <2> QED
    BY <2>4 DEF r
<1>2. ASSUME q # <<>>
      PROVE  Tail(q) \in Seq(X) /\ Head(q) \in X /\ Range(q) = {Head(q)} \cup Range(Tail(q))
  <2> DEFINE r == Tail(q)
  <2>1. /\ Len(q) \in Nat /\ Len(q) > 0 /\ DOMAIN r = 1..(Len(q) - 1) /\ DOMAIN q = 1..Len(q)
        /\ \A j \in 1..(Len(q) - 1) : r[j] = q[j + 1]
    BY <1>2
  <2>2. Head(q) = q[1] /\ r \in Seq(X) /\ Head(q) \in X
    BY <1>2
  <2> HIDE DEF r
  <2>3. Range(q) \subseteq {Head(q)} \cup Range(r)
    <3> SUFFICES ASSUME NEW j \in 1..Len(q) PROVE q[j] \in {Head(q)} \cup Range(r)
      BY <2>1 DEF Range
    <3>1. CASE j = 1
      BY <2>2, <3>1
    <3>2. CASE j # 1
      <4>1. j - 1 \in 1..(Len(q) - 1) /\ (j - 1) + 1 = j
        BY <2>1, <3>2
      <4>2. r[j - 1] = q[j]
        BY <2>1, <4>1
      <4> QED
        BY <2>1, <4>1, <4>2 DEF Range
    <3> QED
      BY <3>1, <3>2
  <2>4. Range(r) \subseteq Range(q)
    <3> SUFFICES ASSUME NEW j \in 1..(Len(q) - 1) PROVE r[j] \in Range(q)
      BY <2>1 DEF Range
    <3>1. j + 1 \in 1..Len(q) /\ r[j] = q[j + 1]
      BY <2>1
    <3> QED
      BY <2>1, <3>1 DEF Range
  <2>5. Head(q) \in Range(q)
    <3>1. 1 \in 1..Len(q)
      BY <2>1
    <3> QED
      BY <2>1, <2>2, <3>1 DEF Range
  <2> QED
    BY <2>2, <2>3, <2>4, <2>5 DEF r
<1>3. ASSUME NEW n \in 0..Len(q)
      PROVE  SubSeq(q, 1, n) \in Seq(X) /\ Range(SubSeq(q, 1, n)) \subseteq Range(q)
  <2> DEFINE r == SubSeq(q, 1, n)
  <2>1. Len(q) \in Nat /\ DOMAIN q = 1..Len(q)
    OBVIOUS
  <2>2. r \in Seq(X) /\ DOMAIN r = 1..n /\ \A j \in 1..n : r[j] = q[j]
    BY SubSeqProperties
  <2>3. 1..n \subseteq 1..Len(q)
    BY <2>1
  <2> HIDE DEF r
  <2>4. Range(r) \subseteq Range(q)
    BY <2>1, <2>2, <2>3 DEF Range
  <2> QED
    BY <2>2, <2>4 DEF r
<1>4. Range(q) \subseteq X
  BY DEF Range
<1> QED
  BY <1>1, <1>2, <1>3, <1>4

Statuses == {"running", "stopped", NoSource}
Truths == Statuses \cup {"ended", "removed"}
Tables == [WebSids -> Statuses]
Requests ==
  {[type |-> "list"], [type |-> "hello"]}
    \cup [type : {"sub", "unsub"} \cup Lifecycle, sid : WebSids]
Lists == [type : {"sources"}, table : Tables]
Events == [type : {"event"}, sid : WebSids, status : Statuses]
Frames == [type : {"data"}, sid : WebSids] \cup Lists \cup Events \cup {[type |-> "error"]}

WebTypeOK ==
  /\ sock \in {"none", "connecting", "open", "over"}
  /\ views \in [WebSids -> Nat] /\ table \in Tables /\ buffers \in [WebSids -> Nat]
  /\ to_server \in Seq(Requests) /\ to_web \in Seq(Frames)
  /\ fed \subseteq WebSids /\ feed \in [WebSids -> Nat] /\ watched \subseteq WebSids
  /\ truth \in [WebSids -> Truths] /\ late \in [1..MaxLosses -> Seq(Requests)]

(* While there is no connection nothing is on its way to the server and    *)
(* nothing from it, but for what the old connection left to read.          *)
Down ==
  /\ sock # "open" => to_server = <<>> /\ fed = {} /\ feed = [s \in WebSids |-> 0]
  /\ sock \notin {"open", "over"} => to_web = <<>>

SubMsgs(s) == {Msg("sub", s), Msg("unsub", s)}

(* The page speaks only of sources that the server has had, and frames     *)
(* come only of sources that were subscribed to.                           *)
Known(s) ==
  /\ truth[s] = NoSource =>
       /\ views[s] = 0 /\ table[s] = NoSource /\ s \notin watched
       /\ \A m \in SubMsgs(s) : m \notin Range(to_server)
       /\ \A m \in Range(to_web) : /\ m \in Lists => m.table[s] = NoSource
                                   /\ m \in Events /\ m.sid = s => m.status = NoSource
  /\ s \notin watched => s \notin fed /\ feed[s] = 0 /\ Msg("data", s) \notin Range(to_web)

(* The last of sub and unsub, the one carried out included, says what the  *)
(* page wants.                                                             *)
Order(s) == Msg(IF views[s] > 0 THEN "sub" ELSE "unsub", s)
Standing(s) == Msg(IF s \in fed THEN "sub" ELSE "unsub", s)
Asked(s) == Ends(to_server, SubMsgs(s), {Order(s)}, Standing(s))

(* A list is asked for or soon will be, or the last one, the one on the    *)
(* page included, is true.                                                 *)
TrueLists(s) == {m \in Lists : m.table[s] = Snapshot[s]}
Shown == [type |-> "sources", table |-> table]
Converging(s) ==
  \/ [type |-> "list"] \in Range(to_server)
  \/ \E m \in Range(to_web) : m \in Events
  \/ Ends(to_web, Lists, TrueLists(s), Shown)

PageSafe(s) ==
  /\ Known(s)
  /\ sock = "open" /\ truth[s] # "removed" => Asked(s)
  /\ sock = "open" /\ s \notin watched \cup unseen => Converging(s)
  /\ buffers[s] > 0 => table[s] # NoSource

PageInv == WebTypeOK /\ Down /\ \A s \in WebSids : PageSafe(s)

(* What the five lifecycle requests do to a source. *)
LEMMA ActionIs ==
  /\ DOMAIN After = Lifecycle
  /\ \A a \in Lifecycle : /\ After[a] \in {"running", "stopped", "removed"}
                          /\ After[a] = "removed" <=> a = "remove"
                          /\ "removed" \notin Before[a]
<1>1. DOMAIN After = Lifecycle
  BY DEF After, Lifecycle
<1>2. /\ After["start"] = "running" /\ After["stop"] = "stopped" /\ After["resume"] = "running"
      /\ After["restart"] = "running" /\ After["remove"] = "removed"
  BY DEF After
<1>3. /\ Before["start"] = {NoSource} /\ Before["stop"] = {"running", "ended"}
      /\ Before["resume"] = {"ended", "stopped"} /\ Before["restart"] = Alive /\ Before["remove"] = Alive
  BY DEF Before
<1> QED
  BY <1>1, <1>2, <1>3 DEF Lifecycle, NoSource, Alive

(* A source that was there is not forgotten, nor is its removal. *)
Moves(x) ==
  /\ truth'[x] = NoSource => truth[x] = NoSource
  /\ truth[x] = "removed" => truth'[x] = "removed"

(* A request that succeeds or fails moves one source, and only onwards. *)
LEMMA TruthIs ==
  ASSUME truth \in [WebSids -> Truths], NEW a \in Lifecycle, NEW v \in WebSids,
         Succeeds(a, v) \/ Fails(a, v)
  PROVE  /\ truth' \in [WebSids -> Truths] /\ \A x \in WebSids : Moves(x)
         /\ Succeeds(a, v) => truth'[v] # NoSource
<1>1. After[a] \in Truths /\ After[a] # NoSource /\ "removed" \notin Before[a]
  BY ActionIs DEF Truths, Statuses, NoSource
<1>2. CASE Succeeds(a, v)
  BY <1>1, <1>2 DEF Succeeds, Moves
<1>3. CASE Fails(a, v)
  <2>1. \/ truth' = truth
        \/ truth[v] \in Before[a] /\ truth' = [truth EXCEPT ![v] = "stopped"]
    BY <1>3 DEF Fails
  <2>2. "stopped" \in Truths /\ "stopped" # NoSource
    BY DEF Truths, Statuses, NoSource
  <2>3. (truth' \in [WebSids -> Truths]) /\ \A x \in WebSids : Moves(x)
    BY <1>1, <2>1, <2>2 DEF Moves
  <2>4. Succeeds(a, v) => truth'[v] # NoSource
    BY <1>1 DEF Succeeds
  <2> QED
    BY <2>3, <2>4
<1> QED
  BY <1>2, <1>3

(* A message is told by its type. *)
LEMMA MessageIs ==
  /\ \A t, s : Msg(t, s).type = t /\ Msg(t, s).sid = s
  /\ \A t \in {"sub", "unsub"} \cup Lifecycle : \A s \in WebSids : Msg(t, s) \in Requests
  /\ [type |-> "list"] \in Requests /\ [type |-> "hello"] \in Requests
  /\ \A s \in WebSids : Msg("data", s) \in Frames
  /\ [type |-> "error"] \in Frames /\ Lists \subseteq Frames /\ Events \subseteq Frames
  /\ \A m \in Lists : m.type = "sources" /\ m.table \in Tables
  /\ \A m \in Events : m.type = "event" /\ m.sid \in WebSids /\ m.status \in Statuses
  /\ \A x : [type |-> x].type = x
<1>1. \A t, s : Msg(t, s).type = t /\ Msg(t, s).sid = s
  BY DEF Msg
<1>2. \A t \in {"sub", "unsub"} \cup Lifecycle : \A s \in WebSids : Msg(t, s) \in Requests
  BY ActionIs DEF Msg, Requests
<1>3. [type |-> "list"] \in Requests /\ [type |-> "hello"] \in Requests
  BY DEF Requests
<1>4. \A s \in WebSids : Msg("data", s) \in Frames
  BY DEF Msg, Frames
<1>5. [type |-> "error"] \in Frames /\ Lists \subseteq Frames /\ Events \subseteq Frames
  BY DEF Frames
<1>6. \A m \in Lists : m.type = "sources" /\ m.table \in Tables
  BY DEF Lists
<1>7. \A m \in Events : m.type = "event" /\ m.sid \in WebSids /\ m.status \in Statuses
  BY DEF Events
<1>8. \A x : [type |-> x].type = x
  OBVIOUS
<1> QED
  BY <1>1, <1>2, <1>3, <1>4, <1>5, <1>6, <1>7, <1>8

(* A request is known by its type and its sid. *)
LEMMA RequestTold ==
  ASSUME NEW m \in Requests
  PROVE  /\ m.type = "list" => m = [type |-> "list"]
         /\ m.type \notin {"list", "hello"} => m = Msg(m.type, m.sid) /\ m.sid \in WebSids
<1>1. CASE m \in {[type |-> "list"], [type |-> "hello"]}
  BY <1>1
<1>2. CASE m \in [type : {"sub", "unsub"} \cup Lifecycle, sid : WebSids]
  <2>1. m = [type |-> m.type, sid |-> m.sid] /\ m.sid \in WebSids /\ m.type \in {"sub", "unsub"} \cup Lifecycle
    BY <1>2, ActionIs
  <2> QED
    BY <2>1 DEF Msg, Lifecycle
<1> QED
  BY <1>1, <1>2 DEF Requests

(* So is a frame. *)
LEMMA FrameTold ==
  ASSUME NEW m \in Frames
  PROVE  /\ m.type = "data" => m = Msg("data", m.sid) /\ m.sid \in WebSids
         /\ m.type = "sources" => m \in Lists
         /\ m.type = "event" => m \in Events
<1>1. CASE m \in [type : {"data"}, sid : WebSids]
  BY <1>1 DEF Msg
<1>2. CASE m \in Lists \cup Events
  BY <1>2, MessageIs
<1>3. CASE m = [type |-> "error"]
  BY <1>3
<1> QED
  BY <1>1, <1>2, <1>3 DEF Frames

(* resubscribeChannels: a sub for every source that a panel shows. *)
LEMMA Resubscribed ==
  ASSUME WebTypeOK
  PROVE  /\ resubscribeChannels \in Seq(Requests)
         /\ Range(resubscribeChannels) = {Msg("sub", s) : s \in {x \in WebSids : views[x] > 0}}
<1> DEFINE V == {x \in WebSids : views[x] > 0}
           S == {Msg("sub", s) : s \in V}
           f == [s \in V |-> Msg("sub", s)]
<1>1. IsFiniteSet(V)
  BY WebAssumption, FS_Subset
<1>2. f \in Surjection(V, S)
  BY DEF Surjection
<1> HIDE DEF V
<1>3. IsFiniteSet(S)
  <2> HIDE DEF f, S
  <2> QED
    BY <1>1, <1>2, FS_Surjection
<1>4. S \subseteq Requests
  BY MessageIs DEF V
<1> HIDE DEF S, f
<1> DEFINE n == Cardinality(S)
           g == CHOOSE q \in Bijection(1..n, S) : TRUE
<1>5. n \in Nat /\ ExistsBijection(1..n, S)
  BY <1>3, FS_CardinalityType
<1> HIDE DEF n
<1>6. g \in Bijection(1..n, S)
  BY <1>5 DEF ExistsBijection
<1> HIDE DEF g
<1>7. g \in [1..n -> S] /\ g \in Surjection(1..n, S)
  BY <1>6 DEF Bijection, Injection
<1>8. Range(g) = S /\ g \in Seq(S)
  <2>1. DOMAIN g = 1..n /\ \A x \in 1..n : g[x] \in S
    BY <1>7
  <2>2. \A t \in S : \E x \in 1..n : g[x] = t
    BY <1>7 DEF Surjection
  <2>3. Range(g) = S
    BY <2>1, <2>2 DEF Range
  <2>4. g \in Seq(S)
    BY <1>5, <1>7
  <2> QED
    BY <2>3, <2>4
<1>9. g \in Seq(Requests)
  BY <1>4, <1>8
<1>10. resubscribeChannels = g
  BY DEF resubscribeChannels, g, n, S, V
<1> QED
  BY <1>8, <1>9, <1>10 DEF S, V

(* What the page sends when the socket opens. *)
LEMMA Opened ==
  ASSUME WebTypeOK
  PROVE  LET q == List \o resubscribeChannels \o <<[type |-> "hello"]>> IN
           /\ q \in Seq(Requests)
           /\ Range(q) = {[type |-> "list"], [type |-> "hello"]}
                           \cup {Msg("sub", s) : s \in {x \in WebSids : views[x] > 0}}
<1> DEFINE g == resubscribeChannels
           l == [type |-> "list"]
           h == [type |-> "hello"]
           q == List \o g \o <<h>>
<1>1. g \in Seq(Requests) /\ Range(g) = {Msg("sub", s) : s \in {x \in WebSids : views[x] > 0}}
  BY Resubscribed
<1>2. l \in Requests /\ h \in Requests /\ List = <<l>>
  BY MessageIs DEF List
<1> HIDE DEF g, l, h
<1>3. Len(g) \in Nat /\ DOMAIN g = 1..Len(g)
  BY <1>1
<1> DEFINE k == Len(g)
<1>4. /\ q \in Seq(Requests) /\ Len(q) = k + 2 /\ DOMAIN q = 1..(k + 2) /\ q[1] = l /\ q[k + 2] = h
      /\ \A j \in 1..k : q[j + 1] = g[j]
  BY <1>1, <1>2
<1> HIDE DEF q, k
<1>5. k \in Nat /\ DOMAIN g = 1..k
  BY <1>3 DEF k
<1>6. Range(q) \subseteq {l, h} \cup Range(g)
  <2> SUFFICES ASSUME NEW j \in 1..(k + 2) PROVE q[j] \in {l, h} \cup Range(g)
    BY <1>4 DEF Range
  <2>1. CASE j = 1 \/ j = k + 2
    BY <1>4, <2>1
  <2>2. CASE j # 1 /\ j # k + 2
    <3>1. j - 1 \in 1..k /\ (j - 1) + 1 = j
      BY <1>5, <2>2
    <3>2. q[j] = g[j - 1]
      BY <1>4, <3>1
    <3> QED
      BY <1>5, <3>1, <3>2 DEF Range
  <2> QED
    BY <2>1, <2>2
<1>7. Range(g) \subseteq Range(q)
  <2> SUFFICES ASSUME NEW j \in 1..k PROVE g[j] \in Range(q)
    BY <1>5 DEF Range
  <2>1. j + 1 \in 1..(k + 2)
    BY <1>5
  <2> QED
    BY <1>4, <2>1 DEF Range
<1>8. l \in Range(q) /\ h \in Range(q)
  <2>1. 1 \in 1..(k + 2) /\ k + 2 \in 1..(k + 2)
    BY <1>5
  <2> QED
    BY <1>4, <2>1 DEF Range
<1>9. q \in Seq(Requests) /\ Range(q) = {l, h} \cup Range(g)
  BY <1>4, <1>6, <1>7, <1>8
<1> QED
  BY <1>1, <1>9 DEF q, l, h, g

(* A request is sent, or none. *)
LEMMA SendOne ==
  ASSUME WebTypeOK, NEW m \in Requests, send(<<m>>)
  PROVE  /\ to_server' \in Seq(Requests)
         /\ to_server' = IF sock = "open" THEN Append(to_server, m) ELSE to_server
<1>1. to_server \in Seq(Requests)
  BY DEF WebTypeOK
<1>2. to_server \o <<m>> = Append(to_server, m) /\ Append(to_server, m) \in Seq(Requests)
  BY <1>1
<1>3. to_server' = IF sock = "open" THEN to_server \o <<m>> ELSE to_server
  BY DEF send
<1> QED
  BY <1>1, <1>2, <1>3, Zenon

(* Sending no messages changes nothing. *)
LEMMA SendNone ==
  ASSUME WebTypeOK, send(<<>>)
  PROVE  to_server' = to_server
<1>1. to_server \o <<>> = to_server
  BY DEF WebTypeOK
<1> QED
  BY <1>1 DEF send

(* A panel opens, or closes: the first one subscribes and the last one     *)
(* unsubscribes.                                                           *)
LEMMA ViewIs ==
  ASSUME WebTypeOK, NEW s \in WebSids, useChannel(s) \/ unuseChannel(s)
  PROVE  /\ views' \in [WebSids -> Nat] /\ \A x \in WebSids : x # s => views'[x] = views[x]
         /\ to_server' \in Seq(Requests)
         /\ \/ to_server' = IF sock = "open" THEN Append(to_server, Order(s)') ELSE to_server
            \/ to_server' = to_server /\ Order(s)' = Order(s)
         /\ views[s] = 0 => table[s] # NoSource
         /\ sock' = sock /\ table' = table /\ buffers' = buffers /\ to_web' = to_web /\ fed' = fed
         /\ feed' = feed /\ truth' = truth /\ watched' = watched /\ unseen' = unseen /\ late' = late
<1>0. views \in [WebSids -> Nat] /\ to_server \in Seq(Requests) /\ views[s] \in Nat
  BY DEF WebTypeOK
<1>1. Msg("sub", s) \in Requests /\ Msg("unsub", s) \in Requests
  BY MessageIs
<1>2. /\ sock' = sock /\ table' = table /\ buffers' = buffers /\ to_web' = to_web /\ fed' = fed
      /\ feed' = feed /\ truth' = truth /\ watched' = watched /\ unseen' = unseen /\ late' = late
  BY DEF useChannel, unuseChannel, server_end
<1>3. CASE useChannel(s)
  <2>1. views' = [views EXCEPT ![s] = views[s] + 1] /\ table[s] # NoSource
    BY <1>3 DEF useChannel
  <2>2. /\ views' \in [WebSids -> Nat] /\ views'[s] = views[s] + 1
        /\ \A x \in WebSids : x # s => views'[x] = views[x]
    BY <1>0, <2>1
  <2>3. Order(s)' = Msg("sub", s)
    BY <1>0, <2>2 DEF Order
  <2>4. CASE views[s] = 0
    <3>1. send(<<Msg("sub", s)>>)
      BY <1>3, <2>4 DEF useChannel
    <3> QED
      BY <1>1, <1>2, <2>1, <2>2, <2>3, <3>1, SendOne
  <2>5. CASE views[s] # 0
    <3>1. send(<<>>)
      BY <1>3, <2>5 DEF useChannel
    <3>2. Order(s) = Msg("sub", s)
      BY <1>0, <2>5 DEF Order
    <3> QED
      BY <1>0, <1>2, <2>1, <2>2, <2>3, <3>1, <3>2, SendNone
  <2> QED
    BY <2>4, <2>5
<1>4. CASE unuseChannel(s)
  <2>1. views' = [views EXCEPT ![s] = views[s] - 1] /\ views[s] > 0
    BY <1>4 DEF unuseChannel
  <2>2. /\ views' \in [WebSids -> Nat] /\ views'[s] = views[s] - 1
        /\ \A x \in WebSids : x # s => views'[x] = views[x]
    BY <1>0, <2>1
  <2>3. CASE views[s] = 1
    <3>1. send(<<Msg("unsub", s)>>)
      BY <1>4, <2>3 DEF unuseChannel
    <3>2. Order(s)' = Msg("unsub", s)
      BY <1>0, <2>2, <2>3 DEF Order
    <3> QED
      BY <1>0, <1>1, <1>2, <2>1, <2>2, <2>3, <3>1, <3>2, SendOne
  <2>4. CASE views[s] # 1
    <3>1. send(<<>>)
      BY <1>4, <2>4 DEF unuseChannel
    <3>2. Order(s) = Msg("sub", s) /\ Order(s)' = Msg("sub", s)
      BY <1>0, <2>1, <2>2, <2>4 DEF Order
    <3> QED
      BY <1>0, <1>2, <2>1, <2>2, <3>1, <3>2, SendNone
  <2> QED
    BY <2>3, <2>4
<1> QED
  BY <1>3, <1>4

(* A request of a lost connection moves the sources, and nothing else that *)
(* this connection sees.                                                   *)
LEMMA LateIs ==
  ASSUME WebTypeOK, NEW i \in 1..MaxLosses, ServeLate(i)
  PROVE  /\ sock' = sock /\ views' = views /\ table' = table /\ buffers' = buffers
         /\ to_server' = to_server /\ to_web' = to_web /\ fed' = fed /\ feed' = feed
         /\ watched' = watched /\ Unannounced
         /\ truth' \in [WebSids -> Truths] /\ \A x \in WebSids : Moves(x)
         /\ late' \in [1..MaxLosses -> Seq(Requests)]
<1>0. late \in [1..MaxLosses -> Seq(Requests)] /\ truth \in [WebSids -> Truths]
  BY DEF WebTypeOK
<1> DEFINE m == Head(late[i])
<1>1. late[i] # <<>> /\ late[i] \in Seq(Requests) /\ late' = [late EXCEPT ![i] = Tail(late[i])]
  BY <1>0 DEF ServeLate
<1>2. m \in Requests /\ Tail(late[i]) \in Seq(Requests)
  BY <1>1, InQueue
<1>3. late' \in [1..MaxLosses -> Seq(Requests)]
  BY <1>0, <1>1, <1>2
<1>4. \/ m.type \in Lifecycle /\ (Succeeds(m.type, m.sid) \/ Fails(m.type, m.sid))
      \/ truth' = truth
  BY DEF ServeLate
<1>5. m.type \in Lifecycle => m.sid \in WebSids
  BY <1>2, RequestTold DEF Lifecycle
<1> HIDE DEF m
<1>6. truth' \in [WebSids -> Truths] /\ \A x \in WebSids : Moves(x)
  <2>1. CASE truth' = truth
    BY <1>0, <2>1 DEF Moves
  <2>2. CASE m.type \in Lifecycle /\ (Succeeds(m.type, m.sid) \/ Fails(m.type, m.sid))
    BY <1>0, <1>5, <2>2, TruthIs
  <2> QED
    BY <1>4, <2>1, <2>2
<1> QED
  BY <1>3, <1>6 DEF ServeLate, page

(* Types are kept. *)
LEMMA WebTypeStep ==
  ASSUME WebTypeOK, WebNext
  PROVE  WebTypeOK'
<1> USE ActionIs, MessageIs
<1>0. /\ sock \in {"none", "connecting", "open", "over"}
      /\ views \in [WebSids -> Nat] /\ table \in Tables /\ buffers \in [WebSids -> Nat]
      /\ to_server \in Seq(Requests) /\ to_web \in Seq(Frames)
      /\ fed \subseteq WebSids /\ feed \in [WebSids -> Nat] /\ watched \subseteq WebSids
      /\ truth \in [WebSids -> Truths] /\ late \in [1..MaxLosses -> Seq(Requests)]
  BY DEF WebTypeOK
<1>1. CASE Connect \/ ConnectThrows \/ OnError \/ OnClose
  BY <1>0, <1>1 DEF Connect, ConnectThrows, OnError, OnClose, page, server_end, WebTypeOK
<1>2. CASE OnOpen
  <2>1. to_server' \in Seq(Requests)
    BY <1>2, Opened DEF OnOpen
  <2> QED
    BY <1>0, <1>2, <2>1, Zenon DEF OnOpen, page, server_end, WebTypeOK
<1>3. ASSUME NEW n \in 0..Len(to_web), NEW k \in 0..Len(to_server), SocketEnds(n, k) PROVE WebTypeOK'
  <2>0. SubSeq(to_server, 1, k) \in Seq(Requests)
    BY <1>0, InQueue
  <2>1. to_web' \in Seq(Frames) /\ late' \in [1..MaxLosses -> Seq(Requests)]
    BY <1>0, <1>3, <2>0, InQueue DEF SocketEnds
  <2>2. to_server' = <<>> /\ fed' = {} /\ feed' = [s \in WebSids |-> 0] /\ sock' = "over"
    BY <1>3 DEF SocketEnds
  <2> QED
    BY <1>0, <1>3, <2>1, <2>2 DEF SocketEnds, page, WebTypeOK
<1>4. ASSUME NEW s \in WebSids, useChannel(s) \/ unuseChannel(s) PROVE WebTypeOK'
  BY <1>0, <1>4, ViewIs DEF WebTypeOK
<1>5. ASSUME NEW s \in WebSids, NEW a \in Lifecycle, sendCtl(a, s) PROVE WebTypeOK'
  <2>1. to_server' \in Seq(Requests)
    <3>1. send(<<Msg(a, s)>>) /\ Msg(a, s) \in Requests
      BY <1>5, Zenon DEF sendCtl
    <3> QED
      BY <3>1, SendOne
  <2> QED
    BY <1>0, <1>5, <2>1 DEF sendCtl, page, server_end, WebTypeOK
<1>6. CASE clearDisplay
  BY <1>0, <1>6 DEF clearDisplay, server_end, WebTypeOK
<1>7. CASE handleData \/ handleSources \/ handleLifecycle \/ handleError
  <2> DEFINE m == Head(to_web)
  <2>1. /\ to_web # <<>> /\ to_web' = Tail(to_web) /\ sock' = sock /\ views' = views /\ fed' = fed
        /\ feed' = feed /\ truth' = truth /\ watched' = watched /\ late' = late
    BY <1>7 DEF handleData, handleSources, handleLifecycle, handleError, Receive, server_end
  <2>2. to_web' \in Seq(Frames) /\ m \in Frames
    BY <1>0, <2>1, InQueue, Zenon
  <2>3. to_server' \in Seq(Requests)
    <3>1. to_server' = to_server \/ send(<<[type |-> "list"]>>)
      BY <1>7 DEF handleData, handleSources, handleLifecycle, handleError, List
    <3> QED
      BY <1>0, <3>1, SendOne
  <2>4. table' \in Tables
    <3>1. CASE handleData
      <4>1. table' = [table EXCEPT ![m.sid] = "running"]
        BY <3>1 DEF handleData
      <4> QED
        BY <1>0, <4>1, Zenon DEF Tables, Statuses
    <3>2. CASE handleSources
      <4>1. m.type = "sources" /\ table' = m.table
        BY <3>2 DEF handleSources, Receive
      <4> QED
        BY <2>2, <4>1, FrameTold
    <3>3. CASE handleLifecycle
      <4>1. m.type = "event" /\ table' = [table EXCEPT ![m.sid] = m.status]
        BY <3>3 DEF handleLifecycle, Receive
      <4>2. m.status \in Statuses
        BY <2>2, <4>1, FrameTold
      <4> QED
        BY <1>0, <4>1, <4>2, Zenon DEF Tables
    <3>4. CASE handleError
      BY <1>0, <3>4 DEF handleError
    <3> QED
      BY <1>7, <3>1, <3>2, <3>3, <3>4
  <2>5. buffers' \in [WebSids -> Nat]
    <3>1. CASE handleData
      <4>1. buffers' = [buffers EXCEPT ![m.sid] = IF buffers[m.sid] < MaxKept THEN buffers[m.sid] + 1
                                                 ELSE buffers[m.sid]]
        BY <3>1 DEF handleData
      <4>2. m.sid \in WebSids
        BY <2>2, <3>1, FrameTold DEF handleData, Receive
      <4> HIDE DEF m
      <4> DEFINE k == IF buffers[m.sid] < MaxKept THEN buffers[m.sid] + 1 ELSE buffers[m.sid]
      <4>3. k \in Nat
        BY <1>0, <4>2
      <4>4. buffers' = [buffers EXCEPT ![m.sid] = k]
        BY <4>1
      <4> HIDE DEF k
      <4> QED
        BY <1>0, <4>3, <4>4, Zenon
    <3>2. CASE handleSources \/ handleLifecycle
      <4>1. buffers' = [s \in WebSids |-> IF table'[s] = NoSource THEN 0 ELSE buffers[s]]
        BY <3>2 DEF handleSources, handleLifecycle, Cleared
      <4> QED
        BY <1>0, <4>1
    <3>3. CASE handleError
      BY <1>0, <3>3 DEF handleError
    <3> QED
      BY <1>7, <3>1, <3>2, <3>3
  <2> QED
    BY <1>0, <2>1, <2>2, <2>3, <2>4, <2>5 DEF WebTypeOK
<1>8. ASSUME NEW a, Serve(a)
      PROVE  /\ to_server' \in Seq(Requests) /\ Head(to_server) \in Requests /\ Head(to_server).type = a
             /\ sock' = sock /\ views' = views /\ table' = table /\ buffers' = buffers
  <2>1. /\ to_server # <<>> /\ Head(to_server).type = a /\ to_server' = Tail(to_server)
        /\ sock' = sock /\ views' = views /\ table' = table /\ buffers' = buffers
    BY <1>8 DEF Serve, page
  <2> QED
    BY <1>0, <2>1, InQueue
<1>9. ASSUME NEW m \in Frames, ServerAnswers(m) PROVE to_web' \in Seq(Frames)
  BY <1>0, <1>9, InQueue DEF ServerAnswers
<1>10. CASE ServeHello
  BY <1>0, <1>8, <1>10 DEF ServeHello, server_end, WebTypeOK
<1>11. CASE ServeList
  <2>1. Snapshot \in Tables
    BY <1>0 DEF Snapshot, Tables, Statuses
  <2>2. [type |-> "sources", table |-> Snapshot] \in Frames
    BY <2>1 DEF Lists
  <2>3. to_web' \in Seq(Frames)
    BY <1>9, <1>11, <2>2 DEF ServeList
  <2> QED
    BY <1>0, <1>8, <1>11, <2>3 DEF ServeList, server_end, WebTypeOK
<1>12. CASE ServeSub
  <2> DEFINE s == Head(to_server).sid
  <2>1. Serve("sub") /\ s \in WebSids
    BY <1>8, <1>12, RequestTold DEF ServeSub
  <2>2. \/ fed' = fed \cup {s} /\ watched' = watched \cup {s} /\ to_web' = to_web
        \/ ServerAnswers([type |-> "error"]) /\ fed' = fed /\ watched' = watched
    BY <1>12 DEF ServeSub, Error, server_end
  <2>3. to_web' \in Seq(Frames) /\ fed' \subseteq WebSids /\ watched' \subseteq WebSids
    BY <1>0, <1>9, <2>1, <2>2, Zenon
  <2>4. feed' = feed /\ truth' = truth /\ late' = late
    BY <1>12, Zenon DEF ServeSub, server_end
  <2> QED
    BY <1>0, <1>8, <2>1, <2>3, <2>4 DEF WebTypeOK
<1>13. CASE ServeUnsub
  <2> DEFINE s == Head(to_server).sid
  <2>1. Serve("unsub")
    BY <1>13 DEF ServeUnsub
  <2>2. /\ fed' = fed \ {s} /\ feed' = [feed EXCEPT ![s] = 0] /\ to_web' = to_web /\ truth' = truth
        /\ watched' = watched /\ late' = late
    BY <1>13 DEF ServeUnsub
  <2> HIDE DEF s
  <2> QED
    BY <1>0, <1>8, <2>1, <2>2, Zenon DEF WebTypeOK
<1>14. ASSUME NEW a \in Lifecycle, ServeCtl(a) PROVE WebTypeOK'
  <2> DEFINE s == Head(to_server).sid
             shown == IF a = "remove" THEN NoSource ELSE After[a]
             m == [type |-> "event", sid |-> s, status |-> shown]
  <2>1. Serve(a)
    BY <1>14 DEF ServeCtl
  <2>2. s \in WebSids
    BY <1>8, <2>1, RequestTold DEF Lifecycle
  <2>3. \/ Succeeds(a, s) /\ ServerAnswers(m)
        \/ Fails(a, s) /\ ServerAnswers([type |-> "error"])
    BY <1>14 DEF ServeCtl, Error
  <2>4. fed' = fed /\ feed' = feed /\ watched' = watched /\ late' = late
    BY <1>14 DEF ServeCtl
  <2> HIDE DEF s
  <2>5. shown \in Statuses
    BY DEF Statuses
  <2> HIDE DEF shown
  <2>6. m \in Events
    BY <2>2, <2>5 DEF Events
  <2> HIDE DEF m
  <2>7. to_web' \in Seq(Frames)
    BY <1>9, <2>3, <2>6
  <2>8. truth' \in [WebSids -> Truths]
    BY <1>0, <2>2, <2>3, TruthIs
  <2> QED
    BY <1>0, <1>8, <2>1, <2>4, <2>7, <2>8 DEF WebTypeOK
<1>15. ASSUME NEW s \in WebSids, Publish(s) PROVE WebTypeOK'
  BY <1>0, <1>15 DEF Publish, page, WebTypeOK
<1>16. ASSUME NEW s \in WebSids, Forward(s) PROVE WebTypeOK'
  <2>1. feed[s] > 0 /\ feed' = [feed EXCEPT ![s] = feed[s] - 1] /\ ServerAnswers(Msg("data", s))
    BY <1>16 DEF Forward
  <2>2. feed' \in [WebSids -> Nat] /\ to_web' \in Seq(Frames)
    BY <1>0, <1>9, <2>1
  <2> QED
    BY <1>0, <1>16, <2>2 DEF Forward, page, WebTypeOK
<1>17. ASSUME NEW i \in 1..MaxLosses, ServeLate(i) PROVE WebTypeOK'
  BY <1>0, <1>17, LateIs DEF WebTypeOK
<1>18. ASSUME NEW s \in WebSids, RunnerEnds(s) PROVE WebTypeOK'
  <2>1. truth' \in [WebSids -> Truths]
    BY <1>0, <1>18 DEF RunnerEnds, Truths
  <2> QED
    BY <1>0, <1>18, <2>1 DEF RunnerEnds, page, WebTypeOK
<1> QED
  BY <1>1, <1>2, <1>3, <1>4, <1>5, <1>6, <1>7, <1>10, <1>11, <1>12, <1>13, <1>14, <1>15, <1>16, <1>17, <1>18
  DEF WebNext

(* A queue with good messages only, and one at all, has a good end. *)
LEMMA EndsAll ==
  ASSUME NEW X, NEW q \in Seq(X), NEW R, NEW G, NEW e,
         \A m \in Range(q) : m \in R => m \in G, e \in G \/ \E m \in Range(q) : m \in G
  PROVE  Ends(q, R, G, e)
<1>1. Len(q) \in Nat /\ Range(q) = {q[j] : j \in 1..Len(q)}
  BY DEF Range
<1>2. CASE e \in G
  <2>1. 0 \in 0..Len(q) /\ \A j \in (0 + 1)..Len(q) : q[j] \in R => q[j] \in G
    BY <1>1
  <2> QED
    BY <1>2, <2>1 DEF Ends
<1>3. CASE \E m \in Range(q) : m \in G
  <2>1. PICK i \in 1..Len(q) : q[i] \in G
    BY <1>1, <1>3
  <2>2. i \in 0..Len(q) /\ i # 0 /\ \A j \in (i + 1)..Len(q) : q[j] \in R => q[j] \in G
    BY <1>1
  <2> QED
    BY <2>1, <2>2 DEF Ends
<1> QED
  BY <1>2, <1>3

(* The connection is gone when nothing can be under way. *)
LEMMA DownStep ==
  ASSUME WebTypeOK, Down, WebNext
  PROVE  Down'
<1>1. CASE Connect \/ ConnectThrows \/ OnOpen \/ OnError \/ OnClose
  BY <1>1 DEF Connect, ConnectThrows, OnOpen, OnError, OnClose, server_end, Down
<1>2. ASSUME NEW n, NEW k, SocketEnds(n, k) PROVE Down'
  BY <1>2 DEF SocketEnds, Down
<1>3. ASSUME NEW s \in WebSids, useChannel(s) \/ unuseChannel(s) PROVE Down'
  BY <1>3, ViewIs, Zenon DEF Down
<1>4. ASSUME NEW s \in WebSids, NEW a \in Lifecycle, sendCtl(a, s) PROVE Down'
  BY <1>4 DEF sendCtl, send, server_end, Down
<1>5. CASE clearDisplay
  BY <1>5 DEF clearDisplay, server_end, Down
<1>6. CASE handleData \/ handleSources \/ handleLifecycle \/ handleError
  <2>1. to_web # <<>> /\ sock' = sock /\ fed' = fed /\ feed' = feed
    BY <1>6 DEF handleData, handleSources, handleLifecycle, handleError, Receive, server_end
  <2>2. sock # "open" => to_server' = to_server
    BY <1>6 DEF handleData, handleSources, handleLifecycle, handleError, send
  <2> QED
    BY <2>1, <2>2 DEF Down
<1>7. ASSUME NEW a, Serve(a) PROVE Down'
  BY <1>7 DEF Serve, Down
<1>8. CASE \/ ServeHello \/ ServeList \/ ServeSub \/ ServeUnsub
           \/ \E a \in Lifecycle : ServeCtl(a)
  BY <1>7, <1>8, Zenon DEF ServeHello, ServeList, ServeSub, ServeUnsub, ServeCtl
<1>9. ASSUME NEW s \in WebSids, Publish(s) \/ Forward(s) PROVE Down'
  BY <1>9 DEF Publish, Forward, Down
<1>10. ASSUME NEW i \in 1..MaxLosses, ServeLate(i) PROVE Down'
  BY <1>10, LateIs DEF Down
<1>11. ASSUME NEW s \in WebSids, RunnerEnds(s) PROVE Down'
  BY <1>11 DEF RunnerEnds, Down
<1> QED
  BY <1>1, <1>2, <1>3, <1>4, <1>5, <1>6, <1>8, <1>9, <1>10, <1>11 DEF WebNext

(* The socket changes. *)
LEMMA SockStep ==
  ASSUME WebTypeOK, Down, NEW s \in WebSids, PageSafe(s),
         \/ Connect \/ ConnectThrows \/ OnError \/ OnClose
         \/ \E n \in 0..Len(to_web), k \in 0..Len(to_server) : SocketEnds(n, k)
  PROVE  PageSafe(s)'
<1>1. CASE Connect \/ ConnectThrows \/ OnError \/ OnClose
  <2>1. /\ views' = views /\ table' = table /\ buffers' = buffers /\ to_server' = to_server
        /\ to_web' = to_web /\ fed' = fed /\ feed' = feed /\ truth' = truth /\ watched' = watched /\ unseen' = unseen
        /\ sock' # "open"
    BY <1>1 DEF Connect, ConnectThrows, OnError, OnClose, page, server_end
  <2> QED
    BY <2>1, Zenon DEF PageSafe, Known
<1>2. ASSUME NEW n \in 0..Len(to_web), NEW k \in 0..Len(to_server), SocketEnds(n, k) PROVE PageSafe(s)'
  <2>1. /\ views' = views /\ table' = table /\ buffers' = buffers /\ to_server' = <<>>
        /\ to_web' = SubSeq(to_web, 1, n) /\ fed' = {} /\ feed' = [x \in WebSids |-> 0]
        /\ truth' = truth /\ watched' = watched /\ unseen' = unseen /\ sock' = "over"
    BY <1>2 DEF SocketEnds, page
  <2>2. Range(to_web') \subseteq Range(to_web)
    BY <2>1, InQueue DEF WebTypeOK
  <2>3. Range(to_server') = {} /\ feed'[s] = 0
    BY <2>1 DEF Range
  <2> QED
    BY <2>1, <2>2, <2>3, Zenon DEF PageSafe, Known
<1> QED
  BY <1>1, <1>2

(* The socket opens: the list is asked for, and what the panels show. *)
LEMMA OpenStep ==
  ASSUME WebTypeOK, Down, NEW s \in WebSids, PageSafe(s), OnOpen
  PROVE  PageSafe(s)'
<1> DEFINE q == List \o resubscribeChannels \o <<[type |-> "hello"]>>
<1>1. /\ to_server' = q /\ views' = views /\ table' = table /\ buffers' = buffers /\ to_web' = to_web
      /\ fed' = fed /\ feed' = feed /\ truth' = truth /\ watched' = watched /\ unseen' = unseen /\ sock # "open"
  BY DEF OnOpen, page, server_end
<1>2. /\ q \in Seq(Requests)
      /\ Range(q) = {[type |-> "list"], [type |-> "hello"]}
                      \cup {Msg("sub", x) : x \in {y \in WebSids : views[y] > 0}}
  BY Opened
<1> HIDE DEF q
<1>3. \A m \in SubMsgs(s) : m.sid = s /\ m.type \in {"sub", "unsub"}
  BY MessageIs DEF SubMsgs
<1>4. \A m \in SubMsgs(s) : m \in Range(q) => m = Msg("sub", s) /\ views[s] > 0
  BY <1>2, <1>3, MessageIs
<1>5. views[s] > 0 => Msg("sub", s) \in Range(q)
  BY <1>2
<1>6. Known(s)'
  <2>1. views[s] = 0 => ~(views[s] > 0)
    OBVIOUS
  <2> QED
    BY <1>1, <1>4, <2>1 DEF PageSafe, Known
<1>7. Asked(s)'
  <2>1. Order(s)' = Order(s) /\ Standing(s)' = Msg("unsub", s)
    BY <1>1 DEF Order, Standing, Down
  <2>2. views[s] > 0 => Order(s) = Msg("sub", s)
    BY DEF Order
  <2>3. ~(views[s] > 0) => Order(s) = Msg("unsub", s)
    BY DEF Order
  <2>4. Ends(q, SubMsgs(s), {Order(s)}, Msg("unsub", s))
    BY <1>2, <1>4, <1>5, <2>2, <2>3, EndsAll, Zenon
  <2> QED
    BY <1>1, <2>1, <2>4 DEF Asked
<1>8. Converging(s)'
  BY <1>1, <1>2 DEF Converging
<1> QED
  BY <1>1, <1>6, <1>7, <1>8, Zenon DEF PageSafe

(* A request that is no sub or unsub of a source is sent. *)
LEMMA OtherSent ==
  ASSUME WebTypeOK, NEW s \in WebSids, NEW m \in Requests, m \notin SubMsgs(s),
         to_server' = IF sock = "open" THEN Append(to_server, m) ELSE to_server,
         views' = views, fed' = fed
  PROVE  /\ sock = "open" /\ Asked(s) => Asked(s)'
         /\ Range(to_server) \subseteq Range(to_server')
         /\ Range(to_server') \subseteq Range(to_server) \cup {m}
         /\ sock = "open" => m \in Range(to_server')
<1>0. to_server \in Seq(Requests)
  BY DEF WebTypeOK
<1>1. Range(Append(to_server, m)) = Range(to_server) \cup {m}
  BY <1>0, InQueue
<1>2. Order(s)' = Order(s) /\ Standing(s)' = Standing(s)
  BY DEF Order, Standing
<1>3. ASSUME sock = "open", Asked(s) PROVE Asked(s)'
  <2>1. Ends(Append(to_server, m), SubMsgs(s), {Order(s)}, Standing(s))
    BY <1>0, <1>3, EndsAppend DEF Asked
  <2> QED
    BY <1>2, <1>3, <2>1 DEF Asked
<1> QED
  BY <1>1, <1>3

(* A panel opens or closes. *)
LEMMA ViewStep ==
  ASSUME WebTypeOK, NEW s \in WebSids, PageSafe(s), NEW v \in WebSids, useChannel(v) \/ unuseChannel(v)
  PROVE  PageSafe(s)'
<1>0. to_server \in Seq(Requests) /\ views \in [WebSids -> Nat]
  BY DEF WebTypeOK
<1>1. /\ \A x \in WebSids : x # v => views'[x] = views[x]
      /\ \/ to_server' = IF sock = "open" THEN Append(to_server, Order(v)') ELSE to_server
         \/ to_server' = to_server /\ Order(v)' = Order(v)
      /\ views[v] = 0 => table[v] # NoSource
      /\ sock' = sock /\ table' = table /\ buffers' = buffers /\ to_web' = to_web /\ fed' = fed
      /\ feed' = feed /\ truth' = truth /\ watched' = watched /\ unseen' = unseen
  BY ViewIs
<1>2. Order(v)' \in SubMsgs(v) /\ Order(v)' \in Requests
  BY MessageIs DEF Order, SubMsgs
<1> DEFINE m == Order(v)'
<1>3. Range(Append(to_server, m)) = Range(to_server) \cup {m}
  BY <1>0, <1>2, InQueue
<1>4. Standing(s)' = Standing(s)
  BY <1>1 DEF Standing
<1>5. Converging(s) => Converging(s)'
  <2>1. Range(to_server) \subseteq Range(to_server')
    BY <1>1, <1>3, Zenon
  <2>2. TrueLists(s)' = TrueLists(s) /\ Shown' = Shown
    BY <1>1 DEF TrueLists, Shown, Snapshot
  <2> QED
    BY <1>1, <2>1, <2>2, Zenon DEF Converging
<1>6. CASE s = v
  <2>1. truth[s] # NoSource
    BY <1>1, <1>6, Zenon DEF PageSafe, Known
  <2>2. Known(s)'
    BY <1>1, <2>1, Zenon DEF PageSafe, Known
  <2>3. ASSUME sock = "open", Asked(s) PROVE Asked(s)'
    <3>1. CASE to_server' = Append(to_server, m)
      <4>1. Ends(Append(to_server, m), SubMsgs(s), {m}, Standing(s))
        BY <1>0, <1>2, EndsNew
      <4> QED
        BY <1>4, <1>6, <3>1, <4>1 DEF Asked
    <3>2. CASE to_server' = to_server /\ Order(v)' = Order(v)
      BY <1>4, <1>6, <2>3, <3>2 DEF Asked
    <3> QED
      BY <1>1, <2>3, <3>1, <3>2
  <2> QED
    BY <1>1, <1>5, <2>2, <2>3, Zenon DEF PageSafe
<1>7. CASE s # v
  <2>1. m \notin SubMsgs(s)
    <3>1. m.sid = v /\ \A x \in SubMsgs(s) : x.sid = s
      BY <1>2, MessageIs DEF SubMsgs
    <3> QED
      BY <1>7, <3>1
  <2>2. views'[s] = views[s] /\ Order(s)' = Order(s)
    BY <1>1, <1>7 DEF Order
  <2> HIDE DEF m
  <2>3. Known(s)'
    <3>1. \A x \in SubMsgs(s) : x \in Range(to_server') => x \in Range(to_server)
      BY <1>1, <1>3, <2>1, Zenon DEF m
    <3> QED
      BY <1>1, <2>2, <3>1, Zenon DEF PageSafe, Known
  <2>4. Asked(s) => Asked(s)'
    <3>1. Ends(to_server, SubMsgs(s), {Order(s)}, Standing(s))
            => Ends(Append(to_server, m), SubMsgs(s), {Order(s)}, Standing(s))
      BY <1>0, <1>2, <2>1, EndsAppend DEF m
    <3>2. to_server' = to_server \/ to_server' = Append(to_server, m)
      BY <1>1 DEF m
    <3> QED
      BY <1>4, <2>2, <3>1, <3>2, Zenon DEF Asked
  <2> QED
    BY <1>1, <1>5, <2>3, <2>4, Zenon DEF PageSafe
<1> QED
  BY <1>6, <1>7

(* The operator presses a button. *)
LEMMA ButtonStep ==
  ASSUME WebTypeOK, NEW s \in WebSids, PageSafe(s),
         \/ clearDisplay
         \/ \E v \in WebSids, a \in Lifecycle : sendCtl(a, v)
  PROVE  PageSafe(s)'
<1>1. CASE clearDisplay
  <2>1. /\ views' = views /\ table' = table /\ buffers' = [x \in WebSids |-> 0] /\ to_server' = to_server
        /\ to_web' = to_web /\ fed' = fed /\ feed' = feed /\ truth' = truth /\ watched' = watched /\ unseen' = unseen
        /\ sock' = sock
    BY <1>1 DEF clearDisplay, server_end
  <2>2. ~(buffers'[s] > 0)
    BY <2>1
  <2>3. Order(s)' = Order(s) /\ Standing(s)' = Standing(s) /\ TrueLists(s)' = TrueLists(s) /\ Shown' = Shown
    BY <2>1 DEF Order, Standing, TrueLists, Shown, Snapshot
  <2> QED
    BY <2>1, <2>2, <2>3, Zenon DEF PageSafe, Known, Asked, Converging
<1>2. ASSUME NEW v \in WebSids, NEW a \in Lifecycle, sendCtl(a, v) PROVE PageSafe(s)'
  <2> DEFINE m == Msg(a, v)
  <2>1. /\ views' = views /\ table' = table /\ buffers' = buffers /\ send(<<m>>)
        /\ to_web' = to_web /\ fed' = fed /\ feed' = feed /\ truth' = truth /\ watched' = watched /\ unseen' = unseen
        /\ sock' = sock
    BY <1>2 DEF sendCtl, page, server_end
  <2>2. m \in Requests /\ m.type = a
    BY MessageIs, Zenon
  <2>3. m \notin SubMsgs(s)
    BY <2>2, MessageIs DEF SubMsgs, Lifecycle
  <2> HIDE DEF m
  <2>4. to_server' = IF sock = "open" THEN Append(to_server, m) ELSE to_server
    BY <2>1, <2>2, SendOne
  <2>5. /\ sock = "open" /\ Asked(s) => Asked(s)'
        /\ Range(to_server) \subseteq Range(to_server')
        /\ Range(to_server') \subseteq Range(to_server) \cup {m}
    BY <2>1, <2>2, <2>3, <2>4, OtherSent
  <2>6. Known(s)'
    BY <2>1, <2>3, <2>5, Zenon DEF PageSafe, Known
  <2>7. TrueLists(s)' = TrueLists(s) /\ Shown' = Shown
    BY <2>1 DEF TrueLists, Shown, Snapshot
  <2>8. Converging(s) => Converging(s)'
    BY <2>1, <2>5, <2>7 DEF Converging
  <2> QED
    BY <2>1, <2>5, <2>6, <2>8, Zenon DEF PageSafe
<1> QED
  BY <1>1, <1>2

(* The first frame is taken: what the others say stays under way. *)
LEMMA FrameTaken ==
  ASSUME WebTypeOK, NEW s \in WebSids, to_web # <<>>, to_web' = Tail(to_web), truth' = truth,
         Head(to_web) \notin Events,
         Head(to_web) \in TrueLists(s) => Shown' \in TrueLists(s),
         Head(to_web) \notin Lists /\ Shown \in TrueLists(s) => Shown' \in TrueLists(s),
         to_server' = to_server
  PROVE  Converging(s) => Converging(s)'
<1>1. to_web \in Seq(Frames)
  BY DEF WebTypeOK
<1>2. Range(to_web) = {Head(to_web)} \cup Range(to_web')
  BY <1>1, InQueue
<1>3. TrueLists(s)' = TrueLists(s)
  BY DEF TrueLists, Snapshot
<1>4. ASSUME Ends(to_web, Lists, TrueLists(s), Shown)
      PROVE  Ends(Tail(to_web), Lists, TrueLists(s), Shown')
  <2> DEFINE G == TrueLists(s)
             e == Shown
             f == Shown'
  <2>1. Head(to_web) \in G => f \in G
    OBVIOUS
  <2>2. Head(to_web) \notin Lists /\ e \in G => f \in G
    OBVIOUS
  <2>3. Ends(to_web, Lists, G, e)
    BY <1>4
  <2> HIDE DEF G, e, f
  <2>4. Ends(Tail(to_web), Lists, G, f)
    BY <1>1, <2>1, <2>2, <2>3, EndsPop
  <2> QED
    BY <2>4 DEF G, e, f
<1> QED
  BY <1>2, <1>3, <1>4 DEF Converging

(* Handling a frame keeps the page safe (onMessage). *)
LEMMA FrameStep ==
  ASSUME WebTypeOK, NEW s \in WebSids, PageSafe(s),
         handleData \/ handleSources \/ handleLifecycle \/ handleError
  PROVE  PageSafe(s)'
<1> DEFINE m == Head(to_web)
<1>0. to_web \in Seq(Frames) /\ table \in Tables /\ buffers \in [WebSids -> Nat]
  BY DEF WebTypeOK
<1>1. /\ to_web # <<>> /\ to_web' = Tail(to_web) /\ sock' = sock /\ views' = views /\ fed' = fed
      /\ feed' = feed /\ truth' = truth /\ watched' = watched /\ unseen' = unseen
  BY DEF handleData, handleSources, handleLifecycle, handleError, Receive, server_end
<1>2. m \in Frames /\ Range(to_web) = {m} \cup Range(to_web')
  BY <1>0, <1>1, InQueue
<1>3. Order(s)' = Order(s) /\ Standing(s)' = Standing(s)
  BY <1>1 DEF Order, Standing
<1>4. ASSUME to_server' = to_server, table'[s] = NoSource \/ truth[s] # NoSource PROVE Known(s)'
  BY <1>1, <1>2, <1>4 DEF PageSafe, Known
<1>5. ASSUME to_server' = to_server PROVE Asked(s) => Asked(s)'
  BY <1>3, <1>5 DEF Asked
<1>6. CASE handleError
  <2>1. m.type = "error" /\ table' = table /\ buffers' = buffers /\ to_server' = to_server
    BY <1>6 DEF handleError, Receive
  <2>2. m \notin Events /\ m \notin Lists
    BY <2>1, MessageIs
  <2>3. m \notin TrueLists(s) /\ Shown' = Shown
    BY <2>1, <2>2 DEF TrueLists, Shown
  <2>4. Converging(s) => Converging(s)'
    BY <1>1, <2>1, <2>2, <2>3, FrameTaken
  <2>5. Known(s)'
    BY <1>4, <2>1, Zenon DEF PageSafe, Known
  <2> QED
    BY <1>1, <1>5, <2>1, <2>4, <2>5 DEF PageSafe
<1>7. CASE handleData
  <2>1. m.type = "data" /\ to_server' = to_server /\ table' = [table EXCEPT ![m.sid] = "running"]
    BY <1>7 DEF handleData, Receive
  <2>2. m = Msg("data", m.sid) /\ m.sid \in WebSids
    BY <1>2, <2>1, FrameTold
  <2>3. m \notin Events /\ m \notin Lists
    BY <2>1, MessageIs
  <2>4. \A x \in WebSids : x # m.sid => buffers'[x] = buffers[x]
    BY <1>0, <1>7, Zenon DEF handleData
  <2>5. CASE s = m.sid
    <3>1. table'[s] = "running" /\ "running" # NoSource
      BY <1>0, <2>1, <2>5 DEF Tables, NoSource
    <3>2. s \in watched
      BY <1>2, <2>2, <2>5 DEF PageSafe, Known
    <3>3. Known(s)'
      BY <1>4, <2>1, <3>2, Zenon DEF PageSafe, Known
    <3> QED
      BY <1>1, <1>5, <2>1, <3>1, <3>2, <3>3 DEF PageSafe
  <2>6. CASE s # m.sid
    <3>1. table'[s] = table[s] /\ buffers'[s] = buffers[s] /\ table' \in Tables
      BY <1>0, <2>1, <2>4, <2>6, Zenon DEF Tables, Statuses
    <3>2. Shown \in TrueLists(s) => Shown' \in TrueLists(s)
      BY <3>1, Zenon DEF Shown, TrueLists, Lists
    <3>3. m \notin TrueLists(s)
      BY <2>3 DEF TrueLists
    <3>4. Converging(s) => Converging(s)'
      BY <1>1, <2>1, <2>3, <3>2, <3>3, FrameTaken
    <3>5. Known(s)'
      BY <1>4, <2>1, <3>1, Zenon DEF PageSafe, Known
    <3> QED
      BY <1>1, <1>5, <2>1, <3>1, <3>4, <3>5, Zenon DEF PageSafe
  <2> QED
    BY <2>5, <2>6
<1>8. ASSUME buffers' = Cleared(table') PROVE buffers'[s] > 0 => table'[s] # NoSource
  BY <1>8 DEF Cleared
<1>9. CASE handleSources
  <2>1. m.type = "sources" /\ table' = m.table /\ buffers' = Cleared(table') /\ to_server' = to_server
    BY <1>9 DEF handleSources, Receive
  <2>2. m \in Lists /\ m \notin Events
    BY <1>2, <2>1, FrameTold, MessageIs
  <2>3. Shown' = m
    BY <2>1, <2>2 DEF Shown, Lists
  <2>4. Converging(s) => Converging(s)'
    BY <1>1, <2>1, <2>2, <2>3, FrameTaken
  <2>5. table'[s] = NoSource \/ truth[s] # NoSource
    BY <1>2, <2>1, <2>2 DEF PageSafe, Known
  <2> QED
    BY <1>1, <1>4, <1>5, <1>8, <2>1, <2>4, <2>5 DEF PageSafe
<1>10. CASE handleLifecycle
  <2> DEFINE l == [type |-> "list"]
  <2>1. /\ m.type = "event" /\ table' = [table EXCEPT ![m.sid] = m.status] /\ buffers' = Cleared(table')
        /\ send(<<l>>)
    BY <1>10 DEF handleLifecycle, Receive, List
  <2>2. m \in Events
    BY <1>2, <2>1, FrameTold
  <2>3. l \in Requests /\ l \notin SubMsgs(s)
    BY MessageIs DEF SubMsgs
  <2>4. /\ sock = "open" /\ Asked(s) => Asked(s)'
        /\ Range(to_server') \subseteq Range(to_server) \cup {l}
        /\ sock = "open" => l \in Range(to_server')
    BY <1>1, <2>1, <2>3, SendOne, OtherSent
  <2>5. table'[s] = NoSource \/ truth[s] # NoSource
    BY <1>0, <1>2, <2>1, <2>2, Zenon DEF PageSafe, Known, Tables
  <2> HIDE DEF l
  <2>6. Known(s)'
    BY <1>1, <1>2, <2>3, <2>4, <2>5, Zenon DEF PageSafe, Known
  <2>7. sock = "open" => Converging(s)'
    BY <2>4 DEF Converging, l
  <2> QED
    BY <1>1, <1>8, <2>1, <2>4, <2>6, <2>7, Zenon DEF PageSafe
<1> QED
  BY <1>6, <1>7, <1>9, <1>10

(* A frame of a source goes out. *)
LEMMA FeedStep ==
  ASSUME WebTypeOK, NEW s \in WebSids, PageSafe(s), NEW v \in WebSids, PageSafe(v), Publish(v) \/ Forward(v)
  PROVE  PageSafe(s)'
<1> DEFINE m == Msg("data", v)
<1>0. to_web \in Seq(Frames) /\ feed \in [WebSids -> Nat] /\ m \in Frames
  BY MessageIs DEF WebTypeOK
<1>1. /\ to_web' = to_web \/ to_web' = Append(to_web, m)
      /\ sock' = sock /\ views' = views /\ table' = table /\ buffers' = buffers /\ to_server' = to_server
      /\ fed' = fed /\ truth' = truth /\ watched' = watched /\ unseen' = unseen
      /\ \A x \in WebSids : x # v => feed'[x] = feed[x]
  BY <1>0 DEF Publish, Forward, ServerAnswers, page
<1>2. v \in watched
  <2>1. v \in fed \/ feed[v] > 0
    BY DEF Publish, Forward
  <2>2. v \notin watched => v \notin fed /\ feed[v] = 0
    BY Zenon DEF PageSafe, Known
  <2> QED
    BY <2>1, <2>2
<1>3. Range(to_web') \subseteq Range(to_web) \cup {m} /\ Range(to_web) \subseteq Range(to_web')
  <2> HIDE DEF m
  <2>1. Range(Append(to_web, m)) = Range(to_web) \cup {m}
    BY <1>0, InQueue
  <2> QED
    BY <1>1, <2>1, Zenon
<1>4. m \notin Lists /\ m \notin Events /\ m.sid = v
  BY MessageIs
<1>5. Known(s)'
  <2>1. s # v => Msg("data", s) # m
    BY <1>4, MessageIs
  <2> HIDE DEF m
  <2> QED
    BY <1>1, <1>2, <1>3, <1>4, <2>1, Zenon DEF PageSafe, Known
<1>6. Order(s)' = Order(s) /\ Standing(s)' = Standing(s) /\ TrueLists(s)' = TrueLists(s) /\ Shown' = Shown
  BY <1>1, Zenon DEF Order, Standing, TrueLists, Shown, Snapshot
<1> HIDE DEF m
<1>7. Converging(s) => Converging(s)'
  <2>1. Ends(to_web, Lists, TrueLists(s), Shown) => Ends(Append(to_web, m), Lists, TrueLists(s), Shown)
    BY <1>0, <1>4, EndsAppend
  <2> QED
    BY <1>1, <1>3, <1>6, <2>1, Zenon DEF Converging
<1> QED
  BY <1>1, <1>5, <1>6, <1>7, Zenon DEF PageSafe, Asked

(* The server takes the first request. *)
LEMMA ServeTakes ==
  ASSUME WebTypeOK, Down, NEW a, Serve(a)
  PROVE  /\ sock = "open" /\ sock' = sock /\ views' = views /\ table' = table /\ buffers' = buffers
         /\ to_server \in Seq(Requests) /\ to_server # <<>> /\ to_server' = Tail(to_server)
         /\ Head(to_server) \in Requests /\ Head(to_server).type = a
         /\ Range(to_server) = {Head(to_server)} \cup Range(to_server')
<1>1. /\ to_server # <<>> /\ Head(to_server).type = a /\ to_server' = Tail(to_server)
      /\ sock' = sock /\ views' = views /\ table' = table /\ buffers' = buffers
  BY Zenon DEF Serve, page
<1>2. to_server \in Seq(Requests) /\ sock = "open"
  BY <1>1 DEF WebTypeOK, Down
<1> QED
  BY <1>1, <1>2, InQueue, Zenon

(* It is a sub or unsub of the source, which is carried out, or another    *)
(* request, which leaves the subscription.                                 *)
LEMMA ServeAsked ==
  ASSUME WebTypeOK, Down, NEW s \in WebSids, NEW a, Serve(a), Asked(s),
         \/ Head(to_server) \in SubMsgs(s) /\ Standing(s)' = Head(to_server)
         \/ Head(to_server) \notin SubMsgs(s) /\ Standing(s)' = Standing(s)
  PROVE  Asked(s)'
<1>1. views' = views /\ to_server \in Seq(Requests) /\ to_server # <<>> /\ to_server' = Tail(to_server)
  BY ServeTakes
<1>2. Order(s)' = Order(s) /\ Order(s) \in SubMsgs(s)
  BY <1>1 DEF Order, SubMsgs
<1> DEFINE e == Standing(s)
           f == Standing(s)'
           G == {Order(s)}
<1>3. (Head(to_server) \in G => f \in G) /\ (Head(to_server) \notin SubMsgs(s) /\ e \in G => f \in G)
  BY <1>2
<1>4. Ends(to_server, SubMsgs(s), G, e)
  BY DEF Asked
<1> HIDE DEF e, f, G
<1>5. Ends(Tail(to_server), SubMsgs(s), G, f)
  BY <1>1, <1>3, <1>4, EndsPop
<1> QED
  BY <1>1, <1>2, <1>5 DEF Asked, f, G

(* Sources that stay as they are are listed as they were. *)
LEMMA TruthStays ==
  ASSUME truth' = truth, NEW s \in WebSids
  PROVE  Snapshot'[s] = Snapshot[s] /\ Moves(s)
BY DEF Snapshot, Moves

(* It is no list, and the answer, if any, no list either. *)
LEMMA ServeConverging ==
  ASSUME WebTypeOK, Down, NEW s \in WebSids, NEW a, Serve(a), a # "list", Snapshot'[s] = Snapshot[s],
         to_web' = to_web \/ to_web' = Append(to_web, [type |-> "error"])
  PROVE  Converging(s) => Converging(s)'
<1> DEFINE m == [type |-> "error"]
           l == [type |-> "list"]
<1>0. to_web \in Seq(Frames) /\ m \in Frames /\ m \notin Lists /\ l.type = "list"
  BY MessageIs DEF WebTypeOK
<1>1. Range(to_server) = {Head(to_server)} \cup Range(to_server') /\ Head(to_server).type = a /\ table' = table
  BY ServeTakes
<1>2. l \in Range(to_server) => l \in Range(to_server')
  BY <1>0, <1>1
<1>3. Range(Append(to_web, m)) = Range(to_web) \cup {m}
  BY <1>0, InQueue
<1>4. TrueLists(s)' = TrueLists(s) /\ Shown' = Shown
  BY <1>1 DEF TrueLists, Shown, Snapshot
<1>5. Ends(to_web, Lists, TrueLists(s), Shown) => Ends(Append(to_web, m), Lists, TrueLists(s), Shown)
  <2> HIDE DEF m
  <2> QED
    BY <1>0, EndsAppend
<1>6. Ends(to_web, Lists, TrueLists(s), Shown) => Ends(to_web', Lists, TrueLists(s), Shown)
  BY <1>5, Zenon
<1>7. Range(to_web) \subseteq Range(to_web')
  BY <1>3, Zenon
<1> QED
  BY <1>2, <1>4, <1>6, <1>7 DEF Converging

(* What is known of a source stays known when the server takes a request   *)
(* that leaves the source and answers with an error or not at all.         *)
LEMMA ServeKnown ==
  ASSUME WebTypeOK, Down, NEW s \in WebSids, Known(s), NEW a, Serve(a), Moves(s),
         watched \subseteq watched', s \in watched' /\ s \notin watched => truth[s] # NoSource,
         s \notin watched' => (s \in fed' => s \in fed) /\ (feed[s] = 0 => feed'[s] = 0),
         to_web' = to_web \/ to_web' = Append(to_web, [type |-> "error"])
  PROVE  Known(s)'
<1> DEFINE m == [type |-> "error"]
<1>0. to_web \in Seq(Frames) /\ m \in Frames /\ m \notin Lists /\ m \notin Events /\ m # Msg("data", s)
  BY MessageIs DEF WebTypeOK
<1>1. Range(to_server') \subseteq Range(to_server) /\ views' = views /\ table' = table
  BY ServeTakes, Zenon
<1>2. Range(Append(to_web, m)) = Range(to_web) \cup {m}
  BY <1>0, InQueue
<1>3. Range(to_web') \subseteq Range(to_web) \cup {m}
  BY <1>2, Zenon
<1> HIDE DEF m
<1> QED
  BY <1>0, <1>1, <1>3 DEF Known, Moves

(* Serving a hello keeps the page safe. *)
LEMMA HelloServed ==
  ASSUME WebTypeOK, Down, NEW s \in WebSids, PageSafe(s), ServeHello
  PROVE  PageSafe(s)'
<1>1. /\ Serve("hello") /\ to_web' = to_web /\ fed' = fed /\ feed' = feed /\ truth' = truth
      /\ watched' = watched /\ unseen' = unseen
  BY DEF ServeHello, server_end
<1>2. sock' = sock /\ table' = table /\ buffers' = buffers /\ Head(to_server).type = "hello"
  BY <1>1, ServeTakes
<1>3. Standing(s)' = Standing(s) /\ Head(to_server) \notin SubMsgs(s)
  BY <1>1, <1>2, MessageIs DEF Standing, SubMsgs
<1>4. Asked(s) => Asked(s)'
  BY <1>1, <1>3, ServeAsked
<1>5. Converging(s) => Converging(s)'
  BY <1>1, TruthStays, ServeConverging
<1>6. Known(s)'
  BY <1>1, TruthStays, ServeKnown DEF PageSafe
<1> QED
  BY <1>1, <1>2, <1>4, <1>5, <1>6 DEF PageSafe

(* A list is answered with the truth. *)
LEMMA TruthServed ==
  ASSUME WebTypeOK, Down, NEW s \in WebSids, PageSafe(s), ServeList
  PROVE  PageSafe(s)'
<1> DEFINE m == [type |-> "sources", table |-> Snapshot]
<1>1. /\ Serve("list") /\ to_web' = Append(to_web, m) /\ fed' = fed /\ feed' = feed /\ truth' = truth
      /\ watched' = watched
  BY DEF ServeList, ServerAnswers, server_end
<1>2. /\ sock' = sock /\ views' = views /\ table' = table /\ buffers' = buffers
      /\ Head(to_server).type = "list" /\ Range(to_server') \subseteq Range(to_server)
  BY <1>1, ServeTakes
<1>3. Standing(s)' = Standing(s) /\ Head(to_server) \notin SubMsgs(s)
  BY <1>1, <1>2, MessageIs DEF Standing, SubMsgs
<1>4. Asked(s) => Asked(s)'
  BY <1>1, <1>3, ServeAsked
<1>5. Snapshot \in Tables /\ (truth[s] = NoSource => Snapshot[s] = NoSource)
  BY DEF WebTypeOK, Snapshot, Tables, Statuses, NoSource
<1>6. m \in Lists /\ m.table = Snapshot
  BY <1>5 DEF Lists
<1>7. m \in Frames /\ m \notin Events /\ m # Msg("data", s) /\ m \in TrueLists(s)
  BY <1>6, MessageIs DEF TrueLists
<1> HIDE DEF m
<1>8. to_web \in Seq(Frames)
  BY DEF WebTypeOK
<1>9. Range(to_web') = Range(to_web) \cup {m}
  BY <1>1, <1>7, <1>8, InQueue
<1>10. TrueLists(s)' = TrueLists(s) /\ Shown' = Shown
  BY <1>1, <1>2, Zenon DEF TrueLists, Shown, Snapshot
<1>11. Converging(s)'
  <2>1. Ends(Append(to_web, m), Lists, TrueLists(s), Shown)
    BY <1>7, <1>8, EndsNew
  <2> QED
    BY <1>1, <1>10, <2>1 DEF Converging
<1>12. Known(s)'
  BY <1>1, <1>2, <1>5, <1>6, <1>7, <1>9, Zenon DEF PageSafe, Known
<1> QED
  BY <1>1, <1>2, <1>4, <1>11, <1>12, Zenon DEF PageSafe

(* A sub is carried out, or refused for a source that is gone. *)
LEMMA SubServed ==
  ASSUME WebTypeOK, Down, NEW s \in WebSids, PageSafe(s), ServeSub
  PROVE  PageSafe(s)'
<1> DEFINE v == Head(to_server).sid
<1>1. /\ Serve("sub") /\ feed' = feed /\ truth' = truth
      /\ unseen' = unseen
      /\ \/ Listed(v) /\ fed' = fed \cup {v} /\ watched' = watched \cup {v} /\ to_web' = to_web
         \/ /\ ~Listed(v) /\ fed' = fed /\ watched' = watched
            /\ to_web' = Append(to_web, [type |-> "error"])
  BY Zenon DEF ServeSub, Error, ServerAnswers, server_end
<1>2. /\ sock' = sock /\ table' = table /\ buffers' = buffers /\ Head(to_server).type = "sub"
      /\ Head(to_server) \in Requests /\ Head(to_server) \in Range(to_server)
  BY <1>1, ServeTakes, Zenon
<1>3. Head(to_server) = Msg("sub", v) /\ v \in WebSids
  BY <1>2, RequestTold, Zenon
<1> HIDE DEF v
<1>4. Converging(s) => Converging(s)'
  BY <1>1, TruthStays, ServeConverging
<1>5. Known(s)'
  <2>1. Listed(v) => truth[v] # NoSource
    BY DEF Listed, NoSource
  <2> QED
    BY <1>1, <2>1, TruthStays, ServeKnown DEF PageSafe
<1>6. CASE s = v
  <2>1. Head(to_server) \in SubMsgs(s)
    BY <1>3, <1>6 DEF SubMsgs
  <2>2. truth[s] # NoSource
    BY <1>2, <2>1, Zenon DEF PageSafe, Known
  <2>3. truth[s] # "removed" => Listed(s)
    BY <2>2 DEF Listed, WebTypeOK, Statuses, Truths
  <2>4. Listed(s) => Standing(s)' = Head(to_server)
    BY <1>1, <1>3, <1>6 DEF Standing
  <2>5. truth[s] # "removed" /\ Asked(s) => Asked(s)'
    BY <1>1, <2>1, <2>3, <2>4, ServeAsked
  <2> QED
    BY <1>1, <1>2, <1>4, <1>5, <2>5, Zenon DEF PageSafe
<1>7. CASE s # v
  <2>1. Head(to_server) \notin SubMsgs(s)
    BY <1>3, <1>7, MessageIs DEF SubMsgs
  <2>2. Standing(s)' = Standing(s)
    BY <1>1, <1>7 DEF Standing
  <2>3. Asked(s) => Asked(s)'
    BY <1>1, <2>1, <2>2, ServeAsked
  <2> QED
    BY <1>1, <1>2, <1>4, <1>5, <2>3 DEF PageSafe
<1> QED
  BY <1>6, <1>7

(* Serving an unsub keeps the page safe. *)
LEMMA UnsubServed ==
  ASSUME WebTypeOK, Down, NEW s \in WebSids, PageSafe(s), ServeUnsub
  PROVE  PageSafe(s)'
<1> DEFINE v == Head(to_server).sid
<1>1. /\ Serve("unsub") /\ truth' = truth /\ fed' = fed \ {v} /\ feed' = [feed EXCEPT ![v] = 0]
      /\ watched' = watched /\ unseen' = unseen /\ to_web' = to_web
  BY DEF ServeUnsub
<1>2. /\ sock' = sock /\ table' = table /\ buffers' = buffers /\ Head(to_server).type = "unsub"
      /\ Head(to_server) \in Requests
  BY <1>1, ServeTakes
<1>3. Head(to_server) = Msg("unsub", v) /\ v \in WebSids
  BY <1>2, RequestTold
<1> HIDE DEF v
<1>4. Converging(s) => Converging(s)'
  BY <1>1, TruthStays, ServeConverging
<1>5. Known(s)'
  <2>1. feed[s] = 0 => feed'[s] = 0
    BY <1>1 DEF WebTypeOK
  <2> QED
    BY <1>1, <2>1, TruthStays, ServeKnown DEF PageSafe
<1>6. \/ Head(to_server) \in SubMsgs(s) /\ Standing(s)' = Head(to_server)
      \/ Head(to_server) \notin SubMsgs(s) /\ Standing(s)' = Standing(s)
  <2>1. CASE s = v
    BY <1>1, <1>3, <2>1 DEF SubMsgs, Standing
  <2>2. CASE s # v
    <3>1. Head(to_server) \notin SubMsgs(s)
      BY <1>3, <2>2, MessageIs DEF SubMsgs
    <3> QED
      BY <1>1, <2>2, <3>1 DEF Standing
  <2> QED
    BY <2>1, <2>2
<1>7. Asked(s) => Asked(s)'
  BY <1>1, <1>6, ServeAsked
<1> QED
  BY <1>1, <1>2, <1>4, <1>5, <1>7, Zenon DEF PageSafe

(* A control request changes a source, and the page is told, or fails. *)
LEMMA CtlServed ==
  ASSUME WebTypeOK, Down, NEW s \in WebSids, PageSafe(s), NEW a \in Lifecycle, ServeCtl(a)
  PROVE  PageSafe(s)'
<1> DEFINE v == Head(to_server).sid
           shown == IF a = "remove" THEN NoSource ELSE After[a]
           m == [type |-> "event", sid |-> v, status |-> shown]
<1>1. /\ Serve(a) /\ fed' = fed /\ feed' = feed /\ watched' = watched
      /\ \/ Succeeds(a, v) /\ to_web' = Append(to_web, m) /\ unseen' = unseen
         \/ Fails(a, v) /\ to_web' = Append(to_web, [type |-> "error"]) /\ Unannounced
  BY DEF ServeCtl, Error, ServerAnswers
<1>2. /\ sock' = sock /\ views' = views /\ table' = table /\ buffers' = buffers
      /\ Head(to_server).type = a /\ Head(to_server) \in Requests
      /\ Range(to_server') \subseteq Range(to_server)
  BY <1>1, ServeTakes
<1>3. v \in WebSids
  BY <1>2, RequestTold DEF Lifecycle
<1>4. Head(to_server) \notin SubMsgs(s) /\ Standing(s)' = Standing(s)
  <2>1. a # "sub" /\ a # "unsub"
    BY DEF Lifecycle
  <2>2. Head(to_server) \notin SubMsgs(s)
    BY <1>2, <2>1, MessageIs, Zenon DEF SubMsgs
  <2>3. Standing(s)' = Standing(s)
    BY <1>1, Zenon DEF Standing
  <2> QED
    BY <2>2, <2>3
<1>5. Asked(s) => Asked(s)'
  BY <1>1, <1>4, ServeAsked, Zenon
<1> HIDE DEF v
<1>6. (\A x \in WebSids : Moves(x)) /\ (Succeeds(a, v) => truth'[v] # NoSource)
  BY <1>1, <1>3, TruthIs DEF WebTypeOK
<1>7. truth'[s] # "removed" => truth[s] # "removed"
  BY <1>6 DEF Moves
<1>8. CASE Fails(a, v) /\ to_web' = Append(to_web, [type |-> "error"]) /\ Unannounced
  <2>1. s \notin unseen' => s \notin unseen /\ Snapshot'[s] = Snapshot[s]
    BY <1>8 DEF Unannounced
  <2>2. s \notin unseen' /\ Converging(s) => Converging(s)'
    BY <1>1, <1>8, <2>1, ServeConverging DEF Lifecycle
  <2>3. Known(s)'
    BY <1>1, <1>6, <1>8, ServeKnown DEF PageSafe
  <2> QED
    BY <1>1, <1>2, <1>5, <1>7, <2>1, <2>2, <2>3, Zenon DEF PageSafe
<1>9. CASE Succeeds(a, v) /\ to_web' = Append(to_web, m) /\ unseen' = unseen
  <2>0. to_web \in Seq(Frames)
    BY DEF WebTypeOK
  <2>1. shown \in Statuses
    BY ActionIs, Zenon DEF Statuses, NoSource
  <2> HIDE DEF shown
  <2>2. m \in Events /\ m.sid = v
    BY <1>3, <2>1 DEF Events
  <2> HIDE DEF m
  <2>3. m \in Frames /\ m \notin Lists /\ m # Msg("data", s)
    BY <2>2, MessageIs
  <2>4. Range(to_web') = Range(to_web) \cup {m}
    BY <1>9, <2>0, <2>3, InQueue, Zenon
  <2>5. Converging(s)'
    BY <2>2, <2>4 DEF Converging
  <2>6. truth'[s] = NoSource => truth[s] = NoSource /\ s # v
    BY <1>6, <1>9 DEF Moves
  <2>7. Known(s)'
    BY <1>1, <1>2, <2>2, <2>3, <2>4, <2>6, Zenon DEF PageSafe, Known
  <2> QED
    BY <1>1, <1>2, <1>5, <1>7, <2>5, <2>7, Zenon DEF PageSafe
<1> QED
  BY <1>1, <1>8, <1>9

(* A source changes and the connection is not told: a request of a lost    *)
(* connection, or a runner that ends.                                      *)
LEMMA UnseenStep ==
  ASSUME WebTypeOK, NEW s \in WebSids, PageSafe(s), Moves(s), Unannounced,
         sock' = sock, views' = views, table' = table, buffers' = buffers,
         to_server' = to_server, to_web' = to_web, fed' = fed, feed' = feed, watched' = watched
  PROVE  PageSafe(s)'
<1>1. s \notin unseen' => s \notin unseen /\ Snapshot'[s] = Snapshot[s]
  BY DEF Unannounced
<1>2. Known(s)'
  BY Zenon DEF PageSafe, Known, Moves
<1>3. Order(s)' = Order(s) /\ Standing(s)' = Standing(s) /\ Shown' = Shown
  BY DEF Order, Standing, Shown
<1>4. s \notin unseen' => TrueLists(s)' = TrueLists(s)
  BY <1>1 DEF TrueLists
<1>5. s \notin unseen' /\ Converging(s) => Converging(s)'
  BY <1>3, <1>4, Zenon DEF Converging
<1>6. Asked(s) => Asked(s)'
  BY <1>3, Zenon DEF Asked
<1>7. truth'[s] # "removed" => truth[s] # "removed"
  BY DEF Moves
<1> QED
  BY <1>1, <1>2, <1>5, <1>6, <1>7, Zenon DEF PageSafe

(* A page that has not connected is safe. *)
LEMMA PageStart == WebInit => PageInv
<1> SUFFICES ASSUME WebInit PROVE PageInv
  OBVIOUS
<1>1. WebTypeOK
  BY DEF WebInit, WebTypeOK, Tables, Statuses, Truths
<1>2. Down
  BY DEF WebInit, Down
<1>3. ASSUME NEW s \in WebSids PROVE PageSafe(s)
  <2>1. Range(to_server) = {} /\ Range(to_web) = {}
    BY DEF WebInit, Range
  <2> QED
    BY <2>1 DEF WebInit, PageSafe, Known
<1> QED
  BY <1>1, <1>2, <1>3 DEF PageInv

(* Every step of page, server and connection keeps it safe. *)
LEMMA PageStep ==
  ASSUME PageInv, [WebNext]_web_vars
  PROVE  PageInv'
<1>1. WebTypeOK /\ Down /\ \A s \in WebSids : PageSafe(s)
  BY DEF PageInv
<1>2. CASE WebNext
  <2>1. WebTypeOK' /\ Down'
    BY <1>1, <1>2, WebTypeStep, DownStep
  <2>2. ASSUME NEW s \in WebSids PROVE PageSafe(s)'
    <3>0. PageSafe(s)
      BY <1>1
    <3>1. CASE \/ Connect \/ ConnectThrows \/ OnError \/ OnClose
               \/ \E n \in 0..Len(to_web), k \in 0..Len(to_server) : SocketEnds(n, k)
      BY <1>1, <3>0, <3>1, SockStep
    <3>2. CASE OnOpen
      BY <1>1, <3>0, <3>2, OpenStep
    <3>3. ASSUME NEW v \in WebSids, useChannel(v) \/ unuseChannel(v) PROVE PageSafe(s)'
      BY <1>1, <3>0, <3>3, ViewStep
    <3>4. ASSUME NEW v \in WebSids, Publish(v) \/ Forward(v) PROVE PageSafe(s)'
      BY <1>1, <3>0, <3>4, FeedStep
    <3>5. CASE clearDisplay \/ \E v \in WebSids, a \in Lifecycle : sendCtl(a, v)
      BY <1>1, <3>0, <3>5, ButtonStep
    <3>6. CASE handleData \/ handleSources \/ handleLifecycle \/ handleError
      BY <1>1, <3>0, <3>6, FrameStep
    <3>7. CASE ServeHello
      BY <1>1, <3>0, <3>7, HelloServed
    <3>8. CASE ServeList
      BY <1>1, <3>0, <3>8, TruthServed
    <3>9. CASE ServeSub
      BY <1>1, <3>0, <3>9, SubServed
    <3>10. CASE ServeUnsub
      BY <1>1, <3>0, <3>10, UnsubServed
    <3>11. ASSUME NEW a \in Lifecycle, ServeCtl(a) PROVE PageSafe(s)'
      BY <1>1, <3>0, <3>11, CtlServed
    <3>12. ASSUME NEW i \in 1..MaxLosses, ServeLate(i) PROVE PageSafe(s)'
      BY <1>1, <3>0, <3>12, LateIs, UnseenStep
    <3>13. ASSUME NEW v \in WebSids, RunnerEnds(v) PROVE PageSafe(s)'
      <4>1. /\ sock' = sock /\ views' = views /\ table' = table /\ buffers' = buffers
            /\ to_server' = to_server /\ to_web' = to_web /\ fed' = fed /\ feed' = feed
            /\ watched' = watched /\ Unannounced
            /\ truth[v] = "running" /\ truth' = [truth EXCEPT ![v] = "ended"]
        BY <3>13 DEF RunnerEnds, page
      <4>2. Moves(s)
        BY <1>1, <4>1 DEF Moves, WebTypeOK, NoSource
      <4> QED
        BY <1>1, <3>0, <4>1, <4>2, UnseenStep
    <3> QED
      BY <1>2, <3>0, <3>1, <3>2, <3>3, <3>4, <3>5, <3>6, <3>7, <3>8, <3>9, <3>10, <3>11, <3>12, <3>13
      DEF WebNext
  <2> QED
    BY <2>1, <2>2 DEF PageInv
<1>3. CASE UNCHANGED web_vars
  <2>1. /\ sock' = sock /\ views' = views /\ table' = table /\ buffers' = buffers
        /\ to_server' = to_server /\ to_web' = to_web /\ fed' = fed /\ feed' = feed /\ truth' = truth
        /\ watched' = watched /\ unseen' = unseen /\ late' = late
    BY <1>3 DEF web_vars, page, server_end
  <2>2. WebTypeOK' /\ Down'
    BY <1>1, <2>1 DEF WebTypeOK, Down
  <2>3. ASSUME NEW s \in WebSids PROVE PageSafe(s)'
    <3>1. PageSafe(s)
      BY <1>1
    <3>2. Order(s)' = Order(s) /\ Standing(s)' = Standing(s) /\ TrueLists(s)' = TrueLists(s) /\ Shown' = Shown
      BY <2>1 DEF Order, Standing, TrueLists, Shown, Snapshot
    <3> QED
      BY <2>1, <3>1, <3>2, Zenon DEF PageSafe, Known, Asked, Converging
  <2> QED
    BY <2>2, <2>3 DEF PageInv
<1> QED
  BY <1>2, <1>3

(* After any losses of the connection, for any number of sources and       *)
(* panels: once the server has read what the page sent it forwards exactly *)
(* the sources that some panel shows, with nothing under way the table     *)
(* shows the truth of every source that was not watched and did not change *)
(* unannounced after the last list, and the page keeps no frames of a      *)
(* source it does not show (resubscribeChannels, useChannel,               *)
(* handleConnState, syncSources, removeSource).                            *)
THEOREM PageComesBack == WebSpec => []PageAgrees
<1>1. WebInit => PageInv
  BY PageStart
<1>2. PageInv /\ [WebNext]_web_vars => PageInv'
  BY PageStep
<1>3. PageInv => PageAgrees
  <2> SUFFICES ASSUME PageInv PROVE PageAgrees
    OBVIOUS
  <2>0. WebTypeOK /\ \A s \in WebSids : PageSafe(s)
    BY DEF PageInv
  <2>1. SubsMatch
    <3> SUFFICES ASSUME sock = "open", to_server = <<>>, NEW s \in WebSids, Listed(s)
                 PROVE  s \in fed <=> views[s] > 0
      BY DEF SubsMatch
    <3>1. truth[s] # "removed"
      BY DEF Listed
    <3>2. Asked(s)
      BY <2>0, <3>1 DEF PageSafe
    <3>3. Standing(s) = Order(s)
      BY <3>2, EndsEmpty DEF Asked
    <3>4. /\ Standing(s).type = IF s \in fed THEN "sub" ELSE "unsub"
          /\ Order(s).type = IF views[s] > 0 THEN "sub" ELSE "unsub"
      BY MessageIs DEF Standing, Order
    <3> QED
      BY <3>3, <3>4
  <2>2. QuietTableTrue
    <3> SUFFICES ASSUME Settled, NEW s \in WebSids \ (watched \cup unseen) PROVE table[s] = Snapshot[s]
      BY DEF QuietTableTrue
    <3>1. sock = "open" /\ to_server = <<>> /\ to_web = <<>>
      BY DEF Settled
    <3>2. Range(to_server) = {} /\ Range(to_web) = {}
      BY <3>1 DEF Range
    <3>3. Converging(s)
      BY <2>0, <3>1 DEF PageSafe
    <3>4. Shown \in TrueLists(s)
      BY <3>1, <3>2, <3>3, EndsEmpty DEF Converging
    <3> QED
      BY <3>4 DEF Shown, TrueLists
  <2>3. BuffersOwned
    BY <2>0 DEF BuffersOwned, PageSafe
  <2> QED
    BY <2>1, <2>2, <2>3 DEF PageAgrees
<1> QED
  BY <1>1, <1>2, <1>3, PTL DEF WebSpec
=============================================================================
