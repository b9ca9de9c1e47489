----------------------------- MODULE CliClients ------------------------------
(***************************************************************************)
(* The commands `tracemux send` and `tracemux watch` and the end of the    *)
(* server they talk to: the handshake with its authorisation, one write    *)
(* with its audit row, the source list, one subscription.  The connection  *)
(* may break at any time with messages on their way, and the source may be *)
(* restarted with another encoding or removed meanwhile.                   *)
(*                                                                         *)
(* How the server forwards and paces frames is WsConnection's subject; the *)
(* text of a printed row is left out, but for the encoding it is decoded   *)
(* with.                                                                   *)
(***************************************************************************)
EXTENDS Naturals, Sequences

CONSTANTS Labels,       \* encodings a source may have
          MaxWatched    \* bound on the frames forwarded

VARIABLES cli,       \* the command: what it was asked for, where it is, its exit
          link,      \* "none", "up", "closed" (by a close frame) or "broken"
          requests_, \* messages to the server
          replies,   \* messages to the command
          source,    \* the server's source: is it there, its encoding
          feed_on,   \* the server forwards the session's frames
          forwarded, \* history: frames forwarded, in order
          printed,   \* rows on stdout: frame and encoding
          listed,    \* history: the encoding in the source list sent
          writes,    \* history: how much of the payload each write to the
                     \* sink brought to the device: "all" or "part"
          audit      \* results in audit.jsonl

cli_vars == <<cli, link, requests_, replies, source, feed_on, forwarded, printed,
              listed, writes, audit>>

Default == "utf-8"
Invocations ==
  [cmd : {"send"}, wait : BOOLEAN, auto : {FALSE}, ch : {0}, max : {1}] \cup
  [cmd : {"watch"}, wait : {FALSE}, auto : BOOLEAN, ch : {0, 1}, max : {0, 1, 2}]
Idle_ == [opt |-> [cmd |-> "none"], phase |-> "idle", encoding |-> Default,
          exit |-> "none"]

CliInit ==
  /\ cli = Idle_ /\ link = "none" /\ requests_ = <<>> /\ replies = <<>>
  /\ source \in [known : {TRUE}, encoding : Labels]
  /\ feed_on = FALSE /\ forwarded = <<>> /\ printed = <<>> /\ listed = {}
  /\ writes = <<>> /\ audit = <<>>

Exit(code) == [cli EXCEPT !.phase = "exited", !.exit = code]

(* An answer on a connection that has ended goes nowhere. *)
CliReply(m) == replies' = IF link = "up" THEN Append(replies, m) ELSE replies
Told(kind) == [t |-> kind]

-----------------------------------------------------------------------------
(* check_auth: a bearer token decides when there is one; without one only  *)
(* a loopback peer of a server started with --no-auth gets in.             *)
check_auth(token, loopback, no_auth) ==
  IF token # "none" THEN token = "known" ELSE no_auth /\ loopback

Invoke(o) ==
  /\ cli.phase = "idle"
  /\ cli' = [cli EXCEPT !.opt = o, !.phase = "handshake"]
  /\ UNCHANGED <<link, requests_, replies, source, feed_on, forwarded, printed,
                 listed, writes, audit>>

(* ws_handler refuses with 401 or, at the connection cap, with 503.        *)
Refused(token, loopback, no_auth, full) ==
  /\ cli.phase = "handshake"
  /\ ~check_auth(token, loopback, no_auth) \/ full
  /\ cli' = Exit("error")
  /\ UNCHANGED <<link, requests_, replies, source, feed_on, forwarded, printed,
                 listed, writes, audit>>

(* Watch asks for the source list first when it has to find the encoding.  *)
FirstRequests ==
  CASE cli.opt.cmd = "send" -> <<"write">>
    [] cli.opt.cmd = "watch" /\ cli.opt.auto -> <<"list">>
    [] OTHER -> <<"sub">>

(* Admitted: the command sends its first request; send without --wait-ack  *)
(* is done, and closes the socket after the write frame.                   *)
Admitted(token, loopback, no_auth) ==
  /\ cli.phase = "handshake"
  /\ check_auth(token, loopback, no_auth)
  /\ requests_' = FirstRequests
  /\ \/ /\ cli.opt.cmd = "send" /\ ~cli.opt.wait
        /\ cli' = Exit("ok") /\ link' = "closed"
     \/ /\ cli.opt.cmd = "watch" \/ cli.opt.wait
        /\ cli' = [cli EXCEPT !.phase = IF cli.opt.cmd = "send" THEN "ack"
                                        ELSE IF cli.opt.auto THEN "list" ELSE "stream"]
        /\ link' = "up"
  /\ UNCHANGED <<replies, source, feed_on, forwarded, printed, listed, writes, audit>>

-----------------------------------------------------------------------------
(* wait_ack: the acknowledgement or the error of this write; anything else *)
(* is passed over.                                                         *)
WaitAck(m) ==
  cli' = CASE m.t = "write_ack" -> Exit("ok")
           [] m.t = "error" -> Exit("error")
           [] OTHER -> cli

source_list_encoding(m) == m.encoding

(* resolve_watch_encoding: then the subscription is sent. *)
ResolveEncoding(m) ==
  /\ cli' = CASE m.t = "error" -> Exit("error")
              [] m.t = "sources" -> [cli EXCEPT !.phase = "stream",
                                                !.encoding = source_list_encoding(m)]
              [] OTHER -> cli
  /\ requests_' = IF m.t = "sources" /\ link = "up" THEN Append(requests_, "sub")
                                                    ELSE requests_

(* The feed carries the frames of every channel of the session. *)
is_target_data(m) == m.t = "data" /\ m.ch = cli.opt.ch

(* The loop of watch: a row per frame, and the limit is looked at after    *)
(* the row is out.                                                         *)
WatchFrame(m) ==
  /\ printed' = IF is_target_data(m)
                THEN Append(printed, [n |-> m.n, encoding |-> cli.encoding])
                ELSE printed
  /\ cli' = CASE m.t = "error" -> Exit("error")
              [] is_target_data(m) /\ Len(printed) + 1 >= cli.opt.max -> Exit("ok")
              [] OTHER -> cli

CliReceive ==
  /\ replies # <<>> /\ cli.phase \in {"ack", "list", "stream"}
  /\ replies' = Tail(replies)
  /\ LET m == Head(replies)
     IN  \/ cli.phase = "ack" /\ WaitAck(m) /\ UNCHANGED <<requests_, printed>>
         \/ cli.phase = "list" /\ ResolveEncoding(m) /\ UNCHANGED printed
         \/ cli.phase = "stream" /\ WatchFrame(m) /\ UNCHANGED requests_
  /\ link' = IF cli'.phase = "exited" THEN "closed" ELSE link
  /\ UNCHANGED <<source, feed_on, forwarded, listed, writes, audit>>

(* The connection breaks, or the server closes it.  What is on its way to  *)
(* the command may still arrive, and the server may already have the       *)
(* request, of which there is one at most.                                 *)
LinkEnds(how, kept) ==
  /\ link = "up"
  /\ link' = how /\ requests_' \in {<<>>, requests_} /\ feed_on' = FALSE
  /\ replies' = SubSeq(replies, 1, kept)
  /\ UNCHANGED <<cli, source, forwarded, printed, listed, writes, audit>>

(* The end of the stream: an error, or for watch a normal end.             *)
StreamEnds ==
  /\ link \in {"closed", "broken"} /\ replies = <<>>
  /\ cli.phase \in {"ack", "list", "stream"}
  /\ cli' = Exit(IF cli.phase = "stream" /\ link = "closed" THEN "ok" ELSE "error")
  /\ UNCHANGED <<link, requests_, replies, source, feed_on, forwarded, printed,
                 listed, writes, audit>>

-----------------------------------------------------------------------------
(* The server takes the requests in order; after the command has closed    *)
(* the socket it still takes what was sent before.                         *)
Request(r) ==
  /\ requests_ # <<>> /\ Head(requests_) = r
  /\ requests_' = Tail(requests_)

CliServeList ==
  /\ Request("list")
  /\ LET e == IF source.known THEN source.encoding ELSE Default
     IN  CliReply([t |-> "sources", encoding |-> e]) /\ listed' = listed \cup {e}
  /\ UNCHANGED <<cli, link, source, feed_on, forwarded, printed, writes, audit>>

CliServeSub ==
  /\ Request("sub")
  /\ IF source.known THEN feed_on' = (link = "up") /\ UNCHANGED replies
                     ELSE CliReply(Told("error")) /\ UNCHANGED feed_on
  /\ UNCHANGED <<cli, link, source, forwarded, printed, listed, writes, audit>>

(* audit_write: a row per write; a row that cannot be written is a warning. *)
audit_write(result) ==
  \/ audit' = Append(audit, result)
  \/ audit' = Append(audit, "failed")

(* Mutant of ServeWrite: acknowledged when queued. *)
ServeWriteQueued ==
  /\ Request("write")
  /\ CliReply(Told("write_ack")) /\ audit_write("ok")
  /\ writes' \in {writes, Append(writes, "all")}
  /\ UNCHANGED <<cli, link, source, feed_on, forwarded, printed, listed>>

(* handle_write: the sink first, then the audit row, then the answer.  An  *)
(* error may come before anything is written (the source, its sink or the  *)
(* body is missing), after a part (write_all), or after all of it (a flush *)
(* that fails, an edge whose acknowledgement is late).                     *)
ServeWrite ==
  /\ Request("write")
  /\ \/ /\ source.known /\ writes' = Append(writes, "all")
        /\ audit_write("ok") /\ CliReply(Told("write_ack"))
     \/ /\ \/ UNCHANGED writes
           \/ source.known /\ \E w \in {"part", "all"} : writes' = Append(writes, w)
        /\ audit_write("error") /\ CliReply(Told("error"))
  /\ UNCHANGED <<cli, link, source, feed_on, forwarded, printed, listed>>

(* The feed of the subscription: every frame of the session, channel 0.    *)
ForwardFrame ==
  /\ feed_on /\ source.known /\ Len(forwarded) < MaxWatched
  /\ forwarded' = Append(forwarded, Len(forwarded) + 1)
  /\ replies' = Append(replies, [t |-> "data", ch |-> 0, n |-> Len(forwarded) + 1])
  /\ UNCHANGED <<cli, link, requests_, source, feed_on, printed, listed, writes, audit>>

(* Another client restarts the source with another encoding, or removes it. *)
SourceChanges(s) ==
  /\ source.known /\ s # source
  /\ source' = s
  /\ UNCHANGED <<cli, link, requests_, replies, feed_on, forwarded, printed, listed,
                 writes, audit>>

CliNext ==
  \/ \E o \in Invocations : Invoke(o)
  \/ \E token \in {"none", "known", "unknown"}, loopback, no_auth \in BOOLEAN :
       \/ Admitted(token, loopback, no_auth)
       \/ \E full \in BOOLEAN : Refused(token, loopback, no_auth, full)
  \/ CliReceive \/ StreamEnds
  \/ \E how \in {"closed", "broken"}, kept \in 0..Len(replies) : LinkEnds(how, kept)
  \/ CliServeList \/ CliServeSub \/ ServeWrite \/ ForwardFrame
  \/ \E s \in [known : BOOLEAN, encoding : Labels] : SourceChanges(s)

CliSpec == CliInit /\ [][CliNext]_cli_vars

-----------------------------------------------------------------------------
(* `send --wait-ack` succeeds only when the whole payload was written, and *)
(* the audit row, if it could be written, says so ("optionally waits for   *)
(* `write_ack` or `error` before exiting", FR-CLI-003).  However the       *)
(* command ends, the sink was used at most once and not without an audit   *)
(* row; a row "ok" means that all was written.  An error, or a connection  *)
(* that ends, does not tell how much was.                                  *)
SendExitIsTrue ==
  cli.opt.cmd = "send" =>
    /\ Len(writes) <= 1 /\ Len(writes) <= Len(audit) /\ Len(audit) <= 1
    /\ cli.exit = "ok" /\ cli.opt.wait =>
         writes = <<"all">> /\ audit \in {<<"ok">>, <<"failed">>}
    /\ audit = <<"ok">> => writes = <<"all">>

(* The rows `watch` prints are the frames the server forwarded, from the   *)
(* first one and without a gap, on the channel asked for; the limit is     *)
(* kept (a limit of 0 counts as 1), and with --encoding auto they are      *)
(* decoded as the source list said (FR-CLI-009).                           *)
WatchPrintsTheFeed ==
  cli.opt.cmd = "watch" =>
    /\ \A k \in DOMAIN printed : printed[k].n = k /\ k <= Len(forwarded)
    /\ Len(printed) <= (IF cli.opt.max = 0 THEN 1 ELSE cli.opt.max)
    /\ cli.opt.ch # 0 => printed = <<>>
    /\ \A k \in DOMAIN printed :
         printed[k].encoding \in (IF cli.opt.auto THEN listed ELSE {Default})

(* What the command line clients report is what the server did.            *)
CliReportsTrue == SendExitIsTrue /\ WatchPrintsTheFeed
=============================================================================
