------------------------------ MODULE WebClient ------------------------------
(***************************************************************************)
(* The browser's side of one connection: the WireClient of                 *)
(* web/src/adapters/wss.ts, which opens the socket again whenever it       *)
(* closes, and the mirror of the server's sources that                     *)
(* web/src/state/index.ts keeps, with the subscriptions of its panels.     *)
(* The server end is what ws.rs does with the requests of one connection.  *)
(*                                                                         *)
(* A source has one channel, as every runner of v0.1.  Only this operator  *)
(* starts and stops sources, but over connections that are lost while      *)
(* requests are under way.  A request is carried out in one step: what two *)
(* do that overlap is SourceManager's.  The delay of a reconnection is     *)
(* left out, and WireClient.close, which nothing calls.                    *)
(***************************************************************************)
EXTENDS Naturals, Sequences, FiniteSets, Functions

CONSTANTS WebSids,      \* the sids of the sources
          MaxViews,     \* bound: panels open on a source at once
          MaxKept,      \* bound: records kept for a channel (maxRecords)
          MaxFrames,    \* bound: frames under way to the browser
          MaxCommands,  \* bound: control requests and panels opened
          MaxLosses     \* bound: connections lost

ASSUME WebAssumption ==
  /\ MaxViews \in Nat /\ MaxKept \in Nat /\ MaxFrames \in Nat /\ MaxCommands \in Nat
  /\ MaxLosses \in Nat /\ IsFiniteSet(WebSids)

VARIABLES sock,      \* the WebSocket; "over": it has ended and its close
                     \* event is still to come
          conn,      \* ConnState.status
          retry,     \* the reconnect timer runs (or the first connect is due)
          views,     \* channelListeners: how many listeners a source has
          table,     \* sources
          buffers,   \* the frames kept for a source
          to_server, to_web,
          fed,       \* server: subscriptions of this connection
          feed,      \* server: frames a subscription still has to forward
          truth,     \* server: its sources; "ended": the runner is over
          late,      \* server: requests of the connections that were lost
          watched,   \* history: sources that had a subscription
          unseen,    \* history: sources that changed after the last list,
                     \* with no event to this connection
          commands, losses

page == <<views, table, buffers>>
server_end == <<fed, feed, truth, late, watched, unseen>>
web_vars == <<sock, conn, retry, page, to_server, to_web, server_end,
              commands, losses>>

Msg(t, s) == [type |-> t, sid |-> s]
NoSource == "none"
Listed(s) == truth[s] \in {"running", "ended", "stopped"}

(* list_sources: a source whose task has finished is stopped. *)
Snapshot ==
  [s \in WebSids |-> CASE truth[s] = "running" -> "running"
                      [] truth[s] \in {"ended", "stopped"} -> "stopped"
                      [] OTHER -> NoSource]

WebInit ==
  /\ sock = "none" /\ conn = "idle" /\ retry = TRUE
  /\ views = [s \in WebSids |-> 0]
  /\ table = [s \in WebSids |-> NoSource]
  /\ buffers = [s \in WebSids |-> 0]
  /\ to_server = <<>> /\ to_web = <<>>
  /\ fed = {} /\ feed = [s \in WebSids |-> 0]
  /\ truth = [s \in WebSids |-> NoSource]
  /\ late = [i \in 1..MaxLosses |-> <<>>] /\ watched = {} /\ unseen = {}
  /\ commands = 0 /\ losses = 0

(* WireClient.send: what is sent while the socket is not open is dropped.  *)
send(msgs) == to_server' = IF sock = "open" THEN to_server \o msgs ELSE to_server

List == <<[type |-> "list"]>>

-----------------------------------------------------------------------------
(* WireClient. *)

(* connect, by getClient or by the reconnect timer. *)
Connect ==
  /\ retry /\ sock = "none"
  /\ sock' = "connecting" /\ conn' = "connecting" /\ retry' = FALSE
  /\ UNCHANGED <<page, to_server, to_web, server_end, commands, losses>>

(* The constructor throws: the next attempt is scheduled. *)
ConnectThrows ==
  /\ retry /\ sock = "none"
  /\ conn' = "error"
  /\ UNCHANGED <<sock, retry, page, to_server, to_web, server_end, commands,
                 losses>>

(* resubscribeChannels: one sub for every key of channelListeners, in some *)
(* order.                                                                  *)
resubscribeChannels ==
  LET subs == {Msg("sub", s) : s \in {x \in WebSids : views[x] > 0}}
  IN  CHOOSE q \in Bijection(1..Cardinality(subs), subs) : TRUE

(* Mutant of OnOpen: only what the page asks for later is sent. *)
OnOpenNoSubs ==
  /\ sock = "connecting"
  /\ sock' = "open" /\ conn' = "open"
  /\ to_server' = List \o <<[type |-> "hello"]>>
  /\ UNCHANGED <<retry, page, to_web, server_end, commands, losses>>

(* The open event.  setState comes first, and its listener handleConnState *)
(* asks for the list and subscribes again, before hello is sent.           *)
OnOpen ==
  /\ sock = "connecting"
  /\ sock' = "open" /\ conn' = "open"
  /\ to_server' = List \o resubscribeChannels \o <<[type |-> "hello"]>>
  /\ UNCHANGED <<retry, page, to_web, server_end, commands, losses>>

Lifecycle == {"start", "stop", "resume", "restart", "remove"}

(* The socket ends, before it opened or after.  The server still gets the  *)
(* first k requests, and the browser the first n frames; the subscriptions *)
(* of the connection are dropped.  (What the server gets after the last    *)
(* lifecycle request makes no difference any more.)                        *)
SocketEnds(n, k) ==
  /\ sock \in {"connecting", "open"} /\ losses < MaxLosses
  /\ n \in 0..Len(to_web) /\ k \in 0..Len(to_server)
  /\ k > 0 => to_server[k].type \in Lifecycle
  /\ sock' = "over" /\ losses' = losses + 1
  /\ late' = [late EXCEPT ![losses + 1] = SubSeq(to_server, 1, k)]
  /\ to_server' = <<>> /\ to_web' = SubSeq(to_web, 1, n)
  /\ fed' = {} /\ feed' = [s \in WebSids |-> 0]
  /\ UNCHANGED <<conn, retry, page, truth, watched, unseen, commands>>

(* The error event, which the close event follows. *)
OnError ==
  /\ sock = "over" /\ conn # "closed"
  /\ conn' = "error"
  /\ UNCHANGED <<sock, retry, page, to_server, to_web, server_end, commands,
                 losses>>

(* The close event, with scheduleReconnect. *)
OnClose ==
  /\ sock = "over" /\ to_web = <<>>
  /\ sock' = "none" /\ conn' = "closed" /\ retry' = TRUE
  /\ UNCHANGED <<page, to_server, to_web, server_end, commands, losses>>

-----------------------------------------------------------------------------
(* The page. *)

(* useChannel, by a panel that shows a source of the table: the first      *)
(* listener of a channel subscribes to it.                                 *)
useChannel(s) ==
  /\ table[s] # NoSource /\ views[s] < MaxViews /\ commands < MaxCommands
  /\ views' = [views EXCEPT ![s] = @ + 1]
  /\ send(IF views[s] = 0 THEN <<Msg("sub", s)>> ELSE <<>>)
  /\ commands' = commands + 1
  /\ UNCHANGED <<sock, conn, retry, table, buffers, to_web, server_end, losses>>

(* The function that useChannel returned: the last listener that goes      *)
(* unsubscribes.                                                           *)
unuseChannel(s) ==
  /\ views[s] > 0
  /\ views' = [views EXCEPT ![s] = @ - 1]
  /\ send(IF views[s] = 1 THEN <<Msg("unsub", s)>> ELSE <<>>)
  /\ UNCHANGED <<sock, conn, retry, table, buffers, to_web, server_end,
                 commands, losses>>

(* sendCtl: the operator's buttons. *)
sendCtl(action, s) ==
  /\ commands < MaxCommands
  /\ commands' = commands + 1
  /\ send(<<Msg(action, s)>>)
  /\ UNCHANGED <<sock, conn, retry, page, to_web, server_end, losses>>

(* clearClientDisplayBuffers. *)
clearDisplay ==
  /\ \E s \in WebSids : buffers[s] > 0
  /\ buffers' = [s \in WebSids |-> 0]
  /\ UNCHANGED <<sock, conn, retry, views, table, to_server, to_web, server_end,
                 commands, losses>>

-----------------------------------------------------------------------------
(* handleFrame, for the first frame that has arrived. *)
Receive(type) ==
  /\ to_web # <<>> /\ Head(to_web).type = type
  /\ to_web' = Tail(to_web)
  /\ UNCHANGED <<sock, conn, retry, views, server_end, commands, losses>>

(* appendChannelFrame, and the source is "running", known or not. *)
handleData ==
  /\ Receive("data")
  /\ LET s == Head(to_web).sid IN
       /\ buffers' = [buffers EXCEPT ![s] = IF @ < MaxKept THEN @ + 1 ELSE @]
       /\ table' = [table EXCEPT ![s] = "running"]
  /\ UNCHANGED to_server

(* removeSource for every source that is not in t. *)
Cleared(t) == [s \in WebSids |-> IF t[s] = NoSource THEN 0 ELSE buffers[s]]

(* syncSources. *)
handleSources ==
  /\ Receive("sources")
  /\ table' = Head(to_web).table
  /\ buffers' = Cleared(table')
  /\ UNCHANGED to_server

(* upsertSourceStatus or removeSource, and the list is asked for again. *)
handleLifecycle ==
  /\ Receive("event")
  /\ table' = [table EXCEPT ![Head(to_web).sid] = Head(to_web).status]
  /\ buffers' = Cleared(table')
  /\ send(List)

(* An error is a toast and nothing else. *)
handleError == Receive("error") /\ UNCHANGED <<table, buffers, to_server>>

-----------------------------------------------------------------------------
(* The server's end. *)
Serve(type) ==
  /\ to_server # <<>> /\ Head(to_server).type = type
  /\ to_server' = Tail(to_server)
  /\ UNCHANGED <<sock, conn, retry, page, commands, losses>>

ServerAnswers(m) == to_web' = Append(to_web, m)
Error == ServerAnswers([type |-> "error"])

ServeHello == Serve("hello") /\ UNCHANGED <<to_web, server_end>>

ServeList ==
  /\ Serve("list")
  /\ ServerAnswers([type |-> "sources", table |-> Snapshot])
  /\ unseen' = {}
  /\ UNCHANGED <<fed, feed, truth, late, watched>>

(* subscribe_session. *)
ServeSub ==
  /\ Serve("sub")
  /\ LET s == Head(to_server).sid IN
       \/ /\ Listed(s)
          /\ fed' = fed \cup {s} /\ watched' = watched \cup {s}
          /\ UNCHANGED <<to_web, feed, truth, late, unseen>>
       \/ ~Listed(s) /\ Error /\ UNCHANGED server_end

(* unsubscribe_session: the task is aborted. *)
ServeUnsub ==
  /\ Serve("unsub")
  /\ fed' = fed \ {Head(to_server).sid}
  /\ feed' = [feed EXCEPT ![Head(to_server).sid] = 0]
  /\ UNCHANGED <<to_web, truth, late, watched, unseen>>

After == [start |-> "running", stop |-> "stopped", resume |-> "running",
          restart |-> "running", remove |-> "removed"]
Alive == {"running", "ended", "stopped"}
Before == [start |-> {NoSource}, stop |-> {"running", "ended"},
           resume |-> {"ended", "stopped"}, restart |-> Alive, remove |-> Alive]

Succeeds(action, s) ==
  truth[s] \in Before[action] /\ truth' = [truth EXCEPT ![s] = After[action]]

(* The source is not in the right state, or its port, file or process does *)
(* not open.  By then restart has aborted the task that ran, and resume    *)
(* has dropped the one that ended.                                         *)
Fails(action, s) ==
  \/ truth[s] \notin Before[action] /\ truth' = truth
  \/ action = "start" /\ truth[s] = NoSource /\ truth' = truth
  \/ /\ action \in {"resume", "restart"} /\ truth[s] \in Before[action]
     /\ truth' = [truth EXCEPT ![s] = "stopped"]

(* Nothing tells this connection. *)
Unannounced == unseen' = unseen \cup {s \in WebSids : Snapshot'[s] # Snapshot[s]}

(* handle_ctl: a source changes and the connection is told, or an error.   *)
(* Frames of a removed source that its subscriptions have not forwarded    *)
(* yet are forwarded all the same.                                         *)
ServeCtl(action) ==
  /\ Serve(action)
  /\ LET s == Head(to_server).sid
         shown == IF action = "remove" THEN NoSource ELSE After[action] IN
       \/ /\ Succeeds(action, s)
          /\ ServerAnswers([type |-> "event", sid |-> s, status |-> shown])
          /\ UNCHANGED unseen
       \/ Fails(action, s) /\ Error /\ Unannounced
  /\ UNCHANGED <<fed, feed, late, watched>>

(* The handler of a lost connection carries out what it had received: its  *)
(* answers go nowhere.                                                     *)
ServeLate(i) ==
  /\ late[i] # <<>>
  /\ late' = [late EXCEPT ![i] = Tail(@)]
  /\ LET m == Head(late[i]) IN
       \/ m.type \in Lifecycle /\ (Succeeds(m.type, m.sid) \/ Fails(m.type, m.sid))
       \/ m.type \notin Lifecycle /\ truth' = truth
  /\ Unannounced
  /\ UNCHANGED <<sock, conn, retry, page, to_server, to_web, fed, feed, watched,
                 commands, losses>>

(* run_source_once_notify: the source ends or fails, and nobody is told. *)
RunnerEnds(s) ==
  /\ truth[s] = "running"
  /\ truth' = [truth EXCEPT ![s] = "ended"]
  /\ Unannounced
  /\ UNCHANGED <<sock, conn, retry, page, to_server, to_web, fed, feed, late,
                 watched, commands, losses>>

(* run_source_once_notify publishes a frame. *)
Publish(s) ==
  /\ truth[s] = "running" /\ s \in fed /\ feed[s] = 0
  /\ feed' = [feed EXCEPT ![s] = 1]
  /\ UNCHANGED <<sock, conn, retry, page, to_server, to_web, fed, truth, late,
                 watched, unseen, commands, losses>>

Forward(s) ==
  /\ feed[s] > 0 /\ sock = "open" /\ Len(to_web) < MaxFrames
  /\ feed' = [feed EXCEPT ![s] = @ - 1]
  /\ ServerAnswers(Msg("data", s))
  /\ UNCHANGED <<sock, conn, retry, page, to_server, fed, truth, late, watched,
                 unseen, commands, losses>>

WebNext ==
  \/ Connect \/ ConnectThrows \/ OnOpen \/ OnError \/ OnClose
  \/ \E n \in 0..Len(to_web), k \in 0..Len(to_server) : SocketEnds(n, k)
  \/ \E s \in WebSids : useChannel(s) \/ unuseChannel(s)
  \/ \E s \in WebSids : Publish(s) \/ Forward(s) \/ RunnerEnds(s)
  \/ \E s \in WebSids, a \in Lifecycle : sendCtl(a, s)
  \/ clearDisplay
  \/ handleData \/ handleSources \/ handleLifecycle \/ handleError
  \/ ServeHello \/ ServeList \/ ServeSub \/ ServeUnsub
  \/ \E a \in Lifecycle : ServeCtl(a)
  \/ \E i \in 1..MaxLosses : ServeLate(i)

WebSpec == WebInit /\ [][WebNext]_web_vars

-----------------------------------------------------------------------------
Settled == sock = "open" /\ to_server = <<>> /\ to_web = <<>>

(* Once the server has read what the page sent, it forwards exactly the    *)
(* sources that some panel shows, whatever was opened and closed while the *)
(* socket was down, and after every reconnection (useChannel,              *)
(* resubscribeChannels).                                                   *)
SubsMatch ==
  sock = "open" /\ to_server = <<>> =>
    \A s \in WebSids : Listed(s) => (s \in fed <=> views[s] > 0)

(* "The browser requests list on connect/reconnect and after lifecycle     *)
(* acknowledgements so the table converges back to server truth"           *)
(* (docs/architecture.md): for a source that no panel has watched, when    *)
(* nothing is under way, the table is the truth, though acknowledgements   *)
(* may have been lost with a connection.  Excepted is what changed after   *)
(* the last list unannounced: a runner that ended, a restart that failed,  *)
(* a request of a lost connection.                                         *)
QuietTableTrue ==
  Settled => \A s \in WebSids \ (watched \cup unseen) : table[s] = Snapshot[s]

(* The same, for every source: once nothing is under way, and no feed is   *)
(* left to change it, the table is the server truth it converges back to.  *)
TableConverges ==
  Settled /\ (\A s \in WebSids : feed[s] = 0) =>
    \A s \in WebSids \ unseen : table[s] = Snapshot[s]

(* The frames kept in the browser are those of sources in the table: what  *)
(* removeSource takes off the table it also takes out of the buffers.      *)
BuffersOwned == \A s \in WebSids : buffers[s] > 0 => table[s] # NoSource

(* After any losses of the connection the page and the server agree again. *)
PageAgrees == SubsMatch /\ QuietTableTrue /\ BuffersOwned
=============================================================================
