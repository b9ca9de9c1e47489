---------------------------- MODULE WsConnection ----------------------------
(***************************************************************************)
(* One WebSocket connection of crates/server/src/ws.rs: the loop that      *)
(* reads requests and queues replies, the writer task behind the bounded   *)
(* queue, one task per subscription that copies frames from the session's  *)
(* broadcast channel into the same queue, and the way they all end.        *)
(*                                                                         *)
(* The connection watches one session.  The session's source publishes     *)
(* through the registry (session/registry.rs, session/fanout.rs); a runner *)
(* that is restarted keeps the channel; a removed session closes its       *)
(* channel, and one registered later with the same sid has a new channel.  *)
(* A frame is its position in the channel.                                 *)
(***************************************************************************)
EXTENDS Integers, Sequences, Functions

CONSTANTS Keys,         \* SubscriptionKey: the sid with some ch, or none
          Capacity,     \* slots of the broadcast channel (DEFAULT_CAPACITY)
          QueueLen,     \* slots of the outgoing queue (64)
          MaxFrames,    \* bound: frames published
          MaxRequests,  \* bound: messages the client sends
          MaxRestarts,  \* bound: registrations after a removal
          None          \* no task

ASSUME WsAssumption ==
  /\ Capacity \in Nat \ {0} /\ QueueLen \in Nat \ {0}
  /\ MaxFrames \in Nat /\ MaxRequests \in Nat /\ MaxRestarts \in Nat
  /\ None \notin 1..MaxRequests

VARIABLES chan,           \* chan[e]: number of frames published on the
                          \* channel of the session's e-th registration
          live,           \* the registry has the session
          subscriptions,  \* the map of the loop: the task of a key, or None
          task,           \* the subscription tasks
          aborted,        \* tasks that abort was called on
          lagged,         \* tasks that saw RecvError::Lagged
          loop,           \* the request loop and the reply it is queueing
          writer,         \* the writer task
          out,            \* the queue between them
          client,         \* what the client has received
          requests,       \* messages read from the client
          asked,          \* those whose handler made a reply
          unanswered,     \* those whose reply could not be encoded
          peer            \* "up" or "gone"

session == <<chan, live>>
ghosts == <<asked, unanswered>>
vars == <<session, subscriptions, task, aborted, lagged, loop, writer, out,
          client, requests, ghosts, peer>>

Tasks == 1..MaxRequests
NoMsg == [kind |-> "none", n |-> 0, pos |-> 0]
Reply(n) == [kind |-> "reply", n |-> n, pos |-> 0]
Pong(n) == [kind |-> "pong", n |-> n, pos |-> 0]
Data(t, p) == [kind |-> "data", n |-> t, pos |-> p]
Unused == [pc |-> "unused", key |-> None, chan |-> 0, start |-> 0, pos |-> 0,
           msg |-> NoMsg]

Running(t) == task[t].pc \in {"recv", "send"}
Published == FoldFunction(+, 0, chan)

Init ==
  /\ chan = <<0>> /\ live = TRUE
  /\ subscriptions = [k \in Keys |-> None]
  /\ task = [t \in Tasks |-> Unused]
  /\ aborted = {} /\ lagged = {}
  /\ loop = [pc |-> "read", msg |-> NoMsg]
  /\ writer = "running" /\ out = <<>> /\ client = <<>> /\ requests = 0
  /\ asked = {} /\ unanswered = {}
  /\ peer = "up"

-----------------------------------------------------------------------------
(* The session. *)
Connection == <<subscriptions, task, aborted, lagged, loop, writer, out, client,
                requests, ghosts, peer>>

(* publish_wire: the frame goes to the channel of the registered session.  *)
Publish ==
  /\ live /\ Published < MaxFrames
  /\ chan' = [chan EXCEPT ![Len(chan)] = @ + 1]
  /\ UNCHANGED <<live, Connection>>

(* insert_if_absent when a source with the sid starts: a new channel; a    *)
(* session that is registered keeps its own.                               *)
Register ==
  /\ ~live /\ Len(chan) <= MaxRestarts
  /\ chan' = Append(chan, 0)
  /\ live' = TRUE
  /\ UNCHANGED Connection

(* Registry::remove drops the sender.                                      *)
RemoveSession ==
  /\ live
  /\ live' = FALSE
  /\ UNCHANGED <<chan, Connection>>

-----------------------------------------------------------------------------
(* The request loop. *)
Answer(msg) ==
  /\ loop' = [pc |-> "queue", msg |-> msg]
  /\ asked' = asked \cup {msg.n}

Read ==
  /\ loop.pc = "read" /\ peer = "up" /\ requests < MaxRequests
  /\ requests' = requests + 1
  /\ UNCHANGED <<session, writer, out, client, unanswered, peer>>

(* ping, ctl, write and the malformed sub or unsub: the loop awaits the    *)
(* handler and reads nothing meanwhile, not even the peer's end, ...       *)
ReadRequest ==
  /\ Read
  /\ loop' = [pc |-> "handle", msg |-> Reply(requests')]
  /\ UNCHANGED <<subscriptions, task, aborted, lagged, asked>>

(* ... until the handler has its one reply: at once, or when the device    *)
(* has opened or taken the bytes.                                          *)
HandlerReturns ==
  /\ loop.pc = "handle"
  /\ Answer(loop.msg)
  /\ UNCHANGED <<session, subscriptions, task, aborted, lagged, writer, out, client,
                 requests, unanswered, peer>>

(* A WebSocket ping: the result of queueing the pong is ignored.           *)
ReadPing ==
  /\ Read
  /\ Answer(Pong(requests'))
  /\ UNCHANGED <<subscriptions, task, aborted, lagged>>

(* A frame that does not decode, a text frame, a type that is not handled. *)
ReadOther ==
  /\ Read
  /\ UNCHANGED <<subscriptions, task, aborted, lagged, loop, asked>>

(* subscribe_session: nothing for a key in the map, ...                    *)
SubscribedAlready(k) ==
  /\ subscriptions[k] # None
  /\ UNCHANGED <<loop, asked, subscriptions, task>>

(* ... an error for a sid the registry does not know, ...                  *)
SubscribeRefused(k) ==
  /\ subscriptions[k] = None /\ ~live
  /\ Answer(Reply(requests'))
  /\ UNCHANGED <<subscriptions, task>>

(* ... else a task that receives from the channel's present end.           *)
FeedFrom(k) ==
  LET end == chan[Len(chan)] IN
  /\ subscriptions' = [subscriptions EXCEPT ![k] = requests']
  /\ task' = [task EXCEPT ![requests'] =
                [pc |-> "recv", key |-> k, chan |-> Len(chan),
                 start |-> end, pos |-> end, msg |-> NoMsg]]
  /\ UNCHANGED <<loop, asked>>

(* Mutant of SubscribeNew: a key in the map is subscribed again. *)
SubscribeAgain(k) == live /\ FeedFrom(k)

SubscribeNew(k) == subscriptions[k] = None /\ live /\ FeedFrom(k)

Subscribe(k) ==
  /\ Read
  /\ SubscribedAlready(k) \/ SubscribeRefused(k) \/ SubscribeNew(k)
  /\ UNCHANGED <<aborted, lagged>>

(* unsubscribe_session. *)
Unsubscribe(k) ==
  /\ Read
  /\ subscriptions' = [subscriptions EXCEPT ![k] = None]
  /\ aborted' = aborted \cup ({subscriptions[k]} \ {None})
  /\ UNCHANGED <<task, lagged, loop, asked>>

(* Mutant of QueueReply: try_send instead of send. *)
QueueReplyTry ==
  /\ loop.pc = "queue"
  /\ out' = IF writer = "running" /\ Len(out) < QueueLen THEN Append(out, loop.msg) ELSE out
  /\ loop' = [pc |-> IF writer = "ended" /\ loop.msg.kind # "pong" THEN "close" ELSE "read",
              msg |-> NoMsg]
  /\ UNCHANGED <<session, subscriptions, task, aborted, lagged, writer, client,
                 requests, ghosts, peer>>

(* queue_envelope: wait for a slot; fail when the writer is gone, which    *)
(* ends the loop except for a pong.                                        *)
QueueReply ==
  /\ loop.pc = "queue"
  /\ \/ /\ writer = "running" /\ Len(out) < QueueLen
        /\ out' = Append(out, loop.msg)
        /\ loop' = [pc |-> "read", msg |-> NoMsg]
     \/ /\ writer = "ended"
        /\ loop' = [pc |-> IF loop.msg.kind = "pong" THEN "read" ELSE "close", msg |-> NoMsg]
        /\ UNCHANGED out
  /\ UNCHANGED <<session, subscriptions, task, aborted, lagged, writer, client,
                 requests, ghosts, peer>>

(* queue_envelope: a reply above the frame limit is logged and dropped.    *)
EncodeFails ==
  /\ loop.pc = "queue" /\ loop.msg.kind = "reply"
  /\ loop' = [pc |-> "read", msg |-> NoMsg]
  /\ unanswered' = unanswered \cup {loop.msg.n}
  /\ UNCHANGED <<session, subscriptions, task, aborted, lagged, writer, out, client,
                 requests, asked, peer>>

(* A close message, the end of the stream or a receive error.              *)
ReadEnds ==
  /\ loop.pc = "read"
  /\ loop' = [pc |-> "close", msg |-> NoMsg]
  /\ UNCHANGED <<session, subscriptions, task, aborted, lagged, writer, out, client,
                 requests, ghosts, peer>>

(* Mutant of Close: the subscription tasks are dropped, not aborted. *)
CloseDetaches ==
  /\ loop.pc = "close"
  /\ loop' = [pc |-> "drain", msg |-> NoMsg]
  /\ subscriptions' = [k \in Keys |-> None]
  /\ UNCHANGED <<session, task, aborted, lagged, writer, out, client, requests, ghosts, peer>>

(* After the loop: abort every subscription and drop the sender.           *)
Close ==
  /\ loop.pc = "close"
  /\ loop' = [pc |-> "drain", msg |-> NoMsg]
  /\ aborted' = aborted \cup ({subscriptions[k] : k \in Keys} \ {None})
  /\ subscriptions' = [k \in Keys |-> None]
  /\ UNCHANGED <<session, task, lagged, writer, out, client, requests, ghosts, peer>>

(* The writer has ended: the connection is over and its slot is given back. *)
Closed ==
  /\ loop.pc = "drain" /\ writer = "ended"
  /\ loop' = [pc |-> "done", msg |-> NoMsg]
  /\ UNCHANGED <<session, subscriptions, task, aborted, lagged, writer, out, client,
                 requests, ghosts, peer>>

-----------------------------------------------------------------------------
(* The subscription tasks. *)
Fed(t) == chan[task[t].chan]
ChannelClosed(t) == task[t].chan < Len(chan) \/ ~live

Behind(t) == Fed(t) - task[t].pos

(* Mutant of Overtaken: a lagging task starts again at the newest frame,   *)
(* unnoticed. *)
OvertakenSkips(t) ==
  /\ Behind(t) > Capacity
  /\ task' = [task EXCEPT ![t].pos = Fed(t) - 1]
  /\ UNCHANGED lagged

(* rx.recv: a receiver that the ring has overtaken is told so once and     *)
(* moved to the oldest frame, ...                                          *)
Overtaken(t) ==
  /\ Behind(t) > Capacity
  /\ task' = [task EXCEPT ![t].pos = Fed(t) - Capacity]
  /\ lagged' = lagged \cup {t}

(* ... otherwise it gets the next frame, ...                               *)
TakeFrame(t) ==
  /\ Behind(t) \in 1..Capacity
  /\ LET p == task[t].pos + 1
     IN task' = [task EXCEPT ![t].pos = p, ![t].pc = "send",
                             ![t].msg = Data(t, p)]
  /\ UNCHANGED lagged

(* ... and a closed channel that is drained ends the task.                 *)
FeedEnds(t) ==
  /\ Behind(t) = 0 /\ ChannelClosed(t)
  /\ task' = [task EXCEPT ![t].pc = "ended"]
  /\ UNCHANGED lagged

Receive(t) ==
  /\ task[t].pc = "recv"
  /\ Overtaken(t) \/ TakeFrame(t) \/ FeedEnds(t)
  /\ UNCHANGED <<session, subscriptions, aborted, loop, writer, out, client,
                 requests, ghosts, peer>>

(* tx.send: wait for a slot; the task ends when the writer is gone.        *)
Forward(t) ==
  /\ task[t].pc = "send"
  /\ \/ /\ writer = "running" /\ Len(out) < QueueLen
        /\ out' = Append(out, task[t].msg)
        /\ task' = [task EXCEPT ![t].pc = "recv", ![t].msg = NoMsg]
     \/ /\ writer = "ended"
        /\ task' = [task EXCEPT ![t].pc = "ended", ![t].msg = NoMsg]
        /\ UNCHANGED out
  /\ UNCHANGED <<session, subscriptions, aborted, lagged, loop, writer, client,
                 requests, ghosts, peer>>

(* An aborted task is dropped at the await it is in.                       *)
AbortTakesEffect(t) ==
  /\ t \in aborted /\ Running(t)
  /\ task' = [task EXCEPT ![t].pc = "ended", ![t].msg = NoMsg]
  /\ UNCHANGED <<session, subscriptions, aborted, lagged, loop, writer, out, client,
                 requests, ghosts, peer>>

-----------------------------------------------------------------------------
(* The writer task and the peer. *)
WriterSends ==
  /\ writer = "running" /\ out # <<>> /\ peer = "up"
  /\ client' = Append(client, Head(out))
  /\ out' = Tail(out)
  /\ UNCHANGED <<session, subscriptions, task, aborted, lagged, loop, writer,
                 requests, ghosts, peer>>

(* The send fails, or recv finds every sender gone and the queue empty.    *)
WriterEnds ==
  /\ writer = "running"
  /\ \/ out # <<>> /\ peer = "gone"
     \/ out = <<>> /\ loop.pc = "drain" /\ \A t \in Tasks : ~Running(t)
  /\ writer' = "ended"
  /\ out' = <<>>
  /\ UNCHANGED <<session, subscriptions, task, aborted, lagged, loop, client,
                 requests, ghosts, peer>>

PeerVanishes ==
  /\ peer = "up" /\ loop.pc # "done"
  /\ peer' = "gone"
  /\ UNCHANGED <<session, subscriptions, task, aborted, lagged, loop, writer, out, client,
                 requests, ghosts>>

TaskStep(t) == Receive(t) \/ Forward(t) \/ AbortTakesEffect(t)
LoopStep == QueueReply \/ Close \/ Closed
WriterStep == WriterSends \/ WriterEnds

Next ==
  \/ Publish \/ Register \/ RemoveSession
  \/ ReadRequest \/ HandlerReturns \/ ReadPing \/ ReadOther \/ ReadEnds \/ EncodeFails
  \/ \E k \in Keys : Subscribe(k) \/ Unsubscribe(k)
  \/ LoopStep \/ WriterStep \/ PeerVanishes
  \/ \E t \in Tasks : TaskStep(t)

Spec == Init /\ [][Next]_vars

(* tokio polls every ready task and gives the slots of a full queue to the *)
(* waiting senders in turn; a peer that is up goes on reading, one that is *)
(* gone makes the receive fail.  A handler need not return: write and      *)
(* start wait for a device without a timeout.                              *)
FairSpec ==
  /\ Spec
  /\ WF_vars(LoopStep) /\ WF_vars(WriterStep)
  /\ WF_vars(ReadEnds /\ peer = "gone")
  /\ \A t \in Tasks : /\ WF_vars(TaskStep(t)) /\ WF_vars(AbortTakesEffect(t))
                      /\ SF_vars(Forward(t))
  /\ SF_vars(QueueReply)

-----------------------------------------------------------------------------
(* Every variable has its type; the queue keeps its bound. *)
TypeOK ==
  /\ chan \in Seq(Nat) /\ Len(chan) <= MaxRestarts + 1
  /\ live \in BOOLEAN /\ requests \in 0..MaxRequests
  /\ subscriptions \in [Keys -> Tasks \cup {None}]
  /\ aborted \subseteq Tasks /\ lagged \subseteq Tasks
  /\ \A t \in Tasks :
       /\ task[t].pc \in {"unused", "recv", "send", "ended"}
       /\ task[t].pc # "unused" =>
            task[t].start <= task[t].pos /\ task[t].pos <= Fed(t)
  /\ loop.pc \in {"read", "handle", "queue", "close", "drain", "done"}
  /\ Len(out) <= QueueLen

Sent == client \o out
IsDataOf(t, m) == m.kind = "data" /\ m.n = t

(* A subscription delivers the frames of its channel in the order they     *)
(* were published and none twice, through lags, a full queue and the other *)
(* tasks that share it.                                                    *)
InOrder ==
  \A t \in Tasks : \A i, j \in DOMAIN Sent :
    i < j /\ IsDataOf(t, Sent[i]) /\ IsDataOf(t, Sent[j]) => Sent[i].pos < Sent[j].pos

(* A subscription that was never overtaken has passed on every frame       *)
(* published since it began, up to the one in hand: nothing is lost on the *)
(* way through the queue.                                                  *)
NoLossWithoutLag ==
  \A t \in Tasks \ (lagged \cup aborted) :
    Running(t) /\ writer = "running" =>
      \A p \in (task[t].start + 1)..task[t].pos :
        \/ task[t].msg = Data(t, p)
        \/ \E i \in DOMAIN Sent : Sent[i] = Data(t, p)

(* What a subscriber gets is its channel: in order, and all of it unless   *)
(* it was overtaken.                                                       *)
FeedsSound == TypeOK /\ InOrder /\ NoLossWithoutLag

(* A client that subscribes twice is not fed twice, and every task that    *)
(* still feeds it can be found in the map, to be aborted by unsub or close. *)
OneFeedPerKey ==
  \A t \in Tasks : Running(t) /\ t \notin aborted => subscriptions[task[t].key] = t

(* When the slot of the connection is given back its writer has ended, and *)
(* no task is left that nobody told to stop.                               *)
NothingLeaks ==
  loop.pc = "done" => writer = "ended" /\ \A t \in Tasks : Running(t) => t \in aborted

(* No task feeds a client behind the back of the subscription map, and     *)
(* none outlives its connection.                                           *)
NoStrayFeed == OneFeedPerKey /\ NothingLeaks

(* A connection whose peer is gone, or that was told to close, gives its   *)
(* slot back and all its tasks end, unless the handler of a request never  *)
(* returns: no other wait keeps a dead connection.                         *)
Released ==
  \/ peer = "gone" \/ loop.pc = "close" ~>
       loop.pc = "done" /\ \A t \in Tasks : ~Running(t)
  \/ <>[](loop.pc = "handle")

(* Every request whose handler made a reply is answered, unless the reply  *)
(* is above the frame limit or the connection ends, or the handler of a    *)
(* later request never returns and the peer is gone.                       *)
Answered ==
  \/ \A n \in Tasks :
       n \in asked ~> \/ n \in unanswered \/ loop.pc = "done"
                      \/ \E i \in DOMAIN client : client[i].n = n /\ client[i].kind # "data"
  \/ <>[](loop.pc = "handle" /\ peer = "gone")

(* "Drops happen, if at all, at the UI `broadcast` layer with explicit     *)
(* `lagged(N)` notifications" (docs/invariants.md): between two frames of  *)
(* a subscription with a gap the client is told of it.                     *)
NoSilentGap ==
  \A i, j \in DOMAIN Sent :
    /\ i < j /\ Sent[i].kind = "data" /\ IsDataOf(Sent[i].n, Sent[j])
    /\ \A k \in (i + 1)..(j - 1) : ~IsDataOf(Sent[i].n, Sent[k])
    /\ Sent[j].pos # Sent[i].pos + 1
    => \E k \in (i + 1)..(j - 1) : Sent[k].kind = "lagged"
=============================================================================
