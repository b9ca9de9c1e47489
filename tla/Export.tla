-------------------------------- MODULE Export --------------------------------
(***************************************************************************)
(* Downloads (crates/server/src/export_api.rs): one-use tickets, the       *)
(* temporary file of an export, the task that fills it and outlives a      *)
(* request that goes away.                                                 *)
(*                                                                         *)
(* A scope stands for the sid, format, timezone and encoding of a request, *)
(* after defaults.                                                         *)
(***************************************************************************)
EXTENDS Naturals, Sequences

CONSTANTS Reqs, Scopes, MaxTickets, TTL, LastSecond

ASSUME ExportAssumption == TTL \in Nat /\ Scopes # {}

Kinds == {"single", "bundle"}   \* of requests and tickets

VARIABLES ex_time,
          issued,    \* history: every ticket, by number
          tickets,   \* the numbers in the two maps
          ex,        \* requests: step, kind, ticket, scope, the `now` of consume
          task,      \* the blocking export: "none", "queued", "making", "ok", "failed"
          artifact,       \* requests whose artifact is on disk
          accepted,  \* history: <<request, ticket>>
          cut        \* history: requests cancelled while the task was not done

ex_vars == <<ex_time, issued, tickets, ex, task, artifact, accepted, cut>>

NoReq == [pc |-> "new", kind |-> "single", ticket |-> 0,
          scope |-> CHOOSE s \in Scopes : TRUE, now |-> 0]

ExInit ==
  /\ ex_time = 0 /\ issued = <<>> /\ tickets = {}
  /\ ex = [r \in Reqs |-> NoReq]
  /\ task = [r \in Reqs |-> "none"]
  /\ artifact = {}
  /\ accepted = {} /\ cut = {}

PassSecond ==
  /\ ex_time < LastSecond /\ ex_time' = ex_time + 1
  /\ UNCHANGED <<issued, tickets, ex, task, artifact, accepted, cut>>

Goes(r, pc) == ex' = [ex EXCEPT ![r].pc = pc]

-----------------------------------------------------------------------------
(* Tickets.  issue drops the expired ones first. *)
Unexpired(now) == {t \in tickets : issued[t].expires > now}

issue(kind, scope) ==
  /\ Len(issued) < MaxTickets
  /\ issued' = Append(issued, [kind |-> kind, scope |-> scope,
                                 expires |-> ex_time + TTL])
  /\ tickets' = Unexpired(ex_time) \cup {Len(issued) + 1}
  /\ UNCHANGED <<ex_time, ex, task, artifact, accepted, cut>>

(* The handlers up to the ticket: an accepted credential needs none, and a *)
(* bundle always needs one.                                                *)
ExRequest(r, kind, cred, t, scope) ==
  /\ ex[r].pc = "new"
  /\ ex' = [ex EXCEPT ![r] =
       [pc |-> IF kind = "single" /\ cred THEN "resolve"
               ELSE IF t = 0 THEN "done" ELSE "consume",
        kind |-> kind, ticket |-> t, scope |-> scope, now |-> ex_time]]
  /\ UNCHANGED <<ex_time, issued, tickets, task, artifact, accepted, cut>>

prune_expired(r) ==
  /\ ex[r].pc = "consume"
  /\ tickets' = Unexpired(ex[r].now)
  /\ Goes(r, "remove")
  /\ UNCHANGED <<ex_time, issued, task, artifact, accepted, cut>>

Fits(r, t) ==
  /\ issued[t].expires > ex[r].now
  /\ ex[r].kind = "single" => issued[t].scope = ex[r].scope

(* Mutant of consume: the ticket is looked up and stays in the map. *)
consumeGet(r) ==
  LET t == ex[r].ticket
      found == t \in tickets /\ issued[t].kind = ex[r].kind IN
  /\ ex[r].pc = "remove"
  /\ Goes(r, IF found /\ Fits(r, t) THEN "resolve" ELSE "done")
  /\ accepted' = IF found /\ Fits(r, t) THEN accepted \cup {<<r, t>>} ELSE accepted
  /\ UNCHANGED <<ex_time, issued, tickets, task, artifact, cut>>

(* consume: a ticket that is found is used up, whether or not it fits. *)
consume(r) ==
  LET t == ex[r].ticket
      found == t \in tickets /\ issued[t].kind = ex[r].kind IN
  /\ ex[r].pc = "remove"
  /\ tickets' = IF found THEN tickets \ {t} ELSE tickets
  /\ Goes(r, IF found /\ Fits(r, t) THEN "resolve" ELSE "done")
  /\ accepted' = IF found /\ Fits(r, t) THEN accepted \cup {<<r, t>>} ELSE accepted
  /\ UNCHANGED <<ex_time, issued, task, artifact, cut>>

-----------------------------------------------------------------------------
(* export_session and export_bundle.  A sid that does not parse, is not    *)
(* known or whose directory is refused by ensure_session_dir ends the      *)
(* request; else the blocking task is spawned.                             *)
ensure_session_dir(dir) == dir.exists /\ dir.inside /\ dir.index
ExportDirs == [exists : BOOLEAN, inside : BOOLEAN, index : BOOLEAN]

ExResolve(r, dir) ==
  /\ ex[r].pc = "resolve"
  /\ IF ensure_session_dir(dir)
     THEN Goes(r, "making") /\ task' = [task EXCEPT ![r] = "queued"]
     ELSE Goes(r, "done") /\ UNCHANGED task
  /\ UNCHANGED <<ex_time, issued, tickets, artifact, accepted, cut>>

(* The task creates the file, whether or not anybody still waits for it. *)
TaskCreate(r) ==
  /\ task[r] = "queued"
  /\ task' = [task EXCEPT ![r] = "making"]
  /\ artifact' = artifact \cup {r}
  /\ UNCHANGED <<ex_time, issued, tickets, ex, accepted, cut>>

(* The exporter, or create_bundle_zip, comes to an end or fails. *)
TaskEnd(r, ok) ==
  /\ task[r] = "making"
  /\ task' = [task EXCEPT ![r] = IF ok THEN "ok" ELSE "failed"]
  /\ UNCHANGED <<ex_time, issued, tickets, ex, artifact, accepted, cut>>

-----------------------------------------------------------------------------
(* The request waits for the task, stats and opens the file, and hands it  *)
(* to the stream; before that, an early return drops TempExportFile.       *)
ExMade(r, opened) ==
  /\ ex[r].pc = "making" /\ task[r] \in {"ok", "failed"}
  /\ IF task[r] = "ok" /\ opened
     THEN Goes(r, "stream") /\ UNCHANGED artifact
     ELSE Goes(r, "done") /\ artifact' = artifact \ {r}
  /\ UNCHANGED <<ex_time, issued, tickets, task, accepted, cut>>

(* Mutant of ExStreamed: only the end of the file is cleaned up after. *)
StreamedKeeps(r, how) ==
  /\ ex[r].pc = "stream"
  /\ Goes(r, "done") /\ artifact' = IF how = "end" THEN artifact \ {r} ELSE artifact
  /\ UNCHANGED <<ex_time, issued, tickets, task, accepted, cut>>

(* CleanupFileStream ends, fails or is dropped with the connection. *)
ExStreamed(r, how) ==
  /\ ex[r].pc = "stream"
  /\ Goes(r, "done") /\ artifact' = artifact \ {r}
  /\ UNCHANGED <<ex_time, issued, tickets, task, accepted, cut>>

(* The client goes away: the handler is dropped, the task is not. *)
ExCancel(r) ==
  /\ ex[r].pc = "making"
  /\ Goes(r, "done") /\ artifact' = artifact \ {r}
  /\ cut' = IF task[r] = "queued" THEN cut \cup {r} ELSE cut
  /\ UNCHANGED <<ex_time, issued, tickets, task, accepted>>

ExNext ==
  \/ PassSecond
  \/ \E k \in Kinds, s \in Scopes : issue(k, s)
  \/ \E r \in Reqs :
       \/ \E k \in Kinds, c \in BOOLEAN, t \in 0 .. Len(issued), s \in Scopes :
            ExRequest(r, k, c, t, s)
       \/ prune_expired(r) \/ consume(r) \/ TaskCreate(r) \/ ExCancel(r)
       \/ \E o \in BOOLEAN : TaskEnd(r, o) \/ ExMade(r, o)
       \/ \E d \in ExportDirs : ExResolve(r, d)
       \/ \E how \in {"end", "error", "dropped"} : ExStreamed(r, how)

ExSpec == ExInit /\ [][ExNext]_ex_vars

-----------------------------------------------------------------------------
(* "short-lived, one-use tickets" (docs/dev/packet-capture-design.md): of  *)
(* all requests at most one is let in by a ticket, it is of the ticket's   *)
(* kind and scope, and it came before the ticket expired, although consume *)
(* takes the lock twice and requests come between.                         *)
TicketOnce ==
  \A x \in accepted :
    LET k == issued[x[2]] IN
    /\ \A y \in accepted : y[2] = x[2] => y = x
    /\ k.kind = ex[x[1]].kind /\ ex[x[1]].now < k.expires
    /\ k.kind = "single" => k.scope = ex[x[1]].scope

(* No artifact is left behind: when neither the request nor its task needs *)
(* the file, it is gone, unless the client went away before the blocking   *)
(* task, which cannot be cancelled, had created it.                        *)
ArtifactsRemoved ==
  \A r \in Reqs :
    ex[r].pc = "done" /\ task[r] \notin {"queued", "making"}
      => (r \in artifact => r \in cut)
=============================================================================
