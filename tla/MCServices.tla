----------------------------- MODULE MCServices -----------------------------
(* The server's services and their clients share no state in the models    *)
(* and run apart: in every behaviour one of them moves, the others stay in  *)
(* their initial state.                                                    *)
EXTENDS ConnCounter, GroupCommit, Queues, Pacing, Clocks, Control, Identity,
        AnnotationStore, Export, Zip, WebClient, Toasts, NoteSync,
        CliClients

VARIABLE part   \* the component that moves in this behaviour

services_vars == <<part, conn_vars, commit_vars, q_vars, pace_vars,
  clock_vars, table_vars, ctl_vars, id_vars, vars, ex_vars, z_vars, web_vars,
  toast_vars, note_vars, cli_vars>>

ServicesInit ==
  /\ part \in {"conn", "commit", "queues", "pacing", "clocks", "table",
               "control", "identity", "notes", "export", "zip", "web",
               "toasts", "sync", "cli"}
  /\ ConnInit /\ CommitInit /\ QInit /\ PaceInit /\ ClockInit /\ TableInit
  /\ CtlInit /\ IdInit /\ Init /\ ExInit /\ ZInit /\ WebInit /\ ToastInit
  /\ NoteInit /\ CliInit
  /\ part # "clocks" => skew = 0
  /\ part # "notes" => op = NoOp(CHOOSE i \in Ids : TRUE)
  /\ part # "cli" => source.encoding = Default

Rests(p, v) == IF part = p THEN TRUE ELSE UNCHANGED v

ServicesNext ==
  /\ UNCHANGED part
  /\ Rests("conn", conn_vars) /\ Rests("commit", commit_vars)
  /\ Rests("queues", q_vars) /\ Rests("pacing", pace_vars)
  /\ Rests("clocks", clock_vars) /\ Rests("table", table_vars)
  /\ Rests("control", ctl_vars) /\ Rests("identity", id_vars)
  /\ Rests("notes", vars) /\ Rests("export", ex_vars)
  /\ Rests("zip", z_vars) /\ Rests("web", web_vars)
  /\ Rests("toasts", toast_vars) /\ Rests("sync", note_vars)
  /\ Rests("cli", cli_vars)
  /\ \/ part = "conn" /\ ConnNext
     \/ part = "commit" /\ CommitNext
     \/ part = "queues" /\ QNext
     \/ part = "pacing" /\ PaceNext
     \/ part = "clocks" /\ ClockNext
     \/ part = "table" /\ TableNext
     \/ part = "control" /\ CtlNext
     \/ part = "identity" /\ IdNext
     \/ part = "notes" /\ Next
     \/ part = "export" /\ ExNext
     \/ part = "zip" /\ ZNext
     \/ part = "web" /\ WebNext
     \/ part = "toasts" /\ ToastNext
     \/ part = "sync" /\ NoteNext
     \/ part = "cli" /\ CliNext

ServicesSpec == ServicesInit /\ [][ServicesNext]_services_vars

(* The bytes a caller lets pile up after failed syncs stay small. *)
SmallBacklog == in_flight <= 2 * SizeBytes
=============================================================================
