--------------------------- MODULE AnnotationStore ---------------------------
(***************************************************************************)
(* The server's store of notes (crates/server/src/annotation_api.rs): a    *)
(* map in memory, saved as a whole to annotations-v1.jsonl by every upsert *)
(* and every delete that removes something.  The mutex is held from the    *)
(* change in memory to the end of the save, so requests come one by one;   *)
(* the process may be killed between any two file operations and started   *)
(* again.  Each file operation may fail.                                   *)
(*                                                                         *)
(* A request that normalize_target, normalize_text or                      *)
(* authorize_annotations refuses changes nothing and is not modelled.      *)
(***************************************************************************)
EXTENDS Naturals

CONSTANTS Ids, Texts

None == "none"

ASSUME StoreAssumption == None \notin Texts

Snapshots == [Ids -> Texts \cup {None}]
Empty == [i \in Ids |-> None]

(* A file: missing, cut off in the middle, or whole. *)
Absent == [kind |-> "absent", notes |-> Empty]
Torn == [kind |-> "torn", notes |-> Empty]
Whole(m) == [kind |-> "whole", notes |-> m]
Files == [kind : {"absent", "torn", "whole"}, notes : Snapshots]

VARIABLES server,   \* "up" or "down"
          mem,      \* the map
          op,       \* the request in progress: [pc, id]
          tmp,      \* the file written first
          file,     \* annotations-v1.jsonl
          maybe,    \* history: what each note may be, given the answers so far
          gone,     \* history: ids of which the last answer said they are gone
          failed    \* history: a save has failed

vars == <<server, mem, op, tmp, file, maybe, gone, failed>>

Idle == op.pc = "idle"
NoOp(i) == [pc |-> "idle", id |-> i]

Init ==
  /\ server = "up" /\ mem = Empty
  /\ op \in {NoOp(i) : i \in Ids}
  /\ tmp = Absent /\ file = Absent
  /\ maybe = [i \in Ids |-> {None}] /\ gone = {} /\ failed = FALSE

-----------------------------------------------------------------------------
(* The change in memory comes first. *)
Change(i, v) ==
  /\ mem' = [mem EXCEPT ![i] = v]
  /\ maybe' = [maybe EXCEPT ![i] = @ \cup {v}]
  /\ op' = [pc |-> "write", id |-> i]
  /\ UNCHANGED <<server, tmp, file, failed>>

Upsert(i, v) ==
  /\ server = "up" /\ Idle
  /\ Change(i, v)
  /\ gone' = gone \ {i}

(* Mutant of Delete: answered without a save. *)
DeleteUnsaved(i) ==
  /\ server = "up" /\ Idle /\ mem[i] # None
  /\ mem' = [mem EXCEPT ![i] = None]
  /\ maybe' = [maybe EXCEPT ![i] = @ \cup {None}]
  /\ gone' = gone \cup {i}
  /\ UNCHANGED <<server, op, tmp, file, failed>>

Delete(i) ==
  /\ server = "up" /\ Idle /\ mem[i] # None
  /\ Change(i, None)
  /\ UNCHANGED gone

(* Nothing to remove: 404, which the web client takes for success.         *)
DeleteMissing(i) ==
  /\ server = "up" /\ Idle /\ mem[i] = None
  /\ gone' = gone \cup {i}
  /\ UNCHANGED <<server, mem, op, tmp, file, maybe, failed>>

-----------------------------------------------------------------------------
(* persist_locked, one file operation at a time. *)
Saving(pc) == server = "up" /\ op.pc = pc
Goto(pc) == op' = [op EXCEPT !.pc = pc]

(* fs::write creates the file and fills it. *)
WriteTmp ==
  /\ Saving("write")
  /\ tmp' = Torn
  /\ Goto("writing")
  /\ UNCHANGED <<server, mem, file, maybe, gone, failed>>

WriteTmpDone ==
  /\ Saving("writing")
  /\ tmp' = Whole(mem)
  /\ Goto("written")
  /\ UNCHANGED <<server, mem, file, maybe, gone, failed>>

RemoveFile ==
  /\ Saving("written")
  /\ file' = Absent
  /\ Goto("rename")
  /\ UNCHANGED <<server, mem, tmp, maybe, gone, failed>>

RenameTmp ==
  /\ Saving("rename")
  /\ file' = tmp /\ tmp' = Absent
  /\ Goto("saved")
  /\ UNCHANGED <<server, mem, maybe, gone, failed>>

(* The client is told that the note is stored, or gone. *)
Answer ==
  /\ Saving("saved")
  /\ maybe' = [maybe EXCEPT ![op.id] = {mem[op.id]}]
  /\ gone' = IF mem[op.id] = None THEN gone \cup {op.id} ELSE gone
  /\ Goto("idle")
  /\ UNCHANGED <<server, mem, tmp, file, failed>>

(* Mutant of SaveError: memory is read back from the file. *)
SaveErrorReloads ==
  /\ server = "up" /\ op.pc \in {"write", "writing", "written", "rename"}
  /\ mem' = file.notes
  /\ Goto("idle") /\ failed' = TRUE
  /\ UNCHANGED <<server, tmp, file, maybe, gone>>

(* A file operation fails: the client gets an error, memory keeps the      *)
(* change, and a temporary file stays where it is.                         *)
SaveError ==
  /\ server = "up" /\ op.pc \in {"write", "writing", "written", "rename"}
  /\ Goto("idle") /\ failed' = TRUE
  /\ UNCHANGED <<server, mem, tmp, file, maybe, gone>>

-----------------------------------------------------------------------------
(* The process is killed; the temporary file is never looked at again. *)
Kill ==
  /\ server = "up"
  /\ server' = "down"
  /\ Goto("idle")
  /\ UNCHANGED <<mem, tmp, file, maybe, gone, failed>>

(* AnnotationStore::open and load_annotations: no file is an empty store,  *)
(* and a line that does not parse is an error.  What was lost with the     *)
(* file is no longer expected.                                             *)
Open ==
  /\ server = "down" /\ file.kind # "torn"
  /\ server' = "up"
  /\ mem' = file.notes
  /\ maybe' = IF file.kind = "absent" THEN [i \in Ids |-> {None}] ELSE maybe
  /\ UNCHANGED <<op, tmp, file, gone, failed>>

Next ==
  \/ \E i \in Ids, v \in Texts : Upsert(i, v)
  \/ \E i \in Ids : Delete(i) \/ DeleteMissing(i)
  \/ WriteTmp \/ WriteTmpDone \/ RemoveFile \/ RenameTmp \/ Answer \/ SaveError
  \/ Kill \/ Open

Spec == Init /\ [][Next]_vars

-----------------------------------------------------------------------------
(* Every variable has its type; while a save is under way its temporary    *)
(* file holds what it is to hold.                                          *)
TypeOK ==
  /\ server \in {"up", "down"}
  /\ mem \in Snapshots
  /\ op \in [pc : {"idle", "write", "writing", "written", "rename", "saved"},
             id : Ids]
  /\ tmp \in Files
  /\ file \in Files
  /\ maybe \in [Ids -> SUBSET (Texts \cup {None})]
  /\ gone \in SUBSET Ids /\ failed \in BOOLEAN
  /\ op.pc \in {"written", "rename"} => tmp = Whole(mem)

(* The file, if there is one, can be loaded, whenever the process is       *)
(* killed: load_annotations refuses a store with an incomplete line.       *)
Loadable == file.kind # "torn"

(* A note, in memory or in the file that the next start will load, is what *)
(* the client was last told that it is, or what a client has since tried   *)
(* to make it without being told so: an acknowledged upsert or delete is   *)
(* not undone by a restart, as long as the file is there.                  *)
NoteKept ==
  \A i \in Ids :
    /\ server = "up" => mem[i] \in maybe[i]
    /\ file.kind = "whole" => file.notes[i] \in maybe[i]

(* A note that a client was told is gone ("DELETE /api/annotations/{id} -  *)
(* tombstone or delete an annotation", ADR 0002) does not come back with a *)
(* restart, unless a save has failed.                                      *)
GoneStaysGone == server = "up" /\ ~failed => \A i \in gone : mem[i] = None
=============================================================================
