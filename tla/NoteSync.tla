------------------------------- MODULE NoteSync -------------------------------
(***************************************************************************)
(* Notes shared by several browsers: each keeps its notes in memory and in *)
(* localStorage (web/src/state/sourceNotes.ts, logTypeNotes.ts), saves a   *)
(* note with an HTTP request when its field loses the focus, and merges    *)
(* the server's list into its own by time (annotationSync.ts).  Requests   *)
(* of one browser are independent of each other: the server may carry them *)
(* out, and their answers may come, in any order, or they fail.            *)
(*                                                                         *)
(* The server is the map of module AnnotationStore, which stamps a note    *)
(* with its own clock.  Every edit and every write has a time of its own.  *)
(* The length limits of texts and keys are left out, and so are the        *)
(* tombstones of the merge: list never returns a deleted annotation.       *)
(***************************************************************************)
EXTENDS Integers, FiniteSets

CONSTANTS Browsers,
          NoteTargets,  \* kinds of notes, each with one note
          NoteTexts,    \* texts other than the empty one
          Behind,       \* how far the clocks of the browsers are behind
          MaxEdits,     \* bound: edits
          MaxCalls,     \* bound: requests
          MaxReloads    \* bound: pages loaded again

ASSUME NoteAssumption ==
  /\ Behind \in Nat /\ MaxEdits \in Nat /\ MaxCalls \in Nat /\ MaxReloads \in Nat
  /\ NoteTargets \subseteq {"session", "log_type"}
  /\ NoteTexts \cap {"", "absent"} = {}

VARIABLES wall,       \* the server's clock
          notes,      \* of a browser: text and updatedAt
          disk,       \* its localStorage
          note_status,     \* AnnotationSyncStatus
          requested,  \* logTypeAnnotationsRequested, loadedNotesSid
          annotations,     \* of the server
          calls,      \* requests under way
          latest,     \* history: the browsers whose present text the server
                      \* was last given
          writers,    \* history: the browsers that have edited or saved a note
          raced,      \* history: notes edited while a write was under way,
                      \* or set back because localStorage had refused them
          edits, made, reloads

note_vars == <<wall, notes, disk, note_status, requested, annotations, calls,
               latest, writers, raced, edits, made, reloads>>

AbsentNote == [text |-> "absent", at |-> 0]
NoNotes == [n \in NoteTargets |-> AbsentNote]

NoteInit ==
  /\ wall = Behind + 1
  /\ notes = [b \in Browsers |-> NoNotes] /\ disk = notes
  /\ note_status = [b \in Browsers |-> [n \in NoteTargets |-> "idle"]]
  /\ requested = {}
  /\ annotations = NoNotes
  /\ calls = {} /\ latest = [n \in NoteTargets |-> {}]
  /\ writers = latest /\ raced = {}
  /\ edits = 0 /\ made = 0 /\ reloads = 0

-----------------------------------------------------------------------------
(* updateSourceNote and updateLogTypeNote: the note is put into the store  *)
(* and the store into localStorage, which may refuse (safeSetItem).        *)
Update(b, new, stored) ==
  /\ notes' = [notes EXCEPT ![b] = new]
  /\ disk' = IF stored THEN [disk EXCEPT ![b] = new] ELSE disk

Unsaved(c) == c.op # "list" /\ c.stage # "done"

(* onSourceNoteInput, and the field of SettingsPanel.                      *)
Edit(b, n, text, stored) ==
  /\ edits < MaxEdits /\ text # notes[b][n].text
  /\ Update(b, [notes[b] EXCEPT ![n] = [text |-> text, at |-> wall - Behind]], stored)
  /\ wall' = wall + 1 /\ edits' = edits + 1
  /\ latest' = [latest EXCEPT ![n] = @ \ {b}]
  /\ calls' = {[c EXCEPT !.fresh = @ /\ ~(c.by = b /\ c.note = n)] : c \in calls}
  /\ writers' = [writers EXCEPT ![n] = @ \cup {b}]
  /\ raced' = raced \cup {c.note : c \in {x \in calls : x.note = n /\ Unsaved(x)}}
  /\ UNCHANGED <<note_status, requested, annotations, made, reloads>>

Call(b, op, n, text) ==
  [id |-> made, by |-> b, op |-> op, note |-> n, text |-> text, stage |-> "sent",
   list |-> NoNotes, fresh |-> TRUE]

Issue(b, op, n, text, st) ==
  /\ made < MaxCalls
  /\ calls' = calls \cup {Call(b, op, n, text)}
  /\ made' = made + 1
  /\ note_status' = [note_status EXCEPT ![b][n] = st]
  /\ UNCHANGED <<wall, notes, disk, annotations, latest, raced, edits, reloads>>

(* syncSourceNoteNow and syncSelectedLogTypeNote, on blur or by the        *)
(* button: a note without text is deleted, any other put.                  *)
Save(b, n) ==
  /\ notes[b][n] # AbsentNote
  /\ Issue(b, IF notes[b][n].text = "" THEN "delete" ELSE "put", n,
           notes[b][n].text, "syncing")
  /\ writers' = [writers EXCEPT ![n] = @ \cup {b}]
  /\ UNCHANGED requested

(* SourcesPanel loads the annotations of the source that is selected, once *)
(* until another one is selected.                                          *)
LoadSource(b) ==
  /\ "session" \in NoteTargets /\ <<b, "session">> \notin requested
  /\ requested' = requested \cup {<<b, "session">>}
  /\ Issue(b, "list", "session", "", "loading")
  /\ UNCHANGED writers

SelectOther(b) ==
  /\ <<b, "session">> \in requested
  /\ requested' = requested \ {<<b, "session">>}
  /\ UNCHANGED <<wall, notes, disk, note_status, annotations, calls, latest,
                 writers, raced, edits, made, reloads>>

(* SettingsPanel loads all annotations once for a page, and again when the *)
(* operator retries after an error.                                        *)
LoadLogTypes(b) ==
  /\ "log_type" \in NoteTargets
  /\ <<b, "log_type">> \notin requested \/ note_status[b]["log_type"] = "error"
  /\ requested' = requested \cup {<<b, "log_type">>}
  /\ Issue(b, "list", "log_type", "", "loading")
  /\ UNCHANGED writers

-----------------------------------------------------------------------------
(* The server. *)
Orphans == {c \in calls : c.stage = "orphan"}
Done(c, list) == [c EXCEPT !.stage = "done", !.list = list]

ServeNoteList(c) ==
  /\ c.stage = "sent" /\ c.op = "list"
  /\ calls' = (calls \ {c}) \cup {Done(c, annotations)}
  /\ UNCHANGED <<wall, notes, disk, note_status, requested, annotations, latest,
                 writers, raced, edits, made, reloads>>

(* upsert_handler and delete_handler; a delete that finds nothing is       *)
(* answered with 404, which deleteServerAnnotation takes for success.      *)
ServeNoteWrite(c) ==
  /\ c.stage \in {"sent", "orphan"} /\ c.op \in {"put", "delete"}
  /\ annotations' = [annotations EXCEPT ![c.note] =
                       IF c.op = "put" THEN [text |-> c.text, at |-> wall]
                       ELSE AbsentNote]
  /\ wall' = wall + 1
  /\ latest' = [latest EXCEPT ![c.note] = IF c.fresh THEN {c.by} ELSE {}]
  /\ calls' = (calls \ {c}) \cup {Done(x, NoNotes) : x \in {c} \ Orphans}
  /\ UNCHANGED <<notes, disk, note_status, requested, writers, raced, edits, made, reloads>>

-----------------------------------------------------------------------------
(* The answers. *)
Finish(c, st) ==
  /\ calls' = calls \ {c}
  /\ note_status' = [note_status EXCEPT ![c.by][c.note] = st]
  /\ UNCHANGED <<wall, requested, annotations, latest, writers, raced, edits, made, reloads>>

(* Mutant of shouldApply: what the server says is taken. *)
shouldApplyAlways(mine, theirs) == TRUE

shouldApply(mine, theirs) == mine = AbsentNote \/ theirs.at >= mine.at

(* applyServerAnnotations: an annotation that the list lacks changes       *)
(* nothing.                                                                *)
Merged(mine, list) ==
  [n \in NoteTargets |->
     IF list[n] # AbsentNote /\ shouldApply(mine[n], list[n]) THEN list[n]
     ELSE mine[n]]

Loaded(c, stored) ==
  /\ c.stage = "done" /\ c.op = "list"
  /\ Update(c.by, Merged(notes[c.by], c.list), stored)
  /\ Finish(c, "synced")

Saved(c) ==
  /\ c.stage = "done" /\ c.op # "list"
  /\ Finish(c, "synced")
  /\ UNCHANGED <<notes, disk>>

(* A request fails, before the server has carried it out or after, and a   *)
(* write that failed may still be carried out.                             *)
CallFails(c) ==
  /\ c.stage # "orphan"
  /\ \/ Finish(c, "error")
     \/ /\ c.stage = "sent" /\ c.op # "list"
        /\ calls' = (calls \ {c}) \cup {[c EXCEPT !.stage = "orphan"]}
        /\ note_status' = [note_status EXCEPT ![c.by][c.note] = "error"]
        /\ UNCHANGED <<wall, requested, annotations, latest, writers, raced, edits, made, reloads>>
  /\ UNCHANGED <<notes, disk>>

Same(b, n) == notes[b][n] = disk[b][n]

(* The page is loaded again: the notes come from localStorage; answers to  *)
(* the old page are lost.                                                  *)
Reload(b) ==
  /\ reloads < MaxReloads
  /\ reloads' = reloads + 1
  /\ notes' = [notes EXCEPT ![b] = disk[b]]
  /\ note_status' = [note_status EXCEPT ![b] = [n \in NoteTargets |-> "idle"]]
  /\ requested' = {r \in requested : r[1] # b}
  /\ calls' = {c \in calls : c.by # b}
       \cup {[c EXCEPT !.stage = "orphan", !.fresh = @ /\ Same(b, c.note)] :
               c \in {x \in calls : x.by = b /\ Unsaved(x)}}
  /\ latest' = [n \in NoteTargets |->
                  IF Same(b, n) THEN latest[n] ELSE latest[n] \ {b}]
  /\ raced' = raced \cup {n \in NoteTargets : ~Same(b, n)}
  /\ UNCHANGED <<wall, disk, annotations, writers, edits, made>>

NoteNext ==
  \/ \E b \in Browsers, n \in NoteTargets :
       \/ \E text \in NoteTexts \cup {""}, stored \in BOOLEAN : Edit(b, n, text, stored)
       \/ Save(b, n)
  \/ \E b \in Browsers : LoadSource(b) \/ LoadLogTypes(b) \/ SelectOther(b) \/ Reload(b)
  \/ \E c \in calls :
       \/ ServeNoteList(c) \/ ServeNoteWrite(c) \/ Saved(c) \/ CallFails(c)
       \/ \E stored \in BOOLEAN : Loaded(c, stored)

NoteSpec == NoteInit /\ [][NoteNext]_note_vars

-----------------------------------------------------------------------------
(* A note that one browser writes, each edit after its last save, and that *)
(* any others read: once the server has carried out the save of the        *)
(* browser's present text, both show the same.  A list that the server     *)
(* made before and that arrives late does not bring an older text back     *)
(* (shouldApply), emptying a note removes it, and a save that seemed to    *)
(* fail does no harm.  This takes clocks that agree, and that nobody else  *)
(* saves the note: a browser that does, even without an edit, writes what  *)
(* it last read, with a time that wins over the later text.                *)
SavedEditStays ==
  \A n \in NoteTargets \ raced : \A b \in latest[n] :
    writers[n] = {b} =>
      notes[b][n].text = IF annotations[n] = AbsentNote THEN ""
                         ELSE annotations[n].text
=============================================================================
