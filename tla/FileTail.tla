------------------------------- MODULE FileTail -------------------------------
(***************************************************************************)
(* FileSource (crates/core/src/source/file.rs) on a path that a writer     *)
(* appends to, truncates and rotates.  A file is the sequence of the bytes *)
(* in it, each byte written ever being different; rotation puts a new      *)
(* empty file at the path, the open handle keeps the old one.              *)
(***************************************************************************)
EXTENDS Naturals, Sequences

CONSTANTS MaxBytes,     \* bytes written
          ReadChunk,    \* READ_CHUNK
          Rotations,    \* times the file is rotated
          MaxEmitted    \* bytes after which nobody calls recv again

ASSUME TailAssumption ==
  /\ MaxBytes \in Nat /\ Rotations \in Nat /\ MaxEmitted \in Nat
  /\ ReadChunk \in Nat \ {0}

VARIABLES tail_pc,      \* "closed", "read", "sleep" or "ended"
          tail_follow,
          fd,           \* [file, pos]: the open handle
          path,         \* the file that the path names
          content,      \* of each file
          clock,        \* bytes written so far
          emitted,      \* bytes of the frames returned by recv
          cut           \* history: the file was never truncated ("no"), to
                        \* nothing only ("emptied"), or to less ("shortened")

tail_vars == <<tail_pc, tail_follow, fd, path, content, clock, emitted, cut>>

Files == 0..Rotations

TailInit ==
  /\ tail_pc = "closed" /\ tail_follow = FALSE /\ fd = [file |-> 0, pos |-> 0]
  /\ path = 0 /\ content = [f \in Files |-> <<>>] /\ clock = 0
  /\ emitted = <<>> /\ cut = "no"

-----------------------------------------------------------------------------
(* The writer. *)
TailAppend ==
  /\ clock < MaxBytes /\ clock' = clock + 1
  /\ content' = [content EXCEPT ![path] = Append(@, clock + 1)]
  /\ UNCHANGED <<tail_pc, tail_follow, fd, path, emitted, cut>>
TailTruncate ==
  /\ \E n \in 0..(Len(content[path]) - 1) :
       /\ content' = [content EXCEPT ![path] = SubSeq(@, 1, n)]
       /\ cut' = IF n = 0 /\ cut # "shortened" THEN "emptied" ELSE "shortened"
  /\ UNCHANGED <<tail_pc, tail_follow, fd, path, clock, emitted>>
TailRotate ==
  /\ path < Rotations /\ path' = path + 1
  /\ UNCHANGED <<tail_pc, tail_follow, fd, content, clock, emitted, cut>>

-----------------------------------------------------------------------------
TailOpen(follow) ==
  /\ tail_pc = "closed"
  /\ tail_pc' = "read" /\ tail_follow' = follow
  /\ fd' = [file |-> path, pos |-> 0]
  /\ UNCHANGED <<path, content, clock, emitted, cut>>

Unread == Len(content[fd.file]) - fd.pos

(* recv: a chunk; at the end of the file None, or a nap of POLL_INTERVAL. *)
TailRead ==
  /\ tail_pc = "read" /\ Len(emitted) < MaxEmitted
  /\ IF fd.pos < Len(content[fd.file])
     THEN LET n == IF Unread < ReadChunk THEN Unread ELSE ReadChunk
          IN /\ emitted' = emitted \o SubSeq(content[fd.file], fd.pos + 1, fd.pos + n)
             /\ fd' = [fd EXCEPT !.pos = @ + n]
             /\ UNCHANGED tail_pc
     ELSE /\ tail_pc' = IF tail_follow THEN "sleep" ELSE "ended"
          /\ UNCHANGED <<fd, emitted>>
  /\ UNCHANGED <<tail_follow, path, content, clock, cut>>

(* Mutant of TailPoll: a file that did not grow is read again. *)
TailPollRewinds ==
  /\ tail_pc = "sleep" /\ tail_pc' = "read"
  /\ fd' = IF Len(content[path]) <= fd.pos THEN [fd EXCEPT !.pos = 0] ELSE fd
  /\ UNCHANGED <<tail_follow, path, content, clock, emitted, cut>>

(* The length of what the path names now is compared with the position in *)
(* the file that is open.                                                  *)
TailPoll ==
  /\ tail_pc = "sleep" /\ tail_pc' = "read"
  /\ fd' = IF Len(content[path]) < fd.pos THEN [fd EXCEPT !.pos = 0] ELSE fd
  /\ UNCHANGED <<tail_follow, path, content, clock, emitted, cut>>

TailNext ==
  \/ TailAppend \/ TailTruncate \/ TailRotate
  \/ \E follow \in BOOLEAN : TailOpen(follow)
  \/ TailRead \/ TailPoll

TailSpec == TailInit /\ [][TailNext]_tail_vars

-----------------------------------------------------------------------------
(* As long as nobody rotates the file, and a truncation leaves nothing of  *)
(* it, a byte is returned at most once and in the order of writing; and as *)
(* long as nobody truncates it, no byte is left out.  (recv starts again   *)
(* at the beginning when the file is shorter than its position: what a     *)
(* truncation left is returned a second time.)                             *)
TailInOrder ==
  path = 0 /\ cut # "shortened" =>
    /\ \A i, j \in DOMAIN emitted : i < j => emitted[i] < emitted[j]
    /\ cut = "no" => emitted = SubSeq(content[0], 1, fd.pos)
=============================================================================
