---------------------------------- MODULE Zip ----------------------------------
(***************************************************************************)
(* create_bundle_zip (crates/server/src/export_api.rs): every session of a *)
(* bundle is exported to a file of its own, which is copied into the ZIP   *)
(* under a name of its own.  Lengths are in units; a header has length one.*)
(* The browser has a ZIP writer too (createSessionExportZip in             *)
(* sessionExportZip.ts).  How each of them renders and sanitises a name    *)
(* before making it unique is left out: they differ in that.               *)
(***************************************************************************)
EXTENDS Naturals, Sequences, SequencesExt, FiniteSetsExt

CONSTANTS MaxEntries,   \* of a bundle
          NameTries,    \* 10,000: candidates have smaller numbers
          ZipMax        \* u32::MAX

VARIABLES z_pc,        \* "new", "next", "entry", "done" or "failed"
          z_offset,    \* bytes written, as the writer counts them
          z_central,   \* the central directory
          z_tmp,       \* the entry's own file is on disk
          z_laid       \* history: the files so far, as rendered: name and size

z_vars == <<z_pc, z_offset, z_central, z_tmp, z_laid>>

ZInit == z_pc = "new" /\ z_offset = 0 /\ z_central = <<>> /\ z_tmp = FALSE /\ z_laid = <<>>

ZCreate ==
  /\ z_pc = "new" /\ z_pc' = "next"
  /\ UNCHANGED <<z_offset, z_central, z_tmp, z_laid>>

(* export_one; TempExportFile removes the file when the task fails. *)
export_one(ok) ==
  /\ z_pc = "next" /\ Len(z_laid) < MaxEntries
  /\ z_tmp' = ok
  /\ z_pc' = IF ok THEN "entry" ELSE "failed"
  /\ UNCHANGED <<z_offset, z_central, z_laid>>

(* Mutant of unique_zip_entry_name: only equal neighbours are told apart. *)
LastNameDiffers(name, used) ==
  IF used # <<>> /\ Last(used) = name THEN Append(name, 2) ELSE name

(* A name is what the pattern gives it, and "-2", "-3"... appended until   *)
(* it is new: <<1, 2>> may also be what the pattern gives.                 *)
unique_zip_entry_name(name, used) ==
  IF name \notin Range(used) THEN name
  ELSE Append(name, Min({i \in 2 .. NameTries : Append(name, i) \notin Range(used)}))

TooManyNames(name) == Last(name) = NameTries
TooLarge(size) == size > ZipMax \/ z_offset > ZipMax

(* ok: the name is short enough, and the file can be read and is not       *)
(* changed between its checksum and its copy.                              *)
append_file_from_path(name, size, ok) ==
  LET unique == unique_zip_entry_name(name, [i \in DOMAIN z_central |-> z_central[i].name])
  IN /\ z_pc = "entry" /\ z_tmp' = FALSE
     /\ IF ~ok \/ TooManyNames(unique) \/ TooLarge(size)
        THEN z_pc' = "failed" /\ UNCHANGED <<z_offset, z_central, z_laid>>
        ELSE /\ z_pc' = "next"
             /\ z_offset' = z_offset + 1 + size
             /\ z_central' = Append(z_central, [name |-> unique, size |-> size, at |-> z_offset])
             /\ z_laid' = Append(z_laid, [name |-> name, size |-> size])

finish ==
  /\ z_pc = "next" /\ z_laid # <<>>
  /\ z_pc' = IF /\ \A i \in DOMAIN z_central : z_central[i].size <= ZipMax /\ z_central[i].at <= ZipMax
                /\ Len(z_central) <= ZipMax /\ z_offset <= ZipMax
             THEN "done" ELSE "failed"
  /\ UNCHANGED <<z_offset, z_central, z_tmp, z_laid>>

ZNext ==
  \/ ZCreate \/ finish
  \/ \E ok \in BOOLEAN : export_one(ok)
  \/ \E name \in {<<1>>, <<1, 2>>}, size \in 0 .. 3, ok \in BOOLEAN :
       append_file_from_path(name, size, ok)

-----------------------------------------------------------------------------
(* In the browser: the first of name, name-2, name-3... that is not used.  *)
uniqueName(name, used) ==
  LET candidate(i) == IF i = 1 THEN name ELSE Append(name, i)
  IN  candidate(CHOOSE i \in 1 .. MaxEntries + 1 :
                  /\ candidate(i) \notin used
                  /\ \A j \in 1 .. i - 1 : candidate(j) \in used)

UniqueNames(files) ==
  FoldLeft(LAMBDA names, f : Append(names, uniqueName(f.name, Range(names))), <<>>, files)

(* The sizes and offsets are looked at before each file, the offset of the *)
(* directory is not.                                                       *)
createStoredZip(files, names) ==
  FoldLeft(LAMBDA zip, i :
             [fits |-> zip.fits /\ files[i].size <= ZipMax /\ zip.offset <= ZipMax,
              offset |-> zip.offset + 1 + files[i].size,
              central |-> Append(zip.central, [name |-> names[i], size |-> files[i].size,
                                               at |-> zip.offset])],
           [fits |-> TRUE, offset |-> 0, central |-> <<>>], [i \in DOMAIN files |-> i])

-----------------------------------------------------------------------------
(* A ZIP that finish wrote can be read: the names of its entries differ,   *)
(* the offset of every entry is where it starts and fits its field, as     *)
(* does that of the directory, and no file of an entry is left behind.     *)
(* The browser's writer, given the same files under the same rendered      *)
(* names, makes the same directory.                                        *)
ZipReadable ==
  /\ z_pc = "done" =>
       /\ \A i, j \in DOMAIN z_central : z_central[i].name = z_central[j].name => i = j
       /\ \A i \in DOMAIN z_central :
            /\ z_central[i].at =
                 FoldLeft(LAMBDA a, f : a + 1 + f.size, 0, SubSeq(z_laid, 1, i - 1))
            /\ z_central[i].at <= ZipMax /\ z_central[i].size = z_laid[i].size
       /\ z_offset <= ZipMax
       /\ LET zip == createStoredZip(z_laid, UniqueNames(z_laid))
          IN  zip.fits /\ zip.central = z_central /\ zip.offset = z_offset
  /\ z_pc \in {"done", "failed"} => ~z_tmp
=============================================================================
