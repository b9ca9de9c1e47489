-------------------------------- MODULE Framer --------------------------------
(***************************************************************************)
(* The framers of crates/core/src/framer under the runner's loop: every    *)
(* chunk that a source delivers is added to the buffer, and frames are     *)
(* taken from it until the framer wants more bytes or refuses the buffer.  *)
(* A frame that is not empty becomes a record (crates/core/src/decoder).   *)
(***************************************************************************)
EXTENDS Naturals, Sequences, SequencesExt

CONSTANTS MaxInput,   \* bytes of a run
          MaxFrame    \* max_frame of the framers

CR == 13
LF == 10
LineBytes == {97, CR, LF}
PrefixBytes == {0, 1, 2}

LineFramer(eol) == [type |-> "line", eol |-> eol, width |-> 0, endian |-> "big", incl |-> FALSE]
PrefixFramer(w, e, incl) == [type |-> "prefix", eol |-> "lf", width |-> w, endian |-> e, incl |-> incl]
Passthrough == [type |-> "pass", eol |-> "lf", width |-> 0, endian |-> "big", incl |-> FALSE]
Framers ==
  {LineFramer(eol) : eol \in {"lf", "crlf", "cr", "auto"}} \cup {Passthrough}
    \cup {PrefixFramer(w, e, i) : w \in {1, 2}, e \in {"big", "little"}, i \in BOOLEAN}

VARIABLES fr,        \* the framer of this run
          fr_pc,     \* "new", "run" or "failed"
          fr_in,     \* history: all bytes received
          fr_buf,    \* the runner's buffer
          fr_out     \* records

fr_vars == <<fr, fr_pc, fr_in, fr_buf, fr_out>>

-----------------------------------------------------------------------------
(* poll_frame: a frame and the bytes left, nothing yet, or E-1003. *)
Polled(frame, rest) == [t |-> "frame", frame |-> frame, rest |-> rest]
More(buf) == [t |-> "more", frame |-> <<>>, rest |-> buf]
Overflow(buf) == [t |-> "overflow", frame |-> <<>>, rest |-> buf]

Head2(buf, i) == IF i < Len(buf) THEN buf[i + 1] ELSE 0
First(buf, P(_)) == LET at == {i \in DOMAIN buf : P(i)}
                    IN IF at = {} THEN 0 ELSE CHOOSE i \in at : \A j \in at : i <= j

auto_eol_position(buf) ==
  LET i == First(buf, LAMBDA k : buf[k] \in {CR, LF})
  IN IF i > 0 /\ buf[i] = CR /\ Head2(buf, i) = LF THEN i + 1 ELSE i

EolPosition(eol, buf) ==
  CASE eol = "lf" -> First(buf, LAMBDA k : buf[k] = LF)
    [] eol = "cr" -> First(buf, LAMBDA k : buf[k] = CR)
    [] eol = "crlf" -> LET i == First(buf, LAMBDA k : buf[k] = CR /\ Head2(buf, k) = LF)
                       IN IF i = 0 THEN 0 ELSE i + 1
    [] OTHER -> auto_eol_position(buf)

Trimmed(eol, line) ==
  LET n == Len(line)
  IN IF eol \in {"crlf", "auto"} /\ n >= 2 /\ SubSeq(line, n - 1, n) = <<CR, LF>>
     THEN SubSeq(line, 1, n - 2)
     ELSE SubSeq(line, 1, n - 1)

LinePoll(f, buf) ==
  LET i == EolPosition(f.eol, buf)
  IN CASE i > 0 -> Polled(Trimmed(f.eol, SubSeq(buf, 1, i)), SubSeq(buf, i + 1, Len(buf)))
       [] i = 0 /\ Len(buf) > MaxFrame -> Overflow(buf)
       [] OTHER -> More(buf)

read_len(f, buf) ==
  CASE f.width = 1 -> buf[1]
    [] f.endian = "big" -> buf[1] * 256 + buf[2]
    [] OTHER -> buf[1] + buf[2] * 256

(* Mutant of PrefixPoll: the header goes before the payload is there. *)
PrefixPollEager(f, buf) ==
  IF Len(buf) < f.width THEN More(buf)
  ELSE LET declared == read_len(f, buf)
           len == IF f.incl THEN IF declared < f.width THEN 0 ELSE declared - f.width
                            ELSE declared
           rest == SubSeq(buf, f.width + 1, Len(buf))
       IN CASE len > MaxFrame -> Overflow(buf)
            [] Len(rest) < len -> More(rest)
            [] OTHER -> Polled(SubSeq(rest, 1, len), SubSeq(rest, len + 1, Len(rest)))

PrefixPoll(f, buf) ==
  IF Len(buf) < f.width THEN More(buf)
  ELSE LET declared == read_len(f, buf)
           len == IF f.incl THEN IF declared < f.width THEN 0 ELSE declared - f.width
                            ELSE declared
           end == f.width + len
       IN CASE len > MaxFrame -> Overflow(buf)
            [] len <= MaxFrame /\ Len(buf) < end -> More(buf)
            [] OTHER -> Polled(SubSeq(buf, f.width + 1, end), SubSeq(buf, end + 1, Len(buf)))

PassthroughPoll(buf) == IF buf = <<>> THEN More(buf) ELSE Polled(buf, <<>>)

poll_frame(f, buf) ==
  CASE f.type = "line" -> LinePoll(f, buf)
    [] f.type = "prefix" -> PrefixPoll(f, buf)
    [] OTHER -> PassthroughPoll(buf)

(* Decoder::decode: an empty frame makes no record. *)
decode(frame) == IF frame = <<>> THEN <<>> ELSE <<frame>>

(* The inner loop: every frame of the buffer, and how it ends. *)
RECURSIVE PollAll(_, _, _)
PollAll(f, buf, out) ==
  LET p == poll_frame(f, buf)
  IN IF p.t = "frame" THEN PollAll(f, p.rest, out \o decode(p.frame))
                      ELSE [t |-> p.t, out |-> out, rest |-> p.rest]

-----------------------------------------------------------------------------
FrInit == fr = Passthrough /\ fr_pc = "new" /\ fr_in = <<>> /\ fr_buf = <<>> /\ fr_out = <<>>

FrStart(f) ==
  /\ fr_pc = "new" /\ fr_pc' = "run" /\ fr' = f
  /\ UNCHANGED <<fr_in, fr_buf, fr_out>>

Chunks == LET B == IF fr.type = "prefix" THEN PrefixBytes ELSE LineBytes
          IN {<<a>> : a \in B} \cup {<<a, b>> : a, b \in B}

(* One frame of the source: the runner adds it to the buffer and polls. *)
FrChunk(chunk) ==
  /\ fr_pc = "run" /\ Len(fr_in) + Len(chunk) <= MaxInput
  /\ fr_in' = fr_in \o chunk
  /\ LET polled == PollAll(fr, fr_buf \o chunk, <<>>)
     IN /\ fr_buf' = polled.rest
        /\ fr_out' = fr_out \o polled.out
        /\ fr_pc' = IF polled.t = "overflow" THEN "failed" ELSE "run"
  /\ UNCHANGED fr

FrNext == (\E f \in Framers : FrStart(f)) \/ (\E c \in Chunks : FrChunk(c))

-----------------------------------------------------------------------------
(* A line, with its end but for the last byte, that is within max_frame:   *)
(* the buffer holds no more than that before the line is complete.         *)
LineFits(f, line) == Len(line) + (IF f.eol = "crlf" THEN 1 ELSE 0) <= MaxFrame

(* How a transport cuts what it has delivered into chunks changes neither  *)
(* the records nor the bytes that wait: up to the moment a framer refuses  *)
(* the buffer, and at that moment, they are those of the same bytes framed *)
(* at once.  A CR LF cut in two is one line end and an empty frame to the  *)
(* automatic framer, of which decode makes no record.  (Passthrough frames *)
(* are the chunks, and only their bytes are the same.)  A stream whose     *)
(* lines all fit is never refused.  Whether a longer line is depends on    *)
(* the chunks, as the line framer compares the buffer with max_frame only  *)
(* when it finds no line end in it.                                        *)
ChunksDoNotMatter ==
  LET whole == PollAll(fr, fr_in, <<>>)
  IN IF fr.type = "pass" THEN FlattenSeq(fr_out) = fr_in
     ELSE /\ fr_out = whole.out /\ fr_buf = whole.rest
          /\ fr_pc = "failed" <=> whole.t = "overflow"
          /\ fr_pc = "failed" /\ fr.type = "line" =>
               \E line \in Range(fr_out) \cup {fr_buf} : ~LineFits(fr, line)
=============================================================================
