------------------------------ MODULE Detection ------------------------------
(***************************************************************************)
(* Which text encoding a started source is decoded with, and which tags    *)
(* its records get (crates/core/src/detect/content.rs, classify.rs, codec  *)
(* and the decoders), from the sample read before the runner starts to the *)
(* label that meta.toml hands to the exporters.                            *)
(*                                                                         *)
(* A sample is what its decoding under each label yields: the counts and   *)
(* marks that the scores are computed from.  A label that encoding_rs does *)
(* not know decodes as UTF-8; "cp932" is known or not, so that nothing     *)
(* here rests on which.  A byte order mark overrides every label.  The     *)
(* evidence and the log-type candidates of a report are only shown, and    *)
(* left out.                                                               *)
(***************************************************************************)
EXTENDS Integers, Sequences, SequencesExt

CONSTANTS Chars,     \* characters of a decoded sample
          Malformed, \* numbers of replacement characters in it
          Controls,  \* numbers of control characters in it
          Rules,     \* number of classification rules
          Matches,   \* numbers of matches of a rule in a text
          RecordTags \* tags that rules and JSON lines carry

ASSUME DetectionAssumption == Chars \in Nat \ {0} /\ Rules \in Nat

SUPPORTED_TEXT_ENCODINGS == <<"utf-8", "shift_jis", "cp932", "euc-jp", "iso-2022-jp">>
Supported == ToSet(SUPPORTED_TEXT_ENCODINGS)
MinConfidence == 80
MinDelta == 8

Modes == {"configured", "auto", "suggest", "off"}
(* "other" stands for the labels that encoding_rs knows and detection does *)
(* not score, "unknown" for the ones that neither does.                    *)
Configurable == {"utf-8", "shift_jis", "cp932", "other", "unknown", ""}

VARIABLES det_pc,   \* "idle", "started", "exported" or "decoded"
          sample,   \* the sample that was read
          report,   \* ContentDetectionReport of the start
          live,     \* label of the decoder of the pipeline
          meta,     \* label in meta.toml
          exported, \* label an exporter decoded with, none having been asked for
          record    \* a decoded record: [rules, found, own, tags]

det_vars == <<det_pc, sample, report, live, meta, exported, record>>

-----------------------------------------------------------------------------
(* codec::decode on a sample.  Malformed input leaves replacement          *)
(* characters; only UTF-8 text can hold one of its own.                    *)
Outcomes == {o \in [errors : BOOLEAN, replaced : Malformed, control : Controls,
                    japanese : BOOLEAN] : o.errors => o.replaced > 0}
Legacy == {o \in Outcomes : o.errors = (o.replaced > 0)}

Sample(u, j, e, i, cp932, bom, nul, escape) ==
  [out |-> ("utf-8" :> u) @@ ("shift_jis" :> j) @@ ("cp932" :> IF cp932 THEN j ELSE u)
           @@ ("euc-jp" :> e) @@ ("iso-2022-jp" :> i),
   cp932 |-> cp932, bom |-> bom, nul |-> nul, escape |-> escape, empty |-> FALSE]

(* NUL and ESC are control characters to all but ISO-2022-JP, which takes  *)
(* its escapes away, and is ASCII without them: every label reads it alike. *)
Possible(s) ==
  /\ s.nul => \A l \in Supported : s.out[l].control > 0
  /\ s.escape => \A l \in Supported \ {"iso-2022-jp"} : s.out[l].control > 0
  /\ ~s.escape /\ ~s.bom =>
       /\ ~s.out["iso-2022-jp"].japanese
       /\ s.out["iso-2022-jp"].errors
          \/ \A l \in Supported : s.out[l] = s.out["iso-2022-jp"]

EmptySample ==
  LET o == [errors |-> FALSE, replaced |-> 0, control |-> 0, japanese |-> FALSE]
  IN [Sample(o, o, o, o, TRUE, FALSE, FALSE, FALSE) EXCEPT !.empty = TRUE]

Samples ==
  {EmptySample}
  \cup {s \in {Sample(u, u, u, u, c, TRUE, n, x) : u \in Outcomes, c, n, x \in BOOLEAN} :
          Possible(s)}
  \cup {s \in {Sample(u, j, e, i, c, FALSE, n, x) :
                 u \in Outcomes, j, e, i \in Legacy, c, n, x \in BOOLEAN} : Possible(s)}

Codec(s, label) ==
  IF label \in {"unknown", ""} \/ (label = "cp932" /\ ~s.cp932) THEN "utf-8"
  ELSE IF label = "cp932" THEN "shift_jis" ELSE label

-----------------------------------------------------------------------------
(* Confidence is a u8: additions are capped at 100, subtractions stop at 0. *)
AtMost(n, cap) == IF n > cap THEN cap ELSE n
AtLeast(n, floor) == IF n < floor THEN floor ELSE n
Plus(a, b) == AtMost(a + b, 100)
Minus(a, b) == AtLeast(a - b, 0)

text_confidence(s, o) ==
  LET printable == (Minus(Chars, o.replaced + o.control) * 100) \div Chars
      clean == Plus(IF o.errors THEN 28 ELSE 68, printable \div 4)
      whole == Minus(Minus(clean, AtMost(o.replaced, 5) * 8), AtMost(o.control, 8) * 4)
  IN IF s.nul THEN AtMost(whole, 25) ELSE whole

score_encoding(s, label) ==
  LET o == s.out[label]
      text == text_confidence(s, o)
      marked == IF label = "utf-8" /\ s.bom THEN AtLeast(text, 100)
                ELSE IF label = "iso-2022-jp" /\ s.escape THEN AtLeast(text, 95)
                ELSE text
      valid == IF label = "utf-8" /\ ~o.errors THEN Plus(marked, 4) ELSE marked
  IN IF s.empty THEN 0 ELSE IF o.japanese THEN Plus(valid, 4) ELSE valid

label_rank(label) == CHOOSE i \in DOMAIN SUPPORTED_TEXT_ENCODINGS :
                       SUPPORTED_TEXT_ENCODINGS[i] = label
encoding_family(label) == IF label = "cp932" THEN "shift_jis" ELSE label

(* The candidates, best first. *)
detect_encodings(s) ==
  LET score == [l \in Supported |-> score_encoding(s, l)]
  IN SortSeq([i \in DOMAIN SUPPORTED_TEXT_ENCODINGS |->
                [label |-> SUPPORTED_TEXT_ENCODINGS[i],
                 confidence |-> score[SUPPORTED_TEXT_ENCODINGS[i]]]],
             LAMBDA a, b : \/ a.confidence > b.confidence
                           \/ a.confidence = b.confidence
                              /\ label_rank(a.label) < label_rank(b.label))

canonical_encoding_label(label) == IF label \in Supported THEN label ELSE "utf-8"

(* Mutant of Rivals: every other candidate. *)
AnyRival(candidates) == Tail(candidates)

(* Candidates after the best that are not of its family. *)
Rivals(candidates) ==
  SelectSeq(Tail(candidates), LAMBDA c :
    encoding_family(c.label) # encoding_family(Head(candidates).label))

effective_encoding(mode, configured, candidates) ==
  LET best == Head(candidates)
      rivals == Rivals(candidates)
      second == IF rivals = <<>> THEN 0 ELSE Head(rivals).confidence
  IN IF /\ mode = "auto"
        /\ best.confidence >= MinConfidence
        /\ Minus(best.confidence, second) >= MinDelta
     THEN best.label ELSE configured

sampled_encoding(mode, configured, candidates) ==
  IF mode # "configured" /\ Head(candidates).confidence >= MinConfidence
  THEN Head(candidates).label ELSE configured

NoReport == [mode |-> "none", configured |-> "", effective |-> "", sampled |-> "",
             candidates |-> <<>>]

detect_content(mode, label, s) ==
  LET configured == canonical_encoding_label(label)
      candidates == detect_encodings(s)
  IN [mode |-> mode, configured |-> configured,
      effective |-> effective_encoding(mode, configured, candidates),
      sampled |-> sampled_encoding(mode, configured, candidates),
      candidates |-> candidates]

-----------------------------------------------------------------------------
(* start_default_pipeline: only auto and suggest read a sample. *)
StartPipeline(mode, label, s) ==
  LET r == IF mode \in {"auto", "suggest"} THEN detect_content(mode, label, s) ELSE NoReport
      encoding == IF r = NoReport THEN label ELSE r.effective
  IN /\ det_pc' = "started" /\ sample' = s /\ report' = r
     /\ live' = encoding /\ meta' = encoding
     /\ UNCHANGED <<exported, record>>

(* resolve_text_encoding with no encoding requested: meta.toml has it in   *)
(* the label of the decoder, where an empty one counts as none.            *)
ResolveText ==
  /\ det_pc = "started"
  /\ det_pc' = "exported"
  /\ exported' = IF meta = "" THEN "utf-8" ELSE meta
  /\ UNCHANGED <<sample, report, live, meta, record>>

-----------------------------------------------------------------------------
(* Classification.  A rule has a tag, and is live when its pattern is not  *)
(* empty and compiles; found[i] is how often rule i matches the text.      *)
RuleLists == [1..Rules -> [tag : RecordTags, live : BOOLEAN]]
Founds == [1..Rules -> Matches]

matches_for_text(rules, found) ==
  SelectSeq([i \in 1..Rules |-> i], LAMBDA i : rules[i].live /\ found[i] > 0)

(* The loop over matches or tags, with its set of the ones seen. *)
AddUnseen(tags, more) ==
  FoldLeft(LAMBDA out, t : IF t \in ToSet(out) THEN out ELSE Append(out, t), tags, more)

tags_for_text(rules, found) ==
  LET hits == matches_for_text(rules, found)
  IN AddUnseen(<<>>, [i \in DOMAIN hits |-> rules[hits[i]].tag])

(* What the decoders make of a frame: nothing, or a record with or without *)
(* text and with tags of its own.                                          *)
Nothing == [some |-> FALSE, text |-> FALSE, tags |-> <<>>]
Decoded(text, tags) == [some |-> TRUE, text |-> text, tags |-> tags]

PassthroughDecoder == {Nothing, Decoded(TRUE, <<>>)}
Utf8TextDecoder == {Nothing, Decoded(TRUE, <<>>), Decoded(TRUE, <<"decode_error">>)}
NmeaDecoder == {Nothing, Decoded(TRUE, <<>>), Decoded(TRUE, <<"checksum_mismatch">>),
                Decoded(TRUE, <<"not_nmea">>)}
JsonLinesDecoder ==
  {Nothing, Decoded(FALSE, <<>>), Decoded(TRUE, <<"json_parse_error">>)}
  \cup {Decoded(text, tags) : text \in BOOLEAN, tags \in BoundedSeq(RecordTags, 2)}
Decoders == PassthroughDecoder \cup Utf8TextDecoder \cup NmeaDecoder \cup JsonLinesDecoder

ClassifyTags(own, rules, found) == AddUnseen(own.tags, tags_for_text(rules, found))

(* ClassifyingDecoder::decode. *)
Decode(own, rules, found) ==
  /\ own.some
  /\ det_pc' = "decoded"
  /\ record' = [rules |-> rules, found |-> found, own |-> own,
                tags |-> IF own.text THEN ClassifyTags(own, rules, found) ELSE own.tags]
  /\ UNCHANGED <<sample, report, live, meta, exported>>

NoRecord == [rules |-> <<>>, found |-> <<>>, own |-> Nothing, tags |-> <<>>]

DetInit ==
  /\ det_pc = "idle" /\ sample = EmptySample /\ report = NoReport
  /\ live = "" /\ meta = "" /\ exported = "" /\ record = NoRecord

DetNext ==
  \/ /\ det_pc = "idle"
     /\ \/ \E mode \in {"auto", "suggest"}, label \in Configurable, s \in Samples :
             StartPipeline(mode, label, s)
        \/ \E mode \in Modes \ {"auto", "suggest"}, label \in Configurable :
             StartPipeline(mode, label, EmptySample)
        \/ \E own \in Decoders, rules \in RuleLists, found \in Founds :
             Decode(own, rules, found)
  \/ ResolveText

-----------------------------------------------------------------------------
(* A candidate stands out when it reaches the confidence asked for and     *)
(* leaves every candidate of another family that far behind.               *)
StandsOut(c, all) ==
  /\ c.confidence >= MinConfidence
  /\ \A d \in all : \/ encoding_family(d.label) = encoding_family(c.label)
                    \/ d.confidence + MinDelta <= c.confidence

(* A tag is on the record once if the record did not have it, and the      *)
(* order of such tags is that of the first rules that gave them.           *)
TagsInRuleOrder(r) ==
  LET added == SubSeq(r.tags, Len(r.own.tags) + 1, Len(r.tags))
      hit == {i \in 1..Rules : r.own.text /\ r.rules[i].live /\ r.found[i] > 0}
      First(t) == CHOOSE i \in hit : r.rules[i].tag = t
                                     /\ \A j \in hit : r.rules[j].tag = t => i <= j
  IN /\ IsPrefix(r.own.tags, r.tags)
     /\ ToSet(added) = {r.rules[i].tag : i \in hit} \ ToSet(r.own.tags)
     /\ \A a, b \in DOMAIN added : a < b => First(added[a]) < First(added[b])

(* Detection in auto applies an encoding that stands out if there is one,  *)
(* and none otherwise; one under which the sample was malformed or had NUL *)
(* bytes only for its byte order mark or escape; no other mode applies     *)
(* one; the rules are tried on the text as it is then decoded.  Exporters  *)
(* read what was logged as the pipeline did.  Rules add their tags to a    *)
(* record in their order, none twice.                                      *)
DetectionSound ==
  /\ det_pc = "started" /\ report # NoReport =>
       LET all == ToSet(report.candidates)
           best == {c \in all : report.mode = "auto" /\ StandsOut(c, all)}
           applied == report.effective
       IN /\ \A c \in all : c.confidence \in 0..100
          /\ best = {} => applied = report.configured
          /\ best # {} =>
               /\ \E c \in best : c.label = applied
                                  /\ \A d \in best : d.confidence <= c.confidence
               /\ report.sampled = applied
               /\ \/ ~sample.out[applied].errors /\ ~sample.nul
                  \/ applied = "utf-8" /\ sample.bom
                  \/ applied = "iso-2022-jp" /\ sample.escape
  /\ det_pc = "exported" => Codec(sample, exported) = Codec(sample, live)
  /\ det_pc = "decoded" => TagsInRuleOrder(record)
=============================================================================
