------------------------------- MODULE Display -------------------------------
(***************************************************************************)
(* What the browser's panels show (TerminalPanel.tsx, TileGridPanel.tsx)   *)
(* of the frames kept per channel (channelBuffers.ts).  A frame is drawn   *)
(* when it arrives; above the limit of records, and when a filter, an      *)
(* encoding, a setting or the choice of source changes, the panel is drawn *)
(* again from the buffer.                                                  *)
(*                                                                         *)
(* One terminal follows the selection; a source has one channel.  Of the   *)
(* filters the tag query stands for both that are typed, of the settings   *)
(* the limit of records for all that lead to a redraw.  The effects of the *)
(* panels run at the end of the handler that changed what they read.       *)
(***************************************************************************)
EXTENDS Naturals, Sequences, SequencesExt

CONSTANTS ShownSids,     \* the sids of the sources
          Encodings_,    \* encodings, one of them sourceStartOptions.encoding
          StartEncoding,
          Limits,        \* values of terminalMaxRecords
          TileLimit,     \* tileMaxRecords
          TILE_COUNT,
          MaxShown,      \* bound: frames received
          MaxChanges     \* bound: encodings set

ASSUME DisplayAssumption ==
  /\ StartEncoding \in Encodings_ /\ Limits \subseteq Nat \ {0} /\ Limits # {}
  /\ TileLimit \in Nat \ {0} /\ TILE_COUNT \in Nat

VARIABLES shown,     \* what the panels read: sources, buffers, settings, filters
          terminal,  \* the terminal: source, listener, records drawn, their count
          tiles      \* per source the records its tile shows
display_vars == <<shown, terminal, tiles>>

Unset == "unset"
NoSid == "no sid"
AnyTag == "any"
Tags == {"x", "y"}

LastOf(s, n) == SubSeq(s, IF Len(s) > n THEN Len(s) - n + 1 ELSE 1, Len(s))
Active(p, s) == s \in Range(p.sources)

-----------------------------------------------------------------------------
encodingForChannel(p, s) ==
  LET given == SelectSeq(<<p.channel[s], p.source[s], p.listed[s], StartEncoding>>,
                         LAMBDA e : e # Unset)
  IN  given[1]

Drawn(p, f) == [frame |-> f, encoding |-> encodingForChannel(p, f.sid)]
payloadMatchesFilter(p, f) == p.query \in {AnyTag, f.tag}

(* What redrawFromBuffer draws, in the terminal and in a tile. *)
TerminalView(p, s) ==
  LET frames_ == SelectSeq(LastOf(p.buffer[s], p.limit),
                           LAMBDA f : payloadMatchesFilter(p, f))
  IN  [k \in DOMAIN frames_ |-> Drawn(p, frames_[k])]

TileView(p, s) ==
  LET frames_ == LastOf(p.buffer[s], TileLimit)
  IN  [k \in DOMAIN frames_ |-> Drawn(p, frames_[k])]

redrawFromBuffer(p, t) ==
  IF Active(p, t.sid)
  THEN [t EXCEPT !.screen = TerminalView(p, t.sid), !.count = Len(TerminalView(p, t.sid))]
  ELSE t

renderFrame(p, t, f) ==
  IF ~payloadMatchesFilter(p, f) THEN t
  ELSE IF t.count + 1 > p.limit THEN redrawFromBuffer(p, [t EXCEPT !.count = @ + 1])
  ELSE [t EXCEPT !.count = @ + 1, !.screen = Append(@, Drawn(p, f))]

deriveBindings(p) == Range(SubSeq(p.sources, 1,
  IF Len(p.sources) < TILE_COUNT THEN Len(p.sources) ELSE TILE_COUNT))

(* A tile that counts to its limit draws its buffer, in which f is last. *)
renderTile(p, screen, f) ==
  IF Len(screen) + 1 > TileLimit THEN TileView(p, f.sid) ELSE Append(screen, Drawn(p, f))

-----------------------------------------------------------------------------
(* A source that is gone is replaced by the first one there is; a terminal *)
(* bound to another source listens to it and is drawn.                     *)
Bound(p, t, sid) ==
  LET next == IF Active(p, sid) \/ p.sources = <<>> THEN sid ELSE p.sources[1]
  IN  IF next = t.sid THEN t
      ELSE redrawFromBuffer(p, [t EXCEPT !.sid = next,
                                         !.sub = IF Active(p, next) THEN next ELSE NoSid])

(* What the redraw effect reads. *)
RedrawKey(p, s) ==
  <<Active(p, s), p.query, p.limit, p.clears,
    IF s = NoSid THEN Unset ELSE encodingForChannel(p, s)>>

TileKey(p, s) == <<p.clears, p.paused, encodingForChannel(p, s)>>

(* The page becomes p, the handler having drawn t and ts.  The tiles are   *)
(* mounted anew when the list of sources changes; paused ones stay as they *)
(* are.                                                                    *)
Effects(p, t, ts, sid) ==
  LET b == Bound(p, t, sid)
  IN  /\ shown' = p
      /\ terminal' = IF RedrawKey(p, b.sid) # RedrawKey(shown, b.sid)
                     THEN redrawFromBuffer(p, b) ELSE b
      /\ tiles' = [s \in ShownSids |->
           IF s \notin deriveBindings(p) THEN <<>>
           ELSE IF \/ p.sources # shown.sources
                   \/ ~p.paused /\ TileKey(p, s) # TileKey(shown, s)
                THEN TileView(p, s)
           ELSE ts[s]]

-----------------------------------------------------------------------------
DisplayInit ==
  /\ \E l \in Limits :
       shown = [sources |-> <<>>, buffer |-> [s \in ShownSids |-> <<>>],
                listed |-> [s \in ShownSids |-> Unset],
                source |-> [s \in ShownSids |-> Unset],
                channel |-> [s \in ShownSids |-> Unset],
                query |-> AnyTag, typed |-> AnyTag, limit |-> l, paused |-> FALSE,
                clears |-> 0, received |-> 0, changes |-> 0]
  /\ terminal = [sid |-> NoSid, sub |-> NoSid, screen |-> <<>>, count |-> 0]
  /\ tiles = [s \in ShownSids |-> <<>>]

BufferCap == IF shown.limit > TileLimit THEN shown.limit ELSE TileLimit
Buffered(f) == [shown EXCEPT !.buffer[f.sid] = LastOf(Append(@, f), BufferCap),
                             !.received = @ + 1]
WithSource(p, s) == IF Active(p, s) THEN p ELSE [p EXCEPT !.sources = Append(@, s)]
ToTile(p, f) ==
  IF f.sid \in deriveBindings(shown) /\ ~shown.paused
  THEN [tiles EXCEPT ![f.sid] = renderTile(p, @, f)] ELSE tiles

(* Mutant of HandleData: the listeners are called before the append. *)
HandleDataFirst(s, tag) ==
  LET f == [sid |-> s, tag |-> tag, n |-> shown.received]
  IN  /\ shown.received < MaxShown
      /\ Effects(WithSource(Buffered(f), s),
                 IF terminal.sub = s THEN renderFrame(shown, terminal, f) ELSE terminal,
                 ToTile(shown, f), terminal.sid)

(* A data frame: into the buffer, to the listeners, and then the source is *)
(* put into the table if it is not there.                                  *)
HandleData(s, tag) ==
  LET f == [sid |-> s, tag |-> tag, n |-> shown.received]
      p == Buffered(f)
  IN  /\ shown.received < MaxShown
      /\ Effects(WithSource(p, s),
                 IF terminal.sub = s THEN renderFrame(p, terminal, f) ELSE terminal,
                 ToTile(p, f), terminal.sid)

Changed == [shown EXCEPT !.changes = @ + 1]

(* syncSources: a list with or without s, with or without an encoding. *)
SyncSource(s, e) ==
  LET p == IF e = Unset THEN shown ELSE [Changed EXCEPT !.listed[s] = e]
  IN  /\ e # Unset => shown.changes < MaxChanges
      /\ Effects(WithSource(p, s), terminal, tiles, terminal.sid)

RemoveSource(s) ==
  /\ Active(shown, s)
  /\ Effects([shown EXCEPT !.sources = SelectSeq(@, LAMBDA x : x # s),
                           !.buffer[s] = <<>>, !.listed[s] = Unset],
             terminal, tiles, terminal.sid)

selectTerminalChannel(s) ==
  Active(shown, s) /\ Effects(shown, terminal, tiles, s)

(* Typing is taken over when the debounce timer goes off; the log type     *)
(* selection is taken over at once.                                        *)
TypeFilter(q) == Effects([shown EXCEPT !.typed = q], terminal, tiles, terminal.sid)
DebounceEnds == Effects([shown EXCEPT !.query = shown.typed], terminal, tiles, terminal.sid)
applyLogTypeSelection(q) ==
  Effects([shown EXCEPT !.typed = q, !.query = q], terminal, tiles, terminal.sid)

SetLimit(l) == Effects([shown EXCEPT !.limit = l], terminal, tiles, terminal.sid)
PauseTiles(b) == Effects([shown EXCEPT !.paused = b], terminal, tiles, terminal.sid)

(* An override that equals what is inherited is deleted. *)
Override(e, inherited) == IF e = inherited THEN Unset ELSE e

updateSourceEncoding(s, e) ==
  LET inherited == IF shown.listed[s] # Unset THEN shown.listed[s] ELSE StartEncoding
  IN  /\ Active(shown, s) /\ shown.changes < MaxChanges
      /\ Effects([Changed EXCEPT !.source[s] = Override(e, inherited)],
                 terminal, tiles, terminal.sid)

updateTerminalEncoding(e) ==
  LET s == terminal.sid
      inherited == encodingForChannel([shown EXCEPT !.channel[s] = Unset], s)
  IN  /\ Active(shown, s) /\ e # encodingForChannel(shown, s)
      /\ shown.changes < MaxChanges
      /\ Effects([Changed EXCEPT !.channel[s] = Override(e, inherited)],
                 terminal, tiles, terminal.sid)

clearClientDisplay ==
  Effects([shown EXCEPT !.buffer = [s \in ShownSids |-> <<>>], !.clears = 1 - @],
          [terminal EXCEPT !.screen = <<>>, !.count = 0], tiles, terminal.sid)

(* The panel is closed and opened again: it listens only to a source that  *)
(* is in the table then.                                                   *)
Mount ==
  /\ terminal' = redrawFromBuffer(shown, [terminal EXCEPT
       !.sub = IF Active(shown, terminal.sid) THEN terminal.sid ELSE NoSid,
       !.screen = <<>>, !.count = 0])
  /\ UNCHANGED <<shown, tiles>>

DisplayNext ==
  \/ \E s \in ShownSids :
       \/ \E tag \in Tags : HandleData(s, tag)
       \/ \E e \in Encodings_ \cup {Unset} : SyncSource(s, e)
       \/ RemoveSource(s) \/ selectTerminalChannel(s)
       \/ \E e \in Encodings_ : updateSourceEncoding(s, e)
  \/ \E e \in Encodings_ : updateTerminalEncoding(e)
  \/ \E q \in {AnyTag, "x"} : TypeFilter(q) \/ applyLogTypeSelection(q)
  \/ DebounceEnds \/ clearClientDisplay \/ Mount
  \/ \E l \in Limits : SetLimit(l)
  \/ \E b \in BOOLEAN : PauseTiles(b)

-----------------------------------------------------------------------------
(* What a panel shows ends with what drawing its buffer anew would show,   *)
(* every record once, in order and in the encoding that is set now,        *)
(* whatever the order of frames, limits, filters, redraws and changes of   *)
(* source; and a terminal never shows the records of another source        *)
(* (TerminalPanel's renderFrame and redrawFromBuffer; tiles unless paused).*)
PanelsShowBuffers ==
  /\ terminal.sub = terminal.sid /\ Active(shown, terminal.sid) =>
       /\ IsSuffix(TerminalView(shown, terminal.sid), terminal.screen)
       /\ Len(terminal.screen) <= shown.limit
       /\ \A k \in DOMAIN terminal.screen : terminal.screen[k].frame.sid = terminal.sid
  /\ ~shown.paused =>
       \A s \in deriveBindings(shown) : IsSuffix(TileView(shown, s), tiles[s])
=============================================================================
