---------------------------- MODULE ServerProofs ----------------------------
(***************************************************************************)
(* What lasts while a server runs and what it keeps for its clients, for   *)
(* any number of connections, sources, certificates, notes, browsers,      *)
(* requests and tickets, with kills anywhere: a source keeps its options   *)
(* and its directory; a pinned certificate is never replaced; the          *)
(* annotation store, the notes of the browsers that share it, and the      *)
(* exports behind their one-use tickets.                                   *)
(***************************************************************************)
EXTENDS Control, Identity, AnnotationStore, NoteSync, Export, TLAPS

(* Most leaves need no arithmetic and are quick for Zenon; SMT takes the others. *)
USE ZenonT(1), SMTT(30), Zenon

-----------------------------------------------------------------------------
(* The sources and the requests about them. *)
DirNames == {Nowhere} \cup (Sids \X Patterns)
Entries == [known : BOOLEAN, opts : StartOptions, dir : DirNames,
            task : {"none", "live", "ended"}]
ControlRequests == [pc : {"idle", "open", "answered"}, act : Actions, sid : Sids \cup {NotSet},
             ov : StartOptions, opts : StartOptions, dir : DirNames,
             code : {"none", "ok", "E-2001", "typed", "E-1101"}, touched : BOOLEAN]

CtlTypeOK ==
  /\ entry \in [Sids -> Entries] /\ request \in [Conns -> ControlRequests]
  /\ want \in [Sids -> StartOptions] /\ home \in [Sids -> DirNames]
  /\ clean \subseteq Sids
  /\ \A c \in Conns : request[c].pc = "open" => request[c].sid \in Sids

Opens(c, s) == request[c].pc = "open" /\ request[c].sid = s
OneOpens(s) == \A c, d \in Conns : Opens(c, s) /\ Opens(d, s) => c = d

(* The options that are stored, and those that an open request is about to *)
(* store; without overlap there is only one of these.                      *)
OptionsInv ==
  \A s \in clean :
    /\ entry[s].known => entry[s].opts = want[s]
    /\ OneOpens(s)
    /\ \A c \in Conns :
         Opens(c, s) => request[c].opts = merge_start_options(want[s], request[c].ov)

(* The directory of the source is the one that every open request has;     *)
(* only a start can be under way while there is none.                      *)
DirInv ==
  \A s \in Sids :
    /\ entry[s].known => entry[s].dir = home[s] /\ home[s] # Nowhere
    /\ \A c \in Conns :
         Opens(c, s) => /\ request[c].dir # Nowhere
                        /\ home[s] # Nowhere => request[c].dir = home[s]
    /\ home[s] = Nowhere => want[s] = NoOptions /\ OneOpens(s)

CtlInv == CtlTypeOK /\ OptionsInv /\ DirInv /\ RefusedUntouched

(* No source is known, no request was made. *)
LEMMA CtlStarts == CtlInit => CtlInv
<1> SUFFICES ASSUME CtlInit PROVE CtlInv
  OBVIOUS
<1>1. NoEntry \in Entries /\ NoRequest \in ControlRequests /\ NoOptions \in StartOptions
  BY DEF NoEntry, NoRequest, NoOptions, Entries, ControlRequests, StartOptions, DirNames, Actions
<1>2. \A s \in Sids : ~ entry[s].known
  BY DEF CtlInit, NoEntry
<1>3. \A c \in Conns : request[c] = NoRequest
  BY DEF CtlInit
<1>4. \A c \in Conns : request[c].pc # "open" /\ request[c].code # "E-2001"
  <2>1. NoRequest.pc = "idle" /\ NoRequest.code = "none"
    BY DEF NoRequest
  <2> QED
    BY <1>3, <2>1
<1>5. CtlTypeOK
  BY <1>1, <1>4 DEF CtlInit, CtlTypeOK, DirNames
<1> QED
  BY <1>2, <1>4, <1>5 DEF CtlInit, CtlInv, OptionsInv, DirInv, RefusedUntouched, OneOpens, Opens

(* A directory's name is chosen, and it is one. *)
LEMMA DirChosen ==
  ASSUME NEW s \in Sids, NEW reuse \in DirNames, NEW opts \in StartOptions
  PROVE  /\ session_dir_for(s, reuse, opts) \in DirNames \ {Nowhere}
         /\ reuse # Nowhere => session_dir_for(s, reuse, opts) = reuse
<1>1. DefaultPattern \in Patterns
  BY ControlAssumption DEF DefaultPattern
<1>2. Or(opts.pat, DefaultPattern) \in Patterns
  BY <1>1 DEF Or, StartOptions
<1>3. session_dir_name(s, Or(opts.pat, DefaultPattern)) \in Sids \X Patterns
  BY <1>2 DEF session_dir_name
<1>4. \A p \in Sids \X Patterns : p # Nowhere
  BY DEF Nowhere
<1> QED
  BY <1>3, <1>4 DEF session_dir_for, DirNames

(* Options that override nothing, or that nothing was there to override.   *)
LEMMA OptionsMerged ==
  ASSUME NEW o \in StartOptions, NEW ov \in StartOptions
  PROVE  /\ merge_start_options(o, NoOptions) = o
         /\ merge_start_options(NoOptions, o) = o
         /\ merge_start_options(o, ov) \in StartOptions
         /\ merge_start_options(o, ov) =
              [f \in DOMAIN o |-> IF ov[f] = NotSet THEN o[f] ELSE ov[f]]
<1>1. o = [enc |-> o.enc, pat |-> o.pat] /\ DOMAIN o = {"enc", "pat"}
  BY DEF StartOptions
<1>2. merge_start_options(o, ov) \in StartOptions
  BY DEF StartOptions, merge_start_options, Or
<1>3. merge_start_options(o, NoOptions) = o /\ merge_start_options(NoOptions, o) = o
  BY <1>1 DEF merge_start_options, Or, NoOptions
<1>4. merge_start_options(o, ov) =
        [f \in DOMAIN o |-> IF ov[f] = NotSet THEN o[f] ELSE ov[f]]
  BY <1>1 DEF merge_start_options, Or, StartOptions
<1> QED
  BY <1>2, <1>3, <1>4

(* The entries may lose a source, and its task, but no option or directory *)
(* of one that stays.                                                      *)
Lasting ==
  /\ entry' \in [Sids -> Entries]
  /\ \A s \in Sids : entry'[s].known =>
       entry[s].known /\ entry'[s].opts = entry[s].opts /\ entry'[s].dir = entry[s].dir

(* A request is answered at once. *)
LEMMA ReplyStep ==
  ASSUME CtlInv, Lasting, UNCHANGED <<want, home>>, NEW c \in Conns, NEW act \in Actions,
         NEW s \in Sids, NEW code \in {"ok", "E-2001"}, NEW touched \in BOOLEAN,
         code = "E-2001" => ~ touched, Reply(c, act, s, code, touched)
  PROVE  CtlInv'
<1> DEFINE r == [NoRequest EXCEPT !.pc = "answered", !.act = act, !.sid = s,
                                  !.code = code, !.touched = touched]
<1>1. request' = [request EXCEPT ![c] = r] /\ clean' \subseteq clean
  BY DEF Reply
<1>2. r \in ControlRequests /\ r.pc # "open" /\ (r.code = "E-2001" => ~ r.touched)
  BY Zenon DEF NoRequest, ControlRequests, NoOptions, StartOptions, DirNames
<1> HIDE DEF r
<1>3. request \in [Conns -> ControlRequests]
  BY DEF CtlInv, CtlTypeOK
<1>4. request'[c] = r /\ \A d \in Conns \ {c} : request'[d] = request[d]
  BY <1>1, <1>3
<1>5. CtlTypeOK'
  BY <1>1, <1>2, <1>3, <1>4 DEF CtlInv, CtlTypeOK, Lasting
<1>6. \A d \in Conns, t \in Sids : Opens(d, t)' => Opens(d, t) /\ request'[d] = request[d]
  BY <1>2, <1>4 DEF Opens
<1>7. \A t \in Sids : OneOpens(t) => OneOpens(t)'
  BY <1>6 DEF OneOpens
<1>8. clean \subseteq Sids
  BY DEF CtlInv, CtlTypeOK
<1>9. OptionsInv'
  BY <1>1, <1>6, <1>7, <1>8 DEF CtlInv, OptionsInv, Lasting
<1>10. DirInv'
  BY <1>6, <1>7 DEF CtlInv, DirInv, Lasting
<1>11. RefusedUntouched'
  BY <1>2, <1>4 DEF CtlInv, RefusedUntouched
<1> QED
  BY <1>5, <1>9, <1>10, <1>11 DEF CtlInv

(* A request goes on to open the device: with the options of the source as *)
(* overridden, in its directory or, for a start, in a new one.             *)
LEMMA BeginStep ==
  ASSUME CtlInv, Lasting, UNCHANGED <<want, home>>, NEW c \in Conns, NEW act \in Actions,
         NEW s \in Sids, NEW ov \in StartOptions, NEW opts \in StartOptions,
         NEW dir \in DirNames, NEW touched \in BOOLEAN,
         s \in clean => opts = merge_start_options(want[s], ov),
         dir = home[s], home[s] = Nowhere => ~ Pending(s),
         Begin(c, act, s, ov, opts, dir, touched)
  PROVE  CtlInv'
<1> DEFINE d0 == session_dir_for(s, dir, opts)
           r == [pc |-> "open", act |-> act, sid |-> s, ov |-> ov, opts |-> opts,
                 dir |-> d0, code |-> "none", touched |-> touched]
<1>1. request' = [request EXCEPT ![c] = r] /\ clean' = IF Pending(s) THEN clean \ {s} ELSE clean
  BY DEF Begin
<1>2. d0 \in DirNames \ {Nowhere} /\ (home[s] # Nowhere => d0 = home[s])
  BY DirChosen
<1> HIDE DEF d0
<1>3. /\ r \in ControlRequests /\ r.sid = s /\ r.code # "E-2001" /\ r.dir = d0
      /\ r.opts = opts /\ r.ov = ov
  BY <1>2 DEF ControlRequests
<1> HIDE DEF r
<1>4. request \in [Conns -> ControlRequests] /\ request[c].pc # "open"
  BY DEF CtlInv, CtlTypeOK, Begin
<1>5. request'[c] = r /\ \A d \in Conns \ {c} : request'[d] = request[d]
  BY <1>1, <1>4
<1>6. clean \subseteq Sids /\ clean' \subseteq clean /\ (s \in clean' => ~ Pending(s))
  BY <1>1 DEF CtlInv, CtlTypeOK
<1>7. CtlTypeOK'
  BY <1>1, <1>3, <1>4, <1>5, <1>6 DEF CtlInv, CtlTypeOK, Lasting
<1>8. \A d \in Conns, t \in Sids :
        Opens(d, t)' => \/ d # c /\ Opens(d, t) /\ request'[d] = request[d]
                        \/ d = c /\ t = s
  BY <1>3, <1>5 DEF Opens
<1>9. \A t \in Sids : OneOpens(t) /\ (t = s => ~ Pending(s)) => OneOpens(t)'
  BY <1>8 DEF OneOpens, Pending, Opens
<1>10. OptionsInv'
  <2> SUFFICES ASSUME NEW t \in clean'
               PROVE  /\ entry'[t].known => entry'[t].opts = want'[t]
                      /\ OneOpens(t)'
                      /\ \A d \in Conns : Opens(d, t)' =>
                           request'[d].opts = merge_start_options(want'[t], request'[d].ov)
    BY DEF OptionsInv
  <2>1. t \in clean /\ t \in Sids
    BY <1>6
  <2>2. entry'[t].known => entry'[t].opts = want'[t]
    BY <2>1 DEF CtlInv, OptionsInv, Lasting
  <2>3. OneOpens(t)'
    BY <1>6, <1>9, <2>1 DEF CtlInv, OptionsInv
  <2>4. ASSUME NEW d \in Conns, Opens(d, t)'
        PROVE  request'[d].opts = merge_start_options(want'[t], request'[d].ov)
    BY <1>3, <1>5, <1>8, <2>1, <2>4 DEF CtlInv, OptionsInv
  <2> QED
    BY <2>2, <2>3, <2>4
<1>11. DirInv'
  <2> SUFFICES ASSUME NEW t \in Sids
               PROVE  /\ entry'[t].known => entry'[t].dir = home'[t] /\ home'[t] # Nowhere
                      /\ \A d \in Conns : Opens(d, t)' =>
                           /\ request'[d].dir # Nowhere
                           /\ home'[t] # Nowhere => request'[d].dir = home'[t]
                      /\ home'[t] = Nowhere => want'[t] = NoOptions /\ OneOpens(t)'
    BY DEF DirInv
  <2>1. entry'[t].known => entry'[t].dir = home'[t] /\ home'[t] # Nowhere
    BY DEF CtlInv, DirInv, Lasting
  <2>2. ASSUME NEW d \in Conns, Opens(d, t)'
        PROVE  request'[d].dir # Nowhere /\ (home'[t] # Nowhere => request'[d].dir = home'[t])
    BY <1>2, <1>3, <1>5, <1>8, <2>2 DEF CtlInv, DirInv
  <2>3. home'[t] = Nowhere => want'[t] = NoOptions /\ OneOpens(t)'
    BY <1>9 DEF CtlInv, DirInv
  <2> QED
    BY <2>1, <2>2, <2>3
<1>12. RefusedUntouched'
  BY <1>3, <1>5 DEF CtlInv, RefusedUntouched
<1> QED
  BY <1>7, <1>10, <1>11, <1>12 DEF CtlInv

(* The device is open: the request's options and directory are stored.     *)
LEMMA OpenedStep ==
  ASSUME CtlInv, NEW c \in Conns, Opened(c)
  PROVE  CtlInv'
<1> DEFINE r == request[c]
           s == request[c].sid
           x == [r EXCEPT !.pc = "answered", !.code = "ok", !.touched = TRUE]
<1>0. /\ r \in ControlRequests /\ s \in Sids /\ r.ov \in StartOptions /\ r.opts \in StartOptions
      /\ r.dir \in DirNames /\ Opens(c, s) /\ request \in [Conns -> ControlRequests]
      /\ entry \in [Sids -> Entries] /\ home \in [Sids -> DirNames]
      /\ want \in [Sids -> StartOptions] /\ clean \subseteq Sids
  BY DEF CtlInv, CtlTypeOK, Opened, Opens, ControlRequests
<1>1. /\ entry' = [entry EXCEPT ![s] =
            [known |-> TRUE, opts |-> r.opts, dir |-> r.dir, task |-> "live"]]
      /\ want' = [want EXCEPT ![s] = merge_start_options(want[s], r.ov)]
      /\ home' = [home EXCEPT ![s] = IF home[s] = Nowhere THEN r.dir ELSE home[s]]
      /\ request' = [request EXCEPT ![c] = x] /\ clean' = clean
  <2>1. merge_start_options(want[s], r.ov) =
          [f \in DOMAIN want[s] |-> IF r.ov[f] = NotSet THEN want[s][f] ELSE r.ov[f]]
    BY <1>0, OptionsMerged
  <2> QED
    BY <1>0, <2>1, Zenon DEF Opened
<1>2. x \in ControlRequests /\ x.pc # "open" /\ x.code # "E-2001"
  BY <1>0, Zenon DEF ControlRequests
<1> HIDE DEF x
<1>3. request'[c] = x /\ \A d \in Conns \ {c} : request'[d] = request[d]
  BY <1>0, <1>1
<1>4. merge_start_options(want[s], r.ov) \in StartOptions
  BY <1>0, OptionsMerged
<1>5. entry'[s].opts = r.opts /\ entry'[s].dir = r.dir /\ entry'[s] \in Entries
  BY <1>0, <1>1 DEF Entries
<1>6. r.dir # Nowhere /\ (home[s] # Nowhere => r.dir = home[s])
  BY <1>0 DEF CtlInv, DirInv
<1>7. home'[s] = r.dir /\ want'[s] = merge_start_options(want[s], r.ov)
  BY <1>0, <1>1, <1>6
<1>8. \A t \in Sids \ {s} : entry'[t] = entry[t] /\ home'[t] = home[t] /\ want'[t] = want[t]
  BY <1>0, <1>1
<1> HIDE DEF r, s
<1>9. CtlTypeOK'
  BY <1>0, <1>1, <1>2, <1>3, <1>4, <1>5 DEF CtlInv, CtlTypeOK
<1>10. \A d \in Conns, t \in Sids :
         Opens(d, t)' => d # c /\ Opens(d, t) /\ request'[d] = request[d]
  BY <1>2, <1>3 DEF Opens
<1>11. \A t \in Sids : OneOpens(t) => OneOpens(t)'
  BY <1>10 DEF OneOpens
<1>12. OptionsInv'
  <2> SUFFICES ASSUME NEW t \in clean
               PROVE  /\ entry'[t].known => entry'[t].opts = want'[t]
                      /\ OneOpens(t)'
                      /\ \A d \in Conns : Opens(d, t)' =>
                           request'[d].opts = merge_start_options(want'[t], request'[d].ov)
    BY <1>1 DEF OptionsInv
  <2>1. t \in Sids /\ OneOpens(t)'
    BY <1>0, <1>11 DEF CtlInv, OptionsInv
  <2>2. CASE t = s
    <3>1. r.opts = merge_start_options(want[s], r.ov)
      BY <1>0, <2>2 DEF CtlInv, OptionsInv, r
    <3>2. \A d \in Conns : ~ Opens(d, t)'
      BY <1>0, <1>10, <2>1, <2>2 DEF CtlInv, OptionsInv, OneOpens
    <3> QED
      BY <1>5, <1>7, <2>1, <2>2, <3>1, <3>2
  <2>3. CASE t # s
    BY <1>8, <1>10, <2>1, <2>3 DEF CtlInv, OptionsInv
  <2> QED
    BY <2>2, <2>3
<1>13. DirInv'
  <2> SUFFICES ASSUME NEW t \in Sids
               PROVE  /\ entry'[t].known => entry'[t].dir = home'[t] /\ home'[t] # Nowhere
                      /\ \A d \in Conns : Opens(d, t)' =>
                           /\ request'[d].dir # Nowhere
                           /\ home'[t] # Nowhere => request'[d].dir = home'[t]
                      /\ home'[t] = Nowhere => want'[t] = NoOptions /\ OneOpens(t)'
    BY DEF DirInv
  <2>1. CASE t = s
    <3>1. ASSUME NEW d \in Conns, Opens(d, t)'
          PROVE  request'[d].dir # Nowhere /\ request'[d].dir = home'[t]
      <4>1. d # c /\ Opens(d, s) /\ request'[d] = request[d]
        BY <1>10, <2>1, <3>1
      <4>2. home[s] # Nowhere
        BY <1>0, <4>1 DEF CtlInv, DirInv, OneOpens
      <4> QED
        BY <1>0, <1>6, <1>7, <2>1, <4>1, <4>2 DEF CtlInv, DirInv
    <3> QED
      BY <1>5, <1>6, <1>7, <2>1, <3>1
  <2>2. CASE t # s
    BY <1>8, <1>10, <1>11, <2>2 DEF CtlInv, DirInv
  <2> QED
    BY <2>1, <2>2
<1>14. RefusedUntouched'
  BY <1>2, <1>3 DEF CtlInv, RefusedUntouched
<1> QED
  BY <1>9, <1>12, <1>13, <1>14 DEF CtlInv

(* The device does not open: only the answer changes. *)
LEMMA OpenFailedStep ==
  ASSUME CtlInv, NEW c \in Conns, OpenFailed(c)
  PROVE  CtlInv'
<1>0. request \in [Conns -> ControlRequests] /\ UNCHANGED <<entry, want, home, clean>>
  BY DEF CtlInv, CtlTypeOK, OpenFailed
<1>1. PICK source \in BOOLEAN :
        request' = [request EXCEPT ![c].pc = "answered", ![c].code = lifecycle_error_id(source)]
  BY Zenon DEF OpenFailed
<1>2. /\ request' \in [Conns -> ControlRequests] /\ request'[c].pc # "open"
      /\ request'[c].code # "E-2001" /\ \A d \in Conns \ {c} : request'[d] = request[d]
  BY <1>0, <1>1, Zenon DEF ControlRequests, lifecycle_error_id
<1>3. CtlTypeOK'
  BY <1>0, <1>2 DEF CtlInv, CtlTypeOK
<1>4. \A d \in Conns, t \in Sids : Opens(d, t)' => Opens(d, t) /\ request'[d] = request[d]
  BY <1>2 DEF Opens
<1>5. \A t \in Sids : OneOpens(t) => OneOpens(t)'
  BY <1>4 DEF OneOpens
<1>6. clean \subseteq Sids
  BY DEF CtlInv, CtlTypeOK
<1>7. OptionsInv' /\ DirInv' /\ RefusedUntouched'
  BY <1>0, <1>2, <1>4, <1>5, <1>6 DEF CtlInv, OptionsInv, DirInv, RefusedUntouched
<1> QED
  BY <1>3, <1>7 DEF CtlInv

(* Every request, every answer and the end of every task. *)
LEMMA CtlStep == CtlInv /\ [CtlNext]_ctl_vars => CtlInv'
<1> SUFFICES ASSUME CtlInv, [CtlNext]_ctl_vars PROVE CtlInv'
  OBVIOUS
<1>0. /\ entry \in [Sids -> Entries] /\ want \in [Sids -> StartOptions]
      /\ home \in [Sids -> DirNames] /\ clean \subseteq Sids
      /\ \A s \in Sids : /\ entry[s].known \in BOOLEAN /\ entry[s].opts \in StartOptions
                         /\ entry[s].dir \in DirNames
  BY DEF CtlInv, CtlTypeOK, Entries
<1>1. UNCHANGED entry => Lasting
  BY <1>0 DEF Lasting
<1>2. NoOptions \in StartOptions /\ Nowhere \in DirNames /\ NoEntry \in Entries /\ ~ NoEntry.known
  BY DEF NoOptions, StartOptions, DirNames, NoEntry, Entries
<1>3. \A s \in Sids : \A k \in {"none", "live", "ended"} :
        entry' = [entry EXCEPT ![s].task = k] => Lasting
  BY <1>0 DEF Lasting, Entries
<1>4. ASSUME NEW c \in Conns, NEW s \in Sids, NEW act \in Actions, CtlMalformed(c, act, s)
      PROVE  CtlInv'
  BY <1>1, <1>4, ReplyStep, Zenon DEF CtlMalformed
<1>5. ASSUME NEW c \in Conns, NEW s \in Sids, NEW o \in StartOptions, CtlStart(c, s, o)
      PROVE  CtlInv'
  <2>1. /\ Lasting /\ UNCHANGED <<want, home>> /\ Nowhere = home[s] /\ ~ Pending(s)
        /\ Begin(c, "start", s, o, o, Nowhere, FALSE)
    BY <1>1, <1>5, Zenon DEF CtlStart
  <2>2. o = merge_start_options(want[s], o)
    BY <1>2, <2>1, OptionsMerged DEF CtlInv, DirInv
  <2> QED
    BY <1>2, <2>1, <2>2, BeginStep, Zenon DEF Actions
<1>6. ASSUME NEW c \in Conns, NEW s \in Sids, CtlResume(c, s) PROVE CtlInv'
  <2>1. /\ UNCHANGED <<want, home>> /\ entry[s].known
        /\ Begin(c, "resume", s, NoOptions, entry[s].opts, entry[s].dir, FALSE)
    BY <1>6, Zenon DEF CtlResume
  <2>2. Lasting
    <3>1. entry' = [entry EXCEPT ![s] = Reaped(entry[s])]
      BY <1>6 DEF CtlResume
    <3>2. entry' = entry \/ entry' = [entry EXCEPT ![s].task = "none"]
      BY <1>0, <3>1, Zenon DEF Reaped
    <3> QED
      BY <1>1, <1>3, <3>2
  <2>3. entry[s].dir = home[s] /\ home[s] # Nowhere
    BY <2>1 DEF CtlInv, DirInv
  <2>4. s \in clean => entry[s].opts = merge_start_options(want[s], NoOptions)
    BY <1>0, <1>2, <2>1, OptionsMerged DEF CtlInv, OptionsInv
  <2> QED
    BY <1>0, <1>2, <2>1, <2>2, <2>3, <2>4, BeginStep, Zenon DEF Actions
<1>7. ASSUME NEW c \in Conns, NEW s \in Sids, CtlResumeRefused(c, s) PROVE CtlInv'
  BY <1>1, <1>7, ReplyStep, Zenon DEF CtlResumeRefused, Actions
<1>8. ASSUME NEW c \in Conns, NEW s \in Sids, NEW ov \in StartOptions, CtlRestart(c, s, ov)
      PROVE  CtlInv'
  <2> DEFINE opts == merge_start_options(entry[s].opts, ov)
             live == entry[s].task = "live"
  <2>1. /\ UNCHANGED <<want, home>> /\ entry[s].known /\ Lasting
        /\ Begin(c, "restart", s, ov, opts, entry[s].dir, live)
    BY <1>3, <1>8, Zenon DEF CtlRestart
  <2>2. opts \in StartOptions /\ live \in BOOLEAN
    BY <1>0, OptionsMerged
  <2>3. entry[s].dir = home[s] /\ home[s] # Nowhere
    BY <2>1 DEF CtlInv, DirInv
  <2>4. s \in clean => opts = merge_start_options(want[s], ov)
    BY <2>1 DEF CtlInv, OptionsInv
  <2> HIDE DEF opts, live
  <2> QED
    BY <1>0, <2>1, <2>2, <2>3, <2>4, BeginStep DEF Actions
<1>9. ASSUME NEW c \in Conns, NEW s \in Sids, CtlRestartRefused(c, s) PROVE CtlInv'
  BY <1>1, <1>9, ReplyStep, Zenon DEF CtlRestartRefused, Actions
<1>10. ASSUME NEW c \in Conns, NEW s \in Sids, CtlStop(c, s) PROVE CtlInv'
  <2> DEFINE active == entry[s].known /\ entry[s].task # "none"
             code == IF active THEN "ok" ELSE "E-2001"
  <2>1. /\ Lasting /\ UNCHANGED <<want, home>>
        /\ Reply(c, "stop", s, code, active)
    BY <1>3, <1>10, Zenon DEF CtlStop
  <2>2. active \in BOOLEAN /\ code \in {"ok", "E-2001"} /\ (code = "E-2001" => ~ active)
    BY <1>0
  <2> HIDE DEF active, code
  <2> QED
    BY <2>1, <2>2, ReplyStep DEF Actions
<1>11. ASSUME NEW c \in Conns, NEW s \in Sids, CtlRemove(c, s) PROVE CtlInv'
  <2>0. PICK found \in {entry[s].known, entry[s].known \/ Pending(s)} :
          Reply(c, "remove", s, IF found THEN "ok" ELSE "E-2001", found)
    BY <1>11, Zenon DEF CtlRemove
  <2> DEFINE code == IF found THEN "ok" ELSE "E-2001"
  <2>1. /\ UNCHANGED <<want, home>> /\ Reply(c, "remove", s, code, found)
        /\ entry' = [entry EXCEPT ![s] = NoEntry]
    BY <1>11, <2>0 DEF CtlRemove
  <2>2. Lasting
    BY <1>0, <1>2, <2>1 DEF Lasting
  <2>3. found \in BOOLEAN /\ code \in {"ok", "E-2001"} /\ (code = "E-2001" => ~ found)
    BY <1>0
  <2> HIDE DEF code
  <2> QED
    BY <2>1, <2>2, <2>3, ReplyStep DEF Actions
<1>12. ASSUME NEW c \in Conns, NEW s \in Sids, CtlList(c, s) PROVE CtlInv'
  BY <1>1, <1>12, ReplyStep, Zenon DEF CtlList, Actions
<1>13. ASSUME NEW s \in Sids, TaskEnds(s) PROVE CtlInv'
  <2>1. Lasting /\ UNCHANGED <<request, requests, want, home, clean>>
    BY <1>3, <1>13, Zenon DEF TaskEnds
  <2> QED
    BY <2>1 DEF CtlInv, CtlTypeOK, OptionsInv, DirInv, RefusedUntouched, OneOpens, Opens, Lasting
<1>14. CASE UNCHANGED ctl_vars
  BY <1>14 DEF ctl_vars, CtlInv, CtlTypeOK, OptionsInv, DirInv, RefusedUntouched, OneOpens, Opens
<1> QED
  BY <1>4, <1>5, <1>6, <1>7, <1>8, <1>9, <1>10, <1>11, <1>12, <1>13, <1>14,
     OpenedStep, OpenFailedStep DEF CtlNext

(* Options once stored stay until an answered request changes them, the    *)
(* directory of a source stays for as long as its sid, and a request that  *)
(* is answered with E-2001 has done nothing (SourceManager's start, resume *)
(* and restart, the control handlers of ws.rs), for any number of          *)
(* connections and sources.                                                *)
THEOREM SourcesKeepWhatTheyHave == CtlSpec => []LifecycleKeeps
<1>1. CtlInv => LifecycleKeeps
  BY DEF CtlInv, CtlTypeOK, OptionsInv, DirInv, LifecycleKeeps, StickyOptions, DirKept
<1> QED
  BY <1>1, CtlStarts, CtlStep, PTL DEF CtlSpec

-----------------------------------------------------------------------------
(* Who the server is. *)
(* What a file or a bundle may hold. *)
Made == Nat \ {0}
Saves == {"save cert", "fill cert", "save key", "fill key"}

Kept == store \in Made \/ pin_file \in Made

(* The variables have their types; saving and alarm are Booleans by how     *)
(* they are set.                                                           *)
IdTypeOK ==
  /\ certs \in Nat
  /\ cert_file \in Made \cup {NoFile, CutOff}
  /\ key_file \in Made \cup {NoFile, CutOff}
  /\ boot \in Saves \cup {"down", "parse", "listening"}
  /\ bundle \in [cert : Int, key : Int]
  /\ store \in Made \cup {Closed, NoPins}
  /\ pin_file \in Made \cup {NoFile, CutOff}

(* Where a start is, and what is on disk by then. *)
StartInv ==
  /\ boot \in Saves => bundle.cert \in Made /\ bundle.key = bundle.cert
  /\ boot \in {"save key", "fill key"} => cert_file = bundle.cert
  /\ boot \in {"parse", "listening"} =>
       /\ cert_file = bundle.cert /\ key_file = bundle.key
       /\ bundle.cert # NoFile /\ bundle.key # NoFile
  /\ boot = "listening" => bundle.cert \in Made /\ bundle.key = bundle.cert

(* A pin, in memory or on disk, is that of the certificate on disk, whose  *)
(* key is there too: no later start makes another one.                     *)
Backed == Kept => boot \notin Saves /\ cert_file \in Made /\ key_file = cert_file
StoreTrue == store \in Made => store = cert_file
FileTrue == pin_file \in Made => pin_file = cert_file
SavingTrue == saving => store \in Made
PinInv == Backed /\ StoreTrue /\ FileTrue /\ SavingTrue /\ ~ alarm

IdInv == IdTypeOK /\ StartInv /\ PinInv

(* The marks stand for no certificate, and differ from each other where    *)
(* one variable may hold both.                                             *)
LEMMA Marks ==
  /\ NoFile \notin Made /\ CutOff \notin Made /\ NoFile # CutOff
  /\ Closed \notin Made /\ NoPins \notin Made /\ Closed # NoPins
  /\ NoFile \in Int /\ CutOff \in Int /\ 0 \in Int /\ Made \subseteq Int
  BY DEF NoFile, CutOff, Closed, NoPins, Made

(* The next certificate is one. *)
LEMMA NextMade == ASSUME certs \in Nat PROVE certs + 1 \in Made /\ certs + 1 \in Nat
  BY DEF Made

(* The type is kept by every step. *)
LEMMA IdTyped == IdInv /\ [IdNext]_id_vars => IdTypeOK'
<1> SUFFICES ASSUME IdInv, [IdNext]_id_vars PROVE IdTypeOK'
  OBVIOUS
<1>a. IdTypeOK /\ StartInv
  BY DEF IdInv
<1>b. Backed /\ StoreTrue /\ FileTrue /\ SavingTrue
  BY DEF IdInv, PinInv
<1> USE DEF Saves, server_vars, client_vars
<1>1. CASE LoadBundle
  BY <1>1, Marks, <1>a DEF LoadBundle, IdTypeOK, StartInv
<1>2. CASE GenerateBundle
  BY <1>2, NextMade, Marks, <1>a DEF GenerateBundle, IdTypeOK, StartInv
<1>3. CASE TruncateCert
  BY <1>3, Marks, <1>a DEF TruncateCert, IdTypeOK, StartInv
<1>4. CASE FillCert
  BY <1>4, Marks, <1>a DEF FillCert, IdTypeOK, StartInv
<1>5. CASE TruncateKey
  BY <1>5, Marks, <1>a DEF TruncateKey, IdTypeOK, StartInv
<1>6. CASE FillKey
  BY <1>6, Marks, <1>a DEF FillKey, IdTypeOK, StartInv
<1>7. CASE build_server_config
  BY <1>7, Marks, <1>a DEF build_server_config, IdTypeOK, StartInv
<1>8. CASE ServerDown
  BY <1>8, Marks, <1>a DEF ServerDown, IdTypeOK, StartInv
<1>9. CASE OpenStore
  BY <1>9, Marks, <1>a DEF OpenStore, IdTypeOK, StartInv
<1>10. CASE PinFirst
  BY <1>10, Marks, <1>a DEF PinFirst, Connected, IdTypeOK, StartInv
<1>11. CASE SavePins
  BY <1>11, Marks, <1>a, <1>b DEF SavePins, IdTypeOK, SavingTrue
<1>12. CASE Contact
  BY <1>12, Marks, <1>a DEF Contact, Connected, IdTypeOK, StartInv
<1>13. CASE SaveFails
  BY <1>13, Marks, <1>a DEF SaveFails, IdTypeOK, StartInv
<1>14. CASE CloseStore
  BY <1>14, Marks, <1>a DEF CloseStore, IdTypeOK, StartInv
<1>15. CASE DeletePins
  BY <1>15, Marks, <1>a DEF DeletePins, IdTypeOK, StartInv
<1>16. CASE UNCHANGED id_vars
  BY <1>16, <1>a DEF id_vars, IdTypeOK, StartInv
<1> QED
  BY <1>1, <1>2, <1>3, <1>4, <1>5, <1>6, <1>7, <1>8, <1>9, <1>10, <1>11,
     <1>12, <1>13, <1>14, <1>15, <1>16 DEF IdNext

(* What is on disk agrees with where the start is, after every step.       *)
LEMMA StartKept == IdInv /\ [IdNext]_id_vars => StartInv'
<1> SUFFICES ASSUME IdInv, [IdNext]_id_vars PROVE StartInv'
  OBVIOUS
<1>a. IdTypeOK /\ StartInv
  BY DEF IdInv
<1> USE DEF Saves, server_vars, client_vars
<1>1. CASE LoadBundle
  BY <1>1, Marks, <1>a DEF LoadBundle, IdTypeOK, StartInv
<1>2. CASE GenerateBundle
  BY <1>2, NextMade, Marks, <1>a DEF GenerateBundle, IdTypeOK, StartInv
<1>3. CASE TruncateCert
  BY <1>3, Marks, <1>a DEF TruncateCert, IdTypeOK, StartInv
<1>4. CASE FillCert
  BY <1>4, Marks, <1>a DEF FillCert, IdTypeOK, StartInv
<1>5. CASE TruncateKey
  BY <1>5, Marks, <1>a DEF TruncateKey, IdTypeOK, StartInv
<1>6. CASE FillKey
  BY <1>6, Marks, <1>a DEF FillKey, IdTypeOK, StartInv
<1>7. CASE build_server_config
  BY <1>7, Marks, <1>a DEF build_server_config, IdTypeOK, StartInv
<1>8. CASE ServerDown
  BY <1>8, Marks, <1>a DEF ServerDown, IdTypeOK, StartInv
<1>9. CASE OpenStore
  BY <1>9, Marks, <1>a DEF OpenStore, IdTypeOK, StartInv
<1>10. CASE PinFirst
  BY <1>10, Marks, <1>a DEF PinFirst, Connected, IdTypeOK, StartInv
<1>11. CASE SavePins
  BY <1>11, Marks, <1>a DEF SavePins, IdTypeOK, StartInv
<1>12. CASE Contact
  BY <1>12, Marks, <1>a DEF Contact, Connected, IdTypeOK, StartInv
<1>13. CASE SaveFails
  BY <1>13, Marks, <1>a DEF SaveFails, IdTypeOK, StartInv
<1>14. CASE CloseStore
  BY <1>14, Marks, <1>a DEF CloseStore, IdTypeOK, StartInv
<1>15. CASE DeletePins
  BY <1>15, Marks, <1>a DEF DeletePins, IdTypeOK, StartInv
<1>16. CASE UNCHANGED id_vars
  BY <1>16, <1>a DEF id_vars, IdTypeOK, StartInv
<1> QED
  BY <1>1, <1>2, <1>3, <1>4, <1>5, <1>6, <1>7, <1>8, <1>9, <1>10, <1>11,
     <1>12, <1>13, <1>14, <1>15, <1>16 DEF IdNext

(* The certificate of a pin stays where it is, and no contact finds        *)
(* another one.                                                            *)
LEMMA PinKept == IdInv /\ [IdNext]_id_vars => PinInv'
<1> SUFFICES ASSUME IdInv, [IdNext]_id_vars PROVE PinInv'
  OBVIOUS
<1>a. IdTypeOK /\ StartInv
  BY DEF IdInv
<1>b. Backed /\ StoreTrue /\ FileTrue /\ SavingTrue
  BY DEF IdInv, PinInv
<1>c. ~ alarm
  BY DEF IdInv, PinInv
<1> USE DEF Saves, server_vars, client_vars
<1>1. CASE LoadBundle
  BY <1>1, Marks, <1>a, <1>b, <1>c DEF LoadBundle, IdTypeOK, StartInv,
     PinInv, Backed, StoreTrue, FileTrue, SavingTrue, Kept
<1>2. CASE GenerateBundle
  BY <1>2, NextMade, Marks, <1>a, <1>b, <1>c DEF GenerateBundle, IdTypeOK,
     StartInv, PinInv, Backed, StoreTrue, FileTrue, SavingTrue, Kept
<1>3. CASE TruncateCert
  BY <1>3, Marks, <1>a, <1>b, <1>c DEF TruncateCert, IdTypeOK, StartInv,
     PinInv, Backed, StoreTrue, FileTrue, SavingTrue, Kept
<1>4. CASE FillCert
  BY <1>4, Marks, <1>a, <1>b, <1>c DEF FillCert, IdTypeOK, StartInv, PinInv,
     Backed, StoreTrue, FileTrue, SavingTrue, Kept
<1>5. CASE TruncateKey
  BY <1>5, Marks, <1>a, <1>b, <1>c DEF TruncateKey, IdTypeOK, StartInv,
     PinInv, Backed, StoreTrue, FileTrue, SavingTrue, Kept
<1>6. CASE FillKey
  BY <1>6, Marks, <1>a, <1>b, <1>c DEF FillKey, IdTypeOK, StartInv, PinInv,
     Backed, StoreTrue, FileTrue, SavingTrue, Kept
<1>7. CASE build_server_config
  BY <1>7, Marks, <1>a, <1>b, <1>c DEF build_server_config, IdTypeOK,
     StartInv, PinInv, Backed, StoreTrue, FileTrue, SavingTrue, Kept
<1>8. CASE ServerDown
  BY <1>8, Marks, <1>a, <1>b, <1>c DEF ServerDown, IdTypeOK, StartInv,
     PinInv, Backed, StoreTrue, FileTrue, SavingTrue, Kept
<1>9. CASE OpenStore
  BY <1>9, Marks, <1>a, <1>b, <1>c DEF OpenStore, IdTypeOK, StartInv,
     PinInv, Backed, StoreTrue, FileTrue, SavingTrue, Kept
<1>10. CASE PinFirst
  BY <1>10, Marks, <1>a, <1>b, <1>c DEF PinFirst, Connected, IdTypeOK,
     StartInv, PinInv, Backed, StoreTrue, FileTrue, SavingTrue, Kept
<1>11. CASE SavePins
  BY <1>11, Marks, <1>a, <1>b, <1>c DEF SavePins, IdTypeOK, StartInv,
     PinInv, Backed, StoreTrue, FileTrue, SavingTrue, Kept
<1>12. CASE Contact
  BY <1>12, Marks, <1>a, <1>b, <1>c, Zenon DEF Contact, Connected, IdTypeOK,
     StartInv, PinInv, Backed, StoreTrue, FileTrue, SavingTrue, Kept
<1>13. CASE SaveFails
  BY <1>13, Marks, <1>a, <1>b, <1>c DEF SaveFails, IdTypeOK, StartInv,
     PinInv, Backed, StoreTrue, FileTrue, SavingTrue, Kept
<1>14. CASE CloseStore
  BY <1>14, Marks, <1>a, <1>b, <1>c DEF CloseStore, IdTypeOK, StartInv,
     PinInv, Backed, StoreTrue, FileTrue, SavingTrue, Kept
<1>15. CASE DeletePins
  BY <1>15, Marks, <1>a, <1>b, <1>c DEF DeletePins, IdTypeOK, StartInv,
     PinInv, Backed, StoreTrue, FileTrue, SavingTrue, Kept
<1>16. CASE UNCHANGED id_vars
  BY <1>16, <1>a, <1>b, <1>c DEF id_vars, IdTypeOK, StartInv, PinInv,
     Backed, StoreTrue, FileTrue, SavingTrue, Kept
<1> QED
  BY <1>1, <1>2, <1>3, <1>4, <1>5, <1>6, <1>7, <1>8, <1>9, <1>10, <1>11,
     <1>12, <1>13, <1>14, <1>15, <1>16 DEF IdNext

(* A client that has pinned the server's certificate gets no mismatch,     *)
(* whatever kills and restarts there are (verify_or_pin against the        *)
(* certificate that load_or_generate provides).                            *)
THEOREM FirstTrustHolds == IdSpec => []NoFalseAlarm
<1>1. IdInit => IdInv
  BY DEF IdInit, IdInv, IdTypeOK, StartInv, PinInv, Backed, StoreTrue, FileTrue,
         SavingTrue, Kept, NoFile, CutOff, Closed, NoPins, Made, Saves
<1>2. IdInv /\ [IdNext]_id_vars => IdInv'
  BY IdTyped, StartKept, PinKept DEF IdInv
<1>3. IdInv => NoFalseAlarm
  BY DEF IdInv, PinInv, NoFalseAlarm
<1> QED
  BY <1>1, <1>2, <1>3, PTL DEF IdSpec

-----------------------------------------------------------------------------
(* The annotation store. *)

(* What the properties rest on: the file is never incomplete, a file that  *)
(* is about to replace it holds what is in memory, and until the answer is *)
(* given the file that was just saved does.                                *)
StoreInv ==
  /\ TypeOK
  /\ Loadable
  /\ NoteKept
  /\ file.kind = "absent" => file.notes = Empty
  /\ op.pc # "idle" => server = "up"
  /\ op.pc = "saved" => file = Whole(mem)

(* A store that was never saved satisfies it. *)
LEMMA StoreStart == Init => StoreInv
<1> SUFFICES ASSUME Init PROVE StoreInv
  OBVIOUS
<1>1. failed \in BOOLEAN
  BY Zenon DEF Init
<1> QED
  BY <1>1 DEF Init, StoreInv, TypeOK, Loadable, NoteKept, Snapshots, Files, Empty, NoOp,
         Absent, Whole

(* Each step keeps the types. *)
LEMMA StoreTypeStep == StoreInv /\ [Next]_vars => TypeOK'
<1> SUFFICES ASSUME StoreInv, [Next]_vars PROVE TypeOK'
  OBVIOUS
<1> USE DEF StoreInv, TypeOK, Snapshots
<1>1. ASSUME NEW i \in Ids, NEW v \in Texts, Upsert(i, v) PROVE TypeOK'
  BY <1>1 DEF Upsert, Change, Idle
<1>2. ASSUME NEW i \in Ids, Delete(i) PROVE TypeOK'
  BY <1>2 DEF Delete, Change, Idle
<1>3. ASSUME NEW i \in Ids, DeleteMissing(i) PROVE TypeOK'
  BY <1>3 DEF DeleteMissing
<1>4. CASE WriteTmp
  BY <1>4 DEF WriteTmp, Saving, Goto, Torn, Files, Empty
<1>5. CASE WriteTmpDone
  BY <1>5 DEF WriteTmpDone, Saving, Goto, Whole, Files
<1>6. CASE RemoveFile
  BY <1>6 DEF RemoveFile, Saving, Goto, Absent, Files, Empty, Whole
<1>7. CASE RenameTmp
  BY <1>7 DEF RenameTmp, Saving, Goto, Absent, Files, Empty
<1>8. CASE Answer
  BY <1>8 DEF Answer, Saving, Goto
<1>9. CASE SaveError
  BY <1>9 DEF SaveError, Goto
<1>10. CASE Kill
  BY <1>10 DEF Kill, Goto
<1>11. CASE Open
  BY <1>11 DEF Open, Files
<1>12. CASE UNCHANGED vars
  BY <1>12 DEF vars
<1> QED
  BY <1>1, <1>2, <1>3, <1>4, <1>5, <1>6, <1>7, <1>8, <1>9, <1>10, <1>11, <1>12 DEF Next

(* Each step keeps the rest of the invariant.  A change only widens what   *)
(* the note may be; the answer narrows it to the value that memory and,    *)
(* since the save, the file have.                                          *)
LEMMA StoreStep == StoreInv /\ [Next]_vars => StoreInv'
<1> SUFFICES ASSUME StoreInv, [Next]_vars PROVE StoreInv'
  OBVIOUS
<1>0. TypeOK'
  BY StoreTypeStep
<1> USE <1>0 DEF StoreInv, TypeOK, Loadable, NoteKept, Snapshots
<1>1. ASSUME NEW i \in Ids, NEW v \in Texts \cup {None}, Change(i, v), Idle, server = "up"
      PROVE  StoreInv'
  BY <1>1 DEF Change, Idle
<1>2. ASSUME NEW i \in Ids, DeleteMissing(i) PROVE StoreInv'
  BY <1>2 DEF DeleteMissing
<1>3. CASE WriteTmp
  BY <1>3 DEF WriteTmp, Saving, Goto
<1>4. CASE WriteTmpDone
  BY <1>4 DEF WriteTmpDone, Saving, Goto
<1>5. CASE RemoveFile
  BY <1>5 DEF RemoveFile, Saving, Goto, Absent
<1>6. CASE RenameTmp
  BY <1>6 DEF RenameTmp, Saving, Goto, Whole
<1>7. CASE Answer
  BY <1>7 DEF Answer, Saving, Goto, Whole
<1>8. CASE SaveError
  BY <1>8 DEF SaveError, Goto
<1>9. CASE Kill
  BY <1>9 DEF Kill, Goto
<1>10. CASE Open
  BY <1>10 DEF Open, Files, Empty
<1>11. CASE UNCHANGED vars
  BY <1>11 DEF vars
<1> QED
  BY <1>1, <1>2, <1>3, <1>4, <1>5, <1>6, <1>7, <1>8, <1>9, <1>10, <1>11
  DEF Next, Upsert, Delete

(* The invariant holds in every state that upserts, deletes, kills and     *)
(* starts can reach.                                                       *)
THEOREM StoreCorrect == Spec => []StoreInv
  BY StoreStart, StoreStep, PTL DEF Spec

(* Every variable keeps its type. *)
THEOREM StoreTyped == Spec => []TypeOK
  BY StoreCorrect, PTL DEF StoreInv

(* The file that load_annotations finds is never incomplete. *)
THEOREM AlwaysLoadable == Spec => []Loadable
  BY StoreCorrect, PTL DEF StoreInv

(* No restart and no failing save undoes what upsert or delete has         *)
(* acknowledged, as long as the file is there.                             *)
THEOREM AcknowledgedNotesKept == Spec => []NoteKept
  BY StoreCorrect, PTL DEF StoreInv

(* Why a deleted note stays away: until a save fails, memory and file      *)
(* agree whenever no request is in progress, and neither has a note that   *)
(* the client was told is gone.                                            *)
GoneInv ==
  ~failed =>
    /\ server = "up" /\ op.pc = "idle" => file.notes = mem
    /\ \A i \in gone : file.notes[i] = None /\ (server = "up" => mem[i] = None)

(* Nothing is gone in a new store. *)
LEMMA GoneInit == Init => GoneInv
  BY DEF Init, GoneInv, Absent, Empty, NoOp

(* Each step keeps it. *)
LEMMA GoneStep == StoreInv /\ GoneInv /\ [Next]_vars => GoneInv'
<1> SUFFICES ASSUME StoreInv, GoneInv, [Next]_vars PROVE GoneInv'
  OBVIOUS
<1> USE DEF StoreInv, TypeOK, GoneInv, Snapshots
<1>1. ASSUME NEW i \in Ids, NEW v \in Texts, Upsert(i, v) PROVE GoneInv'
  BY <1>1 DEF Upsert, Change, Idle
<1>2. ASSUME NEW i \in Ids, Delete(i) PROVE GoneInv'
  BY <1>2 DEF Delete, Change, Idle
<1>3. ASSUME NEW i \in Ids, DeleteMissing(i) PROVE GoneInv'
  BY <1>3 DEF DeleteMissing, Idle
<1>4. CASE WriteTmp
  BY <1>4 DEF WriteTmp, Saving, Goto
<1>5. CASE WriteTmpDone
  BY <1>5 DEF WriteTmpDone, Saving, Goto
<1>6. CASE RemoveFile
  BY <1>6 DEF RemoveFile, Saving, Goto, Absent, Empty
<1>7. CASE RenameTmp
  BY <1>7 DEF RenameTmp, Saving, Goto, Whole
<1>8. CASE Answer
  BY <1>8 DEF Answer, Saving, Goto, Whole
<1>9. CASE SaveError
  BY <1>9 DEF SaveError
<1>10. CASE Kill
  BY <1>10 DEF Kill, Goto
<1>11. CASE Open
  BY <1>11 DEF Open
<1>12. CASE UNCHANGED vars
  BY <1>12 DEF vars
<1> QED
  BY <1>1, <1>2, <1>3, <1>4, <1>5, <1>6, <1>7, <1>8, <1>9, <1>10, <1>11, <1>12 DEF Next

(* Until a save fails, no restart brings back a note of which delete or    *)
(* its 404 has said that it is gone.                                       *)
THEOREM DeletedNotesStayAway == Spec => []GoneStaysGone
<1>1. GoneInv => GoneStaysGone
  BY DEF GoneInv, GoneStaysGone
<1> QED
  BY StoreCorrect, GoneInit, GoneStep, <1>1, PTL DEF Spec

-----------------------------------------------------------------------------
(* Tickets and temporary files. *)

Tickets == [kind : Kinds, scope : Scopes, expires : Nat]

Pcs == {"new", "consume", "remove", "resolve", "making", "stream", "done"}
Requests == [pc : Pcs, kind : Kinds, ticket : Nat, scope : Scopes, now : Nat]

(* The types that the tickets need. *)
TicketType ==
  /\ ex_time \in Nat
  /\ issued \in Seq(Tickets)
  /\ tickets \subseteq DOMAIN issued
  /\ ex \in [Reqs -> Requests]
  /\ accepted \subseteq Reqs \X DOMAIN issued

(* A ticket that let a request in is no longer in the map, and the request *)
(* is past consume with the fields that consume compared.                  *)
UsedUp ==
  \A x \in accepted :
    LET k == issued[x[2]]  q == ex[x[1]] IN
    /\ x[2] \notin tickets /\ q.ticket = x[2]
    /\ q.pc \notin {"new", "consume", "remove"}
    /\ k.kind = q.kind /\ q.now < k.expires
    /\ k.kind = "single" => k.scope = q.scope

OneEach == \A x, y \in accepted : y[2] = x[2] => y = x

TicketInv == TicketType /\ UsedUp /\ OneEach

(* Where a request is when its file is on disk or still to be created: the *)
(* guard of the file is alive, or the request was cut short of it.         *)
FileInv ==
  /\ ex \in [Reqs -> Requests]
  /\ task \in [Reqs -> {"none", "queued", "making", "ok", "failed"}]
  /\ \A r \in Reqs :
       /\ task[r] # "none" => ex[r].pc \in {"making", "stream", "done"}
       /\ task[r] = "queued" =>
            ex[r].pc = "making" \/ (ex[r].pc = "done" /\ r \in cut)
       /\ r \in artifact =>
            \/ ex[r].pc = "making" /\ task[r] # "none"
            \/ ex[r].pc = "stream"
            \/ ex[r].pc = "done" /\ r \in cut

-----------------------------------------------------------------------------
(* The server starts without tickets. *)
LEMMA TicketStart == ExInit => TicketInv
<1> SUFFICES ASSUME ExInit PROVE TicketInv
  OBVIOUS
<1>1. NoReq \in Requests
  BY ExportAssumption DEF NoReq, Requests, Pcs, Kinds
<1>2. TicketType
  BY <1>1 DEF ExInit, TicketType
<1> QED
  BY <1>2 DEF ExInit, TicketInv, UsedUp, OneEach

(* Steps that leave the tickets alone and do not move a request back keep  *)
(* the invariant (all that comes after consume).                           *)
LEMMA LaterStep ==
  ASSUME TicketInv, NEW r \in Reqs, NEW pc \in Pcs,
         pc \notin {"new", "consume", "remove"},
         Goes(r, pc), UNCHANGED <<ex_time, issued, tickets, accepted>>
  PROVE  TicketInv'
<1>1. TicketType'
  BY Zenon DEF TicketInv, TicketType, Requests, Pcs, Goes
<1>2. UsedUp'
  BY DEF TicketInv, TicketType, UsedUp, Goes
<1>3. OneEach'
  BY DEF TicketInv, OneEach
<1> QED
  BY <1>1, <1>2, <1>3 DEF TicketInv

(* The tickets, through every step. *)
LEMMA TicketStep == TicketInv /\ [ExNext]_ex_vars => TicketInv'
<1> SUFFICES ASSUME TicketInv, [ExNext]_ex_vars PROVE TicketInv'
  OBVIOUS
<1>1. CASE PassSecond
  BY <1>1 DEF PassSecond, TicketInv, TicketType, UsedUp, OneEach
<1>2. ASSUME NEW k \in Kinds, NEW s \in Scopes, issue(k, s) PROVE TicketInv'
  <2> DEFINE new == [kind |-> k, scope |-> s, expires |-> ex_time + TTL]
  <2>1. new \in Tickets
    BY ExportAssumption DEF TicketInv, TicketType, Tickets
  <2>2. /\ issued' = Append(issued, new)
        /\ tickets' \subseteq tickets \cup {Len(issued) + 1}
        /\ UNCHANGED <<ex_time, ex, accepted>>
    BY <1>2 DEF issue, Unexpired
  <2> HIDE DEF new
  <2>3. /\ issued' \in Seq(Tickets)
        /\ DOMAIN issued' = DOMAIN issued \cup {Len(issued) + 1}
        /\ \A t \in DOMAIN issued : issued'[t] = issued[t]
        /\ Len(issued) + 1 \notin DOMAIN issued
    BY <2>1, <2>2 DEF TicketInv, TicketType
  <2>4. TicketType'
    BY <2>2, <2>3 DEF TicketInv, TicketType
  <2>5. UsedUp'
    BY <2>2, <2>3 DEF TicketInv, TicketType, UsedUp
  <2>6. OneEach'
    BY <2>2 DEF TicketInv, OneEach
  <2> QED
    BY <2>4, <2>5, <2>6 DEF TicketInv
<1>3. ASSUME NEW r \in Reqs, NEW k \in Kinds, NEW c \in BOOLEAN,
             NEW t \in 0 .. Len(issued), NEW s \in Scopes,
             ExRequest(r, k, c, t, s)
      PROVE  TicketInv'
  <2>1. TicketType'
    BY <1>3 DEF ExRequest, TicketInv, TicketType, Requests, Pcs
  <2>2. UsedUp'
    BY <1>3 DEF ExRequest, TicketInv, TicketType, UsedUp
  <2>3. OneEach'
    BY <1>3 DEF ExRequest, TicketInv, OneEach
  <2> QED
    BY <2>1, <2>2, <2>3 DEF TicketInv
<1>4. ASSUME NEW r \in Reqs, prune_expired(r) PROVE TicketInv'
  <2>1. /\ tickets' \subseteq tickets /\ ex[r].pc = "consume"
        /\ Goes(r, "remove") /\ UNCHANGED <<ex_time, issued, accepted>>
    BY <1>4 DEF prune_expired, Unexpired
  <2>2. TicketType'
    BY <2>1, Zenon DEF TicketInv, TicketType, Requests, Pcs, Goes
  <2>3. UsedUp'
    BY <2>1 DEF TicketInv, TicketType, UsedUp, Goes
  <2>4. OneEach'
    BY <2>1 DEF TicketInv, OneEach
  <2> QED
    BY <2>2, <2>3, <2>4 DEF TicketInv
<1>5. ASSUME NEW r \in Reqs, consume(r) PROVE TicketInv'
  <2> DEFINE t == ex[r].ticket
             ok == t \in tickets /\ issued[t].kind = ex[r].kind /\ Fits(r, t)
  <2>1. CASE ~ ok
    <3>1. /\ tickets' \subseteq tickets /\ ex[r].pc = "remove"
          /\ Goes(r, "done") /\ UNCHANGED <<ex_time, issued, accepted>>
      BY <1>5, <2>1 DEF consume
    <3>2. TicketType'
      BY <3>1, Zenon DEF TicketInv, TicketType, Requests, Pcs, Goes
    <3>3. UsedUp'
      BY <3>1 DEF TicketInv, TicketType, UsedUp, Goes
    <3>4. OneEach'
      BY <3>1 DEF TicketInv, OneEach
    <3> QED
      BY <3>2, <3>3, <3>4 DEF TicketInv
  <2>2. CASE ok
    <3>1. /\ tickets' = tickets \ {t} /\ accepted' = accepted \cup {<<r, t>>}
          /\ ex[r].pc = "remove" /\ Goes(r, "resolve")
          /\ UNCHANGED <<ex_time, issued>>
      BY <1>5, <2>2 DEF consume
    <3>2. /\ t \in tickets /\ issued[t].kind = ex[r].kind
          /\ ex[r].now < issued[t].expires
          /\ issued[t].kind = "single" => issued[t].scope = ex[r].scope
      BY <2>2 DEF Fits, TicketInv, TicketType, Tickets
    <3>3. TicketType'
      BY <3>1, <3>2 DEF TicketInv, TicketType, Requests, Pcs, Goes
    <3>4. \A x \in accepted : x[2] # t
      BY <3>2 DEF TicketInv, UsedUp
    <3>5. UsedUp'
      BY <3>1, <3>2, <3>4 DEF TicketInv, TicketType, UsedUp, Goes
    <3>6. OneEach'
      BY <3>1, <3>4 DEF TicketInv, OneEach
    <3> QED
      BY <3>3, <3>5, <3>6 DEF TicketInv
  <2> QED
    BY <2>1, <2>2
<1>6. ASSUME NEW r \in Reqs, NEW d \in ExportDirs, ExResolve(r, d)
      PROVE  TicketInv'
  BY <1>6, LaterStep DEF ExResolve, Pcs
<1>7. ASSUME NEW r \in Reqs, NEW o \in BOOLEAN, ExMade(r, o) PROVE TicketInv'
  BY <1>7, LaterStep DEF ExMade, Pcs
<1>8. ASSUME NEW r \in Reqs, NEW how \in {"end", "error", "dropped"},
             ExStreamed(r, how)
      PROVE  TicketInv'
  BY <1>8, LaterStep DEF ExStreamed, Pcs
<1>9. ASSUME NEW r \in Reqs, ExCancel(r) PROVE TicketInv'
  BY <1>9, LaterStep DEF ExCancel, Pcs
<1>10. CASE UNCHANGED <<ex_time, issued, tickets, ex, accepted>>
  BY <1>10 DEF TicketInv, TicketType, UsedUp, OneEach
<1>11. ASSUME NEW r \in Reqs, TaskCreate(r) PROVE TicketInv'
  BY <1>10, <1>11 DEF TaskCreate
<1>12. ASSUME NEW r \in Reqs, NEW o \in BOOLEAN, TaskEnd(r, o)
       PROVE  TicketInv'
  BY <1>10, <1>12 DEF TaskEnd
<1>13. CASE UNCHANGED ex_vars
  BY <1>10, <1>13 DEF ex_vars
<1> QED
  BY <1>1, <1>2, <1>3, <1>4, <1>5, <1>6, <1>7, <1>8, <1>9, <1>11, <1>12,
     <1>13 DEF ExNext

(* Of all the requests that present a ticket, at most one is let in, in    *)
(* time and for what the ticket was issued for: issue, prune_expired and   *)
(* consume in any order and however many requests there are.               *)
THEOREM TicketsUsedOnce == ExSpec => []TicketOnce
<1>1. TicketInv => TicketOnce
  BY DEF TicketInv, UsedUp, OneEach, TicketOnce
<1> QED
  BY <1>1, TicketStart, TicketStep, PTL DEF ExSpec

-----------------------------------------------------------------------------
(* The temporary files, through every step. *)
LEMMA FileStep == TicketInv /\ FileInv /\ [ExNext]_ex_vars => FileInv'
<1> SUFFICES ASSUME TicketInv, FileInv, [ExNext]_ex_vars PROVE FileInv'
  OBVIOUS
<1>a. ex_time \in Nat
  BY DEF TicketInv, TicketType
<1> USE DEF FileInv, Requests, Pcs
<1>1. CASE UNCHANGED <<ex, task, artifact, cut>>
  BY <1>1
<1>2. ASSUME NEW k \in Kinds, NEW s \in Scopes, issue(k, s) PROVE FileInv'
  BY <1>1, <1>2 DEF issue
<1>3. ASSUME NEW r \in Reqs, NEW k \in Kinds, NEW c \in BOOLEAN,
             NEW t \in 0 .. Len(issued), NEW s \in Scopes,
             ExRequest(r, k, c, t, s)
      PROVE  FileInv'
  BY <1>3, <1>a DEF ExRequest
<1>4. ASSUME NEW r \in Reqs, prune_expired(r) PROVE FileInv'
  BY <1>4 DEF prune_expired, Goes
<1>5. ASSUME NEW r \in Reqs, consume(r) PROVE FileInv'
  BY <1>5 DEF consume, Goes
<1>6. ASSUME NEW r \in Reqs, NEW d \in ExportDirs, ExResolve(r, d)
      PROVE  FileInv'
  BY <1>6 DEF ExResolve, Goes
<1>7. ASSUME NEW r \in Reqs, NEW o \in BOOLEAN, ExMade(r, o) PROVE FileInv'
  BY <1>7 DEF ExMade, Goes
<1>8. ASSUME NEW r \in Reqs, NEW how \in {"end", "error", "dropped"},
             ExStreamed(r, how)
      PROVE  FileInv'
  BY <1>8 DEF ExStreamed, Goes
<1>9. ASSUME NEW r \in Reqs, ExCancel(r) PROVE FileInv'
  BY <1>9 DEF ExCancel, Goes
<1>10. ASSUME NEW r \in Reqs, TaskCreate(r) PROVE FileInv'
  BY <1>10 DEF TaskCreate
<1>11. ASSUME NEW r \in Reqs, NEW o \in BOOLEAN, TaskEnd(r, o) PROVE FileInv'
  BY <1>11 DEF TaskEnd
<1>12. CASE PassSecond \/ UNCHANGED ex_vars
  BY <1>1, <1>12 DEF PassSecond, ex_vars
<1> HIDE DEF FileInv, Requests, Pcs
<1> QED
  BY <1>2, <1>3, <1>4, <1>5, <1>6, <1>7, <1>8, <1>9, <1>10, <1>11, <1>12
     DEF ExNext

(* No artifact is left when neither its request nor its task needs it,     *)
(* unless the client went away before the task had created it: TempExport- *)
(* File and CleanupFileStream remove it on every other path.               *)
THEOREM NoArtifactLeft == ExSpec => []ArtifactsRemoved
<1>1. ExInit => TicketInv /\ FileInv
  <2> SUFFICES ASSUME ExInit PROVE FileInv
    BY TicketStart
  <2> QED
    BY TicketStart DEF ExInit, NoReq, FileInv, TicketInv, TicketType
<1>2. TicketInv /\ FileInv /\ [ExNext]_ex_vars => (TicketInv /\ FileInv)'
  BY TicketStep, FileStep
<1>3. TicketInv /\ FileInv => ArtifactsRemoved
  BY DEF FileInv, ArtifactsRemoved
<1> QED
  BY <1>1, <1>2, <1>3, PTL DEF ExSpec

-----------------------------------------------------------------------------
(* The notes in the browsers. *)

Versions == [text : NoteTexts \cup {""}, at : Nat] \cup {AbsentNote}
NoteCalls ==
  [id : Nat, by : Browsers, op : {"put", "delete", "list"}, note : NoteTargets,
   text : NoteTexts \cup {""}, stage : {"sent", "done", "orphan"},
   list : [NoteTargets -> Versions], fresh : BOOLEAN]

NoteTypeOK ==
  /\ wall \in Nat /\ made \in Nat
  /\ notes \in [Browsers -> [NoteTargets -> Versions]]
  /\ disk \in [Browsers -> [NoteTargets -> Versions]]
  /\ annotations \in [NoteTargets -> Versions] /\ calls \subseteq NoteCalls
  /\ latest \in [NoteTargets -> SUBSET Browsers]
  /\ writers \in [NoteTargets -> SUBSET Browsers] /\ raced \subseteq NoteTargets

(* The versions of a note that the server has or has sent. *)
Seen(n) == {annotations[n]} \cup {c.list[n] : c \in calls}
UnsavedOf(n) == {c \in calls : c.note = n /\ Unsaved(c)}

(* A note that nobody has written is nowhere. *)
Untouched(n) ==
  writers[n] = {} =>
    /\ \A b \in Browsers : notes[b][n] = AbsentNote /\ disk[b][n] = AbsentNote
    /\ \A v \in Seen(n) : v = AbsentNote

(* The browser that alone writes a note: a write under way has its present *)
(* text, and so has every version that is at least as new as its own.      *)
Sole(n) ==
  \A b \in Browsers : n \notin raced /\ writers[n] = {b} =>
    /\ notes[b][n] # AbsentNote
    /\ \A c \in UnsavedOf(n) : /\ c.fresh /\ c.text = notes[b][n].text
                               /\ c.op = "delete" <=> c.text = ""
    /\ \A v \in Seen(n) :
         v # AbsentNote /\ v.at >= notes[b][n].at => v.text = notes[b][n].text
    /\ b \in latest[n] =>
         notes[b][n].text = IF annotations[n] = AbsentNote THEN "" ELSE annotations[n].text

NoteSafe(n) ==
  /\ Untouched(n) /\ Sole(n)
  /\ \A v \in Seen(n) : v.at < wall
  /\ \A c \in UnsavedOf(n) : c.by \in writers[n]

NoteInv == NoteTypeOK /\ \A n \in NoteTargets : NoteSafe(n)

(* What becomes of a request: carried out, orphaned, or no longer fresh.   *)
LEMMA CallKeeps ==
  ASSUME NEW c \in NoteCalls, NEW f \in BOOLEAN, NEW l \in [NoteTargets -> Versions]
  PROVE  /\ Done(c, l) \in NoteCalls /\ Done(c, l).list = l /\ Done(c, l).note = c.note
         /\ ~Unsaved(Done(c, l))
         /\ [c EXCEPT !.fresh = f] \in NoteCalls /\ [c EXCEPT !.fresh = f].list = c.list
         /\ [c EXCEPT !.fresh = f].note = c.note /\ [c EXCEPT !.fresh = f].by = c.by
         /\ [c EXCEPT !.fresh = f].op = c.op /\ [c EXCEPT !.fresh = f].text = c.text
         /\ [c EXCEPT !.fresh = f].stage = c.stage /\ [c EXCEPT !.fresh = f].fresh = f
<1>1. Done(c, l) \in NoteCalls /\ Done(c, l).list = l /\ Done(c, l).note = c.note
  BY DEF Done, NoteCalls
<1>2. Done(c, l).stage = "done"
  BY DEF Done, NoteCalls
<1>3. /\ [c EXCEPT !.fresh = f] \in NoteCalls /\ [c EXCEPT !.fresh = f].list = c.list
      /\ [c EXCEPT !.fresh = f].note = c.note /\ [c EXCEPT !.fresh = f].by = c.by
  BY DEF NoteCalls
<1>4. /\ [c EXCEPT !.fresh = f].op = c.op /\ [c EXCEPT !.fresh = f].text = c.text
      /\ [c EXCEPT !.fresh = f].stage = c.stage /\ [c EXCEPT !.fresh = f].fresh = f
  BY DEF NoteCalls
<1> QED
  BY <1>1, <1>2, <1>3, <1>4 DEF Unsaved

(* A call whose page is gone keeps what it asks for. *)
LEMMA OrphanKeeps ==
  ASSUME NEW c \in NoteCalls, NEW o \in NoteCalls, NEW f,
         \/ o = [c EXCEPT !.stage = "orphan"] /\ f = c.fresh
         \/ o = [c EXCEPT !.stage = "orphan", !.fresh = f] /\ f \in BOOLEAN
  PROVE  /\ o.list = c.list /\ o.note = c.note /\ o.by = c.by /\ o.op = c.op /\ o.text = c.text
         /\ o.stage = "orphan" /\ o.fresh = f
<1>1. CASE o = [c EXCEPT !.stage = "orphan"] /\ f = c.fresh
  BY <1>1 DEF NoteCalls
<1>2. CASE o = [c EXCEPT !.stage = "orphan", !.fresh = f] /\ f \in BOOLEAN
  BY <1>2 DEF NoteCalls
<1> QED
  BY <1>1, <1>2

(* The empty list is a list. *)
LEMMA NoNotesTyped ==
  /\ NoNotes \in [NoteTargets -> Versions] /\ \A n \in NoteTargets : NoNotes[n] = AbsentNote
  /\ AbsentNote \in Versions /\ AbsentNote.at = 0
<1>1. AbsentNote.at = 0
  BY DEF AbsentNote
<1>2. AbsentNote \in Versions
  BY DEF Versions
<1> QED
  BY <1>1, <1>2 DEF NoNotes

(* A version that is not the absent one has a text and a time. *)
LEMMA VersionIs ==
  ASSUME NEW v \in Versions
  PROVE  v.at \in Nat /\ (v # AbsentNote => v.text \in NoteTexts \cup {""})
<1>1. ASSUME v \in [text : NoteTexts \cup {""}, at : Nat]
      PROVE  v.at \in Nat /\ v.text \in NoteTexts \cup {""}
  BY <1>1
<1>2. AbsentNote.at \in Nat
  BY DEF AbsentNote
<1> QED
  BY <1>1, <1>2 DEF Versions

(* A text with its time is a version. *)
LEMMA NewVersion ==
  ASSUME NEW t \in NoteTexts \cup {""}, NEW a \in Nat
  PROVE  /\ [text |-> t, at |-> a] \in Versions /\ [text |-> t, at |-> a] # AbsentNote
         /\ [text |-> t, at |-> a].text = t /\ [text |-> t, at |-> a].at = a
<1>1. t # "absent"
  BY NoteAssumption
<1>2. [text |-> t, at |-> a].text = t /\ [text |-> t, at |-> a].at = a
  OBVIOUS
<1>3. AbsentNote.text = "absent"
  BY DEF AbsentNote
<1>4. [text |-> t, at |-> a] \in Versions
  BY DEF Versions
<1> QED
  BY <1>1, <1>2, <1>3, <1>4

(* The merge takes a version of the server's or leaves the note. *)
LEMMA MergedIs ==
  ASSUME NEW mine \in [NoteTargets -> Versions], NEW l \in [NoteTargets -> Versions]
  PROVE  /\ Merged(mine, l) \in [NoteTargets -> Versions]
         /\ \A n \in NoteTargets :
              \/ Merged(mine, l)[n] = mine[n]
              \/ /\ Merged(mine, l)[n] = l[n] /\ l[n] # AbsentNote
                 /\ mine[n] = AbsentNote \/ l[n].at >= mine[n].at
  BY DEF Merged, shouldApply

(* Types are kept. *)
LEMMA NoteTypeStep ==
  ASSUME NoteTypeOK, Behind = 0, NoteNext
  PROVE  NoteTypeOK'
<1>0. wall \in Nat /\ wall - Behind \in Nat /\ wall + 1 \in Nat /\ made + 1 \in Nat
  <2>1. wall \in Nat /\ made \in Nat
    BY DEF NoteTypeOK
  <2> QED
    BY <2>1
<1> USE NoNotesTyped
<1>1. ASSUME NEW b \in Browsers, NEW n \in NoteTargets, NEW text \in NoteTexts \cup {""},
             NEW stored \in BOOLEAN, Edit(b, n, text, stored)
      PROVE  NoteTypeOK'
  <2> DEFINE new == [text |-> text, at |-> wall - Behind]
             mine == [notes[b] EXCEPT ![n] = new]
  <2>2. new \in Versions
    BY <1>0, NewVersion
  <2> HIDE DEF new
  <2>3. mine \in [NoteTargets -> Versions]
    BY <2>2 DEF NoteTypeOK
  <2>4. notes' = [notes EXCEPT ![b] = mine] /\ (disk' = disk \/ disk' = [disk EXCEPT ![b] = mine])
    BY <1>1 DEF Edit, Update, new
  <2> HIDE DEF mine
  <2>5. /\ notes' \in [Browsers -> [NoteTargets -> Versions]]
        /\ disk' \in [Browsers -> [NoteTargets -> Versions]]
    BY <2>3, <2>4 DEF NoteTypeOK
  <2>6. calls' \subseteq NoteCalls
    <3>1. \A c \in calls : [c EXCEPT !.fresh = @ /\ ~(c.by = b /\ c.note = n)] \in NoteCalls
      <4> SUFFICES ASSUME NEW c \in calls
                   PROVE  [c EXCEPT !.fresh = c.fresh /\ ~(c.by = b /\ c.note = n)] \in NoteCalls
        OBVIOUS
      <4>1. c \in NoteCalls /\ (c.fresh /\ ~(c.by = b /\ c.note = n)) \in BOOLEAN
        BY DEF NoteTypeOK
      <4> QED
        BY <4>1, CallKeeps
    <3> QED
      BY <1>1, <3>1 DEF Edit
  <2>7. /\ wall' = wall + 1 /\ made' = made /\ annotations' = annotations
        /\ latest' = [latest EXCEPT ![n] = @ \ {b}] /\ writers' = [writers EXCEPT ![n] = @ \cup {b}]
        /\ raced' \subseteq raced \cup {n}
    BY <1>1 DEF Edit
  <2>8. latest' \in [NoteTargets -> SUBSET Browsers] /\ writers' \in [NoteTargets -> SUBSET Browsers]
    BY <2>7 DEF NoteTypeOK
  <2> QED
    BY <1>0, <2>5, <2>6, <2>7, <2>8 DEF NoteTypeOK
<1>2. ASSUME NEW b \in Browsers, NEW verb \in {"put", "delete", "list"}, NEW n \in NoteTargets,
             NEW text \in NoteTexts \cup {""}, NEW st, Issue(b, verb, n, text, st),
             writers' \in [NoteTargets -> SUBSET Browsers]
      PROVE  NoteTypeOK'
  <2>1. Call(b, verb, n, text) \in NoteCalls
    BY DEF Call, NoteCalls, NoteTypeOK
  <2>2. /\ calls' = calls \cup {Call(b, verb, n, text)} /\ made' = made + 1 /\ wall' = wall
        /\ notes' = notes /\ disk' = disk /\ annotations' = annotations /\ latest' = latest
        /\ raced' = raced
    BY <1>2 DEF Issue
  <2> QED
    BY <1>0, <1>2, <2>1, <2>2 DEF NoteTypeOK
<1>3. ASSUME NEW b \in Browsers, NEW n \in NoteTargets, Save(b, n) PROVE NoteTypeOK'
  <2>1. notes[b][n] \in Versions /\ notes[b][n] # AbsentNote
    BY <1>3 DEF Save, NoteTypeOK
  <2>2. notes[b][n].text \in NoteTexts \cup {""}
    BY <2>1, VersionIs
  <2>3. writers' = [writers EXCEPT ![n] = @ \cup {b}]
    BY <1>3 DEF Save
  <2>4. writers' \in [NoteTargets -> SUBSET Browsers]
    BY <2>3 DEF NoteTypeOK
  <2> QED
    BY <1>2, <1>3, <2>2, <2>4 DEF Save
<1>4. ASSUME NEW b \in Browsers, LoadSource(b) \/ LoadLogTypes(b) PROVE NoteTypeOK'
  <2>1. writers' \in [NoteTargets -> SUBSET Browsers]
    BY <1>4 DEF LoadSource, LoadLogTypes, NoteTypeOK
  <2> QED
    BY <1>2, <1>4, <2>1 DEF LoadSource, LoadLogTypes
<1>5. ASSUME NEW b \in Browsers, SelectOther(b) PROVE NoteTypeOK'
  BY <1>5 DEF SelectOther, NoteTypeOK
<1>6. ASSUME NEW c \in calls, ServeNoteList(c) PROVE NoteTypeOK'
  <2>1. Done(c, annotations) \in NoteCalls
    BY CallKeeps, Zenon DEF NoteTypeOK
  <2> QED
    BY <1>6, <2>1 DEF ServeNoteList, NoteTypeOK
<1>7. ASSUME NEW c \in calls, ServeNoteWrite(c) PROVE NoteTypeOK'
  <2>1. /\ Done(c, NoNotes) \in NoteCalls /\ c.note \in NoteTargets /\ c.by \in Browsers
        /\ c.text \in NoteTexts \cup {""}
    BY CallKeeps DEF NoteTypeOK, NoteCalls
  <2>2. [text |-> c.text, at |-> wall] \in Versions
    BY <2>1, NewVersion DEF NoteTypeOK
  <2>3. /\ calls' \subseteq calls \cup {Done(c, NoNotes)}
        /\ \E v \in Versions : annotations' = [annotations EXCEPT ![c.note] = v]
        /\ \E x \in SUBSET Browsers : latest' = [latest EXCEPT ![c.note] = x]
        /\ wall' = wall + 1 /\ made' = made /\ notes' = notes /\ disk' = disk /\ writers' = writers
        /\ raced' = raced
    <3>1. calls' = (calls \ {c}) \cup {Done(x, NoNotes) : x \in {c} \ Orphans}
      BY <1>7 DEF ServeNoteWrite
    <3>2. calls' \subseteq calls \cup {Done(c, NoNotes)}
      BY <3>1
    <3> QED
      BY <1>7, <2>1, <2>2, <3>2 DEF ServeNoteWrite
  <2>4. annotations' \in [NoteTargets -> Versions]
    <3>1. PICK v \in Versions : annotations' = [annotations EXCEPT ![c.note] = v]
      BY <2>3, Zenon
    <3>2. annotations \in [NoteTargets -> Versions]
      BY DEF NoteTypeOK
    <3> QED
      BY <3>1, <3>2, Zenon
  <2>5. latest' \in [NoteTargets -> SUBSET Browsers]
    <3>1. PICK x \in SUBSET Browsers : latest' = [latest EXCEPT ![c.note] = x]
      BY <2>3, Zenon
    <3>2. latest \in [NoteTargets -> SUBSET Browsers]
      BY DEF NoteTypeOK
    <3> QED
      BY <3>1, <3>2, Zenon
  <2> QED
    BY <1>0, <2>1, <2>3, <2>4, <2>5 DEF NoteTypeOK
<1>8. ASSUME NEW c \in calls, NEW stored \in BOOLEAN, Loaded(c, stored) PROVE NoteTypeOK'
  <2>1. c.by \in Browsers /\ c.list \in [NoteTargets -> Versions] /\ notes[c.by] \in [NoteTargets -> Versions]
    BY DEF NoteTypeOK, NoteCalls
  <2> DEFINE m == Merged(notes[c.by], c.list)
  <2>2. m \in [NoteTargets -> Versions]
    BY <2>1, MergedIs
  <2>3. /\ notes' = [notes EXCEPT ![c.by] = m] /\ (disk' = disk \/ disk' = [disk EXCEPT ![c.by] = m])
        /\ calls' \subseteq calls /\ wall' = wall /\ made' = made /\ annotations' = annotations
        /\ latest' = latest /\ writers' = writers /\ raced' = raced
    BY <1>8 DEF Loaded, Update, Finish
  <2> HIDE DEF m
  <2> QED
    BY <2>1, <2>2, <2>3, Zenon DEF NoteTypeOK
<1>9. ASSUME NEW c \in calls, Saved(c) PROVE NoteTypeOK'
  BY <1>9 DEF Saved, Finish, NoteTypeOK
<1>10. ASSUME NEW c \in calls, CallFails(c) PROVE NoteTypeOK'
  <2>1. [c EXCEPT !.stage = "orphan"] \in NoteCalls
    BY Zenon DEF NoteTypeOK, NoteCalls
  <2> QED
    BY <1>10, <2>1, Zenon DEF CallFails, Finish, NoteTypeOK
<1>11. ASSUME NEW b \in Browsers, Reload(b) PROVE NoteTypeOK'
  <2>1. ASSUME NEW c \in calls
        PROVE  [c EXCEPT !.stage = "orphan", !.fresh = @ /\ Same(b, c.note)] \in NoteCalls
    BY Zenon DEF NoteTypeOK, NoteCalls
  <2>2. calls' \subseteq NoteCalls
    BY <1>11, <2>1, Zenon DEF Reload, NoteTypeOK
  <2>3. notes' \in [Browsers -> [NoteTargets -> Versions]] /\ latest' \in [NoteTargets -> SUBSET Browsers]
    BY <1>11, Zenon DEF Reload, NoteTypeOK
  <2> QED
    BY <1>11, <2>2, <2>3, Zenon DEF Reload, NoteTypeOK
<1> QED
  BY <1>1, <1>3, <1>4, <1>5, <1>6, <1>7, <1>8, <1>9, <1>10, <1>11 DEF NoteNext

(* What is seen of a note are versions of it. *)
LEMMA SeenTyped ==
  ASSUME NoteTypeOK, NEW n \in NoteTargets
  PROVE  \A v \in Seen(n) : v \in Versions
<1>1. annotations[n] \in Versions
  BY DEF NoteTypeOK
<1>2. ASSUME NEW c \in calls PROVE c.list[n] \in Versions
  <2>1. c \in NoteCalls
    BY DEF NoteTypeOK
  <2>2. c.list \in [NoteTargets -> Versions]
    BY <2>1 DEF NoteCalls
  <2> QED
    BY <2>2
<1> QED
  BY <1>1, <1>2 DEF Seen

(* A step that leaves a note to its writers: nobody new writes it, the     *)
(* server keeps its version and sends no other, the writes under way are   *)
(* writes that were, and a browser keeps its note or takes a version of    *)
(* the server's that is as new.                                            *)
LEMMA CalmStep ==
  ASSUME NoteTypeOK, NEW n \in NoteTargets, NoteSafe(n), wall' \in Nat, wall' >= wall,
         writers'[n] = writers[n], annotations'[n] = annotations[n], latest'[n] \subseteq latest[n],
         raced \subseteq raced',
         \A v \in Seen(n)' : v \in Seen(n) \cup {AbsentNote},
         \A c \in UnsavedOf(n)' :
           \E x \in UnsavedOf(n) : /\ c.by = x.by /\ c.op = x.op /\ c.text = x.text
                                   /\ x.fresh => c.fresh \/ n \in raced',
         \A b \in Browsers : /\ notes'[b][n] \in {notes[b][n], disk[b][n]} \cup Seen(n)
                             /\ disk'[b][n] \in {notes[b][n], disk[b][n]} \cup Seen(n),
         \A b \in Browsers :
           n \notin raced' =>
             \/ notes'[b][n] = notes[b][n]
             \/ /\ notes'[b][n] \in Seen(n) /\ notes'[b][n] # AbsentNote
                /\ notes[b][n] = AbsentNote \/ notes'[b][n].at >= notes[b][n].at
  PROVE  NoteSafe(n)'
<1>0. /\ wall \in Nat /\ wall # 0 /\ \A v \in Seen(n) : v \in Versions /\ v.at \in Nat
      /\ \A b \in Browsers : notes[b][n] \in Versions /\ notes[b][n].at \in Nat
  <2>1. \A v \in Seen(n) : v \in Versions
    BY SeenTyped
  <2>2. \A b \in Browsers : notes[b][n] \in Versions
    BY DEF NoteTypeOK
  <2>3. wall \in Nat
    BY DEF NoteTypeOK
  <2>4. annotations[n] \in Seen(n) /\ annotations[n].at < wall
    BY DEF Seen, NoteSafe
  <2>5. annotations[n].at \in Nat
    BY <2>1, <2>4, VersionIs
  <2>6. wall # 0
    BY <2>3, <2>4, <2>5
  <2> QED
    BY <2>1, <2>2, <2>3, <2>6, VersionIs
<1>1. Untouched(n)'
  <2>1. Untouched(n)
    BY DEF NoteSafe
  <2> QED
    BY <2>1 DEF Untouched
<1>2. \A v \in Seen(n)' : v.at < wall'
  <2> SUFFICES ASSUME NEW v \in Seen(n)' PROVE v.at < wall'
    OBVIOUS
  <2>1. CASE v \in Seen(n)
    <3>1. v.at < wall /\ v.at \in Nat
      BY <1>0, <2>1 DEF NoteSafe
    <3> QED
      BY <1>0, <3>1
  <2>2. CASE v = AbsentNote
    <3>1. v.at = 0
      BY <2>2, NoNotesTyped, Zenon
    <3> QED
      BY <1>0, <3>1
  <2> QED
    BY <2>1, <2>2
<1>3. \A c \in UnsavedOf(n)' : c.by \in writers'[n]
  BY Zenon DEF NoteSafe
<1>4. Sole(n)'
  <2> SUFFICES ASSUME NEW b \in Browsers, n \notin raced', writers'[n] = {b}
               PROVE  /\ notes'[b][n] # AbsentNote
                      /\ \A c \in UnsavedOf(n)' : /\ c.fresh /\ c.text = notes'[b][n].text
                                                  /\ c.op = "delete" <=> c.text = ""
                      /\ \A v \in Seen(n)' : v # AbsentNote /\ v.at >= notes'[b][n].at
                                               => v.text = notes'[b][n].text
                      /\ b \in latest'[n] =>
                           notes'[b][n].text = IF annotations'[n] = AbsentNote THEN ""
                                               ELSE annotations'[n].text
    BY Zenon DEF Sole
  <2>1. n \notin raced /\ writers[n] = {b}
    OBVIOUS
  <2>2. /\ notes[b][n] # AbsentNote
        /\ \A c \in UnsavedOf(n) : /\ c.fresh /\ c.text = notes[b][n].text
                                   /\ c.op = "delete" <=> c.text = ""
        /\ \A v \in Seen(n) : v # AbsentNote /\ v.at >= notes[b][n].at => v.text = notes[b][n].text
        /\ b \in latest[n] => notes[b][n].text = IF annotations[n] = AbsentNote THEN ""
                                                 ELSE annotations[n].text
    BY <2>1, Zenon DEF NoteSafe, Sole
  <2>3. notes'[b][n] # AbsentNote /\ notes'[b][n].text = notes[b][n].text
    BY <2>2, Zenon
  <2>4. notes'[b][n].at \in Nat /\ notes'[b][n].at >= notes[b][n].at
    <3>1. CASE notes'[b][n] = notes[b][n]
      <4>1. notes[b][n].at \in Nat
        BY <1>0
      <4> QED
        BY <3>1, <4>1, SMTT(20)
    <3>2. CASE notes'[b][n] \in Seen(n) /\ notes'[b][n].at >= notes[b][n].at
      BY <1>0, <3>2
    <3> QED
      BY <2>2, <3>1, <3>2, Zenon
  <2>5. \A v \in Seen(n)' : v # AbsentNote /\ v.at >= notes'[b][n].at => v.text = notes'[b][n].text
    <3> SUFFICES ASSUME NEW v \in Seen(n)', v # AbsentNote, v.at >= notes'[b][n].at
                 PROVE  v.text = notes'[b][n].text
      OBVIOUS
    <3>1. v \in Seen(n) /\ v.at \in Nat /\ notes[b][n].at \in Nat
      BY <1>0
    <3>2. v.at >= notes[b][n].at
      BY <2>4, <3>1
    <3> QED
      BY <2>2, <2>3, <3>1, <3>2, Zenon
  <2>6. \A c \in UnsavedOf(n)' : /\ c.fresh /\ c.text = notes'[b][n].text
                                 /\ c.op = "delete" <=> c.text = ""
    <3> SUFFICES ASSUME NEW c \in UnsavedOf(n)'
                 PROVE  c.fresh /\ c.text = notes'[b][n].text /\ (c.op = "delete" <=> c.text = "")
      OBVIOUS
    <3>1. PICK x \in UnsavedOf(n) : /\ c.by = x.by /\ c.op = x.op /\ c.text = x.text
                                    /\ x.fresh => c.fresh \/ n \in raced'
      OBVIOUS
    <3>2. /\ x.fresh /\ x.text = notes[b][n].text
          /\ x.op = "delete" <=> x.text = ""
      BY <2>2, Zenon
    <3>3. c.fresh
      BY <3>1, <3>2, Zenon
    <3>4. c.text = notes'[b][n].text /\ (c.op = "delete" <=> c.text = "")
      BY <2>3, <3>1, <3>2, Zenon
    <3> QED
      BY <3>3, <3>4
  <2>7. b \in latest'[n] => notes'[b][n].text = IF annotations'[n] = AbsentNote THEN ""
                                               ELSE annotations'[n].text
    BY <2>2, <2>3, Zenon
  <2> QED
    BY <2>3, <2>5, <2>6, <2>7, Zenon
<1> QED
  BY <1>1, <1>2, <1>3, <1>4 DEF NoteSafe

(* The same, said of each request, for a step in which no browser takes a  *)
(* note from a list or from localStorage.                                  *)
LEMMA CallsStep ==
  ASSUME NEW n \in NoteTargets, annotations'[n] = annotations[n],
         \A c \in calls' : c.list[n] \in Seen(n) \cup {AbsentNote},
         \A c \in calls' : c.note = n /\ Unsaved(c) =>
           \E x \in calls : /\ x.note = n /\ Unsaved(x) /\ c.by = x.by /\ c.op = x.op /\ c.text = x.text
                            /\ x.fresh => c.fresh \/ n \in raced'
  PROVE  /\ \A v \in Seen(n)' : v \in Seen(n) \cup {AbsentNote}
         /\ \A c \in UnsavedOf(n)' :
              \E x \in UnsavedOf(n) : /\ c.by = x.by /\ c.op = x.op /\ c.text = x.text
                                      /\ x.fresh => c.fresh \/ n \in raced'
<1>1. \A v \in Seen(n)' : v \in Seen(n) \cup {AbsentNote}
  BY DEF Seen
<1>2. ASSUME NEW c \in UnsavedOf(n)'
      PROVE  \E x \in UnsavedOf(n) : /\ c.by = x.by /\ c.op = x.op /\ c.text = x.text
                                     /\ x.fresh => c.fresh \/ n \in raced'
  <2>1. c \in calls' /\ c.note = n /\ Unsaved(c)
    BY DEF UnsavedOf, Unsaved
  <2>2. PICK x \in calls :
          /\ x.note = n /\ Unsaved(x) /\ c.by = x.by /\ c.op = x.op /\ c.text = x.text
          /\ x.fresh => c.fresh \/ n \in raced'
    BY <2>1
  <2>3. x \in UnsavedOf(n)
    BY <2>2 DEF UnsavedOf
  <2> QED
    BY <2>2, <2>3
<1> QED
  BY <1>1, <1>2

(* A step that does not touch a note keeps it safe. *)
LEMMA StillStep ==
  ASSUME NoteTypeOK, NEW n \in NoteTargets, NoteSafe(n), wall' \in Nat, wall' >= wall,
         writers'[n] = writers[n], annotations'[n] = annotations[n], latest'[n] \subseteq latest[n],
         raced \subseteq raced',
         \A c \in calls' : c.list[n] \in Seen(n) \cup {AbsentNote},
         \A c \in calls' : c.note = n /\ Unsaved(c) =>
           \E x \in calls : /\ x.note = n /\ Unsaved(x) /\ c.by = x.by /\ c.op = x.op /\ c.text = x.text
                            /\ x.fresh => c.fresh \/ n \in raced',
         \A b \in Browsers : notes'[b][n] = notes[b][n] /\ disk'[b][n] \in {notes[b][n], disk[b][n]}
  PROVE  NoteSafe(n)'
<1>1. /\ \A v \in Seen(n)' : v \in Seen(n) \cup {AbsentNote}
      /\ \A c \in UnsavedOf(n)' :
           \E x \in UnsavedOf(n) : /\ c.by = x.by /\ c.op = x.op /\ c.text = x.text
                                   /\ x.fresh => c.fresh \/ n \in raced'
  BY CallsStep, Zenon
<1>2. /\ \A b \in Browsers : /\ notes'[b][n] \in {notes[b][n], disk[b][n]} \cup Seen(n)
                             /\ disk'[b][n] \in {notes[b][n], disk[b][n]} \cup Seen(n)
      /\ \A b \in Browsers : notes'[b][n] = notes[b][n]
  BY Zenon
<1> QED
  BY <1>1, <1>2, CalmStep, Zenon

(* What a request that was there before brings is known. *)
LEMMA OldCall ==
  ASSUME NEW n \in NoteTargets, NEW c \in calls
  PROVE  /\ c.list[n] \in Seen(n) \cup {AbsentNote}
         /\ c.note = n /\ Unsaved(c) =>
              \E x \in calls : /\ x.note = n /\ Unsaved(x) /\ c.by = x.by /\ c.op = x.op /\ c.text = x.text
                               /\ x.fresh => c.fresh \/ n \in raced'
<1>1. c.list[n] \in Seen(n)
  BY DEF Seen
<1> QED
  BY <1>1

(* A list is asked for, or a save begins of another note. *)
LEMMA IssueStep ==
  ASSUME NoteTypeOK, NEW m \in NoteTargets, NoteSafe(m),
         NEW b \in Browsers, NEW verb, NEW n, NEW text, NEW st, Issue(b, verb, n, text, st),
         verb = "list" \/ n # m, writers'[m] = writers[m]
  PROVE  NoteSafe(m)'
<1> DEFINE new == Call(b, verb, n, text)
<1>1. new.list[m] = AbsentNote /\ new.note = n /\ new.op = verb
  BY NoNotesTyped, Zenon DEF Call
<1>2. ~(new.note = m /\ Unsaved(new))
  BY <1>1, Zenon DEF Unsaved
<1>3. /\ calls' = calls \cup {new} /\ wall' = wall /\ notes' = notes /\ disk' = disk
      /\ annotations' = annotations /\ latest' = latest /\ raced' = raced
  BY DEF Issue
<1> HIDE DEF new
<1>4. wall' \in Nat /\ wall' >= wall
  BY <1>3 DEF NoteTypeOK
<1> QED
  BY <1>1, <1>2, <1>3, <1>4, StillStep, OldCall, Zenon

(* A list is made up. *)
LEMMA ListServed ==
  ASSUME NoteTypeOK, NEW m \in NoteTargets, NoteSafe(m), NEW c \in calls, ServeNoteList(c)
  PROVE  NoteSafe(m)'
<1> DEFINE new == Done(c, annotations)
<1>1. new.list[m] = annotations[m] /\ ~Unsaved(new)
  <2>1. c \in NoteCalls /\ annotations \in [NoteTargets -> Versions]
    BY DEF NoteTypeOK
  <2> QED
    BY <2>1, CallKeeps, Zenon
<1>2. /\ calls' = (calls \ {c}) \cup {new} /\ wall' = wall /\ notes' = notes /\ disk' = disk
      /\ annotations' = annotations /\ latest' = latest /\ raced' = raced /\ writers' = writers
  BY DEF ServeNoteList
<1> HIDE DEF new
<1>3. wall' \in Nat /\ wall' >= wall
  BY <1>2 DEF NoteTypeOK
<1>4. annotations[m] \in Seen(m)
  BY Zenon DEF Seen
<1>5. \A x \in calls' : x.list[m] \in Seen(m) \cup {AbsentNote}
  BY <1>1, <1>2, <1>4, OldCall, Zenon
<1>6. \A x \in calls' : x.note = m /\ Unsaved(x) =>
        \E y \in calls : /\ y.note = m /\ Unsaved(y) /\ x.by = y.by /\ x.op = y.op /\ x.text = y.text
                         /\ y.fresh => x.fresh \/ m \in raced'
  BY <1>1, <1>2, OldCall, Zenon
<1> QED
  BY <1>2, <1>3, <1>5, <1>6, StillStep, Zenon

(* A save is over, or a request fails. *)
LEMMA OverStep ==
  ASSUME NoteTypeOK, NEW m \in NoteTargets, NoteSafe(m), NEW c \in calls, Saved(c) \/ CallFails(c)
  PROVE  NoteSafe(m)'
<1> DEFINE new == [c EXCEPT !.stage = "orphan"]
<1>0. c \in NoteCalls
  BY DEF NoteTypeOK
<1>1. /\ new.list = c.list /\ new.note = c.note /\ new.by = c.by /\ new.op = c.op
      /\ new.text = c.text /\ new.fresh = c.fresh /\ new.stage = "orphan"
  BY <1>0 DEF NoteCalls
<1>2. /\ calls' = calls \ {c} \/ (calls' = (calls \ {c}) \cup {new} /\ Unsaved(c))
      /\ wall' = wall /\ notes' = notes /\ disk' = disk
      /\ annotations' = annotations /\ latest' = latest /\ raced' = raced /\ writers' = writers
  <2>1. CASE Saved(c)
    BY <2>1 DEF Saved, Finish
  <2>2. CASE CallFails(c)
    BY <2>2 DEF CallFails, Finish, Unsaved
  <2> QED
    BY <2>1, <2>2
<1> HIDE DEF new
<1>3. wall' \in Nat /\ wall' >= wall
  BY <1>2 DEF NoteTypeOK
<1>4. CASE calls' = calls \ {c}
  BY <1>2, <1>3, <1>4, StillStep, OldCall, Zenon
<1>5. CASE calls' = (calls \ {c}) \cup {new} /\ Unsaved(c)
  <2>1. \A x \in calls' : x.list[m] \in Seen(m) \cup {AbsentNote}
    BY <1>1, <1>5, OldCall
  <2>2. \A x \in calls' : x.note = m /\ Unsaved(x) =>
          \E y \in calls : /\ y.note = m /\ Unsaved(y) /\ x.by = y.by /\ x.op = y.op /\ x.text = y.text
                           /\ y.fresh => x.fresh \/ m \in raced'
    BY <1>1, <1>5, OldCall
  <2> QED
    BY <1>2, <1>3, <2>1, <2>2, StillStep, Zenon
<1> QED
  BY <1>2, <1>4, <1>5

(* A list arrives: a note is kept or replaced by a version that is as new. *)
LEMMA LoadedStep ==
  ASSUME NoteTypeOK, NEW m \in NoteTargets, NoteSafe(m), NEW c \in calls, NEW stored \in BOOLEAN,
         Loaded(c, stored)
  PROVE  NoteSafe(m)'
<1> DEFINE new == Merged(notes[c.by], c.list)
<1>1. c.by \in Browsers /\ c.list \in [NoteTargets -> Versions] /\ notes[c.by] \in [NoteTargets -> Versions]
  BY DEF NoteTypeOK, NoteCalls
<1>2. \/ new[m] = notes[c.by][m]
      \/ /\ new[m] = c.list[m] /\ c.list[m] # AbsentNote
         /\ notes[c.by][m] = AbsentNote \/ c.list[m].at >= notes[c.by][m].at
  BY <1>1, MergedIs
<1>3. /\ notes' = [notes EXCEPT ![c.by] = new] /\ (disk' = disk \/ disk' = [disk EXCEPT ![c.by] = new])
      /\ calls' = calls \ {c} /\ wall' = wall
      /\ annotations' = annotations /\ latest' = latest /\ raced' = raced /\ writers' = writers
  BY DEF Loaded, Update, Finish
<1> HIDE DEF new
<1>4. wall' \in Nat /\ wall' >= wall
  BY <1>3 DEF NoteTypeOK
<1>5. c.list[m] \in Seen(m)
  BY DEF Seen
<1>6. \A b \in Browsers : /\ notes'[b][m] = notes[b][m] \/ (b = c.by /\ notes'[b][m] = new[m])
                          /\ disk'[b][m] = disk[b][m] \/ (b = c.by /\ disk'[b][m] = new[m])
  BY <1>1, <1>3 DEF NoteTypeOK
<1>7. \A b \in Browsers : /\ notes'[b][m] \in {notes[b][m], disk[b][m]} \cup Seen(m)
                          /\ disk'[b][m] \in {notes[b][m], disk[b][m]} \cup Seen(m)
  BY <1>2, <1>5, <1>6, Zenon
<1>8. \A b \in Browsers :
        \/ notes'[b][m] = notes[b][m]
        \/ /\ notes'[b][m] \in Seen(m) /\ notes'[b][m] # AbsentNote
           /\ notes[b][m] = AbsentNote \/ notes'[b][m].at >= notes[b][m].at
  BY <1>2, <1>5, <1>6, Zenon
<1>9. /\ \A v \in Seen(m)' : v \in Seen(m) \cup {AbsentNote}
      /\ \A x \in UnsavedOf(m)' :
           \E y \in UnsavedOf(m) : /\ x.by = y.by /\ x.op = y.op /\ x.text = y.text
                                   /\ y.fresh => x.fresh \/ m \in raced'
  BY <1>3, CallsStep, OldCall, Zenon
<1> QED
  BY <1>3, <1>4, <1>7, <1>8, <1>9, CalmStep, Zenon

(* A page is loaded again: a note is what it was, or has raced. *)
LEMMA ReloadStep ==
  ASSUME NoteTypeOK, NEW m \in NoteTargets, NoteSafe(m), NEW b \in Browsers, Reload(b)
  PROVE  NoteSafe(m)'
<1>1. /\ notes' = [notes EXCEPT ![b] = disk[b]] /\ disk' = disk /\ wall' = wall
      /\ annotations' = annotations /\ writers' = writers
      /\ raced' = raced \cup {n \in NoteTargets : ~Same(b, n)}
      /\ latest' = [n \in NoteTargets |-> IF Same(b, n) THEN latest[n] ELSE latest[n] \ {b}]
  BY Zenon DEF Reload
<1>2. latest'[m] \subseteq latest[m]
  BY <1>1
<1>3. Same(b, m) \/ m \in raced'
  BY <1>1
<1>4. \A x \in Browsers : notes'[x][m] = notes[x][m] \/ (x = b /\ notes'[x][m] = disk[x][m])
  BY <1>1 DEF NoteTypeOK
<1>5. \A x \in Browsers : m \notin raced' => notes'[x][m] = notes[x][m]
  BY <1>3, <1>4 DEF Same
<1>6. \A c \in calls' :
        \/ c \in calls
        \/ \E x \in calls : Unsaved(x) /\ c = [x EXCEPT !.stage = "orphan", !.fresh = @ /\ Same(b, x.note)]
  BY Zenon DEF Reload
<1>7. ASSUME NEW c \in calls'
      PROVE  /\ c.list[m] \in Seen(m) \cup {AbsentNote}
             /\ c.note = m /\ Unsaved(c) =>
                  \E x \in calls : /\ x.note = m /\ Unsaved(x) /\ c.by = x.by /\ c.op = x.op
                                   /\ c.text = x.text
                                   /\ x.fresh => c.fresh \/ m \in raced'
  <2>1. CASE c \in calls
    BY <2>1, OldCall
  <2>2. ASSUME NEW x \in calls, Unsaved(x),
               c = [x EXCEPT !.stage = "orphan", !.fresh = @ /\ Same(b, x.note)]
        PROVE  /\ c.list[m] \in Seen(m) \cup {AbsentNote}
               /\ c.note = m /\ Unsaved(c) =>
                    \E y \in calls : /\ y.note = m /\ Unsaved(y) /\ c.by = y.by /\ c.op = y.op
                                     /\ c.text = y.text
                                     /\ y.fresh => c.fresh \/ m \in raced'
    <3>1. x \in NoteCalls
      BY DEF NoteTypeOK
    <3>2. /\ c.list = x.list /\ c.note = x.note /\ c.by = x.by /\ c.op = x.op /\ c.text = x.text
          /\ c.fresh = (x.fresh /\ Same(b, x.note))
      BY <2>2, <3>1 DEF NoteCalls
    <3>3. x.list[m] \in Seen(m)
      BY Zenon DEF Seen
    <3>4. c.note = m => (x.fresh => c.fresh \/ m \in raced')
      BY <1>3, <3>2, Zenon
    <3> QED
      BY <2>2, <3>2, <3>3, <3>4
  <2> QED
    BY <1>6, <2>1, <2>2, Zenon
<1>8. /\ \A v \in Seen(m)' : v \in Seen(m) \cup {AbsentNote}
      /\ \A x \in UnsavedOf(m)' :
           \E y \in UnsavedOf(m) : /\ x.by = y.by /\ x.op = y.op /\ x.text = y.text
                                   /\ y.fresh => x.fresh \/ m \in raced'
  BY <1>1, <1>7, CallsStep, Zenon
<1>9. wall' \in Nat /\ wall' >= wall
  BY <1>1 DEF NoteTypeOK
<1>10. \A x \in Browsers : /\ notes'[x][m] \in {notes[x][m], disk[x][m]} \cup Seen(m)
                           /\ disk'[x][m] \in {notes[x][m], disk[x][m]} \cup Seen(m)
  BY <1>1, <1>4, Zenon
<1> QED
  BY <1>1, <1>2, <1>5, <1>8, <1>9, <1>10, CalmStep, Zenon

(* The clock goes on: what was before it still is. *)
LEMMA ClockGoesOn ==
  ASSUME NEW w \in Nat
  PROVE  /\ w - 0 = w /\ w + 1 \in Nat /\ w + 1 >= w
         /\ \A a \in Nat : a < w => a < w + 1 /\ ~(a >= w)
  OBVIOUS

(* An edit: of another note, or of this one, with a time that is later     *)
(* than that of every version the server has sent.                         *)
LEMMA EditStep ==
  ASSUME NoteTypeOK, Behind = 0, NEW m \in NoteTargets, NoteSafe(m), NEW b \in Browsers,
         NEW n \in NoteTargets, NEW text \in NoteTexts \cup {""}, NEW stored,
         Edit(b, n, text, stored)
  PROVE  NoteSafe(m)'
<1> DEFINE new == [text |-> text, at |-> wall - Behind]
           mine == [notes[b] EXCEPT ![n] = new]
<1>0. wall \in Nat
  BY DEF NoteTypeOK
<1>1. wall' = wall + 1
  BY DEF Edit
<1>a. wall - Behind = wall /\ wall' \in Nat /\ wall' >= wall
  BY <1>0, <1>1, ClockGoesOn, Zenon
<1>2. new.at = wall /\ new # AbsentNote
  BY <1>0, <1>a, NewVersion
<1> HIDE DEF new
<1>3. mine[n] = new /\ (m # n => mine[m] = notes[b][m])
  BY DEF NoteTypeOK
<1>4. notes' = [notes EXCEPT ![b] = mine] /\ (disk' = disk \/ disk' = [disk EXCEPT ![b] = mine])
  BY DEF Edit, Update, new
<1> HIDE DEF mine
<1>5. /\ annotations' = annotations
      /\ latest' = [latest EXCEPT ![n] = @ \ {b}] /\ writers' = [writers EXCEPT ![n] = @ \cup {b}]
      /\ raced' = raced \cup {c.note : c \in {x \in calls : x.note = n /\ Unsaved(x)}}
  BY DEF Edit
<1>6. \A c \in calls' : \E x \in calls :
        /\ c.list = x.list /\ c.note = x.note /\ c.by = x.by /\ c.op = x.op /\ c.text = x.text
        /\ c.stage = x.stage /\ c.fresh = (x.fresh /\ ~(x.by = b /\ x.note = n))
  <2> SUFFICES ASSUME NEW c \in calls'
               PROVE  \E x \in calls :
                        /\ c.list = x.list /\ c.note = x.note /\ c.by = x.by /\ c.op = x.op
                        /\ c.text = x.text /\ c.stage = x.stage
                        /\ c.fresh = (x.fresh /\ ~(x.by = b /\ x.note = n))
    OBVIOUS
  <2>1. PICK x \in calls : c = [x EXCEPT !.fresh = x.fresh /\ ~(x.by = b /\ x.note = n)]
    BY DEF Edit
  <2>2. x \in NoteCalls /\ (x.fresh /\ ~(x.by = b /\ x.note = n)) \in BOOLEAN
    BY DEF NoteTypeOK
  <2> QED
    <3> DEFINE f == x.fresh /\ ~(x.by = b /\ x.note = n)
    <3>1. f \in BOOLEAN /\ c = [x EXCEPT !.fresh = f]
      BY <2>1, <2>2
    <3> HIDE DEF f
    <3>2. /\ c.list = x.list /\ c.note = x.note /\ c.by = x.by /\ c.op = x.op
          /\ c.text = x.text /\ c.stage = x.stage /\ c.fresh = f
      BY <2>2, <3>1, NoNotesTyped, CallKeeps, Zenon
    <3> QED
      BY <3>2 DEF f
<1>7. \A c \in calls' : c.list[m] \in Seen(m)
  BY <1>6, Zenon DEF Seen
<1>8. CASE m # n
  <2>1. writers'[m] = writers[m] /\ latest'[m] \subseteq latest[m]
    BY <1>5, <1>8, Zenon DEF NoteTypeOK
  <2>2. \A x \in Browsers : notes'[x][m] = notes[x][m] /\ disk'[x][m] \in {notes[x][m], disk[x][m]}
    BY <1>3, <1>4, <1>8 DEF NoteTypeOK
  <2>3. \A c \in calls' : c.note = m /\ Unsaved(c) =>
          \E x \in calls : /\ x.note = m /\ Unsaved(x) /\ c.by = x.by /\ c.op = x.op /\ c.text = x.text
                           /\ x.fresh => c.fresh \/ m \in raced'
    <3> SUFFICES ASSUME NEW c \in calls', c.note = m, Unsaved(c)
                 PROVE  \E x \in calls :
                          /\ x.note = m /\ Unsaved(x) /\ c.by = x.by /\ c.op = x.op /\ c.text = x.text
                          /\ x.fresh => c.fresh \/ m \in raced'
      OBVIOUS
    <3>1. PICK x \in calls :
            /\ c.list = x.list /\ c.note = x.note /\ c.by = x.by /\ c.op = x.op /\ c.text = x.text
            /\ c.stage = x.stage /\ c.fresh = (x.fresh /\ ~(x.by = b /\ x.note = n))
      BY <1>6
    <3>2. Unsaved(x)
      BY <3>1 DEF Unsaved
    <3>3. x.fresh => c.fresh
      BY <1>8, <3>1
    <3> QED
      BY <3>1, <3>2, <3>3
  <2>4. annotations'[m] = annotations[m] /\ raced \subseteq raced'
    BY <1>5
  <2> QED
    BY <1>a, <1>7, <2>1, <2>2, <2>3, <2>4, StillStep, Zenon
<1>9. CASE m = n
  <2>1. writers'[m] = writers[m] \cup {b} /\ b \notin latest'[m]
    BY <1>5, <1>9, Zenon DEF NoteTypeOK
  <2>2. \A v \in Seen(m)' : v \in Seen(m)
    BY <1>5, <1>7 DEF Seen
  <2>3. \A v \in Seen(m)' : v.at \in Nat /\ v.at < wall
    <3>1. \A v \in Seen(m) : v.at \in Nat /\ v.at < wall
      BY SeenTyped, VersionIs, Zenon DEF NoteSafe
    <3> QED
      BY <2>2, <3>1
  <2>4. \A c \in UnsavedOf(m)' : \E x \in UnsavedOf(m) : c.by = x.by
    <3> SUFFICES ASSUME NEW c \in UnsavedOf(m)' PROVE \E x \in UnsavedOf(m) : c.by = x.by
      BY Zenon
    <3>1. c \in calls' /\ c.note = m /\ c.op # "list" /\ c.stage # "done"
      BY DEF UnsavedOf, Unsaved
    <3>2. PICK x \in calls :
            /\ c.list = x.list /\ c.note = x.note /\ c.by = x.by /\ c.op = x.op /\ c.text = x.text
            /\ c.stage = x.stage /\ c.fresh = (x.fresh /\ ~(x.by = b /\ x.note = n))
      BY <1>6, <3>1
    <3>3. x \in UnsavedOf(m)
      BY <3>1, <3>2, Zenon DEF UnsavedOf, Unsaved
    <3> QED
      BY <3>2, <3>3
  <2>5. m \notin raced' => UnsavedOf(m) = {}
    BY <1>5, <1>9, Zenon DEF UnsavedOf
  <2>6. \A c \in UnsavedOf(m)' : c.by \in writers'[m]
    BY <2>1, <2>4, Zenon DEF NoteSafe
  <2>7. Untouched(m)'
    BY <2>1, Zenon DEF Untouched
  <2>8. Sole(m)'
    <3> SUFFICES ASSUME NEW x \in Browsers, m \notin raced', writers'[m] = {x}
                 PROVE  /\ notes'[x][m] # AbsentNote
                        /\ \A c \in UnsavedOf(m)' : /\ c.fresh /\ c.text = notes'[x][m].text
                                                    /\ c.op = "delete" <=> c.text = ""
                        /\ \A v \in Seen(m)' : v # AbsentNote /\ v.at >= notes'[x][m].at
                                                 => v.text = notes'[x][m].text
                        /\ x \in latest'[m] =>
                             notes'[x][m].text = IF annotations'[m] = AbsentNote THEN ""
                                                 ELSE annotations'[m].text
      BY Zenon DEF Sole
    <3>1. x = b
      <4>1. b \in writers'[m]
        BY <2>1, Zenon
      <4> QED
        BY <4>1, Zenon
    <3>2. notes'[x][m] = new
      BY <1>3, <1>4, <1>9, <3>1, Zenon DEF NoteTypeOK
    <3>3. UnsavedOf(m)' = {}
      BY <2>4, <2>5, Zenon
    <3>4. \A v \in Seen(m)' : ~(v.at >= new.at)
      <4> SUFFICES ASSUME NEW v \in Seen(m)' PROVE ~(v.at >= new.at)
        OBVIOUS
      <4>1. v.at \in Nat /\ v.at < wall
        BY <2>3
      <4> QED
        BY <1>0, <1>2, <4>1, ClockGoesOn, Zenon
    <3> QED
      BY <1>2, <2>1, <3>1, <3>2, <3>3, <3>4, Zenon
  <2>9. \A v \in Seen(m)' : v.at < wall'
    <3> SUFFICES ASSUME NEW v \in Seen(m)' PROVE v.at < wall'
      OBVIOUS
    <3>1. v.at \in Nat /\ v.at < wall
      BY <2>3
    <3> QED
      BY <1>0, <1>1, <3>1, ClockGoesOn, Zenon
  <2> QED
    BY <2>6, <2>7, <2>8, <2>9, Zenon DEF NoteSafe
<1> QED
  BY <1>8, <1>9

(* A save begins with the present text of the browser. *)
LEMMA SaveStep ==
  ASSUME NoteTypeOK, NEW m \in NoteTargets, NoteSafe(m), NEW b \in Browsers,
         NEW n \in NoteTargets, Save(b, n)
  PROVE  NoteSafe(m)'
<1> DEFINE verb == IF notes[b][n].text = "" THEN "delete" ELSE "put"
           new == Call(b, verb, n, notes[b][n].text)
<1>1. writers' = [writers EXCEPT ![n] = @ \cup {b}] /\ notes[b][n] # AbsentNote
  BY DEF Save
<1>2. CASE m # n
  <2>1. writers'[m] = writers[m]
    BY <1>1, <1>2 DEF NoteTypeOK
  <2>2. Issue(b, verb, n, notes[b][n].text, "syncing")
    BY DEF Save
  <2> HIDE DEF verb
  <2> QED
    BY <1>2, <2>1, <2>2, IssueStep
<1>3. CASE m = n
  <2>1. /\ new.list[m] = AbsentNote /\ new.note = m /\ new.by = b /\ new.op = verb
        /\ new.text = notes[b][m].text /\ new.fresh
    BY <1>3, NoNotesTyped, Zenon DEF Call
  <2>2. /\ calls' = calls \cup {new} /\ wall' = wall /\ notes' = notes /\ disk' = disk
        /\ annotations' = annotations /\ latest' = latest /\ raced' = raced
    BY DEF Save, Issue
  <2>3. verb = "delete" <=> notes[b][m].text = ""
    BY <1>3, Zenon
  <2> HIDE DEF new, verb
  <2>4. writers'[m] = writers[m] \cup {b}
    BY <1>1, <1>3 DEF NoteTypeOK
  <2>5. \A v \in Seen(m)' : v \in Seen(m) \cup {AbsentNote}
    BY <2>1, <2>2, Zenon DEF Seen
  <2>6. \A c \in UnsavedOf(m)' : c \in UnsavedOf(m) \/ c = new
    BY <2>2 DEF UnsavedOf, Unsaved
  <2>7. \A v \in Seen(m)' : v.at < wall'
    <3>1. annotations[m] \in Seen(m) /\ annotations[m].at < wall
      BY DEF Seen, NoteSafe
    <3>2. annotations[m].at \in Nat /\ wall \in Nat
      BY SeenTyped, VersionIs, <3>1 DEF NoteTypeOK
    <3>3. AbsentNote.at < wall
      BY <3>1, <3>2, NoNotesTyped
    <3> QED
      BY <2>2, <2>5, <3>3, Zenon DEF NoteSafe
  <2>8. \A c \in UnsavedOf(m)' : c.by \in writers'[m]
    BY <2>1, <2>4, <2>6 DEF NoteSafe
  <2>9. Untouched(m)'
    BY <2>4 DEF Untouched
  <2>10. Sole(m)'
    <3> SUFFICES ASSUME NEW x \in Browsers, m \notin raced', writers'[m] = {x}
                 PROVE  /\ notes'[x][m] # AbsentNote
                        /\ \A c \in UnsavedOf(m)' : /\ c.fresh /\ c.text = notes'[x][m].text
                                                    /\ c.op = "delete" <=> c.text = ""
                        /\ \A v \in Seen(m)' : v # AbsentNote /\ v.at >= notes'[x][m].at
                                                 => v.text = notes'[x][m].text
                        /\ x \in latest'[m] =>
                             notes'[x][m].text = IF annotations'[m] = AbsentNote THEN ""
                                                 ELSE annotations'[m].text
      BY Zenon DEF Sole
    <3>1. x = b
      BY <2>4
    <3>2. writers[m] = {x}
      BY <1>1, <1>3, <2>4, <3>1 DEF NoteSafe, Untouched
    <3>3. /\ notes[x][m] # AbsentNote
          /\ \A c \in UnsavedOf(m) : /\ c.fresh /\ c.text = notes[x][m].text
                                     /\ c.op = "delete" <=> c.text = ""
          /\ \A v \in Seen(m) : v # AbsentNote /\ v.at >= notes[x][m].at => v.text = notes[x][m].text
          /\ x \in latest[m] => notes[x][m].text = IF annotations[m] = AbsentNote THEN ""
                                                   ELSE annotations[m].text
      BY <2>2, <3>2, Zenon DEF NoteSafe, Sole
    <3>4. \A c \in UnsavedOf(m)' : /\ c.fresh /\ c.text = notes'[x][m].text
                                   /\ c.op = "delete" <=> c.text = ""
      BY <2>1, <2>2, <2>3, <2>6, <3>1, <3>3, Zenon
    <3> QED
      BY <2>2, <2>5, <3>3, <3>4, Zenon
  <2> QED
    BY <2>7, <2>8, <2>9, <2>10, Zenon DEF NoteSafe
<1> QED
  BY <1>2, <1>3

(* The server carries out a write: of another note, or of this one, and    *)
(* then what it has is the present text of the browser that alone writes.  *)
LEMMA WriteServed ==
  ASSUME NoteTypeOK, NEW m \in NoteTargets, NoteSafe(m), NEW c \in calls, ServeNoteWrite(c)
  PROVE  NoteSafe(m)'
<1> DEFINE new == IF c.op = "put" THEN [text |-> c.text, at |-> wall] ELSE AbsentNote
           over == Done(c, NoNotes)
<1>0. c \in NoteCalls /\ wall \in Nat
  BY DEF NoteTypeOK
<1>1. c.text \in NoteTexts \cup {""} /\ c.note \in NoteTargets
  BY <1>0 DEF NoteCalls
<1>2. /\ c.op = "put" => new.text = c.text /\ new.at = wall /\ new # AbsentNote
      /\ c.op # "put" => new = AbsentNote
  BY <1>0, <1>1, NewVersion, Zenon
<1>3. c.op \in {"put", "delete"} /\ Unsaved(c)
  BY DEF ServeNoteWrite, Unsaved
<1>4. over.list[m] = AbsentNote /\ ~Unsaved(over)
  BY <1>0, CallKeeps, NoNotesTyped, Zenon
<1>5. calls' \subseteq calls \cup {over}
  <2>1. calls' = (calls \ {c}) \cup {Done(x, NoNotes) : x \in {c} \ Orphans}
    BY DEF ServeNoteWrite
  <2> QED
    BY <2>1
<1> HIDE DEF over
<1>6. /\ annotations' = [annotations EXCEPT ![c.note] = new] /\ wall' = wall + 1
      /\ latest' = [latest EXCEPT ![c.note] = IF c.fresh THEN {c.by} ELSE {}]
      /\ notes' = notes /\ disk' = disk /\ writers' = writers /\ raced' = raced
  BY DEF ServeNoteWrite
<1> HIDE DEF new
<1>7. wall' \in Nat /\ wall' >= wall
  BY <1>0, <1>6, ClockGoesOn, Zenon
<1>8. CASE m # c.note
  <2>1. annotations'[m] = annotations[m] /\ latest'[m] = latest[m]
    BY <1>1, <1>6, <1>8 DEF NoteTypeOK
  <2>2. \A x \in calls' : x.list[m] \in Seen(m) \cup {AbsentNote}
    BY <1>4, <1>5, OldCall
  <2>3. \A x \in calls' : x.note = m /\ Unsaved(x) =>
          \E y \in calls : /\ y.note = m /\ Unsaved(y) /\ x.by = y.by /\ x.op = y.op /\ x.text = y.text
                           /\ y.fresh => x.fresh \/ m \in raced'
    BY <1>4, <1>5, OldCall
  <2> QED
    BY <1>6, <1>7, <2>1, <2>2, <2>3, StillStep, Zenon
<1>9. CASE m = c.note
  <2>1. annotations'[m] = new /\ latest'[m] \subseteq {c.by}
    BY <1>1, <1>6, <1>9 DEF NoteTypeOK
  <2>2. c \in UnsavedOf(m)
    BY <1>3, <1>9 DEF UnsavedOf
  <2>3. c.by \in writers[m]
    BY <2>2 DEF NoteSafe
  <2>4. \A v \in Seen(m)' : v \in Seen(m) \cup {AbsentNote, new}
    BY <1>4, <1>5, <2>1 DEF Seen
  <2>5. \A x \in UnsavedOf(m)' : x \in UnsavedOf(m)
    BY <1>4, <1>5 DEF UnsavedOf, Unsaved
  <2>6. Untouched(m)'
    BY <1>6, <2>3 DEF Untouched
  <2>7. \A x \in UnsavedOf(m)' : x.by \in writers'[m]
    BY <1>6, <2>5 DEF NoteSafe
  <2>8. \A v \in Seen(m)' : v.at < wall'
    <3>1. \A v \in Seen(m) : v.at \in Nat /\ v.at < wall
      BY SeenTyped, VersionIs DEF NoteSafe
    <3>2. AbsentNote.at \in Nat /\ AbsentNote.at < wall + 1
      BY <1>0, NoNotesTyped
    <3>3. wall < wall + 1
      BY <1>0
    <3>4. new.at < wall + 1
      BY <1>2, <3>2, <3>3
    <3>5. \A v \in Seen(m) : v.at < wall + 1
      BY <1>0, <3>1
    <3> QED
      BY <1>6, <2>4, <3>2, <3>4, <3>5
  <2>9. Sole(m)'
    <3> SUFFICES ASSUME NEW x \in Browsers, m \notin raced', writers'[m] = {x}
                 PROVE  /\ notes'[x][m] # AbsentNote
                        /\ \A y \in UnsavedOf(m)' : /\ y.fresh /\ y.text = notes'[x][m].text
                                                    /\ y.op = "delete" <=> y.text = ""
                        /\ \A v \in Seen(m)' : v # AbsentNote /\ v.at >= notes'[x][m].at
                                                 => v.text = notes'[x][m].text
                        /\ x \in latest'[m] =>
                             notes'[x][m].text = IF annotations'[m] = AbsentNote THEN ""
                                                 ELSE annotations'[m].text
      BY DEF Sole
    <3>1. /\ notes[x][m] # AbsentNote
          /\ \A y \in UnsavedOf(m) : /\ y.fresh /\ y.text = notes[x][m].text
                                     /\ y.op = "delete" <=> y.text = ""
          /\ \A v \in Seen(m) : v # AbsentNote /\ v.at >= notes[x][m].at => v.text = notes[x][m].text
      BY <1>6, Zenon DEF NoteSafe, Sole
    <3>2. c.text = notes[x][m].text /\ (c.op = "delete" <=> c.text = "")
      BY <2>2, <3>1, Zenon
    <3>3. new # AbsentNote => new.text = notes[x][m].text
      BY <1>2, <3>2, Zenon
    <3>4. notes[x][m].text = IF new = AbsentNote THEN "" ELSE new.text
      BY <1>2, <1>3, <3>2, Zenon
    <3>5. \A v \in Seen(m)' : v # AbsentNote /\ v.at >= notes'[x][m].at => v.text = notes'[x][m].text
      BY <1>6, <2>4, <3>1, <3>3, Zenon
    <3>6. \A y \in UnsavedOf(m)' : /\ y.fresh /\ y.text = notes'[x][m].text
                                   /\ y.op = "delete" <=> y.text = ""
      BY <1>6, <2>5, <3>1, Zenon
    <3> QED
      BY <1>6, <2>1, <3>1, <3>4, <3>5, <3>6, Zenon
  <2> QED
    BY <2>6, <2>7, <2>8, <2>9, Zenon DEF NoteSafe
<1> QED
  BY <1>8, <1>9

(* Without notes and calls all is safe. *)
LEMMA NoteStart == NoteInit => NoteInv
<1> SUFFICES ASSUME NoteInit PROVE NoteInv
  OBVIOUS
<1> USE NoNotesTyped
<1>0. wall \in Nat /\ wall > 0
  <2>1. Behind \in Nat
    BY NoteAssumption
  <2>2. wall = Behind + 1
    BY DEF NoteInit
  <2> QED
    BY <2>1, <2>2
<1>1. NoteTypeOK
  <2>1. /\ notes = [b \in Browsers |-> NoNotes] /\ disk = notes /\ annotations = NoNotes /\ calls = {}
        /\ latest = [n \in NoteTargets |-> {}] /\ writers = latest /\ raced = {} /\ made = 0
    BY DEF NoteInit
  <2> QED
    BY <1>0, <2>1 DEF NoteTypeOK
<1>2. ASSUME NEW n \in NoteTargets PROVE NoteSafe(n)
  <2>1. \A v \in Seen(n) : v = AbsentNote
    BY DEF NoteInit, Seen
  <2>2. UnsavedOf(n) = {} /\ writers[n] = {}
    BY DEF NoteInit, UnsavedOf
  <2>3. \A b \in Browsers : notes[b][n] = AbsentNote /\ disk[b][n] = AbsentNote
    BY DEF NoteInit
  <2>5. Untouched(n)
    BY <2>1, <2>3 DEF Untouched
  <2>6. Sole(n)
    BY <2>2 DEF Sole
  <2>7. \A v \in Seen(n) : v.at < wall
    BY <1>0, <2>1
  <2> QED
    BY <2>2, <2>5, <2>6, <2>7 DEF NoteSafe
<1> QED
  BY <1>1, <1>2 DEF NoteInv

(* Every step of a browser and of the server keeps all notes safe. *)
LEMMA NoteStep ==
  ASSUME NoteInv, Behind = 0, [NoteNext]_note_vars
  PROVE  NoteInv'
<1>1. NoteTypeOK /\ \A n \in NoteTargets : NoteSafe(n)
  BY DEF NoteInv
<1>2. CASE NoteNext
  <2>1. NoteTypeOK'
    BY <1>1, <1>2, NoteTypeStep
  <2>2. ASSUME NEW m \in NoteTargets PROVE NoteSafe(m)'
    <3>0. NoteSafe(m)
      BY <1>1
    <3>1. ASSUME NEW b \in Browsers, NEW n \in NoteTargets, NEW text \in NoteTexts \cup {""},
                 NEW stored \in BOOLEAN, Edit(b, n, text, stored)
          PROVE  NoteSafe(m)'
      BY <1>1, <3>0, <3>1, EditStep
    <3>2. ASSUME NEW b \in Browsers, NEW n \in NoteTargets, Save(b, n) PROVE NoteSafe(m)'
      BY <1>1, <3>0, <3>2, SaveStep
    <3>3. ASSUME NEW b \in Browsers, LoadSource(b) PROVE NoteSafe(m)'
      <4>1. Issue(b, "list", "session", "", "loading") /\ writers' = writers
        BY <3>3 DEF LoadSource
      <4> QED
        BY <1>1, <3>0, <4>1, IssueStep
    <3>4. ASSUME NEW b \in Browsers, LoadLogTypes(b) PROVE NoteSafe(m)'
      <4>1. Issue(b, "list", "log_type", "", "loading") /\ writers' = writers
        BY <3>4 DEF LoadLogTypes
      <4> QED
        BY <1>1, <3>0, <4>1, IssueStep
    <3>5. ASSUME NEW b \in Browsers, SelectOther(b) PROVE NoteSafe(m)'
      BY <3>0, <3>5, Zenon DEF SelectOther, NoteSafe, Untouched, Sole, Seen, UnsavedOf
    <3>6. ASSUME NEW b \in Browsers, Reload(b) PROVE NoteSafe(m)'
      BY <1>1, <3>0, <3>6, ReloadStep
    <3>7. ASSUME NEW c \in calls, ServeNoteList(c) PROVE NoteSafe(m)'
      BY <1>1, <3>0, <3>7, ListServed
    <3>8. ASSUME NEW c \in calls, ServeNoteWrite(c) PROVE NoteSafe(m)'
      BY <1>1, <3>0, <3>8, WriteServed
    <3>9. ASSUME NEW c \in calls, Saved(c) \/ CallFails(c) PROVE NoteSafe(m)'
      BY <1>1, <3>0, <3>9, OverStep
    <3>10. ASSUME NEW c \in calls, NEW stored \in BOOLEAN, Loaded(c, stored) PROVE NoteSafe(m)'
      BY <1>1, <3>0, <3>10, LoadedStep
    <3> QED
      BY <1>2, <3>1, <3>2, <3>3, <3>4, <3>5, <3>6, <3>7, <3>8, <3>9, <3>10 DEF NoteNext
  <2> QED
    BY <2>1, <2>2 DEF NoteInv
<1>3. CASE UNCHANGED note_vars
  <2>1. NoteTypeOK'
    BY <1>1, <1>3 DEF note_vars, NoteTypeOK
  <2>2. ASSUME NEW m \in NoteTargets PROVE NoteSafe(m)'
    <3>1. NoteSafe(m)
      BY <1>1
    <3>2. /\ wall' = wall /\ notes' = notes /\ disk' = disk /\ annotations' = annotations
          /\ calls' = calls /\ latest' = latest /\ writers' = writers /\ raced' = raced
      BY <1>3 DEF note_vars
    <3>3. wall' \in Nat /\ wall' >= wall
      BY <1>1, <3>2 DEF NoteTypeOK
    <3> QED
      BY <1>1, <3>1, <3>2, <3>3, StillStep, OldCall, Zenon
  <2> QED
    BY <2>1, <2>2 DEF NoteInv
<1> QED
  BY <1>2, <1>3

(* With clocks that agree, and for any number of browsers, notes and       *)
(* requests: a note that one browser writes, each edit after its last      *)
(* save, is the same in that browser and on the server once the server has *)
(* carried out the save of the present text, whatever lists arrive late    *)
(* and whichever requests fail (applyServerAnnotations, syncSourceNoteNow, *)
(* deleteServerAnnotation, upsert_handler).                                *)
THEOREM SavedTextIsKept ==
  ASSUME Behind = 0
  PROVE  NoteSpec => []SavedEditStays
<1>1. NoteInit => NoteInv
  BY NoteStart
<1>2. NoteInv /\ [NoteNext]_note_vars => NoteInv'
  BY NoteStep
<1>3. NoteInv => SavedEditStays
  <2> SUFFICES ASSUME NoteInv, NEW n \in NoteTargets \ raced, NEW b \in latest[n], writers[n] = {b}
               PROVE  notes[b][n].text = IF annotations[n] = AbsentNote THEN ""
                                         ELSE annotations[n].text
    BY Zenon DEF SavedEditStays
  <2>1. b \in Browsers
    BY DEF NoteInv, NoteTypeOK
  <2> QED
    BY <2>1, Zenon DEF NoteInv, NoteSafe, Sole
<1> QED
  BY <1>1, <1>2, <1>3, PTL DEF NoteSpec
=============================================================================
