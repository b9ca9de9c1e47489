------------------------------- MODULE Control -------------------------------
(***************************************************************************)
(* The control requests of the WebSocket protocol                          *)
(* (crates/server/src/ws.rs) and the options a source is started with      *)
(* (crates/server/src/source_manager.rs).  A connection handles one frame  *)
(* at a time; several connections run side by side, and a start, resume or *)
(* restart lets go of the table of sources while it opens the device.      *)
(*                                                                         *)
(* Two of the options are kept: the encoding, for those that a restart may *)
(* change, and the pattern of the directory's name.  What the tasks read   *)
(* and log is in SourceManager; here a task is there, ended, or not.       *)
(***************************************************************************)
EXTENDS Naturals

CONSTANTS Conns, Sids, Encodings, Patterns, MaxRequests

NotSet == "not set"

ASSUME ControlAssumption ==
  /\ NotSet \notin Encodings \cup Patterns /\ Patterns # {}
  /\ MaxRequests \in Nat

(* SourceStartOptions: each field supplied or left to the server.          *)
StartOptions == [enc : Encodings \cup {NotSet}, pat : Patterns \cup {NotSet}]
NoOptions == [enc |-> NotSet, pat |-> NotSet]

(* No directory was chosen yet. *)
Nowhere == <<>>

VARIABLES entry,     \* sid |-> SourceEntry
          request,   \* conn |-> the control request being handled
          requests,  \* number of requests so far
          want,      \* history: each source's options, by the answers given
          home,      \* history: the directory each source was first given
          clean      \* history: sids whose requests never ran side by side

ctl_vars == <<entry, request, requests, want, home, clean>>

NoEntry == [known |-> FALSE, opts |-> NoOptions, dir |-> Nowhere, task |-> "none"]
NoRequest == [pc |-> "idle", act |-> "none", sid |-> NotSet, ov |-> NoOptions,
              opts |-> NoOptions, dir |-> Nowhere, code |-> "none", touched |-> FALSE]

CtlInit ==
  /\ entry = [s \in Sids |-> NoEntry]
  /\ request = [c \in Conns |-> NoRequest]
  /\ requests = 0
  /\ want = [s \in Sids |-> NoOptions]
  /\ home = [s \in Sids |-> Nowhere]
  /\ clean = Sids

(* The server's own pattern, set before it listens. *)
DefaultPattern == CHOOSE p \in Patterns : TRUE

Or(a, b) == IF a = NotSet THEN b ELSE a

merge_start_options(base, overrides) ==
  [enc |-> Or(overrides.enc, base.enc), pat |-> Or(overrides.pat, base.pat)]

(* session_dir_name fills the pattern in with the kind, the interface and  *)
(* the time in nanoseconds, for which the sid stands.                      *)
session_dir_name(s, pattern) == <<s, pattern>>

(* session_dir_for: the directory it has, or else a new one.               *)
session_dir_for(s, reuse, opts) ==
  IF reuse # Nowhere THEN reuse ELSE session_dir_name(s, Or(opts.pat, DefaultPattern))

-----------------------------------------------------------------------------
Actions == {"list", "start", "stop", "resume", "restart", "remove", "none"}

Pending(s) == \E c \in Conns : request[c].pc = "open" /\ request[c].sid = s

(* A request that stays in progress while the device is opened, ...        *)
Begin(c, act, s, ov, opts, dir, touched) ==
  /\ requests < MaxRequests /\ request[c].pc # "open"
  /\ requests' = requests + 1
  /\ request' = [request EXCEPT ![c] =
       [pc |-> "open", act |-> act, sid |-> s, ov |-> ov, opts |-> opts,
        dir |-> session_dir_for(s, dir, opts), code |-> "none", touched |-> touched]]
  /\ clean' = IF Pending(s) THEN clean \ {s} ELSE clean

(* ... and one that is answered at once.                                   *)
Reply(c, act, s, code, touched) ==
  /\ requests < MaxRequests /\ request[c].pc # "open"
  /\ requests' = requests + 1
  /\ request' = [request EXCEPT ![c] =
       [NoRequest EXCEPT !.pc = "answered", !.act = act, !.sid = s,
                         !.code = code, !.touched = touched]]
  /\ clean' = IF Pending(s) /\ touched THEN clean \ {s} ELSE clean

(* An action that is missing or unknown, a sid that is no UUID, a spec or  *)
(* an option that does not parse: answered before the manager is asked.    *)
(* Only "list" takes nothing from its payload.                             *)
CtlMalformed(c, act, s) ==
  /\ act # "list"
  /\ Reply(c, act, s, "E-2001", FALSE)
  /\ UNCHANGED <<entry, want, home>>

(* "start" makes up a sid that is not in the table. *)
CtlStart(c, s, opts) ==
  /\ home[s] = Nowhere /\ ~ Pending(s)
  /\ Begin(c, "start", s, opts, opts, Nowhere, FALSE)
  /\ UNCHANGED <<entry, want, home>>

(* A task that has ended is let go of first. *)
Reaped(x) == IF x.task = "ended" THEN [x EXCEPT !.task = "none"] ELSE x

CtlResume(c, s) ==
  /\ entry[s].known /\ Reaped(entry[s]).task = "none"
  /\ entry' = [entry EXCEPT ![s] = Reaped(@)]
  /\ Begin(c, "resume", s, NoOptions, entry[s].opts, entry[s].dir, FALSE)
  /\ UNCHANGED <<want, home>>

(* "source sid is unknown", "source sid is already active" *)
CtlResumeRefused(c, s) ==
  /\ ~ entry[s].known \/ entry[s].task = "live"
  /\ Reply(c, "resume", s, "E-2001", FALSE)
  /\ UNCHANGED <<entry, want, home>>

(* Mutant of CtlRestart: the new options are stored before the open.       *)
RestartStoresFirst(c, s, ov) ==
  /\ entry[s].known
  /\ LET opts == merge_start_options(entry[s].opts, ov) IN
       /\ entry' = [entry EXCEPT ![s].task = "none", ![s].opts = opts]
       /\ Begin(c, "restart", s, ov, opts, entry[s].dir, TRUE)
  /\ UNCHANGED <<want, home>>

(* restart_with_options stops the task, if there is one, and only then     *)
(* opens the device again; the entry keeps its options until that is done. *)
CtlRestart(c, s, ov) ==
  /\ entry[s].known
  /\ entry' = [entry EXCEPT ![s].task = "none"]
  /\ Begin(c, "restart", s, ov, merge_start_options(entry[s].opts, ov), entry[s].dir,
           entry[s].task = "live")
  /\ UNCHANGED <<want, home>>

CtlRestartRefused(c, s) ==
  /\ ~ entry[s].known
  /\ Reply(c, "restart", s, "E-2001", FALSE)
  /\ UNCHANGED <<entry, want, home>>

(* The runner has registered the session: the entry is written, whatever   *)
(* has become of the one it was made from.                                 *)
Opened(c) ==
  /\ request[c].pc = "open"
  /\ LET r == request[c] IN
       /\ entry' = [entry EXCEPT ![r.sid] =
            [known |-> TRUE, opts |-> r.opts, dir |-> r.dir, task |-> "live"]]
       /\ want' = [want EXCEPT ![r.sid] =
            [f \in DOMAIN @ |-> IF r.ov[f] = NotSet THEN @[f] ELSE r.ov[f]]]
       /\ home' = [home EXCEPT ![r.sid] = IF @ = Nowhere THEN r.dir ELSE @]
       /\ request' = [request EXCEPT ![c].pc = "answered", ![c].code = "ok",
                                     ![c].touched = TRUE]
  /\ UNCHANGED <<requests, clean>>

(* lifecycle_error_id: the id the source reports, or E-1101; of the errors *)
(* with no id of their own only the manager's refusals are E-2001.         *)
lifecycle_error_id(source) == IF source THEN "typed" ELSE "E-1101"

OpenFailed(c) ==
  /\ request[c].pc = "open"
  /\ \E source \in BOOLEAN :
       request' = [request EXCEPT ![c].pc = "answered", ![c].code = lifecycle_error_id(source)]
  /\ UNCHANGED <<entry, requests, want, home, clean>>

CtlStop(c, s) ==
  LET active == entry[s].known /\ entry[s].task # "none" IN
  /\ entry' = [entry EXCEPT ![s].task = "none"]
  /\ Reply(c, "stop", s, IF active THEN "ok" ELSE "E-2001", active)
  /\ UNCHANGED <<want, home>>

(* remove takes the entry out of the table and the session out of the      *)
(* registry, where a runner that is being started puts it some time before *)
(* the entry is there: then too it answers that it has removed the source. *)
CtlRemove(c, s) ==
  /\ entry' = [entry EXCEPT ![s] = NoEntry]
  /\ \E found \in {entry[s].known, entry[s].known \/ Pending(s)} :
       Reply(c, "remove", s, IF found THEN "ok" ELSE "E-2001", found)
  /\ UNCHANGED <<want, home>>

(* "list" only reads. *)
CtlList(c, s) ==
  /\ Reply(c, "list", s, "ok", FALSE)
  /\ UNCHANGED <<entry, want, home>>

(* The device closes or fails. *)
TaskEnds(s) ==
  /\ entry[s].task = "live"
  /\ entry' = [entry EXCEPT ![s].task = "ended"]
  /\ UNCHANGED <<request, requests, want, home, clean>>

CtlNext ==
  \/ \E c \in Conns : Opened(c) \/ OpenFailed(c)
  \/ \E c \in Conns, s \in Sids :
       \/ \E act \in Actions : CtlMalformed(c, act, s)
       \/ CtlResume(c, s) \/ CtlResumeRefused(c, s) \/ CtlRestartRefused(c, s)
       \/ CtlStop(c, s) \/ CtlRemove(c, s) \/ CtlList(c, s)
       \/ \E o \in StartOptions : CtlStart(c, s, o) \/ CtlRestart(c, s, o)
  \/ \E s \in Sids : TaskEnds(s)

CtlSpec == CtlInit /\ [][CtlNext]_ctl_vars

-----------------------------------------------------------------------------
(* A source's stored options are those its answered requests add up to:    *)
(* "supplied fields update that source's stored lifecycle options, while   *)
(* omitted fields keep the previous values for future resume / restart     *)
(* actions" (FR-WIRE-003), whatever restarts failed, devices closed or     *)
(* resumes came between.  It is said of sources whose requests did not     *)
(* overlap: of two overlapping restarts the one that ends last wins, with  *)
(* the options it had read before the other.                               *)
StickyOptions ==
  \A s \in clean : entry[s].known /\ ~ Pending(s) => entry[s].opts = want[s]

(* A source has one directory for as long as its sid lives, even when      *)
(* requests overlap or a restart brings a new pattern: "existing           *)
(* session-dir, if any, are reused so subscribers and on-disk logs stay    *)
(* attached to the same logical source lifetime" (source_manager.rs).      *)
DirKept == \A s \in Sids : entry[s].known => entry[s].dir = home[s]

(* E-2001 means that the request was not carried out at all: it has not    *)
(* stopped, started, removed or changed a source.  (An E-1101 restart has  *)
(* stopped the task.)                                                      *)
RefusedUntouched ==
  \A c \in Conns : request[c].code = "E-2001" => ~ request[c].touched

(* What a source was given at its start and by answered requests lasts for *)
(* as long as its sid, and a refused request leaves no trace.              *)
LifecycleKeeps == StickyOptions /\ DirKept /\ RefusedUntouched
=============================================================================
