------------------------------ MODULE Identity ------------------------------
(***************************************************************************)
(* Who the server is: its self-signed certificate, made on the first start *)
(* and loaded by the later ones (crates/server/src/tls.rs), and the client *)
(* side that trusts the first certificate it sees                          *)
(* (crates/server/src/fingerprint.rs).  Both are files written in place,   *)
(* and both processes may be killed between any two file operations.       *)
(*                                                                         *)
(* A generated certificate is a number; the key of certificate n is n, and *)
(* so is its fingerprint.                                                  *)
(***************************************************************************)
EXTENDS Integers

CONSTANT MaxCerts

ASSUME IdentityAssumption == MaxCerts \in Nat

(* What stands for no certificate: generated ones are 1, 2, ...            *)
NoFile == -1
CutOff == -2
Closed == -3
NoPins == 0

VARIABLES certs,      \* number of certificates generated so far
          cert_file,  \* server.crt
          key_file,   \* server.key
          boot,       \* where load_or_generate is
          bundle,     \* [cert, key] in memory
          store,      \* the client's PinStore: Closed, NoPins or the pin in memory
          pin_file,   \* the pin file: NoFile, CutOff or a pin
          saving,     \* PinStore::save is writing the file
          alarm       \* history: E-2103 was returned for a mismatch

id_vars == <<certs, cert_file, key_file, boot, bundle, store, pin_file, saving, alarm>>

server_vars == <<certs, cert_file, key_file, boot, bundle>>
client_vars == <<store, pin_file, saving, alarm>>

IdInit ==
  /\ certs = 0 /\ cert_file = NoFile /\ key_file = NoFile
  /\ boot = "down" /\ bundle = [cert |-> 0, key |-> 0]
  /\ store = Closed /\ pin_file = NoFile /\ saving = FALSE
  /\ alarm = FALSE

-----------------------------------------------------------------------------
(* CertBundle::load: both files are there. *)
LoadBundle ==
  /\ boot = "down" /\ cert_file # NoFile /\ key_file # NoFile
  /\ bundle' = [cert |-> cert_file, key |-> key_file]
  /\ boot' = "parse"
  /\ UNCHANGED <<certs, cert_file, key_file, client_vars>>

(* CertBundle::generate: one of the files is missing. *)
GenerateBundle ==
  /\ boot = "down" /\ NoFile \in {cert_file, key_file} /\ certs < MaxCerts
  /\ certs' = certs + 1
  /\ bundle' = [cert |-> certs + 1, key |-> certs + 1]
  /\ boot' = "save cert"
  /\ UNCHANGED <<cert_file, key_file, client_vars>>

(* CertBundle::save: fs::write truncates the file, then fills it; first    *)
(* the certificate, then the key.                                          *)
TruncateCert ==
  /\ boot = "save cert" /\ cert_file' = CutOff /\ boot' = "fill cert"
  /\ UNCHANGED <<certs, key_file, bundle, client_vars>>
FillCert ==
  /\ boot = "fill cert" /\ cert_file' = bundle.cert /\ boot' = "save key"
  /\ UNCHANGED <<certs, key_file, bundle, client_vars>>
TruncateKey ==
  /\ boot = "save key" /\ key_file' = CutOff /\ boot' = "fill key"
  /\ UNCHANGED <<certs, cert_file, bundle, client_vars>>

(* Mutant of FillKey: a certificate that could not be saved is served.     *)
FillKeyOrNot ==
  /\ boot = "fill key" /\ key_file' \in {bundle.key, NoFile} /\ boot' = "parse"
  /\ UNCHANGED <<certs, cert_file, bundle, client_vars>>

FillKey ==
  /\ boot = "fill key" /\ key_file' = bundle.key /\ boot' = "parse"
  /\ UNCHANGED <<certs, cert_file, bundle, client_vars>>

(* leaf_cert_der and build_server_config: what does not parse, or a key    *)
(* that is not the certificate's, ends the start.                          *)
build_server_config ==
  /\ boot = "parse"
  /\ boot' = IF CutOff \in {bundle.cert, bundle.key} \/ bundle.cert # bundle.key
             THEN "down" ELSE "listening"
  /\ UNCHANGED <<certs, cert_file, key_file, bundle, client_vars>>

(* An I/O error, or the process is killed. *)
ServerDown ==
  /\ boot # "down" /\ boot' = "down"
  /\ UNCHANGED <<certs, cert_file, key_file, bundle, client_vars>>

-----------------------------------------------------------------------------
(* PinStore::open: a file that does not parse is an error. *)
OpenStore ==
  /\ store = Closed /\ pin_file # CutOff
  /\ store' = IF pin_file = NoFile THEN NoPins ELSE pin_file
  /\ UNCHANGED <<server_vars, pin_file, saving, alarm>>

(* verify_or_pin, with the certificate that the server presents.  The      *)
(* first contact: the pin is in memory before it is in the file.           *)
Connected == boot = "listening" /\ store # Closed /\ ~ saving
PinFirst ==
  /\ Connected /\ store = NoPins
  /\ store' = bundle.cert /\ saving' = TRUE /\ pin_file' = CutOff
  /\ UNCHANGED <<server_vars, alarm>>
SavePins ==
  /\ saving /\ saving' = FALSE
  /\ pin_file' = store
  /\ UNCHANGED <<server_vars, store, alarm>>

Contact ==
  /\ Connected /\ store # NoPins
  /\ alarm' = (alarm \/ store # bundle.cert)
  /\ UNCHANGED <<server_vars, store, pin_file, saving>>

(* A write error: the caller is told, the pin stays in memory.             *)
SaveFails ==
  /\ saving /\ saving' = FALSE
  /\ pin_file' \in {NoFile, CutOff}
  /\ UNCHANGED <<server_vars, store, alarm>>

CloseStore ==
  /\ store # Closed /\ store' = Closed /\ saving' = FALSE
  /\ UNCHANGED <<server_vars, pin_file, alarm>>

(* The operator deletes a pin file that no longer opens. *)
DeletePins ==
  /\ store = Closed /\ pin_file = CutOff /\ pin_file' = NoFile
  /\ UNCHANGED <<server_vars, store, saving, alarm>>

IdNext ==
  \/ LoadBundle \/ GenerateBundle \/ TruncateCert \/ FillCert \/ TruncateKey \/ FillKey
  \/ build_server_config \/ ServerDown
  \/ OpenStore \/ PinFirst \/ SavePins \/ Contact \/ SaveFails \/ CloseStore \/ DeletePins

IdSpec == IdInit /\ [][IdNext]_id_vars

-----------------------------------------------------------------------------
(* A client that trusted the server once never sees a mismatch (E-2103),   *)
(* however often either is killed and started again, also in the middle of *)
(* the first start: the certificate a server has listened with is the one  *)
(* all later starts load ("persists it as PEM", tls.rs), so a mismatch     *)
(* always means another certificate, never a half-done save.               *)
NoFalseAlarm == ~ alarm
=============================================================================
