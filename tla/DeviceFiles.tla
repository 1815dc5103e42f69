------------------------------ MODULE DeviceFiles ------------------------------
(***************************************************************************)
(* The files of a device: its private key and certificate, which a Server  *)
(* makes when it starts for the first time (initialize_private_key), and   *)
(* its configuration (load and save, of ServerConfig and of Config alike). *)
(* The program may be killed between any two steps, opening (but for what  *)
(* save opens), writing or removing a file may fail, and a user may remove *)
(* a file.                                                                 *)
(*                                                                         *)
(* A file is known by what it belongs to (the pair it was generated with,  *)
(* the version of the settings), by whether all of it is there and, for    *)
(* the key, by whether it has the secure permissions.                      *)
(***************************************************************************)
EXTENDS Integers

CONSTANTS
  Absent,      \* the file does not exist
  MaxPairs,    \* bound: pairs generated
  MaxVersion,  \* bound: versions of the settings
  MaxRemovals  \* bound: files the user removes

File(of, whole, secure) == [of |-> of, whole |-> whole, secure |-> secure]
Files == [of : Nat, whole : BOOLEAN, secure : BOOLEAN]

ASSUME DeviceFilesAssumption ==
  MaxPairs \in Nat \ {0} /\ MaxVersion \in Nat /\ MaxRemovals \in Nat /\ Absent \notin Files

VARIABLES
  step,        \* where the program is; "off", "failed" and "up" are not within a call
  private,     \* the umask of the program gives nobody else access
  dir,         \* get_private_keys_dir: "absent", "open" or "secure"
  key, cert,   \* the two files in it
  opened,      \* the files opened for writing
  pairs,       \* pairs generated so far
  config, tmp, \* the configuration file and the file it is written to
  settings,    \* version of the settings in memory
  lost,        \* history: a close failed, which nobody looks at
  identity,    \* history: the pair the server was last up with, 0 before
  removals     \* files the user removed

keyVars == <<dir, key, cert, opened, pairs>>
configVars == <<config, tmp, settings>>
vars == <<step, private, keyVars, configVars, lost, identity, removals>>

Torn(f) == f # Absent /\ ~f.whole

Init ==
  /\ step = "off" /\ private \in BOOLEAN /\ dir \in {"absent", "open", "secure"}
  /\ key = Absent /\ cert = Absent /\ opened = {} /\ pairs = 0
  /\ config = Absent /\ tmp = Absent /\ settings = 0
  /\ lost = FALSE /\ identity = 0 /\ removals = 0

Goto(next) ==
  /\ step' = next /\ identity' = IF step = "load" /\ next = "up" THEN key.of ELSE identity
  /\ UNCHANGED <<private, removals>>

\* The application loads its configuration, if it ever saved one; a file that
\* ends early makes the archive throw.
Start ==
  /\ step \in {"off", "failed"}
  /\ Goto(IF Torn(config) THEN "failed" ELSE "validate")
  /\ settings' = IF config = Absent \/ Torn(config) THEN 0 ELSE config.of
  /\ opened' = {} /\ UNCHANGED <<dir, key, cert, pairs, config, tmp, lost>>

(***************************************************************************)
(* initialize_private_key and the end of restart.                          *)
(***************************************************************************)
\* Mutated Validate: a key without a certificate is taken for a first start.
ValidateCertOnly ==
  /\ step = "validate"
  /\ IF dir = "open" \/ (key = Absent /\ cert # Absent)
     THEN Goto("failed") /\ UNCHANGED dir
     ELSE /\ Goto("directory")
          /\ dir' = IF dir = "absent" THEN IF private THEN "secure" ELSE "open" ELSE dir
  /\ UNCHANGED <<key, cert, opened, pairs, configVars, lost>>

\* validate_config wants a secure directory or none; a key without a certificate,
\* or the reverse, is refused.
Validate ==
  /\ step = "validate"
  /\ IF dir = "open" \/ (key = Absent) # (cert = Absent)
     THEN Goto("failed") /\ UNCHANGED dir
     ELSE /\ Goto("directory")
          /\ dir' = IF dir = "absent" THEN IF private THEN "secure" ELSE "open" ELSE dir
  /\ UNCHANGED <<key, cert, opened, pairs, configVars, lost>>

\* Mutated SecureDirectory: a pair is generated at every start.
SecureDirectoryAnew ==
  /\ step = "directory" /\ dir' = "secure"
  /\ pairs < MaxPairs /\ Goto("open_key") /\ pairs' = pairs + 1
  /\ UNCHANGED <<key, cert, opened, configVars, lost>>

SecureDirectory ==
  /\ step = "directory" /\ dir' = "secure"
  /\ IF cert = Absent
     THEN pairs < MaxPairs /\ Goto("open_key") /\ pairs' = pairs + 1
     ELSE Goto("check") /\ UNCHANGED pairs
  /\ UNCHANGED <<key, cert, opened, configVars, lost>>

\* Both files are opened, which empties them, before either is looked at; when
\* one could not be opened the other stays.
OpenKey(ok) ==
  /\ step = "open_key" /\ Goto("open_cert")
  /\ key' = IF ok THEN File(pairs, FALSE, private) ELSE key
  /\ opened' = IF ok THEN {"key"} ELSE {}
  /\ UNCHANGED <<dir, cert, pairs, configVars, lost>>

OpenCert(ok) ==
  /\ step = "open_cert"
  /\ Goto(IF ok /\ "key" \in opened THEN "write" ELSE "failed")
  /\ cert' = IF ok THEN File(pairs, FALSE, private) ELSE cert
  /\ UNCHANGED <<dir, key, opened, pairs, configVars, lost>>

\* After a failure both files are removed, as far as that succeeds.
Discard ==
  /\ key' \in {key, Absent} /\ cert' \in {cert, Absent}
  /\ Goto("failed")

\* What is written reaches the file when it is closed, the certificate first.
Write(ok) ==
  /\ step = "write"
  /\ IF ok THEN Goto("close_cert") /\ UNCHANGED <<key, cert>> ELSE Discard
  /\ UNCHANGED <<dir, opened, pairs, configVars, lost>>

CloseCert(ok) ==
  /\ step = "close_cert" /\ Goto("close_key")
  /\ cert' = [cert EXCEPT !.whole = ok] /\ lost' = (lost \/ ~ok)
  /\ UNCHANGED <<dir, key, opened, pairs, configVars>>

CloseKey(ok) ==
  /\ step = "close_key" /\ Goto("secure_key")
  /\ key' = [key EXCEPT !.whole = ok] /\ lost' = (lost \/ ~ok)
  /\ UNCHANGED <<dir, cert, opened, pairs, configVars>>

SecureKey(ok) ==
  /\ step = "secure_key"
  /\ IF ok THEN Goto("load") /\ key' = [key EXCEPT !.secure = TRUE] /\ UNCHANGED cert ELSE Discard
  /\ UNCHANGED <<dir, opened, pairs, configVars, lost>>

\* Mutated CheckPermissions: the permissions of a key that is there are not looked at.
CheckNothing == step = "check" /\ Goto("load") /\ UNCHANGED <<keyVars, configVars, lost>>

CheckPermissions ==
  /\ step = "check" /\ Goto(IF key.secure THEN "load" ELSE "failed")
  /\ UNCHANGED <<keyVars, configVars, lost>>

\* set_certificate reads both files, and throws when one ends early or when the
\* key is not the one of the certificate.
Load ==
  /\ step = "load"
  /\ Goto(IF key # Absent /\ cert # Absent /\ key.whole /\ cert.whole /\ key.of = cert.of
          THEN "up" ELSE "failed")
  /\ UNCHANGED <<keyVars, configVars, lost>>

(***************************************************************************)
(* save, and the settings it writes.                                       *)
(***************************************************************************)
Change ==
  /\ step = "up" /\ settings < MaxVersion /\ settings' = settings + 1
  /\ UNCHANGED <<step, private, keyVars, config, tmp, lost, identity, removals>>

\* Mutated SaveOpen: the configuration file itself is opened for writing.
SaveOpenInPlace ==
  /\ step = "up" /\ Goto("save_close") /\ tmp' = File(settings, FALSE, private) /\ config' = tmp'
  /\ UNCHANGED <<keyVars, settings, lost>>

SaveOpen ==
  /\ step = "up" /\ Goto("save_close") /\ tmp' = File(settings, FALSE, private)
  /\ UNCHANGED <<keyVars, config, settings, lost>>

\* The state of the stream is not looked at after close.
SaveClose(ok) ==
  /\ step = "save_close" /\ Goto("save_rename")
  /\ tmp' = [tmp EXCEPT !.whole = ok] /\ lost' = (lost \/ ~ok)
  /\ UNCHANGED <<keyVars, config, settings>>

SaveRename ==
  /\ step = "save_rename" /\ Goto("up") /\ config' = tmp /\ tmp' = Absent
  /\ UNCHANGED <<keyVars, settings, lost>>

(***************************************************************************)
(* The environment.                                                        *)
(***************************************************************************)
Killed ==
  /\ step \notin {"off", "failed"} /\ Goto("off") /\ settings' = 0
  /\ UNCHANGED <<keyVars, config, tmp, lost>>

UserRemoves ==
  /\ step = "off" /\ removals < MaxRemovals /\ removals' = removals + 1
  /\ \/ key # Absent /\ key' = Absent /\ UNCHANGED cert
     \/ cert # Absent /\ cert' = Absent /\ UNCHANGED key
  /\ UNCHANGED <<step, private, dir, opened, pairs, configVars, lost, identity>>

Next ==
  \/ Start \/ Validate \/ SecureDirectory \/ CheckPermissions \/ Load
  \/ Change \/ SaveOpen \/ SaveRename
  \/ \E ok \in BOOLEAN : \/ OpenKey(ok) \/ OpenCert(ok) \/ Write(ok) \/ CloseCert(ok)
                         \/ CloseKey(ok) \/ SecureKey(ok) \/ SaveClose(ok)
  \/ Killed \/ UserRemoves

Spec == Init /\ [][Next]_vars

(***************************************************************************)
(* Properties.                                                             *)
(***************************************************************************)
Saving == step \in {"save_close", "save_rename"}

\* A server that is up has both files, whole, from one generation, and nobody else
\* can read the key: wherever earlier starts were killed or failed.
UpMeansWholePair ==
  step = "up" \/ Saving =>
    /\ key # Absent /\ cert # Absent /\ key.of = cert.of
    /\ key.whole /\ cert.whole /\ key.secure /\ dir = "secure"

\* A key that has been in use, or could be, is never written over: the test for
\* one file without the other (Server.cpp:370) comes before anything is opened.
KeyKept ==
  [][key # Absent /\ key.whole /\ key.secure => key' = Absent \/ (key'.of = key.of /\ key'.whole)]_vars

\* A device that has been up starts again, with the identity it had, as long as
\* nobody removes its files and its configuration is whole: no later start that is
\* killed or fails touches the pair.
StartsAgain ==
  identity # 0 /\ removals = 0 => /\ step = "failed" => Torn(config)
                                  /\ key.of = identity /\ cert.of = identity

\* The configuration is a version that was saved, all of it, or the one before,
\* unless a close failed: a kill in the middle of a save does not show, and the
\* settings never go back to an earlier save.
ConfigKept ==
  [][lost' \/ config' = config \/ (config'.whole /\ (config # Absent => config'.of >= config.of))]_vars
===============================================================================
