------------------------------- MODULE Startup --------------------------------
(***************************************************************************)
(* What the desktop does to its own files when it is started, before       *)
(* anything can use them.  provision_v2 brings the key database under the  *)
(* passphrase of the keyring: it exports a plain database next to the old  *)
(* one, sets the old one aside and renames, and picks up a start that was  *)
(* cut off in between.  check_workspace_repair finds out whether the       *)
(* workspace was carried to another machine, and clears what was true of   *)
(* the old one only.  Every step may fail, and the process may end after   *)
(* any of them.                                                            *)
(***************************************************************************)
EXTENDS Naturals, FiniteSets

CONSTANTS Keys,       \* API keys that are issued
          MaxSecrets  \* passphrases the keyring makes (a bound)

VARIABLES at,       \* the step of the start
          files,    \* keys.db, keys.db.migrating, keys.db.legacy.bak.*
          ring,     \* the passphrase the keyring holds: 0 is none
          secrets,  \* passphrases made so far
          mode,     \* how the database is to be opened: the passphrase, or 0
          store,    \* where the key manager works: "file", "memory", "closed"
          kept,     \* keys that were written to the file
          failed,   \* a step of this start failed
          orphaned  \* a rename failed, or the keyring lost the passphrase

keyVars == <<at, files, ring, secrets, mode, store, kept, failed, orphaned>>

None_ == [is |-> "absent", keys |-> {}, secret |-> 0]
Plain(k) == [is |-> "plain", keys |-> k, secret |-> 0]
Cipher(k, s) == [is |-> "cipher", keys |-> k, secret |-> s]
Broken == [is |-> "broken", keys |-> {}, secret |-> 0]

\* An installation of an older version, one of this version, a new one, and one
\* whose file is damaged.
KeysInit ==
  /\ at = "recover" /\ mode = 0 /\ store = "closed" /\ failed = FALSE
  /\ \E k \in SUBSET Keys, d \in {"absent", "plain", "cipher", "broken"} :
       /\ d \in {"absent", "broken"} => k = {}
       /\ files = [db |-> CASE d = "absent" -> None_ [] d = "plain" -> Plain(k)
                            [] d = "cipher" -> Cipher(k, 1) [] OTHER -> Broken,
                   migrating |-> None_, backup |-> {}]
       /\ kept = k /\ orphaned = (d = "broken")
       /\ ring = (IF d = "cipher" THEN 1 ELSE 0)
  /\ secrets = ring

-----------------------------------------------------------------------------
Step(p) == at' = p
FailTo(p) == failed' = TRUE /\ Step(p)

\* (fault) a leftover export is removed, whatever became of the database
RecoveredByRemoval == [files EXCEPT !.migrating = None_]

\* An export is left: it becomes the database when there is none, and otherwise
\* was cut off before the old database was set aside.
Recovered ==
  IF files.migrating # None_ /\ files.db = None_
  THEN [files EXCEPT !.db = files.migrating, !.migrating = None_]
  ELSE [files EXCEPT !.migrating = None_]

\* The rename or the removal may fail; the start goes on.
Recover ==
  /\ at = "recover" /\ Step("secret")
  /\ files' \in {files, Recovered}
  /\ failed' = (failed \/ files' # Recovered)
  /\ orphaned' = (orphaned \/ (files' # Recovered /\ files.db = None_))
  /\ UNCHANGED <<ring, secrets, mode, store, kept>>

\* A passphrase is made if the keyring has none.
Secret ==
  /\ at = "secret" /\ Step("detect")
  /\ IF ring # 0 THEN mode' = ring /\ UNCHANGED <<ring, secrets>>
     ELSE /\ secrets < MaxSecrets
          /\ secrets' = secrets + 1 /\ ring' = secrets' /\ mode' = secrets'
  /\ UNCHANGED <<files, store, kept, failed, orphaned>>

\* Without the keyring the database is opened without encryption.
NoKeyring ==
  /\ at = "secret" /\ mode' = 0 /\ FailTo("open")
  /\ UNCHANGED <<files, ring, secrets, store, kept, orphaned>>

\* The first bytes of the file tell a plain database from an encrypted one.
Detect ==
  /\ at = "detect"
  /\ Step(IF files.db.is = "plain" THEN "export" ELSE "open")
  /\ mode' = IF files.db.is = "broken" THEN 0 ELSE mode
  /\ UNCHANGED <<files, ring, secrets, store, kept, failed, orphaned>>

DetectFails ==
  /\ at = "detect" /\ mode' = 0 /\ FailTo("open")
  /\ UNCHANGED <<files, ring, secrets, store, kept, orphaned>>

\* sqlcipher_export, table by table: into a file that is not new it fails.
ExportBegins ==
  /\ at = "export" /\ files.migrating = None_
  /\ files' = [files EXCEPT !.migrating = Broken]
  /\ Step("exporting")
  /\ UNCHANGED <<ring, secrets, mode, store, kept, failed, orphaned>>

ExportEnds ==
  /\ at = "exporting" /\ Step("set_aside")
  /\ files' = [files EXCEPT !.migrating = Cipher(files.db.keys, mode)]
  /\ UNCHANGED <<ring, secrets, mode, store, kept, failed, orphaned>>

SetAside ==
  /\ at = "set_aside" /\ Step("promote")
  /\ files' = [files EXCEPT !.db = None_, !.backup = @ \cup files.db.keys]
  /\ UNCHANGED <<ring, secrets, mode, store, kept, failed, orphaned>>

Promote ==
  /\ at = "promote" /\ Step("open")
  /\ files' = [files EXCEPT !.db = files.migrating, !.migrating = None_]
  /\ UNCHANGED <<ring, secrets, mode, store, kept, failed, orphaned>>

\* A migration that fails is logged; the database is opened all the same.
MigrationFails ==
  /\ at \in {"export", "exporting", "set_aside", "promote"} /\ FailTo("open")
  /\ orphaned' = (orphaned \/ at = "promote")
  /\ UNCHANGED <<files, ring, secrets, mode, store, kept>>

\* A database that is not there is created; one that does not fit is replaced,
\* for this start, by one in memory.
Fits == files.db = None_ \/ IF mode = 0 THEN files.db.is = "plain"
                            ELSE files.db.is = "cipher" /\ files.db.secret = mode

OpenKeys ==
  /\ at = "open" /\ Step("up")
  /\ store' = IF Fits THEN "file" ELSE "memory"
  /\ files' = IF files.db # None_ THEN files
              ELSE [files EXCEPT !.db = IF mode = 0 THEN Plain({}) ELSE Cipher({}, mode)]
  /\ UNCHANGED <<ring, secrets, mode, kept, failed, orphaned>>

OpenKeysFails ==
  /\ at = "open" /\ store' = "memory" /\ FailTo("up")
  /\ UNCHANGED <<files, ring, secrets, mode, kept, orphaned>>

\* A key issued while the key manager works in memory is gone with the process.
IssueKey(k) ==
  /\ at = "up" /\ store = "file" /\ k \notin kept
  /\ files' = [files EXCEPT !.db.keys = @ \cup {k}]
  /\ kept' = kept \cup {k}
  /\ UNCHANGED <<at, ring, secrets, mode, store, failed, orphaned>>

\* The process ends, wherever it is, and is started again.
StartAgain ==
  /\ at # "recover" /\ Step("recover")
  /\ mode' = 0 /\ store' = "closed" /\ failed' = FALSE
  /\ UNCHANGED <<files, ring, secrets, kept, orphaned>>

\* The passphrase is lost with the user's keyring.
KeyringIsLost ==
  /\ ring # 0 /\ secrets < MaxSecrets
  /\ ring' = 0 /\ orphaned' = TRUE
  /\ UNCHANGED <<at, files, secrets, mode, store, kept, failed>>

KeysNext ==
  \/ Recover \/ Secret \/ NoKeyring \/ Detect \/ DetectFails
  \/ ExportBegins \/ ExportEnds \/ SetAside \/ Promote \/ MigrationFails
  \/ OpenKeys \/ OpenKeysFails \/ StartAgain \/ KeyringIsLost
  \/ \E k \in Keys : IssueKey(k)

\* Wherever a start is cut off or fails, no key that was ever written is in none
\* of the files; and a start that goes through finds all of them, unless a
\* rename of the database has failed or the keyring has lost the passphrase.
KeysSurvive ==
  /\ kept \subseteq files.db.keys \cup files.migrating.keys \cup files.backup
  /\ at = "up" /\ ~failed /\ ~orphaned => store = "file" /\ kept \subseteq files.db.keys

-----------------------------------------------------------------------------
\* The machine a workspace is on.  What the fingerprint does not tell apart does
\* not count as another machine: memory is compared in steps of 16 GB.
Machines == [platform : {"windows-x64"}, ram : {8, 15, 24}]
            \cup [platform : {"macos-arm"}, ram : {8}]
Bucket(n, size) == (n \div size) * size
FromHost(h) == [platform |-> h.platform, ram |-> Bucket(h.ram, 16)]
NoHost == [platform |-> "none", ram |-> 0]
Prints == {FromHost(h) : h \in Machines}

VARIABLES host,       \* the machine the workspace is on now
          print,      \* fingerprint.json
          caches,     \* the machines whose measurements cache/bench and cache/scan hold
          manifest,   \* manifest.json: the platform its runtimes were installed for
          check,      \* the step of check_workspace_repair
          draft,      \* the manifest it has read
          unchecked,  \* machines that were measured on before a check of them
          cut         \* a check ended between its two files

repairVars == <<host, print, caches, manifest, check, draft, unchecked, cut>>

CacheDirs == {"bench", "scan"}

\* A new workspace, or one that has been used on a machine.
RepairInit ==
  /\ host \in Machines
  /\ \/ print = NoHost /\ caches = [d \in CacheDirs |-> {}] /\ manifest = "absent"
     \/ print = FromHost(host) /\ caches = [d \in CacheDirs |-> {print}]
        /\ manifest = print.platform
  /\ check = "idle" /\ draft = "absent" /\ unchecked = {} /\ cut = FALSE

Classify(prev, cur) ==
  CASE prev \in {NoHost, cur} -> "green"
    [] prev # NoHost /\ prev.platform # cur.platform -> "red"
    [] OTHER -> "yellow"

Tier == Classify(print, FromHost(host))

\* get_workspace_fingerprint tells the tier and changes nothing; the page offers
\* the check when it is not green, and the settings offer it always.
ReadManifest ==
  /\ check = "idle" /\ manifest # "torn"
  /\ draft' = IF manifest = "absent" THEN "none" ELSE manifest
  /\ check' = CASE Tier # "green" -> "bench" [] OTHER -> "fingerprint"
  /\ UNCHANGED <<host, print, caches, manifest, unchecked, cut>>

\* The files of a directory are removed one by one; the first that cannot be
\* removed ends the check.
ClearCache(d) ==
  /\ check = d
  /\ caches' = [caches EXCEPT ![d] = {}]
  /\ check' = IF d = "bench" THEN "scan" ELSE "runtimes"
  /\ UNCHANGED <<host, print, manifest, draft, unchecked, cut>>

ClearFails(d) ==
  /\ check = d /\ check' = "idle"
  /\ \E left \in SUBSET caches[d] : caches' = [caches EXCEPT ![d] = left]
  /\ UNCHANGED <<host, print, manifest, draft, unchecked, cut>>

\* On another platform no runtime of the list can be used.
ClearRuntimes ==
  /\ check = "runtimes" /\ check' = "fingerprint"
  /\ draft' = IF Tier = "red" THEN "none" ELSE draft
  /\ UNCHANGED <<host, print, caches, manifest, unchecked, cut>>

\* The fingerprint is replaced by a rename, the manifest is not.
SaveFingerprint ==
  /\ check = "fingerprint"
  /\ print' = FromHost(host) /\ check' = "write"
  /\ UNCHANGED <<host, caches, manifest, draft, unchecked, cut>>

WriteManifest ==
  /\ check = "write"
  /\ manifest' = "torn" /\ check' = "writing"
  /\ UNCHANGED <<host, print, caches, draft, unchecked, cut>>

ManifestWritten ==
  /\ check = "writing"
  /\ manifest' = draft /\ check' = "idle"
  /\ UNCHANGED <<host, print, caches, draft, unchecked, cut>>

\* An error of the disk, or the end of the process.
CheckEnds ==
  /\ check # "idle" /\ check' = "idle"
  /\ cut' = (cut \/ check \in {"write", "writing"})
  /\ UNCHANGED <<host, print, caches, manifest, draft, unchecked>>

\* A benchmark or a scan leaves its result.
Measure(d) ==
  /\ caches' = [caches EXCEPT ![d] = @ \cup {FromHost(host)}]
  /\ unchecked' = IF print = FromHost(host) THEN unchecked
                  ELSE unchecked \cup {FromHost(host)}
  /\ UNCHANGED <<host, print, manifest, check, draft, cut>>

\* The workspace is carried to another machine.
Carry ==
  /\ check = "idle"
  /\ \E h \in Machines \ {host} : host' = h
  /\ UNCHANGED <<print, caches, manifest, check, draft, unchecked, cut>>

RepairNext ==
  \/ ReadManifest \/ ClearRuntimes \/ SaveFingerprint
  \/ WriteManifest \/ ManifestWritten \/ CheckEnds \/ Carry
  \/ \E d \in CacheDirs : ClearCache(d) \/ ClearFails(d) \/ Measure(d)

\* Once the fingerprint says that the workspace is on this machine, nothing in
\* it is another machine's: no measurement but those taken where no check had
\* been, and no runtime of another platform, unless a check was cut off between
\* the fingerprint and the manifest.
MovedIsRepaired ==
  print # NoHost =>
    /\ \A d \in CacheDirs : caches[d] \subseteq {print} \cup unchecked
    /\ check = "idle" /\ ~cut => manifest \in {"none", "absent", print.platform}

\* A start loses no key, and a check of a workspace leaves nothing of another machine.
StartIsSafe == KeysSurvive /\ MovedIsRepaired
=============================================================================
