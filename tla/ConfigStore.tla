----------------------------- MODULE ConfigStore -----------------------------
(***************************************************************************)
(* The configuration: ConfigManager (config_manager.py) keeps it in memory *)
(* and in config.json, whose secrets are encrypted with the key in         *)
(* config.key; BackupService (webdav_backup.py) packs both files into an   *)
(* archive and puts those of an archive in their place.                    *)
(*                                                                         *)
(* Every request of the admin API runs in a thread of its own.  The lock   *)
(* of the manager covers single steps of a load, an update or a write, and *)
(* the whole of a restore from its guard snapshot to its last file; the    *)
(* task lock admits one backup or restore at a time.  Both files together  *)
(* have to open, whatever fails; and memory and file must agree at rest.   *)
(***************************************************************************)
EXTENDS Naturals

CONSTANTS
    User,       \* threads that serve requests
    Setting,    \* values of the settings that are not secret
    Factory,    \* ... those of DEFAULT_CONFIG
    Secret,     \* plaintexts of the secrets (115 cookie, WebDAV password)
    Key,        \* contents of config.key
    Own,        \* ... the one os.urandom yields here
    Import,     \* archives of other installations on the WebDAV server
    None,       \* no file, no secret
    Garbled,    \* a ciphertext that could not be decrypted and was kept
    Cut,        \* a guard snapshot that was not written to its end
    Fault,      \* "writefail", "readfail" (config.json), "keyfail" (config.key
                \* cannot be read or made), "crash"
    MaxOps      \* bound on the number of requests

\* A secret as it stands in config.json: the plaintext and the key it needs.
Cipher   == [val : Secret \union {Garbled}, key : Key]
Settings == [set : Setting, sec : Secret \union {Garbled, None}]
File     == [set : Setting, sec : Cipher \union {None}]
Pair     == [config : File \union {None}, key : Key \union {None}]

Default == [set |-> Factory, sec |-> None]

Opens(p) == p.config # None /\ p.config.sec # None => p.config.sec.key = p.key

ASSUME ConfigAssumption ==
    /\ Factory \in Setting /\ Own \in Key
    /\ {None, Garbled} \intersect (Secret \union Key \union User) = {}
    /\ None # Garbled
    /\ None \notin Cipher \union File \union Pair
    /\ Cut \notin Pair
    /\ Fault \subseteq {"writefail", "readfail", "keyfail", "crash"}
    /\ MaxOps \in Nat

\* What _verify_archive lets through, of installations that were sane.
ASSUME ImportAssumption ==
    /\ Import \subseteq [config : File, key : Key]
    /\ \A p \in Import : Opens(p)
    /\ \A p \in Import : p.config.sec # None => p.config.sec.val # Garbled

VARIABLES
    mem,        \* ConfigManager._config
    config,     \* config.json, or None
    key,        \* config.key, or None
    archives,   \* remote archives
    guards,     \* restore-guard-* snapshots that a restore has left
    up,         \* the process runs
    lock,       \* the thread that holds ConfigManager._lock between steps
    task,       \* the thread that holds BackupService._task_lock
    pc,         \* pc[u]: where the request of thread u is
    reloads,    \* reloads[u]: how often u has still to load after its write
    pick,       \* pick[u]: the archive that u restores or packs
    pre,        \* pre[u]: the files before u's restore
    torn,       \* history: a restore was cut off between two files, or its
                \* undoing failed or was cut off
    unsaved,    \* history: the last write failed
    unread,     \* history: a load could not read the key and kept a ciphertext
    ops         \* requests so far

files   == <<config, key>>
remote  == <<archives, guards>>
locks   == <<lock, task>>
request == <<reloads, pick, pre>>
history == <<torn, unsaved, unread>>
vars    == <<mem, config, key, archives, guards, up, lock, task, pc, reloads,
             pick, pre, torn, unsaved, unread, ops>>

PC == {"idle", "load", "write", "packconfig", "packkey", "guard", "guardconfig",
       "guardkey", "putconfig", "putkey", "putstate", "undoconfig", "undokey"}

TypeOK ==
    /\ mem \in Settings
    /\ config \in File \union {None}
    /\ key \in Key \union {None}
    /\ archives \subseteq Pair
    /\ guards \subseteq Pair \union {Cut}
    /\ up \in BOOLEAN
    /\ lock \in User \union {None}
    /\ task \in User \union {None}
    /\ pc \in [User -> PC]
    /\ reloads \in [User -> 0..1]
    /\ pick \in [User -> Pair \union {None}]
    /\ pre \in [User -> Pair \union {None}]
    /\ torn \in BOOLEAN
    /\ unsaved \in BOOLEAN
    /\ unread \in BOOLEAN
    /\ ops \in Nat

Free == lock = None

OnDisk == [config |-> config, key |-> key]

-----------------------------------------------------------------------------
(* Encryption.  The key is made on first use, be it to encrypt or decrypt. *)

KeyInUse == IF key = None THEN Own ELSE key

Encrypted(s, k) == IF s = None THEN None ELSE [val |-> s, key |-> k]

\* What cannot be decrypted is kept as it is.
Decrypted(c, k) ==
    IF c = None THEN None ELSE IF c.key = k THEN c.val ELSE Garbled

KeyAfter(s) == IF s = None THEN key ELSE KeyInUse

Stored(m) == [set |-> m.set, sec |-> Encrypted(m.sec, KeyInUse)]

Loaded == IF config = None THEN Default
          ELSE [set |-> config.set, sec |-> Decrypted(config.sec, KeyInUse)]

-----------------------------------------------------------------------------
(* load, update and _write: each takes the lock for itself, and load and   *)
(* update leave it before they write.                                      *)

Begin(u) ==
    /\ up
    /\ pc[u] = "idle"
    /\ ops < MaxOps
    /\ ops' = ops + 1

\* update, the part under the lock; a new cookie restarts the 115 service,
\* which loads the configuration again.
Update(u) ==
    /\ Begin(u)
    /\ Free
    /\ \/ /\ \E s \in Setting : mem' = [mem EXCEPT !.set = s]
          /\ UNCHANGED reloads
       \/ /\ \E s \in Secret : mem' = [mem EXCEPT !.sec = s]
          /\ \E n \in 0..1 : reloads' = [reloads EXCEPT ![u] = n]
    /\ pc' = [pc EXCEPT ![u] = "write"]
    /\ UNCHANGED <<files, remote, up, locks, pick, pre, history>>

\* _restart_p115 or _restart_emby from the admin page.
Restart(u) ==
    /\ Begin(u)
    /\ pc' = [pc EXCEPT ![u] = "load"]
    /\ UNCHANGED <<mem, files, remote, up, locks, request, history>>

\* What load makes of the file under the lock: m is then in memory, c and k are
\* the files, b is the history unread.  A file that cannot be read is put aside
\* for the defaults; a secret whose key cannot be read stays a ciphertext.
Reads(m, c, k, b) ==
    \/ /\ m = Loaded
       /\ c = config
       /\ k = KeyAfter(Loaded.sec)
       /\ b = unread
    \/ /\ "readfail" \in Fault
       /\ config # None
       /\ m = Default
       /\ c = None
       /\ k = key
       /\ b = unread
    \/ /\ "keyfail" \in Fault
       /\ config # None /\ config.sec # None
       /\ m = [set |-> config.set, sec |-> Garbled]
       /\ c = config
       /\ k = key
       /\ b = TRUE

\* load, the part under the lock.
Load(u) ==
    /\ pc[u] = "load"
    /\ Free
    /\ Reads(mem', config', key', unread')
    /\ pc' = [pc EXCEPT ![u] = "write"]
    /\ UNCHANGED <<remote, up, locks, request, torn, unsaved, ops>>

\* After the write: a restore gives the task lock back and restarts both
\* services; an update may have one restart to do.
AfterWrite(u) ==
    IF task = u
    THEN /\ task' = None
         /\ reloads' = [reloads EXCEPT ![u] = 1]
         /\ pc' = [pc EXCEPT ![u] = "load"]
    ELSE /\ pc' = [pc EXCEPT ![u] = IF reloads[u] > 0 THEN "load" ELSE "idle"]
         /\ reloads' = [reloads EXCEPT ![u] = 0]
         /\ UNCHANGED task

Forget(u) ==
    /\ pick' = [pick EXCEPT ![u] = None]
    /\ pre' = [pre EXCEPT ![u] = None]

\* The file is replaced, with a new key if there was none; or the write fails,
\* the key read or made by then (k) or not.
Written(m, c, k) ==
    \/ config' = Stored(m) /\ key' = KeyAfter(m.sec) /\ unsaved' = FALSE
    \/ /\ Fault \intersect {"writefail", "keyfail"} # {}
       /\ config' = c
       /\ key' \in {k, KeyAfter(m.sec)}
       /\ unsaved' = TRUE

\* Nobody looks at the result of a write that failed.
Write(u) ==
    /\ pc[u] = "write"
    /\ Free
    /\ Written(mem, config, key)
    /\ AfterWrite(u)
    /\ Forget(u)
    /\ UNCHANGED <<mem, remote, up, lock, torn, unread, ops>>

-----------------------------------------------------------------------------
(* run_backup: two files are read one after another, without the lock.     *)

\* Mutant of BeginBackup: a backup does not ask for the task lock.
BeginBackupAnyhow(u) ==
    /\ Begin(u)
    /\ key # None
    /\ pc' = [pc EXCEPT ![u] = "packconfig"]
    /\ UNCHANGED <<mem, files, remote, up, locks, request, history>>

BeginBackup(u) ==
    /\ Begin(u)
    /\ task = None
    /\ key # None
    /\ task' = u
    /\ pc' = [pc EXCEPT ![u] = "packconfig"]
    /\ UNCHANGED <<mem, files, remote, up, lock, request, history>>

\* The request is over and its locks are given back.
GiveUp(u) ==
    /\ pc' = [pc EXCEPT ![u] = "idle"]
    /\ Forget(u)
    /\ lock' = IF lock = u THEN None ELSE lock
    /\ task' = IF task = u THEN None ELSE task

\* config.json may be gone for a moment (see Load); nothing else stops it
\* but the network.
PackConfig(u) ==
    /\ pc[u] = "packconfig"
    /\ config # None
    /\ pick' = [pick EXCEPT ![u] = OnDisk]
    /\ pc' = [pc EXCEPT ![u] = "packkey"]
    /\ UNCHANGED <<mem, files, remote, up, locks, reloads, pre, history, ops>>

PackKey(u) ==
    /\ pc[u] = "packkey"
    /\ archives' = archives \union {[config |-> pick[u].config, key |-> key]}
    /\ GiveUp(u)
    /\ UNCHANGED <<mem, files, guards, up, reloads, history, ops>>

BackupFails(u) ==
    /\ pc[u] \in {"packconfig", "packkey"}
    /\ GiveUp(u)
    /\ UNCHANGED <<mem, files, remote, up, reloads, history, ops>>

-----------------------------------------------------------------------------
(* restore_backup.  From Guard to PutState, or to UndoKey, the thread has  *)
(* the lock, so that nobody loads, updates or writes in between.           *)

BeginRestore(u) ==
    /\ Begin(u)
    /\ task = None
    /\ task' = u
    /\ \E a \in archives : pick' = [pick EXCEPT ![u] = a]
    /\ pc' = [pc EXCEPT ![u] = "guard"]
    /\ UNCHANGED <<mem, files, remote, up, lock, reloads, pre, history>>

\* Mutant of Guard: the files are replaced without the lock.
GuardUnlocked(u) ==
    /\ pc[u] = "guard"
    /\ Free
    /\ pre' = [pre EXCEPT ![u] = OnDisk]
    /\ pc' = [pc EXCEPT ![u] = "guardconfig"]
    /\ UNCHANGED <<mem, files, remote, up, locks, reloads, pick, history, ops>>

\* The lock is taken, and both files are kept in memory ...
Guard(u) ==
    /\ pc[u] = "guard"
    /\ Free
    /\ lock' = u
    /\ pre' = [pre EXCEPT ![u] = OnDisk]
    /\ pc' = [pc EXCEPT ![u] = "guardconfig"]
    /\ UNCHANGED <<mem, files, remote, up, task, reloads, pick, history, ops>>

\* ... and as a guard, first the .json, which stands without its key then, ...
GuardConfig(u) ==
    /\ pc[u] = "guardconfig"
    /\ pc' = [pc EXCEPT ![u] = "guardkey"]
    /\ UNCHANGED <<mem, files, remote, up, locks, request, history, ops>>

\* ... then the .key.
GuardKey(u) ==
    /\ pc[u] = "guardkey"
    /\ guards' = guards \union {pre[u]}
    /\ pc' = [pc EXCEPT ![u] = "putconfig"]
    /\ UNCHANGED <<mem, files, archives, up, locks, request, history, ops>>

\* The download or the verification fails, or a file cannot be read.
RestoreFails(u) ==
    /\ pc[u] = "guard"
    /\ GiveUp(u)
    /\ UNCHANGED <<mem, files, remote, up, reloads, history, ops>>

\* Neither file of the guard is written atomically, and what has been written
\* stays: a part of a file, or one file without the other.
GuardFails(u) ==
    /\ "writefail" \in Fault
    /\ pc[u] \in {"guardconfig", "guardkey"}
    /\ guards' \in {guards, guards \union {Cut}}
    /\ GiveUp(u)
    /\ UNCHANGED <<mem, files, archives, up, reloads, history, ops>>

PutConfig(u) ==
    /\ pc[u] = "putconfig"
    /\ config' = pick[u].config
    /\ pc' = [pc EXCEPT ![u] = "putkey"]
    /\ UNCHANGED <<mem, key, remote, up, locks, request, history, ops>>

PutKey(u) ==
    /\ pc[u] = "putkey"
    /\ key' = pick[u].key
    /\ pc' = [pc EXCEPT ![u] = "putstate"]
    /\ UNCHANGED <<mem, config, remote, up, locks, request, history, ops>>

\* Mutant of PutState: the restore ends without a load.
PutStateOnly(u) ==
    /\ pc[u] = "putstate"
    /\ GiveUp(u)
    /\ UNCHANGED <<mem, files, remote, up, reloads, history, ops>>

\* The check-in state, if the archive has one; then the lock is released and
\* the configuration loaded.
PutState(u) ==
    /\ pc[u] = "putstate"
    /\ lock' = None
    /\ pc' = [pc EXCEPT ![u] = "load"]
    /\ UNCHANGED <<mem, files, remote, up, task, request, history, ops>>

PutFails(u) ==
    /\ "writefail" \in Fault
    /\ pc[u] \in {"putconfig", "putkey", "putstate"}
    /\ pc' = [pc EXCEPT ![u] = "undoconfig"]
    /\ UNCHANGED <<mem, files, remote, up, locks, request, history, ops>>

\* _undo_pre: a file that did not exist is removed again.
UndoConfig(u) ==
    /\ pc[u] = "undoconfig"
    /\ config' = pre[u].config
    /\ pc' = [pc EXCEPT ![u] = "undokey"]
    /\ UNCHANGED <<mem, key, remote, up, locks, request, history, ops>>

\* Mutant of UndoKey: the new key stays.
UndoKeyNot(u) ==
    /\ pc[u] = "undokey"
    /\ GiveUp(u)
    /\ UNCHANGED <<mem, files, remote, up, reloads, history, ops>>

\* Mutant of UndoKey: the lock is not given back.
UndoKeyLocked(u) ==
    /\ pc[u] = "undokey"
    /\ key' = pre[u].key
    /\ pc' = [pc EXCEPT ![u] = "idle"]
    /\ UNCHANGED <<mem, config, remote, up, locks, request, history, ops>>

UndoKey(u) ==
    /\ pc[u] = "undokey"
    /\ key' = pre[u].key
    /\ GiveUp(u)
    /\ UNCHANGED <<mem, config, remote, up, reloads, history, ops>>

UndoFails(u) ==
    /\ "writefail" \in Fault
    /\ pc[u] \in {"undoconfig", "undokey"}
    /\ GiveUp(u)
    /\ torn' = TRUE
    /\ UNCHANGED <<mem, files, remote, up, reloads, unsaved, unread, ops>>

-----------------------------------------------------------------------------

\* The process dies; what it had in memory is gone.  A restore may have replaced
\* one of the two files by then, or may still be writing its guard.
Crash ==
    LET At(S) == \E u \in User : pc[u] \in S
    IN  /\ "crash" \in Fault
        /\ up
        /\ up' = FALSE
        /\ mem' = Default
        /\ pc' = [u \in User |-> "idle"]
        /\ lock' = None /\ task' = None
        /\ reloads' = [u \in User |-> 0]
        /\ pick' = [u \in User |-> None]
        /\ pre' = [u \in User |-> None]
        /\ torn' = (torn \/ At({"putkey", "undoconfig", "undokey"}))
        /\ \/ UNCHANGED guards
           \/ /\ At({"guardconfig", "guardkey"})
              /\ guards' = guards \union {Cut}
        /\ UNCHANGED <<files, archives, unsaved, unread, ops>>

\* ConfigManager.__init__, before anything else runs: load and write.
Boot ==
    /\ ~up
    /\ up' = TRUE
    /\ \E c \in {config, None}, k \in {key, KeyInUse} :
          Reads(mem', c, k, unread') /\ Written(mem', c, k)
    /\ UNCHANGED <<remote, locks, pc, request, torn, ops>>

Init ==
    /\ mem = Default
    /\ config = None /\ key = None
    /\ archives = Import /\ guards = {}
    /\ up = FALSE
    /\ lock = None /\ task = None
    /\ pc = [u \in User |-> "idle"]
    /\ reloads = [u \in User |-> 0]
    /\ pick = [u \in User |-> None]
    /\ pre = [u \in User |-> None]
    /\ torn = FALSE /\ unsaved = FALSE /\ unread = FALSE
    /\ ops = 0

\* What the administrator asks for.
Request(u) == Update(u) \/ Restart(u) \/ BeginBackup(u) \/ BeginRestore(u)

\* How a request goes on.
Proceed(u) ==
    \/ Load(u) \/ Write(u)
    \/ PackConfig(u) \/ PackKey(u) \/ BackupFails(u)
    \/ Guard(u) \/ GuardConfig(u) \/ GuardKey(u) \/ RestoreFails(u) \/ GuardFails(u)
    \/ PutConfig(u) \/ PutKey(u) \/ PutState(u) \/ PutFails(u)
    \/ UndoConfig(u) \/ UndoKey(u) \/ UndoFails(u)

Next ==
    \/ \E u \in User : Request(u) \/ Proceed(u)
    \/ Crash \/ Boot

Spec == Init /\ [][Next]_vars

\* A thread that can go on does; there are finitely many requests, so a lock
\* that is given back is not taken by others for ever.
FairSpec == Spec /\ \A u \in User : WF_vars(Proceed(u))

-----------------------------------------------------------------------------
(* Properties *)

\* Whenever the lock is free the secrets in config.json open with config.key,
\* unless a restore was cut off between the two files or could not be undone.
FilesOpen == ~torn /\ Free => Opens(OnDisk)

\* No secret is lost to a wrong key, in memory or on disk: it would be
\* encrypted once more by the next write and never come back.  That is what
\* happens to one whose key could not be read at a load (unread), which is left
\* out.
SecretsKept ==
    ~torn /\ ~unread =>
      /\ mem.sec # Garbled
      /\ config # None /\ config.sec # None => config.sec.val # Garbled

\* Every archive can be restored, and so can every guard snapshot that was
\* written to its end: both of its files belong together, although they are
\* read, and written, one after another.  And no file is replaced before a
\* guard of both is complete, so that a restore that is cut off or cannot be
\* undone has left one.
BackupsOpen ==
    /\ ~torn => \A p \in archives \union (guards \ {Cut}) : Opens(p)
    /\ \A u \in User :
         lock = u /\ OnDisk # pre[u] => pre[u] \in guards

\* When no request is on, memory and file say the same.
MemoryIsSaved ==
    up /\ (\A u \in User : pc[u] = "idle") /\ ~torn /\ ~unsaved =>
      config # None /\ Loaded = mem

\* A restore that gives the lock back has put both files of the archive in
\* place, or both files are what they were.
AllOrNothing ==
    [][\A u \in User :
         lock = u /\ lock' = None /\ up' /\ ~torn'
         => OnDisk' \in {pick[u], pre[u]}]_vars

\* Every request is answered.
EveryRequestEnds == \A u \in User : pc[u] # "idle" ~> pc[u] = "idle"

=============================================================================
