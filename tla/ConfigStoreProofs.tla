-------------------------- MODULE ConfigStoreProofs --------------------------
(***************************************************************************)
(* What holds of the configuration for any number of threads, keys,        *)
(* secrets and requests, and whatever fails: types, that the two files     *)
(* belong together, that no secret is garbled, that every archive can be   *)
(* restored, and that a restore replaces both files or none.               *)
(***************************************************************************)
EXTENDS ConfigStore, TLAPS

\* The steps of a restore that hold the lock, and those of a task as a whole.
Guarding  == {"guardconfig", "guardkey"}
Replacing == Guarding \union {"putconfig", "putkey", "putstate", "undoconfig", "undokey"}
Packing   == {"packconfig", "packkey"}

-----------------------------------------------------------------------------
(* Types *)

\* TypeOK by parts.
Flags   == up \in BOOLEAN /\ torn \in BOOLEAN /\ unsaved \in BOOLEAN /\ unread \in BOOLEAN
Stores  == /\ mem \in Settings
           /\ config \in File \union {None}
           /\ key \in Key \union {None}
           /\ archives \subseteq Pair
           /\ guards \subseteq Pair \union {Cut}
Threads == /\ lock \in User \union {None}
           /\ task \in User \union {None}
           /\ pc \in [User -> PC]
           /\ reloads \in [User -> 0..1]
           /\ pick \in [User -> Pair \union {None}]
           /\ pre \in [User -> Pair \union {None}]
           /\ ops \in Nat

LEMMA TypeParts == TypeOK <=> Flags /\ Stores /\ Threads
  BY DEF TypeOK, Flags, Stores, Threads

\* An archive is picked, and a restore under the lock knows what was before.
Jobs ==
    \A u \in User :
      /\ pc[u] \in Replacing \union {"guard", "packkey"} => pick[u] # None
      /\ pc[u] \in Replacing => pre[u] # None

TypeInv == TypeOK /\ Jobs

LEMMA OnDiskType == TypeOK => OnDisk \in Pair
  BY DEF TypeOK, OnDisk, Pair

LEMMA KeyType == TypeOK => KeyInUse \in Key
  BY ConfigAssumption DEF TypeOK, KeyInUse

LEMMA StoredType ==
    ASSUME TypeOK, NEW m \in Settings
    PROVE  Stored(m) \in File
<1>1. Encrypted(m.sec, KeyInUse) \in Cipher \union {None}
  BY KeyType DEF Encrypted, Cipher, Settings
<1> QED
  BY <1>1 DEF Stored, File, Settings

LEMMA LoadedType == TypeOK => Loaded \in Settings
<1> SUFFICES ASSUME TypeOK PROVE Loaded \in Settings
  OBVIOUS
<1>1. Default \in Settings
  BY ConfigAssumption DEF Default, Settings
<1>2. ASSUME config # None PROVE Loaded \in Settings
  <2>1. config \in File
    BY <1>2 DEF TypeOK
  <2>2. Decrypted(config.sec, KeyInUse) \in Secret \union {Garbled, None}
    BY <2>1 DEF Decrypted, File, Cipher
  <2>3. config.set \in Setting
    BY <2>1 DEF File
  <2> QED
    BY <1>2, <2>2, <2>3 DEF Loaded, Settings
<1> QED
  BY <1>1, <1>2 DEF Loaded

LEMMA KeyAfterType ==
    ASSUME TypeOK, NEW s
    PROVE  KeyAfter(s) \in Key \union {None}
  BY KeyType DEF KeyAfter, TypeOK

\* What a load takes, from the file, the defaults or with a secret kept as it
\* is, and what a write leaves.
LEMMA ReadsType ==
    ASSUME TypeOK, NEW m, NEW c, NEW k, NEW b, Reads(m, c, k, b)
    PROVE  m \in Settings /\ c \in {config, None} /\ k \in Key \union {None}
<1>1. Default \in Settings /\ Loaded \in Settings
  BY LoadedType, ConfigAssumption DEF Default, Settings
<1>2. config # None => [set |-> config.set, sec |-> Garbled] \in Settings
  BY DEF TypeOK, File, Settings
<1>3. KeyAfter(Loaded.sec) \in Key \union {None} /\ key \in Key \union {None}
  BY KeyAfterType DEF TypeOK
<1> QED
  BY <1>1, <1>2, <1>3 DEF Reads

LEMMA WrittenType ==
    ASSUME TypeOK, NEW m \in Settings, NEW c \in {config, None},
           NEW k \in Key \union {None}, Written(m, c, k)
    PROVE  config' \in File \union {None} /\ key' \in Key \union {None}
<1>1. Stored(m) \in File /\ KeyAfter(m.sec) \in Key \union {None}
  BY StoredType, KeyAfterType
<1>2. c \in File \union {None}
  BY DEF TypeOK
<1> QED
  BY <1>1, <1>2 DEF Written

LEMMA NoneIsNoPair == None \notin Pair
  BY ConfigAssumption

LEMMA InitType == Init => TypeInv
<1> SUFFICES ASSUME Init PROVE TypeInv
  OBVIOUS
<1>1. Flags
  BY Zenon DEF Init, Flags
<1>2. Stores
  <2>1. Import \subseteq Pair
    BY ImportAssumption DEF Pair
  <2>2. Default \in Settings
    BY ConfigAssumption DEF Default, Settings
  <2> QED
    BY <2>1, <2>2 DEF Init, Stores
<1>3. Threads
  BY ConfigAssumption DEF Init, Threads, PC
<1>4. Jobs
  <2>1. \A u \in User : pc[u] = "idle"
    BY DEF Init
  <2>2. "idle" \notin Replacing \union {"guard", "packkey"}
    BY DEF Replacing, Guarding
  <2> QED BY <2>1, <2>2 DEF Jobs
<1> QED
  BY <1>1, <1>2, <1>3, <1>4, TypeParts DEF TypeInv

LEMMA StepFlags == Flags /\ [Next]_vars => Flags'
<1> SUFFICES ASSUME Flags, [Next]_vars PROVE Flags'
  OBVIOUS
<1>1. CASE UNCHANGED vars
  BY <1>1, Zenon DEF vars, Flags
<1>2. ASSUME NEW u \in User, Request(u) PROVE Flags'
  BY <1>2, Zenon DEF Request, Update, Restart, BeginBackup, BeginRestore, Begin,
                     history, Flags
<1>3. ASSUME NEW u \in User, Proceed(u) PROVE Flags'
  BY <1>3, Zenon DEF Proceed, Load, Write, PackConfig, PackKey, BackupFails,
                     Guard, GuardConfig, GuardKey, GuardFails, RestoreFails,
                     PutConfig, PutKey, PutState, PutFails, UndoConfig, UndoKey,
                     UndoFails, Reads, Written, history, Flags
<1>4. CASE Crash
  BY <1>4, Zenon DEF Crash, Flags
<1>5. CASE Boot
  BY <1>5, Zenon DEF Boot, Reads, Written, Flags
<1> QED
  BY <1>1, <1>2, <1>3, <1>4, <1>5 DEF Next

LEMMA StepStores == TypeInv /\ [Next]_vars => Stores'
<1> SUFFICES ASSUME TypeInv, [Next]_vars PROVE Stores'
  OBVIOUS
<1> USE DEF files, remote
<1>0. Stores /\ Threads /\ TypeOK /\ Jobs
  BY TypeParts DEF TypeInv
<1>1. CASE UNCHANGED vars
  BY <1>0, <1>1 DEF vars, Stores
<1>2. ASSUME NEW u \in User, Update(u) PROVE Stores'
  BY <1>0, <1>2 DEF Update, Stores, Settings
<1>3. ASSUME NEW u \in User, Restart(u) \/ BeginBackup(u) \/ BeginRestore(u)
      PROVE  Stores'
  BY <1>0, <1>3 DEF Restart, BeginBackup, BeginRestore, Stores
<1>4. ASSUME NEW u \in User, Load(u) PROVE Stores'
  <2>1. mem' \in Settings /\ config' \in {config, None} /\ key' \in Key \union {None}
    BY <1>0, <1>4, ReadsType DEF Load
  <2> QED
    BY <1>0, <1>4, <2>1 DEF Load, Stores
<1>5. ASSUME NEW u \in User, Write(u) PROVE Stores'
  <2>1. config' \in File \union {None} /\ key' \in Key \union {None}
    BY <1>0, <1>5, WrittenType DEF Write, Stores
  <2> QED
    BY <1>0, <1>5, <2>1 DEF Write, Stores
<1>6. ASSUME NEW u \in User, PackKey(u) PROVE Stores'
  <2>1. pick[u] \in Pair
    BY <1>0, <1>6 DEF PackKey, Jobs, Threads
  <2>2. [config |-> pick[u].config, key |-> key] \in Pair
    BY <1>0, <2>1 DEF Pair, Stores
  <2> QED
    BY <1>0, <1>6, <2>2 DEF PackKey, Stores
<1>7. ASSUME NEW u \in User, Guard(u) \/ GuardConfig(u) \/ GuardFails(u) PROVE Stores'
  BY <1>0, <1>7 DEF Guard, GuardConfig, GuardFails, Stores
<1>12. ASSUME NEW u \in User, GuardKey(u) PROVE Stores'
  <2>1. pre[u] \in Pair
    BY <1>0, <1>12 DEF GuardKey, Jobs, Threads, Replacing, Guarding
  <2> QED
    BY <1>0, <1>12, <2>1 DEF GuardKey, Stores
<1>8. ASSUME NEW u \in User,
             PutConfig(u) \/ PutKey(u) \/ UndoConfig(u) \/ UndoKey(u)
      PROVE  Stores'
  <2>1. pick[u] \in Pair /\ pre[u] \in Pair
    BY <1>0, <1>8 DEF PutConfig, PutKey, UndoConfig, UndoKey, Jobs, Threads, Replacing, Guarding
  <2> QED
    BY <1>0, <1>8, <2>1 DEF PutConfig, PutKey, UndoConfig, UndoKey, Stores, Pair
<1>9. ASSUME NEW u \in User,
             \/ PackConfig(u) \/ BackupFails(u) \/ RestoreFails(u)
             \/ PutState(u) \/ PutFails(u) \/ UndoFails(u)
      PROVE  Stores'
  BY <1>0, <1>9 DEF PackConfig, BackupFails, RestoreFails, PutState, PutFails,
                    UndoFails, Stores
<1>10. CASE Crash
  <2>1. Default \in Settings
    BY ConfigAssumption DEF Default, Settings
  <2> QED
    BY <1>0, <1>10, <2>1 DEF Crash, Stores
<1>11. CASE Boot
  <2>1. PICK c \in {config, None}, k \in {key, KeyInUse} :
          Reads(mem', c, k, unread') /\ Written(mem', c, k)
    BY <1>11 DEF Boot
  <2>2. mem' \in Settings /\ k \in Key \union {None}
    BY <1>0, <2>1, ReadsType
  <2>3. config' \in File \union {None} /\ key' \in Key \union {None}
    BY <1>0, <2>1, <2>2, WrittenType
  <2> QED
    BY <1>0, <1>11, <2>2, <2>3 DEF Boot, Stores
<1> QED
  BY <1>1, <1>2, <1>3, <1>4, <1>5, <1>6, <1>7, <1>8, <1>9, <1>10, <1>11, <1>12
     DEF Next, Request, Proceed

LEMMA StepThreads == TypeInv /\ [Next]_vars => Threads' /\ Jobs'
<1> SUFFICES ASSUME TypeInv, [Next]_vars PROVE Threads' /\ Jobs'
  OBVIOUS
<1> USE DEF locks, request, Forget, GiveUp, PC, Replacing, Guarding
<1>0. TypeOK /\ Jobs /\ Threads /\ None \notin User /\ None \notin Pair
  BY TypeParts, NoneIsNoPair, ConfigAssumption DEF TypeInv
<1>1. CASE UNCHANGED vars
  BY <1>0, <1>1 DEF vars, Threads, Jobs
<1>2. ASSUME NEW u \in User, Update(u) \/ Restart(u) \/ BeginBackup(u)
      PROVE  Threads' /\ Jobs'
  BY <1>0, <1>2 DEF Update, Restart, BeginBackup, Begin, Threads, Jobs
<1>3. ASSUME NEW u \in User, BeginRestore(u) PROVE Threads' /\ Jobs'
  <2>1. archives \subseteq Pair
    BY <1>0 DEF TypeOK
  <2> QED
    BY <1>0, <1>3, <2>1 DEF BeginRestore, Begin, Threads, Jobs
<1>4. ASSUME NEW u \in User, Load(u) PROVE Threads' /\ Jobs'
  BY <1>0, <1>4 DEF Load, Threads, Jobs
<1>5. ASSUME NEW u \in User, Write(u) PROVE Threads' /\ Jobs'
  BY <1>0, <1>5 DEF Write, AfterWrite, Threads, Jobs
<1>6. ASSUME NEW u \in User, PackConfig(u) \/ Guard(u) PROVE Threads' /\ Jobs'
  BY <1>0, <1>6, OnDiskType DEF PackConfig, Guard, Threads, Jobs
<1>7. ASSUME NEW u \in User,
             \/ PutConfig(u) \/ PutKey(u) \/ PutState(u) \/ PutFails(u)
             \/ UndoConfig(u) \/ GuardConfig(u) \/ GuardKey(u)
      PROVE  Threads' /\ Jobs'
  BY <1>0, <1>7 DEF PutConfig, PutKey, PutState, PutFails, UndoConfig, GuardConfig,
                    GuardKey, Threads, Jobs
<1>8. ASSUME NEW u \in User,
             \/ PackKey(u) \/ BackupFails(u) \/ RestoreFails(u) \/ GuardFails(u)
             \/ UndoKey(u) \/ UndoFails(u)
      PROVE  Threads' /\ Jobs'
  <2>1. GiveUp(u) /\ UNCHANGED <<reloads, ops>>
    BY <1>8 DEF PackKey, BackupFails, RestoreFails, GuardFails, UndoKey, UndoFails
  <2> QED
    BY <1>0, <2>1 DEF Threads, Jobs
<1>9. CASE Crash
  BY <1>0, <1>9 DEF Crash, Threads, Jobs
<1>10. CASE Boot
  BY <1>0, <1>10 DEF Boot, Threads, Jobs
<1> QED
  BY <1>1, <1>2, <1>3, <1>4, <1>5, <1>6, <1>7, <1>8, <1>9, <1>10
     DEF Next, Request, Proceed

LEMMA StepType == TypeInv /\ [Next]_vars => TypeInv'
<1> SUFFICES ASSUME TypeInv, [Next]_vars PROVE TypeInv'
  OBVIOUS
<1>1. Flags
  BY TypeParts DEF TypeInv
<1>2. Flags' /\ Stores' /\ Threads' /\ Jobs'
  BY <1>1, StepFlags, StepStores, StepThreads
<1> QED
  BY <1>2 DEF TypeInv, TypeOK, Flags, Stores, Threads

\* The types hold: in particular what is on disk is encrypted, whoever wrote it.
THEOREM ConfigTypes == Spec => []TypeOK
  BY InitType, StepType, PTL DEF Spec, TypeInv

-----------------------------------------------------------------------------
(***************************************************************************)
(* Both files belong together.  While the lock is free this is an          *)
(* invariant of the disk; while a restore holds it, it is one of the two   *)
(* pairs the restore knows, the archive's and the one before, and its      *)
(* place in the code says which file on disk is whose.                     *)
(***************************************************************************)

\* The files belong together and their secret is one of B.
Sound(p, B) ==
    /\ Opens(p)
    /\ p.config # None /\ p.config.sec # None => p.config.sec.val \in B

\* What may stand for a secret: a ciphertext too, once a key was not read.
Kept == IF unread THEN Secret \union {Garbled} ELSE Secret

\* Who is where holds which lock.
Alone ==
    /\ \A u \in User : pc[u] \in Replacing <=> lock = u
    /\ \A u \in User : pc[u] \in Replacing \union Packing \union {"guard"} =>
         task = u

Down == ~up => Free /\ \A u \in User : pc[u] = "idle"

\* Which files a restore has replaced already.
Replaced ==
    \A u \in User :
      /\ pc[u] \in Guarding \union {"putconfig"} => OnDisk = pre[u]
      /\ pc[u] = "putkey" => config = pick[u].config /\ key = pre[u].key
      /\ pc[u] = "putstate" => OnDisk = pick[u]
      /\ pc[u] = "undoconfig" => config \in {pick[u].config, pre[u].config}
      /\ pc[u] = "undokey" => config = pre[u].config

\* The guard is whole before the first file is replaced.
Guarded == \A u \in User : pc[u] \in Replacing \ Guarding => pre[u] \in guards

\* The key does not change while a backup reads.
Packed ==
    \A u \in User :
      /\ pc[u] \in Packing => key # None
      /\ pc[u] = "packkey" => key = pick[u].key

SoundInv ==
    ~torn =>
      /\ mem.sec \in Kept \union {None}
      /\ Free => Sound(OnDisk, Kept)
      /\ \A p \in archives \union (guards \ {Cut}) : Sound(p, Kept)
      /\ \A u \in User : pick[u] # None => Sound(pick[u], Kept)
      /\ \A u \in User : pre[u] # None => Sound(pre[u], Kept)

PlaceInv == Alone /\ Down /\ Replaced /\ Guarded /\ Packed

LEMMA KeyKept ==
    ASSUME TypeOK, NEW B, Sound(OnDisk, B), NEW s
    PROVE  Sound([config |-> config, key |-> KeyAfter(s)], B)
<1>1. CASE key = None
  <2>1. config = None \/ config.sec = None
    BY <1>1, ConfigAssumption DEF Sound, Opens, OnDisk, TypeOK, File, Cipher
  <2> QED
    BY <2>1 DEF Sound, Opens
<1>2. CASE key # None
  BY <1>2 DEF KeyAfter, KeyInUse, OnDisk
<1> QED
  BY <1>1, <1>2

LEMMA LoadClean ==
    ASSUME TypeOK, NEW B, Sound(OnDisk, B)
    PROVE  Loaded.sec \in B \union {None}
<1>1. CASE config = None
  BY <1>1, ConfigAssumption DEF Loaded, Default
<1>2. CASE config # None
  <2>1. config \in File
    BY <1>2 DEF TypeOK
  <2>2. CASE config.sec = None
    BY <1>2, <2>2, ConfigAssumption DEF Loaded, Decrypted
  <2>3. CASE config.sec # None
    <3>1. config.sec.key \in Key /\ config.sec.key = key
      BY <1>2, <2>1, <2>3 DEF Sound, Opens, OnDisk, File, Cipher
    <3>2. KeyInUse = key
      BY <3>1, ConfigAssumption DEF KeyInUse
    <3>3. config.sec.val \in B
      BY <1>2, <2>3 DEF Sound, OnDisk
    <3> QED
      BY <1>2, <2>3, <3>1, <3>2, <3>3 DEF Loaded, Decrypted
  <2> QED
    BY <2>2, <2>3
<1> QED
  BY <1>1, <1>2

LEMMA StoredSound ==
    ASSUME NEW B, NEW m \in Settings, m.sec \in B \union {None}
    PROVE  Sound([config |-> Stored(m), key |-> KeyAfter(m.sec)], B)
  BY DEF Sound, Opens, Stored, Encrypted, KeyAfter, KeyInUse

LEMMA MoreSound ==
    ASSUME NEW p, NEW B, NEW C, B \subseteq C, Sound(p, B)
    PROVE  Sound(p, C)
  BY DEF Sound

\* A load of files that belong together, a garbled secret among what may be kept
\* from then on (B), leaves such files and such a memory.
LEMMA ReadsSound ==
    ASSUME TypeOK, Sound(OnDisk, Kept), NEW m, NEW c, NEW k, NEW b, Reads(m, c, k, b),
           NEW B, Kept \subseteq B, b = TRUE => Garbled \in B
    PROVE  m.sec \in B \union {None} /\ Sound([config |-> c, key |-> k], B)
<1>0. Sound(OnDisk, B)
  BY MoreSound
<1>1. CASE m = Loaded /\ c = config /\ k = KeyAfter(Loaded.sec)
  BY <1>0, <1>1, LoadClean, KeyKept
<1>2. CASE m = Default /\ c = None
  BY <1>2 DEF Default, Sound, Opens
<1>3. CASE m.sec = Garbled /\ c = config /\ k = key /\ Garbled \in B
  BY <1>0, <1>3 DEF OnDisk
<1> QED BY <1>1, <1>2, <1>3 DEF Reads

\* Two pairs with the same files are the same.
LEMMA SamePair ==
    ASSUME NEW p \in Pair
    PROVE  p = [config |-> p.config, key |-> p.key]
  BY DEF Pair

\* So does a write, whether or not it fails.
LEMMA WrittenSound ==
    ASSUME TypeOK, NEW B, Sound(OnDisk, B), NEW m \in Settings, m.sec \in B \union {None},
           NEW c \in {config, None}, NEW k \in {key, KeyInUse},
           Sound([config |-> c, key |-> k], B), Written(m, c, k)
    PROVE  Sound([config |-> config', key |-> key'], B)
<1>1. Sound([config |-> Stored(m), key |-> KeyAfter(m.sec)], B)
  BY StoredSound
<1>2. Sound([config |-> c, key |-> KeyAfter(m.sec)], B)
  <2>1. CASE c = config
    BY <2>1, KeyKept
  <2>2. CASE c = None
    BY <2>2 DEF Sound, Opens
  <2> QED BY <2>1, <2>2
<1> QED BY <1>1, <1>2 DEF Written

LEMMA PlaceInit == Init => PlaceInv
  BY ConfigAssumption
     DEF Init, PlaceInv, Alone, Down, Replaced, Guarded, Packed, Free, Replacing, Guarding,
         Packing

LEMMA SoundInit == Init => SoundInv
<1> SUFFICES ASSUME Init PROVE SoundInv
  OBVIOUS
<1>1. \A p \in Import : Sound(p, Secret)
  <2> SUFFICES ASSUME NEW p \in Import, p.config # None, p.config.sec # None
               PROVE  p.config.sec.val \in Secret
    BY ImportAssumption DEF Sound
  <2>1. p.config \in File /\ p.config.sec.val # Garbled
    BY ImportAssumption
  <2>2. p.config.sec \in Cipher
    BY <2>1 DEF File
  <2> QED BY <2>1, <2>2 DEF Cipher
<1>2. Kept = Secret
  BY DEF Init, Kept
<1>3. Sound(OnDisk, Secret) /\ mem.sec = None
  BY DEF Init, OnDisk, Sound, Opens, Default
<1> QED
  BY <1>1, <1>2, <1>3, NoneIsNoPair DEF Init, SoundInv

\* Nobody else is at work on the files while a thread has a task of its own.
LEMMA OneTask ==
    ASSUME PlaceInv, NEW u \in User, NEW v \in User,
           pc[u] \in Replacing \union Packing \union {"guard"},
           pc[v] \in Replacing \union Packing \union {"guard"}
    PROVE  u = v
  BY DEF PlaceInv, Alone

LEMMA PlaceStep == TypeInv /\ PlaceInv /\ [Next]_vars => PlaceInv'
<1> SUFFICES ASSUME TypeInv, PlaceInv, [Next]_vars PROVE PlaceInv'
  OBVIOUS
<1> USE DEF files, locks, request, Forget, GiveUp, Replacing, Guarding, Packing, Free, OnDisk
<1>0. Threads /\ Jobs /\ Stores /\ None \notin User /\ None \notin Pair
      /\ Alone /\ Down /\ Replaced /\ Guarded /\ Packed
  BY TypeParts, NoneIsNoPair, ConfigAssumption DEF TypeInv, PlaceInv
<1>1. CASE UNCHANGED vars
  BY <1>0, <1>1 DEF vars, PlaceInv, Alone, Down, Replaced, Guarded, Packed
<1>2. ASSUME NEW u \in User, Request(u) PROVE PlaceInv'
  <2>1. up /\ pc[u] = "idle" /\ UNCHANGED <<files, lock, pre, up, guards>>
    BY <1>2 DEF remote, Request, Update, Restart, BeginBackup, BeginRestore, Begin
  <2>2. CASE Update(u) \/ Restart(u)
    BY <1>0, <2>1, <2>2
       DEF Update, Restart, Threads, PlaceInv, Alone, Down, Replaced, Guarded, Packed
  <2>3. CASE BeginBackup(u) \/ BeginRestore(u)
    BY <1>0, <2>1, <2>3
       DEF BeginBackup, BeginRestore, Threads, PlaceInv, Alone, Down, Replaced,
           Guarded, Packed
  <2> QED
    BY <1>2, <2>2, <2>3 DEF Request
<1>3. ASSUME NEW u \in User, Load(u) \/ Write(u) PROVE PlaceInv'
  <2>1. pc[u] \in {"load", "write"} /\ lock = None /\ UNCHANGED <<lock, up, guards>>
    BY <1>3 DEF Load, Write, remote
  <2>2. \A v \in User : pc[v] \notin Replacing
    BY <1>0, <2>1 DEF Alone
  <2>3. key # None => key' = key
    BY <1>3 DEF Load, Write, Reads, Written, KeyAfter, KeyInUse
  <2>4. /\ pc' \in [User -> PC] /\ pc'[u] \in {"load", "write", "idle"}
        /\ \A v \in User \ {u} : pc'[v] = pc[v] /\ pick'[v] = pick[v]
        /\ \A v \in User \ {u} : task = v => task' = v
    BY <1>0, <1>3 DEF Load, Write, AfterWrite, Threads, PC
  <2> QED
    BY <1>0, <2>1, <2>2, <2>3, <2>4
       DEF PlaceInv, Alone, Down, Replaced, Guarded, Packed
<1>4. ASSUME NEW u \in User, PackConfig(u) \/ Guard(u) PROVE PlaceInv'
  BY <1>0, <1>4
     DEF PackConfig, Guard, remote, Threads, PlaceInv, Alone, Down, Replaced, Guarded, Packed
<1>5. ASSUME NEW u \in User,
             \/ PutConfig(u) \/ PutKey(u) \/ PutState(u) \/ PutFails(u)
             \/ UndoConfig(u) \/ GuardConfig(u) \/ GuardKey(u)
      PROVE  PlaceInv'
  <2>1. /\ pc[u] \in Replacing /\ lock = u /\ task = u /\ up
        /\ pick[u] \in Pair /\ pre[u] \in Pair
    BY <1>0, <1>5 DEF PutConfig, PutKey, PutState, PutFails, UndoConfig, GuardConfig,
                      GuardKey, Alone, Down, Jobs, Threads
  <2>2. \A v \in User \ {u} : pc[v] \notin Replacing \union Packing \union {"guard"}
    BY <2>1, OneTask
  <2>9. ASSUME PutConfig(u) \/ PutKey(u) \/ PutFails(u) \/ UndoConfig(u) PROVE Guarded'
    <3>1. /\ pc[u] \in Replacing \ Guarding /\ pre[u] \in guards
          /\ \A v \in User \ {u} : pc'[v] = pc[v]
          /\ UNCHANGED <<guards, pre>>
      BY <1>0, <2>9 DEF PutConfig, PutKey, PutFails, UndoConfig, remote, Guarded, Threads
    <3> QED BY <2>2, <3>1 DEF Guarded
  <2>3. CASE PutConfig(u)
    <3>1. key = pre[u].key
      BY <1>0, <2>3 DEF PutConfig, Replaced
    <3>2. /\ config' = pick[u].config /\ pc' = [pc EXCEPT ![u] = "putkey"]
          /\ UNCHANGED <<key, up, locks, request, guards>>
      BY <2>3 DEF PutConfig, remote
    <3> QED
      BY <1>0, <2>1, <2>2, <2>3, <2>9, <3>1, <3>2
         DEF Threads, PlaceInv, Alone, Down, Replaced, Packed
  <2>6. CASE PutFails(u)
    <3>1. config \in {pick[u].config, pre[u].config}
      BY <1>0, <2>6 DEF PutFails, Replaced
    <3>2. /\ pc' = [pc EXCEPT ![u] = "undoconfig"]
          /\ UNCHANGED <<files, up, locks, request, guards>>
      BY <2>6 DEF PutFails, remote
    <3> QED
      BY <1>0, <2>1, <2>2, <2>6, <2>9, <3>1, <3>2
         DEF Threads, PlaceInv, Alone, Down, Replaced, Packed
  <2>7. CASE UndoConfig(u)
    <3>1. /\ config' = pre[u].config /\ pc' = [pc EXCEPT ![u] = "undokey"]
          /\ UNCHANGED <<key, up, locks, request, guards>>
      BY <2>7 DEF UndoConfig, remote
    <3> QED
      BY <1>0, <2>1, <2>2, <2>7, <2>9, <3>1
         DEF Threads, PlaceInv, Alone, Down, Replaced, Packed
  <2>4. CASE PutKey(u)
    <3>1. pick[u] = [config |-> pick[u].config, key |-> pick[u].key]
      BY <2>1, SamePair
    <3>2. OnDisk' = pick[u]
      BY <1>0, <2>4, <3>1 DEF PutKey, Replaced
    <3>3. pc' = [pc EXCEPT ![u] = "putstate"] /\ UNCHANGED <<up, locks, request, guards>>
      BY <2>4 DEF PutKey, remote
    <3> QED
      BY <1>0, <2>1, <2>2, <2>4, <2>9, <3>2, <3>3
         DEF Threads, PlaceInv, Alone, Down, Replaced, Packed
  <2>5. CASE PutState(u)
    BY <1>0, <2>1, <2>2, <2>5
       DEF PutState, remote, Threads, PlaceInv, Alone, Down, Replaced, Guarded, Packed
  <2>8. CASE GuardConfig(u) \/ GuardKey(u)
    <3>1. OnDisk = pre[u]
      BY <1>0, <2>8 DEF GuardConfig, GuardKey, Replaced
    <3>2. /\ pc' = [pc EXCEPT ![u] = pc'[u]] /\ pc'[u] \in {"guardkey", "putconfig"}
          /\ pc'[u] = "putconfig" => pre[u] \in guards'
          /\ UNCHANGED <<files, up, locks, request>>
      BY <1>0, <2>8 DEF GuardConfig, GuardKey, Threads
    <3> QED
      BY <1>0, <2>1, <2>2, <3>1, <3>2
         DEF Threads, PlaceInv, Alone, Down, Replaced, Guarded, Packed
  <2> QED
    BY <1>5, <2>3, <2>4, <2>5, <2>6, <2>7, <2>8
<1>6. ASSUME NEW u \in User,
             \/ PackKey(u) \/ BackupFails(u) \/ RestoreFails(u) \/ GuardFails(u)
             \/ UndoKey(u) \/ UndoFails(u)
      PROVE  PlaceInv'
  <2>1. /\ GiveUp(u) /\ up' = up /\ config' = config
        /\ pc[u] \in Replacing \union Packing \union {"guard"}
        /\ key' = key \/ pc[u] \in Replacing
    BY <1>6 DEF PackKey, BackupFails, RestoreFails, GuardFails, UndoKey, UndoFails
  <2>2. \A v \in User \ {u} : pc[v] \notin Replacing \union Packing \union {"guard"}
    BY <2>1, OneTask
  <2> QED
    BY <1>0, <2>1, <2>2 DEF Threads, PlaceInv, Alone, Down, Replaced, Guarded, Packed
<1>7. CASE Crash
  BY <1>0, <1>7 DEF Crash, PlaceInv, Alone, Down, Replaced, Guarded, Packed
<1>8. CASE Boot
  BY <1>0, <1>8 DEF Boot, remote, PlaceInv, Alone, Down, Replaced, Guarded, Packed
<1> QED
  BY <1>1, <1>2, <1>3, <1>4, <1>5, <1>6, <1>7, <1>8 DEF Next, Proceed

LEMMA SoundStep ==
    TypeInv /\ PlaceInv /\ SoundInv /\ [Next]_vars => SoundInv'
<1> SUFFICES ASSUME TypeInv, PlaceInv, SoundInv, [Next]_vars, ~torn'
             PROVE  SoundInv'
  BY DEF SoundInv
<1> USE DEF files, remote, locks, request, history, Forget, GiveUp, Replacing, Guarding, Packing
<1>0. /\ Threads /\ Stores /\ TypeOK /\ Jobs /\ None \notin Pair
      /\ None \notin User
      /\ Alone /\ Down /\ Replaced /\ Packed /\ Garbled \notin Secret
  BY TypeParts, NoneIsNoPair, ConfigAssumption DEF TypeInv, PlaceInv
<1>1. ~torn
  BY <1>0, Zenon DEF Next, Request, Proceed, vars, history, Update, Restart,
     BeginBackup, BeginRestore, Load, Write, PackConfig, PackKey, BackupFails,
     Guard, GuardConfig, GuardKey, GuardFails, RestoreFails, PutConfig, PutKey, PutState, PutFails, UndoConfig,
     UndoKey, UndoFails, Crash, Boot
<1>2. /\ mem.sec \in Kept \union {None} /\ (Free => Sound(OnDisk, Kept))
      /\ \A p \in archives \union (guards \ {Cut}) : Sound(p, Kept)
      /\ \A u \in User : pick[u] # None => Sound(pick[u], Kept)
      /\ \A u \in User : pre[u] # None => Sound(pre[u], Kept)
  BY <1>1 DEF SoundInv
<1>k. (unread' = unread) => Kept' = Kept
  BY DEF Kept
<1>3. CASE UNCHANGED vars
  BY <1>2, <1>k, <1>3 DEF vars, SoundInv, Free, OnDisk
<1>4. ASSUME NEW u \in User, Request(u) PROVE SoundInv'
  <2>1. CASE Update(u)
    <3>1. mem'.sec \in Kept \union {None}
      BY <1>0, <1>2, <2>1, ConfigAssumption DEF Update, Stores, Settings, Kept
    <3> QED
      BY <1>2, <1>k, <2>1, <3>1 DEF Update, SoundInv, Free, OnDisk
  <2>2. CASE Restart(u) \/ BeginBackup(u)
    BY <1>2, <1>k, <2>2 DEF Restart, BeginBackup, SoundInv, Free, OnDisk
  <2>3. CASE BeginRestore(u)
    <3>1. \A v \in User : pick'[v] # None => Sound(pick'[v], Kept)
      BY <1>0, <1>2, <2>3 DEF BeginRestore, Threads
    <3> QED
      BY <1>2, <1>k, <2>3, <3>1 DEF BeginRestore, SoundInv, Free, OnDisk
  <2> QED
    BY <1>4, <2>1, <2>2, <2>3 DEF Request
<1>5. ASSUME NEW u \in User, Load(u) PROVE SoundInv'
  <2>1. Sound(OnDisk, Kept) /\ Reads(mem', config', key', unread')
    BY <1>2, <1>5 DEF Load
  <2>2. Kept \subseteq Kept' /\ (unread' = TRUE => Garbled \in Kept')
    BY <2>1 DEF Reads, Kept
  <2>3. mem'.sec \in Kept' \union {None} /\ Sound([config |-> config', key |-> key'], Kept')
    BY <1>0, <2>1, <2>2, ReadsSound
  <2>4. Sound(OnDisk', Kept')
    BY <2>3 DEF OnDisk
  <2>5. UNCHANGED <<archives, guards, pick, pre, lock>>
    BY <1>5 DEF Load
  <2> QED
    BY <1>2, <2>2, <2>3, <2>4, <2>5, MoreSound DEF SoundInv
<1>6. ASSUME NEW u \in User, Write(u) PROVE SoundInv'
  <2>1. /\ Sound(OnDisk, Kept) /\ mem \in Settings /\ Written(mem, config, key)
        /\ Kept' = Kept /\ UNCHANGED <<mem, archives, guards, lock>>
    BY <1>0, <1>2, <1>k, <1>6 DEF Write, Stores
  <2>2. Sound([config |-> config, key |-> key], Kept)
    BY <2>1 DEF OnDisk
  <2>3. Sound(OnDisk', Kept')
    BY <1>0, <1>2, <2>1, <2>2, WrittenSound DEF OnDisk
  <2>4. \A v \in User : /\ pick'[v] # None => pick'[v] = pick[v]
                        /\ pre'[v] # None => pre'[v] = pre[v]
    BY <1>0, <1>6 DEF Write, Threads
  <2> QED
    BY <1>2, <2>1, <2>3, <2>4 DEF SoundInv
<1>7. ASSUME NEW u \in User, PackConfig(u) PROVE SoundInv'
  <2>1. \A v \in User : lock # v
    BY <1>0, <1>7, OneTask DEF PackConfig, Alone
  <2>2. Sound(OnDisk, Kept)
    BY <1>0, <1>2, <2>1 DEF Free, Threads
  <2>3. \A v \in User : pick'[v] # None => Sound(pick'[v], Kept)
    BY <1>0, <1>2, <1>k, <1>7, <2>2 DEF PackConfig, Threads
  <2> QED
    BY <1>2, <1>k, <1>7, <2>3 DEF PackConfig, SoundInv, Free, OnDisk
<1>8. ASSUME NEW u \in User, Guard(u) PROVE SoundInv'
  <2>1. Sound(OnDisk, Kept)
    BY <1>2, <1>8 DEF Guard
  <2>2. \A v \in User : pre'[v] # None => Sound(pre'[v], Kept)
    BY <1>0, <1>2, <1>8, <2>1 DEF Guard, Threads
  <2>3. ~Free'
    BY <1>0, <1>8 DEF Guard, Free
  <2> QED
    BY <1>2, <1>k, <1>8, <2>2, <2>3 DEF Guard, SoundInv
<1>17. ASSUME NEW u \in User, GuardConfig(u) \/ GuardKey(u) PROVE SoundInv'
  <2>1. lock = u /\ lock' = lock /\ ~Free'
    BY <1>0, <1>17 DEF GuardConfig, GuardKey, Alone, Free
  <2>2. pre[u] # None /\ guards' \subseteq guards \union {pre[u]}
    BY <1>0, <1>17 DEF GuardConfig, GuardKey, Jobs
  <2> QED
    BY <1>2, <1>k, <1>17, <2>1, <2>2 DEF GuardConfig, GuardKey, SoundInv
<1>18. ASSUME NEW u \in User, GuardFails(u) PROVE SoundInv'
  <2>1. Sound(OnDisk, Kept)
    BY <1>0, <1>2, <1>18 DEF GuardFails, Replaced, Jobs
  <2>2. \A v \in User : /\ pick'[v] # None => pick'[v] = pick[v]
                        /\ pre'[v] # None => pre'[v] = pre[v]
    BY <1>0, <1>18 DEF GuardFails, Threads
  <2> QED
    BY <1>2, <1>k, <1>18, <2>1, <2>2 DEF GuardFails, SoundInv, OnDisk
<1>9. ASSUME NEW u \in User, PackKey(u) PROVE SoundInv'
  <2>1. pick[u] \in Pair /\ key = pick[u].key
    BY <1>0, <1>9 DEF PackKey, Packed, Jobs, Threads
  <2>2. Sound([config |-> pick[u].config, key |-> key], Kept)
    BY <1>0, <1>2, <2>1, SamePair
  <2>3. \A v \in User : lock # v
    BY <1>0, <1>9, OneTask DEF PackKey, Alone
  <2>4. \A v \in User : /\ pick'[v] # None => pick'[v] = pick[v]
                        /\ pre'[v] # None => pre'[v] = pre[v]
    BY <1>0, <1>9 DEF PackKey, Threads
  <2> QED
    BY <1>0, <1>2, <1>k, <1>9, <2>2, <2>3, <2>4
       DEF PackKey, SoundInv, Free, OnDisk, Threads
<1>10. ASSUME NEW u \in User, BackupFails(u) \/ RestoreFails(u) PROVE SoundInv'
  <2>1. \A v \in User : lock # v
    BY <1>0, <1>10, OneTask DEF BackupFails, RestoreFails, Alone
  <2>2. \A v \in User : /\ pick'[v] # None => pick'[v] = pick[v]
                        /\ pre'[v] # None => pre'[v] = pre[v]
    BY <1>0, <1>10 DEF BackupFails, RestoreFails, Threads
  <2> QED
    BY <1>0, <1>2, <1>k, <1>10, <2>1, <2>2
       DEF BackupFails, RestoreFails, SoundInv, Free, OnDisk, Threads
<1>11. ASSUME NEW u \in User,
              PutConfig(u) \/ PutKey(u) \/ PutFails(u) \/ UndoConfig(u)
       PROVE  SoundInv'
  <2>1. lock = u /\ lock' = lock
    BY <1>0, <1>11 DEF PutConfig, PutKey, PutFails, UndoConfig, Alone
  <2>2. ~Free'
    BY <1>0, <2>1 DEF Free
  <2> QED
    BY <1>2, <1>k, <1>11, <2>2 DEF PutConfig, PutKey, PutFails, UndoConfig, SoundInv
<1>12. ASSUME NEW u \in User, PutState(u) PROVE SoundInv'
  <2>1. Sound(OnDisk, Kept)
    BY <1>0, <1>2, <1>k, <1>12 DEF PutState, Replaced, Jobs
  <2> QED
    BY <1>2, <1>k, <1>12, <2>1 DEF PutState, SoundInv, OnDisk
<1>13. ASSUME NEW u \in User, UndoKey(u) PROVE SoundInv'
  <2>1. pre[u] \in Pair /\ Sound(pre[u], Kept)
    BY <1>0, <1>2, <1>k, <1>13 DEF UndoKey, Jobs, Threads
  <2>2. pre[u] = [config |-> pre[u].config, key |-> pre[u].key]
    BY <2>1, SamePair
  <2>3. OnDisk' = pre[u]
    BY <1>0, <1>13, <2>2 DEF UndoKey, Replaced, OnDisk
  <2>4. \A v \in User : /\ pick'[v] # None => pick'[v] = pick[v]
                        /\ pre'[v] # None => pre'[v] = pre[v]
    BY <1>0, <1>13 DEF UndoKey, Threads
  <2> QED
    BY <1>2, <1>k, <1>13, <2>1, <2>3, <2>4 DEF UndoKey, SoundInv
<1>14. ASSUME NEW u \in User, UndoFails(u) PROVE FALSE
  BY <1>14, Zenon DEF UndoFails
<1>15. CASE Crash
  <2>1. Sound(OnDisk, Kept)
    <3>1. CASE Free
      BY <1>2, <3>1
    <3>2. CASE ~Free
      <4>1. PICK u \in User : lock = u /\ pc[u] \in Replacing
        BY <1>0, <3>2 DEF Free, Alone, Threads
      <4>2. pc[u] \notin {"putkey", "undoconfig", "undokey"}
        BY <1>15 DEF Crash
      <4>3. OnDisk \in {pre[u], pick[u]}
        BY <1>0, <4>1, <4>2 DEF Replaced
      <4> QED BY <1>0, <1>2, <4>1, <4>3 DEF Jobs
    <3> QED BY <3>1, <3>2
  <2>2. /\ mem'.sec = None /\ guards' \subseteq guards \union {Cut} /\ unread' = unread
        /\ \A v \in User : pick'[v] = None /\ pre'[v] = None
        /\ UNCHANGED <<config, key, archives>>
    BY <1>15 DEF Crash, Default
  <2> QED
    BY <1>2, <1>k, <2>1, <2>2 DEF SoundInv, OnDisk
<1>16. CASE Boot
  <2>1. PICK c \in {config, None}, k \in {key, KeyInUse} :
          Reads(mem', c, k, unread') /\ Written(mem', c, k)
    BY <1>16 DEF Boot
  <2>2. Sound(OnDisk, Kept) /\ UNCHANGED <<archives, guards, pick, pre>>
    BY <1>0, <1>2, <1>16 DEF Boot, Down
  <2>3. Kept \subseteq Kept' /\ (unread' = TRUE => Garbled \in Kept')
    BY <2>1 DEF Reads, Kept
  <2>4. mem'.sec \in Kept' \union {None} /\ Sound([config |-> c, key |-> k], Kept')
    BY <1>0, <2>1, <2>2, <2>3, ReadsSound
  <2>5. mem' \in Settings /\ Sound(OnDisk, Kept')
    BY <1>0, <2>1, <2>2, <2>3, ReadsType, MoreSound
  <2>6. Sound([config |-> config', key |-> key'], Kept')
    BY <1>0, <2>1, <2>4, <2>5, WrittenSound
  <2>7. Sound(OnDisk', Kept')
    BY <2>6 DEF OnDisk
  <2> QED
    BY <1>2, <2>2, <2>3, <2>4, <2>7, MoreSound DEF SoundInv
<1> QED
  BY <1>3, <1>4, <1>5, <1>6, <1>7, <1>8, <1>9, <1>10, <1>11, <1>12, <1>13,
     <1>14, <1>15, <1>16, <1>17, <1>18 DEF Next, Proceed

-----------------------------------------------------------------------------
(* The theorems *)

LEMMA ConfigInv == Spec => [](TypeInv /\ PlaceInv /\ SoundInv)
  BY InitType, PlaceInit, SoundInit, StepType, PlaceStep, SoundStep, PTL
     DEF Spec

\* The secrets in config.json open with config.key whenever nobody replaces
\* the two, whatever fails, as long as every failed restore could be undone.
THEOREM FilesFit == Spec => []FilesOpen
<1>1. SoundInv => FilesOpen
  BY DEF SoundInv, FilesOpen, Sound
<1> QED
  BY <1>1, ConfigInv, PTL

\* No load meets a key that does not fit, so no secret is garbled, unless a
\* restore was torn; or config.key could not be read at a load, which keeps the
\* ciphertext for the secret without a word (_decrypt_secrets): SecretsKept
\* leaves that out as unread.
THEOREM SecretsSurvive == Spec => []SecretsKept
<1>1. TypeInv /\ PlaceInv /\ SoundInv => SecretsKept
  <2>0. ASSUME ~unread PROVE Garbled \notin Kept \union {None}
    BY <2>0, ConfigAssumption DEF Kept
  <2> SUFFICES ASSUME TypeInv, PlaceInv, SoundInv, ~torn, ~unread,
                      config # None, config.sec # None
               PROVE  config.sec.val \in Kept
    BY <2>0 DEF SoundInv, SecretsKept
  <2>1. CASE Free
    BY <2>1 DEF SoundInv, Sound, OnDisk
  <2>2. CASE ~Free
    <3>1. PICK u \in User : lock = u /\ pc[u] \in Replacing
      BY <2>2, TypeParts DEF TypeInv, Threads, Free, PlaceInv, Alone
    <3>2. Sound(pick[u], Kept) /\ Sound(pre[u], Kept)
      BY <3>1 DEF TypeInv, Jobs, SoundInv
    <3>3. config = pick[u].config \/ config = pre[u].config
      <4>1. pc[u] \in Guarding \union {"putconfig", "putstate"} => OnDisk \in {pick[u], pre[u]}
        BY DEF PlaceInv, Replaced
      <4>2. pc[u] \in Guarding \union {"putconfig", "putstate"} =>
              config \in {pick[u].config, pre[u].config}
        BY <4>1 DEF OnDisk
      <4> QED
        BY <3>1, <4>2 DEF PlaceInv, Replaced, Replacing, Guarding
    <3> QED
      BY <3>2, <3>3 DEF Sound
  <2> QED
    BY <2>1, <2>2
<1> QED
  BY <1>1, ConfigInv, PTL

\* Every archive can be restored, and every guard that was written to its end;
\* and a restore replaces no file before its guard is one of those, whatever
\* fails and wherever the process dies (restore_backup writes the two files of
\* a guard one after the other).
THEOREM BackupsUsable == Spec => []BackupsOpen
<1>1. TypeInv /\ PlaceInv /\ SoundInv => BackupsOpen
  <2> SUFFICES ASSUME TypeInv, PlaceInv, SoundInv PROVE BackupsOpen
    OBVIOUS
  <2>1. ~torn => \A p \in archives \union (guards \ {Cut}) : Opens(p)
    BY DEF SoundInv, Sound
  <2>2. ASSUME NEW u \in User, lock = u, OnDisk # pre[u] PROVE pre[u] \in guards
    <3>1. pc[u] \in Replacing \ Guarding
      BY <2>2 DEF PlaceInv, Alone, Replaced
    <3> QED BY <3>1 DEF PlaceInv, Guarded
  <2> QED BY <2>1, <2>2 DEF BackupsOpen
<1> QED
  BY <1>1, ConfigInv, PTL

\* A restore that gives the lock back has replaced both files or none.
THEOREM RestoreAtomic == Spec => AllOrNothing
<1>1. TypeInv /\ PlaceInv /\ [Next]_vars =>
        [\A u \in User :
           lock = u /\ lock' = None /\ up' /\ ~torn'
           => OnDisk' \in {pick[u], pre[u]}]_vars
  <2> SUFFICES ASSUME TypeInv, PlaceInv, Next, NEW u \in User,
                      lock = u, lock' = None, up', ~torn'
               PROVE  OnDisk' \in {pick[u], pre[u]}
    BY DEF vars
  <2> USE DEF files, locks, GiveUp, Replacing, Guarding, Packing
  <2>0. /\ Threads /\ Jobs /\ None \notin User /\ Alone /\ Replaced
        /\ pc[u] \in Replacing
    BY TypeParts, ConfigAssumption DEF TypeInv, PlaceInv, Alone
  <2>1. PICK v \in User :
          \/ PutState(v) \/ UndoKey(v) \/ UndoFails(v) \/ PackKey(v)
          \/ BackupFails(v) \/ RestoreFails(v) \/ GuardFails(v)
    BY <2>0 DEF Next, Request, Proceed, Update, Restart, BeginBackup,
       BeginRestore, Load, Write, PackConfig, Guard, GuardConfig, GuardKey, PutConfig, PutKey,
       PutFails, UndoConfig, Crash, Boot
  <2>2. v = u
    BY <2>0, <2>1, OneTask DEF PutState, UndoKey, UndoFails, PackKey,
       BackupFails, RestoreFails, GuardFails
  <2>3. PutState(u) \/ UndoKey(u) \/ GuardFails(u)
    BY <2>0, <2>1, <2>2 DEF UndoFails, PackKey, BackupFails, RestoreFails
  <2>4. CASE PutState(u)
    BY <2>0, <2>4 DEF PutState, Replaced, OnDisk
  <2>5. CASE UndoKey(u)
    <3>1. pre[u] = [config |-> pre[u].config, key |-> pre[u].key]
      BY <2>0, SamePair DEF Jobs, Threads
    <3> QED
      BY <2>0, <2>5, <3>1 DEF UndoKey, Replaced, OnDisk
  <2>6. CASE GuardFails(u)
    BY <2>0, <2>6 DEF GuardFails, Replaced, OnDisk
  <2> QED
    BY <2>3, <2>4, <2>5, <2>6
<1> QED
  BY <1>1, ConfigInv, PTL DEF Spec, AllOrNothing

-----------------------------------------------------------------------------
(***************************************************************************)
(* Memory and file.  Between a change of either and the write that settles *)
(* it, some thread owes that write; as long as nobody does, memory is what *)
(* a load would give: of the files on disk or, while a restore holds the   *)
(* lock, of those it may have to put back.                                 *)
(***************************************************************************)

\* What a load takes from a pair of files.
Read(p) ==
    [set |-> p.config.set,
     sec |-> Decrypted(p.config.sec, IF p.key = None THEN Own ELSE p.key)]

Agrees(p) == p.config # None /\ Read(p) = mem

Owes(u) == pc[u] \in {"load", "write"}

SavedInv ==
    up /\ ~torn /\ ~unsaved /\ (\A u \in User : ~Owes(u)) =>
      /\ Free => Agrees(OnDisk)
      /\ \A u \in User : pc[u] \in Replacing => Agrees(pre[u])

\* What is written is what the next load reads, with the key that the write
\* leaves behind.
LEMMA ReadBack ==
    ASSUME TypeOK, NEW m \in Settings
    PROVE  LET p == [config |-> Stored(m), key |-> KeyAfter(m.sec)]
           IN  p.config # None /\ Read(p) = m
<1> DEFINE k == KeyAfter(m.sec)
<1>1. Stored(m) # None
  BY StoredType, ConfigAssumption
<1>2. m = [set |-> m.set, sec |-> m.sec]
  BY DEF Settings
<1>3. CASE m.sec = None
  BY <1>1, <1>2, <1>3 DEF Stored, Encrypted, Decrypted, Read
<1>4. CASE m.sec # None
  <2>1. k = KeyInUse /\ KeyInUse \in Key /\ KeyInUse # None
    BY <1>4, KeyType, ConfigAssumption DEF KeyAfter
  <2>2. [val |-> m.sec, key |-> KeyInUse] \in Cipher
    BY <1>4, <2>1 DEF Cipher, Settings
  <2>3. Stored(m).sec = [val |-> m.sec, key |-> KeyInUse] /\ Stored(m).set = m.set
    BY <1>4 DEF Stored, Encrypted
  <2>4. Stored(m).sec # None
    BY <2>2, <2>3, ConfigAssumption
  <2> HIDE DEF k
  <2>5. Decrypted(Stored(m).sec, k) = m.sec
    BY <2>1, <2>3, <2>4 DEF Decrypted
  <2> QED BY <1>1, <1>2, <2>1, <2>3, <2>5 DEF Read, k
<1> QED BY <1>3, <1>4

LEMMA SavedInit == Init => SavedInv
  BY DEF Init, SavedInv

LEMMA SavedStep == TypeInv /\ PlaceInv /\ SavedInv /\ [Next]_vars => SavedInv'
<1> SUFFICES ASSUME TypeInv, PlaceInv, SavedInv, [Next]_vars,
                    up', ~torn', ~unsaved', \A u \in User : ~Owes(u)'
             PROVE  /\ Free' => Agrees(OnDisk)'
                    /\ \A u \in User : pc'[u] \in Replacing => Agrees(pre[u])'
  BY DEF SavedInv
<1> USE DEF files, remote, locks, request, history, Forget, GiveUp, Replacing, Guarding
<1>0. /\ Threads /\ Stores /\ TypeOK /\ Jobs /\ None \notin User
      /\ Alone /\ Down /\ Replaced
  BY TypeParts, ConfigAssumption DEF TypeInv, PlaceInv
\* A step that changes neither memory nor files and settles no debt.
<1>a. ASSUME UNCHANGED <<mem, config, key, unsaved>>, up, ~torn,
             \A u \in User : pc[u] = pc'[u] \/ ~Owes(u), Free' => Free,
             \A u \in User : pc'[u] \in Replacing => pc[u] \in Replacing /\ pre'[u] = pre[u]
      PROVE  /\ Free' => Agrees(OnDisk)'
             /\ \A u \in User : pc'[u] \in Replacing => Agrees(pre[u])'
  <2>1. \A u \in User : ~Owes(u)
    BY <1>a DEF Owes
  <2>2. /\ Free => Agrees(OnDisk)
        /\ \A u \in User : pc[u] \in Replacing => Agrees(pre[u])
    BY <1>a, <2>1 DEF SavedInv
  <2> QED BY <1>a, <2>2 DEF Agrees, Read, OnDisk, Decrypted
<1>1. ASSUME NEW u \in User, Request(u)
      PROVE  /\ Free' => Agrees(OnDisk)'
             /\ \A v \in User : pc'[v] \in Replacing => Agrees(pre[v])'
  <2>1. CASE Update(u) \/ Restart(u)
    <3>1. Owes(u)'
      BY <1>0, <2>1 DEF Update, Restart, Owes, Threads
    <3> QED BY <3>1
  <2>2. CASE BeginBackup(u) \/ BeginRestore(u)
    BY <1>0, <1>a, <2>2 DEF BeginBackup, BeginRestore, Begin, Owes, Free, Threads
  <2> QED BY <1>1, <2>1, <2>2 DEF Request
<1>2. ASSUME NEW u \in User, Load(u) \/ PutState(u) PROVE FALSE
  <2>1. Owes(u)'
    BY <1>0, <1>2 DEF Load, PutState, Owes, Threads
  <2> QED BY <2>1
<1>3. ASSUME NEW u \in User, Write(u)
      PROVE  /\ Free' => Agrees(OnDisk)'
             /\ \A v \in User : pc'[v] \in Replacing => Agrees(pre[v])'
  <2>1. /\ config' = Stored(mem) /\ key' = KeyAfter(mem.sec) /\ mem' = mem
        /\ lock' = lock /\ lock = None
        /\ pc' = [pc EXCEPT ![u] = pc'[u]] /\ pc'[u] \in {"load", "idle"}
    BY <1>0, <1>3 DEF Write, Written, AfterWrite, Free, Threads
  <2>2. mem \in Settings
    BY <1>0 DEF Stores
  <2>3. Agrees(OnDisk)'
    BY <1>0, <2>1, <2>2, ReadBack DEF Agrees, Read, OnDisk, Decrypted
  <2>4. \A v \in User : pc'[v] \notin Replacing
    BY <1>0, <2>1 DEF Alone, Threads
  <2> QED BY <2>3, <2>4
<1>4. ASSUME NEW u \in User,
             PackConfig(u) \/ PackKey(u) \/ BackupFails(u) \/ RestoreFails(u)
      PROVE  /\ Free' => Agrees(OnDisk)'
             /\ \A v \in User : pc'[v] \in Replacing => Agrees(pre[v])'
  <2>1. pc[u] \notin Replacing /\ lock # u
    BY <1>0, <1>4 DEF PackConfig, PackKey, BackupFails, RestoreFails, Alone
  <2>2. up
    BY <1>0, <1>4 DEF PackConfig, PackKey, BackupFails, RestoreFails, Down
  <2>3. ~torn
    BY <1>4 DEF PackConfig, PackKey, BackupFails, RestoreFails
  <2> QED BY <1>0, <1>4, <1>a, <2>1, <2>2, <2>3
          DEF PackConfig, PackKey, BackupFails, RestoreFails, Owes, Free, Threads
<1>5. ASSUME NEW u \in User, Guard(u)
      PROVE  /\ Free' => Agrees(OnDisk)'
             /\ \A v \in User : pc'[v] \in Replacing => Agrees(pre[v])'
  <2>1. /\ Free /\ ~torn /\ ~unsaved /\ up /\ ~Free'
        /\ \A v \in User : ~Owes(v)
    BY <1>0, <1>5 DEF Guard, Free, Owes, Down, Threads
  <2>2. Agrees(OnDisk) /\ UNCHANGED <<mem, config, key>>
    BY <1>5, <2>1 DEF SavedInv, Guard
  <2>3. pre' = [pre EXCEPT ![u] = OnDisk] /\ \A v \in User \ {u} : pc'[v] \notin Replacing
    BY <1>0, <1>5, <2>1 DEF Guard, Alone, Threads, Free
  <2>4. Agrees(pre[u])'
    BY <1>0, <2>2, <2>3 DEF Agrees, Read, Decrypted, Threads
  <2> QED BY <2>1, <2>3, <2>4
<1>12. ASSUME NEW u \in User, GuardConfig(u) \/ GuardKey(u)
      PROVE  /\ Free' => Agrees(OnDisk)'
             /\ \A v \in User : pc'[v] \in Replacing => Agrees(pre[v])'
  <2>1. /\ pc[u] \in Replacing /\ pc' = [pc EXCEPT ![u] = pc'[u]] /\ pc'[u] \in Replacing
        /\ UNCHANGED <<mem, config, key, unsaved, torn, up, lock, pre>>
    BY <1>0, <1>12 DEF GuardConfig, GuardKey, Threads
  <2>2. up
    BY <1>0, <2>1 DEF Down
  <2> QED BY <1>0, <1>a, <2>1, <2>2 DEF Owes, Free, Threads
<1>13. ASSUME NEW u \in User, GuardFails(u)
      PROVE  /\ Free' => Agrees(OnDisk)'
             /\ \A v \in User : pc'[v] \in Replacing => Agrees(pre[v])'
  <2>1. /\ pc[u] \in Guarding /\ pc' = [pc EXCEPT ![u] = "idle"]
        /\ UNCHANGED <<torn, unsaved, up, mem, config, key>>
    BY <1>13 DEF GuardFails
  <2>2. lock = u /\ up /\ OnDisk = pre[u]
    BY <1>0, <2>1 DEF Alone, Down, Replaced
  <2>3. \A v \in User : ~Owes(v) /\ pc'[v] \notin Replacing
    BY <1>0, <2>1, <2>2 DEF Owes, Alone, Threads
  <2>4. Agrees(pre[u])
    BY <1>0, <2>1, <2>2, <2>3 DEF SavedInv
  <2>5. Agrees(OnDisk)'
    BY <2>1, <2>2, <2>4 DEF Agrees, Read, OnDisk, Decrypted
  <2> QED BY <2>3, <2>5
<1>6. ASSUME NEW u \in User, PutConfig(u) \/ PutKey(u) \/ PutFails(u) \/ UndoConfig(u)
      PROVE  /\ Free' => Agrees(OnDisk)'
             /\ \A v \in User : pc'[v] \in Replacing => Agrees(pre[v])'
  <2>1. /\ lock = u /\ lock' = lock /\ ~torn /\ ~unsaved /\ up /\ mem' = mem /\ pre' = pre
        /\ \A v \in User : ~Owes(v) /\ (pc'[v] \in Replacing => pc[v] \in Replacing)
    <3>1. /\ pc[u] \in Replacing /\ pc' = [pc EXCEPT ![u] = pc'[u]] /\ pc'[u] \in Replacing
          /\ UNCHANGED <<lock, torn, unsaved, up, mem, pre>>
      BY <1>0, <1>6 DEF PutConfig, PutKey, PutFails, UndoConfig, Threads
    <3>2. lock = u /\ up
      BY <1>0, <3>1 DEF Alone, Down
    <3>3. \A v \in User : ~Owes(v)
      BY <1>0, <3>1 DEF Owes, Threads
    <3> QED BY <1>0, <3>1, <3>2, <3>3 DEF Threads
  <2>2. \A v \in User : pc[v] \in Replacing => Agrees(pre[v])
    BY <2>1 DEF SavedInv
  <2> QED BY <1>0, <2>1, <2>2 DEF Free, Agrees, Read, Decrypted
<1>7. ASSUME NEW u \in User, UndoKey(u)
      PROVE  /\ Free' => Agrees(OnDisk)'
             /\ \A v \in User : pc'[v] \in Replacing => Agrees(pre[v])'
  <2>1. /\ lock = u /\ ~torn /\ ~unsaved /\ up /\ mem' = mem
        /\ \A v \in User : ~Owes(v)
        /\ \A v \in User : pc'[v] \notin Replacing
    <3>1. /\ pc[u] = "undokey" /\ pc' = [pc EXCEPT ![u] = "idle"]
          /\ UNCHANGED <<torn, unsaved, up, mem>>
      BY <1>7 DEF UndoKey
    <3>2. lock = u /\ up
      BY <1>0, <3>1 DEF Alone, Down
    <3>3. \A v \in User : ~Owes(v)
      BY <1>0, <3>1 DEF Owes, Threads
    <3> QED BY <1>0, <3>1, <3>2, <3>3 DEF Alone, Threads
  <2>2. Agrees(pre[u])
    BY <1>0, <1>7, <2>1 DEF SavedInv, UndoKey
  <2>3. config' = pre[u].config /\ key' = pre[u].key
    BY <1>0, <1>7 DEF UndoKey, Replaced
  <2>4. Agrees(OnDisk)'
    BY <2>1, <2>2, <2>3 DEF Agrees, Read, OnDisk, Decrypted
  <2> QED BY <2>1, <2>4
<1>8. ASSUME NEW u \in User, UndoFails(u) PROVE FALSE
  BY <1>8 DEF UndoFails
<1>9. CASE Crash
  BY <1>9 DEF Crash
<1>10. CASE Boot
  <2>1. PICK c \in {config, None}, k \in {key, KeyInUse} :
          Reads(mem', c, k, unread') /\ Written(mem', c, k)
    BY <1>10 DEF Boot
  <2>2. /\ config' = Stored(mem') /\ key' = KeyAfter(mem'.sec)
        /\ UNCHANGED pc /\ \A v \in User : pc[v] = "idle"
    BY <1>0, <1>10, <2>1 DEF Boot, Written, Down
  <2>3. mem' \in Settings
    BY <1>0, <2>1, ReadsType
  <2>4. Agrees(OnDisk)'
    BY <1>0, <2>2, <2>3, ReadBack DEF Agrees, Read, OnDisk, Decrypted
  <2> QED BY <2>2, <2>4
<1>11. CASE UNCHANGED vars
  BY <1>0, <1>11, <1>a DEF vars, Owes, Free
<1> QED
  BY <1>1, <1>2, <1>3, <1>4, <1>5, <1>6, <1>7, <1>8, <1>9, <1>10, <1>11, <1>12,
     <1>13 DEF Next, Proceed

\* When no request is on, what is in memory is what the next start will read,
\* unless the last write failed or a restore was torn: no thread ends between
\* its change and the write that saves it, whoever else runs at the time.
THEOREM MemorySaved == Spec => []MemoryIsSaved
<1>1. TypeInv /\ PlaceInv /\ SavedInv => MemoryIsSaved
  <2> SUFFICES ASSUME TypeInv, PlaceInv, SavedInv, up, ~torn, ~unsaved,
                      \A u \in User : pc[u] = "idle"
               PROVE  config # None /\ Loaded = mem
    BY DEF MemoryIsSaved
  <2>1. Free
    BY TypeParts DEF TypeInv, Threads, PlaceInv, Alone, Free, Replacing, Guarding
  <2>2. Agrees(OnDisk)
    BY <2>1 DEF SavedInv, Owes
  <2> QED BY <2>2 DEF Agrees, Read, OnDisk, Loaded, KeyInUse
<1>2. Spec => []SavedInv
  BY ConfigInv, SavedInit, SavedStep, PTL DEF Spec
<1> QED
  BY <1>1, <1>2, ConfigInv, PTL

-----------------------------------------------------------------------------
(***************************************************************************)
(* Requests get on: the safety core of EveryRequestEnds.  Who holds a lock *)
(* is at work and waits for nobody but, with the task lock alone, for the  *)
(* configuration lock; and each step of a request leaves it fewer to do.   *)
(***************************************************************************)

\* What u has to do after the write that comes next, in loads and writes.
Owed(u) == IF task = u THEN 4 ELSE 2 * reloads[u]

\* The steps that the request of u has before it at most.
Left(u) ==
    CASE pc[u] = "idle"                    -> 0
      [] pc[u] \in {"packkey", "undokey"}  -> 1
      [] pc[u] \in {"packconfig", "undoconfig"} -> 2
      [] pc[u] = "write"                   -> 1 + Owed(u)
      [] pc[u] = "load"                    -> 2 + Owed(u)
      [] pc[u] = "putstate"                -> 7
      [] pc[u] = "putkey"                  -> 8
      [] pc[u] = "putconfig"               -> 9
      [] pc[u] = "guardkey"                -> 10
      [] pc[u] = "guardconfig"             -> 11
      [] OTHER                             -> 12

\* A lock is held by a thread that has something to do.
LocksBusy ==
    /\ lock # None => pc[lock] \in Replacing
    /\ task # None => pc[task] # "idle"

LEMMA OwedType == TypeInv => \A u \in User : Owed(u) \in {0, 2, 4}
  BY TypeParts DEF TypeInv, Threads, Owed

LEMMA LeftType ==
    TypeInv => \A u \in User : Left(u) \in 0..12 /\ (Left(u) = 0 <=> pc[u] = "idle")
<1> SUFFICES ASSUME TypeInv, NEW u \in User
             PROVE  Left(u) \in 0..12 /\ (Left(u) = 0 <=> pc[u] = "idle")
  OBVIOUS
<1>1. Owed(u) \in {0, 2, 4}
  BY OwedType
<1> HIDE DEF Owed
<1> QED
  BY <1>1 DEF Left

LEMMA LeftTypeNext == TypeInv' => (\A u \in User : Left(u) \in 0..12)'
<1>1. TypeInv => \A u \in User : Left(u) \in 0..12
  BY LeftType
<1> QED
  BY <1>1, PTL

\* A thread that holds a lock leaves its work only by giving the lock back.
LEMMA BusyStep == TypeInv /\ PlaceInv /\ LocksBusy /\ [Next]_vars => LocksBusy'
<1> SUFFICES ASSUME TypeInv, PlaceInv, LocksBusy, [Next]_vars PROVE LocksBusy'
  OBVIOUS
<1>0. /\ Threads /\ Threads' /\ None \notin User
      /\ task # None => task \in User /\ pc[task] # "idle"
  <2>1. TypeOK /\ TypeOK'
    BY StepType DEF TypeInv
  <2> QED
    BY <2>1, ConfigAssumption DEF TypeOK, Threads, LocksBusy
<1>1. PlaceInv'
  BY PlaceStep
<1>2. lock' # None => pc'[lock'] \in Replacing
  BY <1>0, <1>1 DEF PlaceInv, Alone, Threads
<1>3. ASSUME NEW u \in User, Request(u) PROVE task' # None => pc'[task'] # "idle"
  <2>1. /\ task' \in {task, u} /\ pc[u] = "idle"
        /\ \E x \in {"write", "load", "packconfig", "guard"} : pc' = [pc EXCEPT ![u] = x]
    BY <1>3 DEF Request, Update, Restart, BeginBackup, BeginRestore, Begin, locks
  <2> QED
    BY <1>0, <2>1 DEF Threads
<1>4. ASSUME NEW u \in User, Proceed(u) PROVE task' # None => pc'[task'] # "idle"
  <2>1. CASE Write(u)
    BY <1>0, <2>1 DEF Write, AfterWrite, Threads
  <2>2. CASE \/ PackKey(u) \/ BackupFails(u) \/ RestoreFails(u) \/ GuardFails(u)
             \/ UndoKey(u) \/ UndoFails(u)
    <3>1. GiveUp(u)
      BY <2>2 DEF PackKey, BackupFails, RestoreFails, GuardFails, UndoKey, UndoFails
    <3> QED
      BY <1>0, <3>1 DEF GiveUp, Threads
  <2>3. CASE \/ Load(u) \/ PackConfig(u) \/ Guard(u) \/ GuardConfig(u) \/ GuardKey(u)
             \/ PutConfig(u) \/ PutKey(u) \/ PutState(u) \/ PutFails(u) \/ UndoConfig(u)
    <3>1. task' = task /\ \E x \in PC \ {"idle"} : pc' = [pc EXCEPT ![u] = x]
      BY <2>3 DEF Load, PackConfig, Guard, GuardConfig, GuardKey, PutConfig, PutKey, PutState, PutFails,
                  UndoConfig, locks, PC
    <3> QED
      BY <1>0, <3>1 DEF Threads
  <2> QED
    BY <1>4, <2>1, <2>2, <2>3 DEF Proceed
<1>5. ASSUME Crash \/ Boot \/ UNCHANGED vars PROVE task' # None => pc'[task'] # "idle"
  <2>1. task' = None \/ (task' = task /\ pc' = pc)
    BY <1>5 DEF Crash, Boot, vars, locks
  <2> QED
    BY <1>0, <2>1
<1>6. task' # None => pc'[task'] # "idle"
  BY <1>3, <1>4, <1>5 DEF Next
<1> QED
  BY <1>2, <1>6 DEF LocksBusy

\* Whatever the step of a request is, less of the request is left.
LEMMA LeftFalls ==
    ASSUME TypeInv, PlaceInv, NEW u \in User, Proceed(u)
    PROVE  Left(u)' < Left(u)
<1>0. Threads /\ None \notin User /\ Alone
  BY TypeParts, ConfigAssumption DEF TypeInv, PlaceInv
<1>1. CASE Load(u)
  <2>1. pc[u] = "load" /\ pc'[u] = "write" /\ Owed(u)' = Owed(u)
    BY <1>0, <1>1 DEF Load, Threads, Owed, locks, request
  <2>2. Left(u) = 2 + Owed(u) /\ Left(u)' = 1 + Owed(u)
    BY <2>1 DEF Left
  <2> QED
    BY <2>2, OwedType
<1>2. CASE Write(u)
  <2>1. CASE task = u
    <3>1. /\ pc[u] = "write" /\ pc'[u] = "load"
          /\ Owed(u) = 4 /\ Owed(u)' = 2
      BY <1>0, <1>2, <2>1 DEF Write, AfterWrite, Threads, Owed
    <3> QED
      BY <3>1 DEF Left
  <2>2. CASE task # u /\ reloads[u] > 0
    <3>1. /\ pc[u] = "write" /\ pc'[u] = "load"
          /\ reloads[u] = 1 /\ Owed(u) = 2 /\ Owed(u)' = 0
      BY <1>0, <1>2, <2>2 DEF Write, AfterWrite, Threads, Owed
    <3> QED
      BY <3>1 DEF Left
  <2>3. CASE task # u /\ ~(reloads[u] > 0)
    <3>1. pc[u] = "write" /\ pc'[u] = "idle" /\ Owed(u) \in {0, 2, 4}
      BY <1>0, <1>2, <2>3, OwedType DEF Write, AfterWrite, Threads
    <3>2. Left(u) = 1 + Owed(u) /\ Left(u)' = 0
      BY <3>1 DEF Left
    <3> QED
      BY <3>1, <3>2
  <2> QED
    BY <2>1, <2>2, <2>3
<1>3. CASE \/ PackKey(u) \/ BackupFails(u) \/ RestoreFails(u) \/ GuardFails(u)
           \/ UndoKey(u) \/ UndoFails(u)
  <2>1. pc[u] # "idle" /\ pc'[u] = "idle"
    BY <1>0, <1>3 DEF PackKey, BackupFails, RestoreFails, GuardFails, UndoKey, UndoFails, GiveUp, Threads
  <2>2. Left(u) \in 0..12 /\ Left(u) # 0 /\ Left(u)' = 0
    BY <2>1, LeftType DEF Left
  <2> QED
    BY <2>2
<1>4. CASE \/ PackConfig(u) \/ Guard(u) \/ GuardConfig(u) \/ GuardKey(u)
           \/ PutConfig(u) \/ PutKey(u) \/ UndoConfig(u)
  <2>1. \/ pc[u] = "packconfig" /\ pc'[u] = "packkey"
        \/ pc[u] = "guard" /\ pc'[u] = "guardconfig"
        \/ pc[u] = "guardconfig" /\ pc'[u] = "guardkey"
        \/ pc[u] = "guardkey" /\ pc'[u] = "putconfig"
        \/ pc[u] = "putconfig" /\ pc'[u] = "putkey"
        \/ pc[u] = "putkey" /\ pc'[u] = "putstate"
        \/ pc[u] = "undoconfig" /\ pc'[u] = "undokey"
    BY <1>0, <1>4 DEF PackConfig, Guard, GuardConfig, GuardKey, PutConfig, PutKey,
                      UndoConfig, Threads
  <2> QED
    BY <2>1 DEF Left
<1>5. CASE PutState(u)
  <2>1. task = u
    BY <1>0, <1>5 DEF PutState, Alone, Replacing
  <2>2. pc[u] = "putstate" /\ pc'[u] = "load" /\ Owed(u)' = 4
    BY <1>0, <1>5, <2>1 DEF PutState, Threads, Owed, request
  <2> QED
    BY <2>2 DEF Left
<1>6. CASE PutFails(u)
  <2>1. pc[u] \in {"putconfig", "putkey", "putstate"} /\ pc'[u] = "undoconfig"
    BY <1>0, <1>6 DEF PutFails, Threads
  <2> QED
    BY <2>1 DEF Left
<1> QED
  BY <1>1, <1>2, <1>3, <1>4, <1>5, <1>6 DEF Proceed

\* What u has left depends on its own place, its loads and whether it has the task.
LEMMA SameLeft ==
    ASSUME NEW u \in User, pc'[u] = pc[u], reloads'[u] = reloads[u],
           task' = u <=> task = u
    PROVE  Left(u)' = Left(u)
<1>1. Owed(u)' = Owed(u)
  BY DEF Owed
<1> QED
  BY <1>1 DEF Left

\* Nobody gives a thread more to do: only one that is idle takes up a request.
LEMMA LeftElsewhere ==
    ASSUME TypeInv, PlaceInv, [Next]_vars, NEW u \in User, pc[u] # "idle"
    PROVE  ~(Left(u)' > Left(u))
<1>0. Threads /\ None \notin User
  BY TypeParts, ConfigAssumption DEF TypeInv
<1>1. Left(u) \in 0..12 /\ Left(u)' \in 0..12
  <2>1. TypeInv'
    BY StepType
  <2> QED
    BY <2>1, LeftType, LeftTypeNext
<1>2. CASE Proceed(u)
  BY <1>1, <1>2, LeftFalls
<1>3. ASSUME NEW v \in User, v # u, Request(v) \/ Proceed(v) PROVE Left(u)' = Left(u)
  <2>1. pc'[u] = pc[u] /\ reloads'[u] = reloads[u]
    BY <1>0, <1>3
       DEF Request, Proceed, Update, Restart, BeginBackup, BeginRestore, Begin, Load,
           Write, AfterWrite, PackConfig, PackKey, BackupFails, Guard, GuardConfig,
           GuardKey, GuardFails, RestoreFails, PutConfig, PutKey, PutState, PutFails, UndoConfig, UndoKey, UndoFails,
           GiveUp, request, Threads
  <2>2. task' = u <=> task = u
    BY <1>0, <1>3
       DEF Request, Proceed, Update, Restart, BeginBackup, BeginRestore, Load,
           Write, AfterWrite, PackConfig, PackKey, BackupFails, Guard, GuardConfig,
           GuardKey, GuardFails, RestoreFails, PutConfig, PutKey, PutState, PutFails, UndoConfig, UndoKey, UndoFails,
           GiveUp, locks, Threads
  <2> QED
    BY <2>1, <2>2, SameLeft
<1>4. CASE Request(u)
  BY <1>4 DEF Request, Update, Restart, BeginBackup, BeginRestore, Begin
<1>5. CASE Crash
  <2>1. pc'[u] = "idle"
    BY <1>5 DEF Crash
  <2>2. Left(u)' = 0
    BY <2>1 DEF Left
  <2> QED
    BY <1>1, <2>2
<1>6. CASE Boot \/ UNCHANGED vars
  BY <1>1, <1>6, SameLeft DEF Boot, vars, locks, request
<1> QED
  BY <1>1, <1>2, <1>3, <1>4, <1>5, <1>6 DEF Next

\* Requests of the admin API cannot block each other for ever, nor go round
\* (config_manager.py takes _lock, webdav_backup.py takes _task_lock before it):
\* a lock is held only by a thread that has work to do, the configuration lock
\* by one that waits for nothing; each step of a request brings it nearer to its
\* end, which is twelve steps away at most, and no step of others takes it back.
THEOREM RequestsGetOn ==
    Spec => /\ []LocksBusy
            /\ [](\A u \in User : Left(u) \in 0..12 /\ (Left(u) = 0 <=> pc[u] = "idle"))
            /\ [][\A u \in User : /\ Proceed(u) => Left(u)' < Left(u)
                                  /\ Left(u)' > Left(u) => pc[u] = "idle"]_vars
<1>1. Init => LocksBusy
  BY DEF Init, LocksBusy
<1>2. Spec => []LocksBusy
  BY <1>1, BusyStep, ConfigInv, PTL DEF Spec
<1>3. TypeInv /\ PlaceInv /\ [Next]_vars =>
        [\A u \in User : /\ Proceed(u) => Left(u)' < Left(u)
                         /\ Left(u)' > Left(u) => pc[u] = "idle"]_vars
  BY LeftFalls, LeftElsewhere
<1> QED
  BY <1>2, <1>3, LeftType, ConfigInv, PTL DEF Spec

=============================================================================
