------------------------------ MODULE StrmSync ------------------------------
(***************************************************************************)
(* The STRM synchroniser: StrmGenerator.full_sync and incremental_sync     *)
(* (strm_generator.py), the file table they keep (database.py) and the     *)
(* endpoints that start, cancel and reset them (api_routes.py).            *)
(*                                                                         *)
(* Three stores must agree: the 115 drive (changed by the user at any      *)
(* time), the table of known files, and the .strm files on the local disk, *)
(* each of which holds the link of one file.  One run at a time holds      *)
(* _sync_lock; it lists the roots one after another, writes or moves .strm *)
(* files as it goes, and only then touches the table.  Listings of one     *)
(* root are atomic here (module FastScan is about pages that drift).       *)
(***************************************************************************)
EXTENDS FiniteSets, Naturals

CONSTANTS
    File,       \* files of the drive, named by pickcode
    Root,       \* the enabled path mappings, named by their "from" directory
    Pan,        \* full paths on the drive
    Strm,       \* paths of local .strm files
    Sha,        \* contents
    None,       \* "no value"
    Torn,       \* what a .strm holds whose writing was cut off: no link
    Under,      \* Under[r]: the drive paths inside root r (roots may be nested)
    StrmAt,     \* StrmAt[r][p]: the .strm path that mapping r gives to p
    Mode,       \* the kinds of run the user asks for
    Option,     \* the settings a run may start with
    Fault,      \* which disturbances this instance has
    MaxChange,  \* bound on the user's changes of the drive
    MaxRun      \* bound on the number of runs

(***************************************************************************)
(* "cancel": the user cancels; "crash": the process dies and restarts;     *)
(* "scanfail": a request or a write of a run fails; "unlinkfail": a .strm  *)
(* cannot be removed or moved; "reset": /sync/reset-baseline;              *)
(* "clientlost": re-initialising the 115 client fails during a run;        *)
(* "reuse": a drive path may be taken again after it was once occupied.    *)
(***************************************************************************)
FaultKind == {"cancel", "crash", "scanfail", "unlinkfail", "reset",
              "clientlost", "reuse"}

Item  == [pan: Pan, sha: Sha]
Row   == [pan: Pan, sha: Sha, strm: Strm]
Entry == [pan: Pan, sha: Sha, strm: Strm, root: Root]

ASSUME ConstantAssumption ==
    /\ Under \in [Root -> SUBSET Pan]
    /\ StrmAt \in [Root -> [Pan -> Strm]]
    /\ Mode \subseteq {"full", "incremental"}
    /\ Option \subseteq [never: BOOLEAN, cleanup: BOOLEAN]
    /\ Fault \subseteq FaultKind
    /\ MaxChange \in Nat /\ MaxRun \in Nat

ASSUME NoneAssumption ==
    None \notin File \union Root \union Strm

ASSUME TornAssumption ==
    Torn \notin File \union {None}

ASSUME NoRecordAssumption ==
    None \notin Item \union Row \union Entry

VARIABLES
    (* the stores *)
    drive,      \* drive[f]: where f is on the drive and its content, or None
    disk,       \* disk[s]: the file whose link the .strm file s holds, Torn when
                \* it holds no whole link, or None when there is no such file
    db,         \* db[f]: f's active row, or None (no row, or status 'deleted')
    client,     \* P115ClientWrapper._client is not None
    (* the run *)
    pc,         \* where the sync thread is
    mode,       \* "full" or "incremental"
    opt,        \* _overwrite_mode = "never" and _cleanup_deleted
    cancel,     \* _cancel_flag
    todo,       \* mappings not yet visited by the current loop
    root,       \* the mapping being scanned
    existing,   \* all_existing
    listing,    \* attributes of the current root not yet handled
    seen,       \* seen_pickcodes
    pending,    \* all_files / all_new_files: rows to write at the end
    scanned,    \* scanned_roots
    doomed,     \* doomed[f]: the .strm to remove with f's row, or None
    half,       \* the file whose removal is half done, or None
    (* history: read by properties and bounds only *)
    quiet,      \* neither drive nor table was changed from outside the run
    outcome,    \* mode of the last run if it ended undisturbed
    used,       \* .strm names of drive paths that were ever occupied
    changes, runs

world   == <<drive, used, changes>>
scan    == <<todo, root, existing, listing, seen, pending, scanned>>
removal == <<doomed, half>>
setup   == <<mode, opt, runs>>
vars    == <<drive, disk, db, client, pc, mode, opt, cancel, todo, root,
             existing, listing, seen, pending, scanned, doomed, half,
             quiet, outcome, used, changes, runs>>

Nothing == [f \in File |-> None]

PC == {"idle", "root", "resolve", "list", "file", "gate", "sweep",
       "cleanup", "commit", "finish"}

TypeOK ==
    /\ drive \in [File -> Item \union {None}]
    /\ disk \in [Strm -> File \union {None, Torn}]
    /\ db \in [File -> Row \union {None}]
    /\ client \in BOOLEAN
    /\ pc \in PC
    /\ mode \in {"full", "incremental"}
    /\ opt \in [never: BOOLEAN, cleanup: BOOLEAN]
    /\ cancel \in BOOLEAN
    /\ todo \subseteq Root
    /\ root \in Root \union {None}
    /\ pc \in {"resolve", "list", "file"} => root \in Root
    /\ existing \in [File -> Entry \union {None}]
    /\ listing \in [File -> Item \union {None}]
    /\ seen \subseteq File
    /\ pending \in [File -> Row \union {None}]
    /\ scanned \subseteq Root
    /\ doomed \in [File -> Strm \union {None}]
    /\ half \in File \union {None}
    /\ quiet \in BOOLEAN
    /\ outcome \in {"none", "partial", "full", "incremental"}
    /\ used \subseteq Strm
    /\ changes \in Nat
    /\ runs \in Nat

In(x, r) == x # None /\ x.pan \in Under[r]

-----------------------------------------------------------------------------
(* The user and the drive *)

\* The .strm names of a path: one for each mapping it lies in.
Names(p) == {StrmAt[r][p] : r \in {q \in Root : p \in Under[q]}}

FreshPath(p) == Names(p) \intersect used = {}

\* f is put at path p: nothing else is there, and without "reuse" nothing
\* that maps to the same .strm ever was.
Place(f, p, sha) ==
    /\ changes < MaxChange
    /\ \A g \in File : drive[g] # None => drive[g].pan # p
    /\ "reuse" \in Fault \/ FreshPath(p)
    /\ drive' = [drive EXCEPT ![f] = [pan |-> p, sha |-> sha]]
    /\ used' = used \union Names(p)
    /\ changes' = changes + 1
    /\ quiet' = FALSE
    /\ UNCHANGED <<disk, db, client, pc, cancel, outcome, scan, removal, setup>>

UserUploads(f) ==
    /\ drive[f] = None
    /\ \E p \in Pan, sha \in Sha : Place(f, p, sha)

\* A rename or a move keeps the pickcode.
UserMoves(f) ==
    /\ drive[f] # None
    /\ \E p \in Pan : Place(f, p, drive[f].sha)

UserEdits(f) ==
    /\ drive[f] # None
    /\ changes < MaxChange
    /\ \E sha \in Sha \ {drive[f].sha} :
          drive' = [drive EXCEPT ![f].sha = sha]
    /\ changes' = changes + 1
    /\ quiet' = FALSE
    /\ UNCHANGED <<disk, db, client, pc, cancel, outcome, used, scan, removal,
                   setup>>

UserDeletes(f) ==
    /\ drive[f] # None
    /\ changes < MaxChange
    /\ drive' = [drive EXCEPT ![f] = None]
    /\ changes' = changes + 1
    /\ quiet' = FALSE
    /\ UNCHANGED <<disk, db, client, pc, cancel, outcome, used, scan, removal,
                   setup>>

-----------------------------------------------------------------------------
(* Starting a run: _launch_sync, then the head of full_sync or             *)
(* incremental_sync under _sync_lock.                                      *)

\* The first incremental run of an empty table becomes a full one.
EffectiveMode(m) ==
    IF m = "incremental" /\ \A f \in File : db[f] = None THEN "full" ELSE m

StartSync(m, o) ==
    /\ pc = "idle"
    /\ runs < MaxRun
    /\ client
    /\ pc' = "root"
    /\ mode' = EffectiveMode(m)
    /\ opt' = o
    /\ cancel' = FALSE
    /\ todo' = Root
    /\ runs' = runs + 1
    /\ quiet' = TRUE
    /\ outcome' = "none"
    /\ UNCHANGED <<disk, db, client, root, existing, listing, seen, pending,
                   scanned, removal, world>>

-----------------------------------------------------------------------------
(* Scanning the roots *)

\* get_active_files_by_parent: rows inside r, by the path they were seen at.
RowUnder(f, r) == In(db[f], r)

LoadExisting(r) ==
    [f \in File |-> IF RowUnder(f, r)
                    THEN [pan |-> db[f].pan, sha |-> db[f].sha,
                          strm |-> db[f].strm, root |-> r]
                    ELSE existing[f]]

BeginRoot(r) ==
    /\ pc = "root"
    /\ ~cancel
    /\ r \in todo
    /\ pc' = "resolve"
    /\ root' = r
    /\ todo' = todo \ {r}
    /\ existing' = IF mode = "incremental" THEN LoadExisting(r) ELSE existing
    /\ UNCHANGED <<disk, db, client, cancel, quiet, outcome, listing, seen,
                   pending, scanned, removal, setup, world>>

EndScan ==
    /\ pc = "root"
    /\ cancel \/ todo = {}
    /\ pc' = "gate"
    /\ UNCHANGED <<disk, db, client, cancel, quiet, outcome, scan, removal,
                   setup, world>>

\* _resolve_pan_path
ResolveRoot ==
    /\ pc = "resolve"
    /\ client
    /\ pc' = "list"
    /\ UNCHANGED <<disk, db, client, cancel, quiet, outcome, scan, removal,
                   setup, world>>

\* iter_files_fast gives up with an empty list when cancelled, and the
\* fallback _iter_files_115 yields nothing, without an error, when the
\* client is gone.
Listing(r) ==
    [f \in File |-> IF client /\ ~cancel /\ In(drive[f], r)
                    THEN drive[f] ELSE None]

ListRoot ==
    /\ pc = "list"
    /\ pc' = "file"
    /\ listing' = Listing(root)
    /\ UNCHANGED <<disk, db, client, cancel, quiet, outcome, todo, root,
                   existing, seen, pending, scanned, removal, setup, world>>

\* The scan of the current root is over, one way or another.
LeaveRoot ==
    /\ pc' = "root"
    /\ root' = None
    /\ listing' = Nothing
    /\ UNCHANGED <<db, client, cancel, quiet, outcome, todo, existing, pending,
                   removal, setup, world>>

\* An exception anywhere in a root ends that root only.
RootFails ==
    /\ \/ pc = "resolve" /\ ~client
       \/ pc \in {"resolve", "list", "file"} /\ "scanfail" \in Fault
    /\ LeaveRoot
    /\ UNCHANGED <<disk, seen, scanned>>

AbandonRoot ==
    /\ pc = "file"
    /\ cancel
    /\ LeaveRoot
    /\ UNCHANGED <<disk, seen, scanned>>

\* Only a root that was walked to its end may lose rows.
EndRoot ==
    /\ pc = "file"
    /\ ~cancel
    /\ listing = Nothing
    /\ scanned' = scanned \union {root}
    /\ LeaveRoot
    /\ UNCHANGED <<disk, seen>>

-----------------------------------------------------------------------------
(* One file of the listing.  Each branch of the loop body is an action.    *)

\* _ensure_strm_file: with overwrite mode "never" an existing .strm is kept,
\* whatever link it holds.
EnsureStrm(d, s, f, force) ==
    IF ~force /\ opt.never /\ d[s] # None THEN d ELSE [d EXCEPT ![s] = f]

\* Removing a .strm; an OSError is logged and swallowed.
UnlinkStrm(d, s, ok) == IF ok THEN [d EXCEPT ![s] = None] ELSE d

\* Mutant of MigrateStrm: nothing is written when the old .strm cannot be moved.
MigrateStrmOnly(d, old, s, f, cleared, moved) ==
    IF old # s /\ d[old] # None /\ cleared /\ moved
    THEN [d EXCEPT ![s] = d[old], ![old] = None]
    ELSE d

\* _migrate_strm_file: clear s, then move the old .strm there.  When there is
\* nothing to move, or clearing or moving fails, write s as for a new file.
MigrateStrm(d, old, s, f, cleared, moved) ==
    IF old = s \/ d[old] = None THEN EnsureStrm(d, s, f, FALSE)
    ELSE IF cleared /\ moved THEN [d EXCEPT ![s] = d[old], ![old] = None]
    ELSE EnsureStrm(UnlinkStrm(d, s, cleared), s, f, FALSE)

\* Mutant of RewriteStrm: the old .strm stays.
RewriteStrmKeepOld(d, old, s, f, ok) == EnsureStrm(d, s, f, TRUE)

\* The sha1 branch: the old .strm goes when the path changed too, and the
\* new one is written in any case.
RewriteStrm(d, old, s, f, ok) ==
    EnsureStrm(IF old # s THEN UnlinkStrm(d, old, ok) ELSE d, s, f, TRUE)

\* Whether an unlink or a move works.
DiskOK == IF "unlinkfail" \in Fault THEN BOOLEAN ELSE {TRUE}

Target(f) == StrmAt[root][listing[f].pan]

NewRow(f) == [pan |-> listing[f].pan, sha |-> listing[f].sha,
              strm |-> Target(f)]

CanTake(f) == pc = "file" /\ ~cancel /\ listing[f] # None

\* The file leaves the listing; its row, if any, waits for the end of the run.
Take(f) ==
    /\ listing' = [listing EXCEPT ![f] = None]
    /\ seen' = seen \union {f}
    /\ UNCHANGED <<db, client, pc, cancel, quiet, outcome, todo, root,
                   existing, scanned, removal, setup, world>>

TakeWithRow(f) ==
    /\ Take(f)
    /\ pending' = [pending EXCEPT ![f] = NewRow(f)]

IsNew(f)     == existing[f] = None
IsChanged(f) == existing[f] # None /\ existing[f].sha # listing[f].sha
IsMoved(f)   == /\ existing[f] # None
                /\ existing[f].sha = listing[f].sha
                /\ existing[f].pan # listing[f].pan

FullFile(f) ==
    /\ CanTake(f) /\ mode = "full"
    /\ disk' = EnsureStrm(disk, Target(f), f, FALSE)
    /\ TakeWithRow(f)

NewFile(f) ==
    /\ CanTake(f) /\ mode = "incremental" /\ IsNew(f)
    /\ disk' = EnsureStrm(disk, Target(f), f, FALSE)
    /\ TakeWithRow(f)

ChangedFile(f) ==
    /\ CanTake(f) /\ mode = "incremental" /\ IsChanged(f)
    /\ \E ok \in DiskOK :
          disk' = RewriteStrm(disk, existing[f].strm, Target(f), f, ok)
    /\ TakeWithRow(f)

MovedFile(f) ==
    /\ CanTake(f) /\ mode = "incremental" /\ IsMoved(f)
    /\ \E cleared, moved \in DiskOK :
          disk' = MigrateStrm(disk, existing[f].strm, Target(f), f, cleared,
                              moved)
    /\ TakeWithRow(f)

\* Nothing is looked up on disk for a file whose row is up to date.
UnchangedFile(f) ==
    /\ CanTake(f) /\ mode = "incremental"
    /\ ~IsNew(f) /\ ~IsChanged(f) /\ ~IsMoved(f)
    /\ Take(f)
    /\ UNCHANGED <<disk, pending>>

\* What _ensure_strm_file may leave when it raises: nothing changed (the
\* directory or the file cannot be opened), or the file was emptied and its
\* link not written.  Empty set: it returns before it writes.
FailedEnsure(d, s, force) ==
    IF ~force /\ opt.never /\ d[s] # None
    THEN {}
    ELSE {d, [d EXCEPT ![s] = Torn]}

\* The disk after handling f raised: a changed file has lost its old .strm
\* before, and a moved file may have lost whatever was at its target, if the
\* move failed first.
DiskAfterFailedWrite(f) ==
    LET old == existing[f].strm
        s   == Target(f)
    IN IF mode = "full" \/ IsNew(f) THEN FailedEnsure(disk, s, FALSE)
       ELSE IF IsChanged(f)
       THEN UNION {FailedEnsure(IF old # s THEN UnlinkStrm(disk, old, ok)
                                ELSE disk, s, TRUE) : ok \in DiskOK}
       ELSE IF ~IsMoved(f) THEN {}
       ELSE IF old = s \/ disk[old] = None THEN FailedEnsure(disk, s, FALSE)
       ELSE IF "unlinkfail" \notin Fault THEN {disk}
       ELSE UNION {FailedEnsure(UnlinkStrm(disk, s, cleared), s, FALSE) :
                     cleared \in BOOLEAN}

\* Writing raises: the root fails.  The incremental run has f in
\* seen_pickcodes already.
WriteFails(f) ==
    /\ CanTake(f) /\ "scanfail" \in Fault
    /\ disk' \in DiskAfterFailedWrite(f)
    /\ seen' = IF mode = "incremental" THEN seen \union {f} ELSE seen
    /\ LeaveRoot
    /\ UNCHANGED scanned

-----------------------------------------------------------------------------
(* After the scan.  A full run writes the table, then cleans up if asked   *)
(* to; an incremental run cleans up, then writes the table.                *)

\* Mutant of Upserted: a row that exists is kept as it is.
InsertedOnly == [f \in File |-> IF db[f] = None THEN pending[f] ELSE db[f]]

\* batch_add_files: one transaction, the last row of a pickcode wins.
Upserted == [f \in File |-> IF pending[f] # None THEN pending[f] ELSE db[f]]

FullCommit ==
    /\ pc = "gate" /\ mode = "full"
    /\ IF ~cancel /\ pending # Nothing
       THEN /\ db' = Upserted
            /\ pc' = IF opt.cleanup THEN "sweep" ELSE "finish"
            /\ todo' = scanned
       ELSE /\ pc' = "finish"
            /\ UNCHANGED <<db, todo>>
    /\ UNCHANGED <<disk, client, cancel, quiet, outcome, root, existing,
                   listing, seen, pending, scanned, removal, setup, world>>

\* Full run: the rows under r that no root of this run listed.
LeftOverRow(f, r) == RowUnder(f, r) /\ f \notin seen

SweepRoot(r) ==
    /\ pc = "sweep"
    /\ r \in todo
    /\ pc' = "cleanup"
    /\ todo' = todo \ {r}
    /\ doomed' = [f \in File |-> IF LeftOverRow(f, r) THEN db[f].strm ELSE None]
    /\ UNCHANGED <<disk, db, client, cancel, quiet, outcome, root, existing,
                   listing, seen, pending, scanned, half, setup, world>>

SweepDone ==
    /\ pc = "sweep"
    /\ todo = {}
    /\ pc' = "finish"
    /\ UNCHANGED <<disk, db, client, cancel, quiet, outcome, scan, removal,
                   setup, world>>

\* Mutants of LeftOverEntry: a root that failed counts, or only the files
\* that got a new row count as seen.
LeftOverAnywhere(f) == existing[f] # None /\ f \notin seen
LeftOverUnwritten(f) ==
    /\ existing[f] # None
    /\ pending[f] = None
    /\ existing[f].root \in scanned

\* Incremental run: what was known under a root that was fully scanned and
\* was seen under no root.
LeftOverEntry(f) ==
    /\ existing[f] # None
    /\ f \notin seen
    /\ existing[f].root \in scanned

IncrementalGate ==
    /\ pc = "gate" /\ mode = "incremental"
    /\ IF ~cancel
       THEN /\ doomed' = [f \in File |->
                            IF LeftOverEntry(f) THEN existing[f].strm ELSE None]
            /\ pc' = "cleanup"
       ELSE /\ pc' = "commit"
            /\ UNCHANGED doomed
    /\ UNCHANGED <<disk, db, client, cancel, quiet, outcome, scan, half, setup,
                   world>>

\* Removing a file takes two steps, and the process may die between them.
\* A full run marks the row deleted first, an incremental run last.
CleanupFirst(f) ==
    /\ pc = "cleanup"
    /\ half = None
    /\ doomed[f] # None
    /\ half' = f
    /\ IF mode = "full"
       THEN db' = [db EXCEPT ![f] = None] /\ UNCHANGED disk
       ELSE /\ \E ok \in DiskOK : disk' = UnlinkStrm(disk, doomed[f], ok)
            /\ UNCHANGED db
    /\ UNCHANGED <<client, pc, cancel, quiet, outcome, scan, doomed, setup,
                   world>>

\* Mutant of CleanupSecond: the file stays on the list of files to remove.
CleanupSecondAgain ==
    /\ pc = "cleanup"
    /\ half # None
    /\ half' = None
    /\ UNCHANGED <<disk, db, client, pc, cancel, quiet, outcome, scan, doomed,
                   setup, world>>

CleanupSecond ==
    /\ pc = "cleanup"
    /\ half # None
    /\ IF mode = "full"
       THEN /\ \E ok \in DiskOK : disk' = UnlinkStrm(disk, doomed[half], ok)
            /\ UNCHANGED db
       ELSE db' = [db EXCEPT ![half] = None] /\ UNCHANGED disk
    /\ doomed' = [doomed EXCEPT ![half] = None]
    /\ half' = None
    /\ UNCHANGED <<client, pc, cancel, quiet, outcome, scan, setup, world>>

CleanupDone ==
    /\ pc = "cleanup"
    /\ half = None
    /\ doomed = Nothing
    /\ pc' = IF mode = "full" THEN "sweep" ELSE "commit"
    /\ UNCHANGED <<disk, db, client, cancel, quiet, outcome, scan, removal,
                   setup, world>>

IncrementalCommit ==
    /\ pc = "commit"
    /\ db' = IF ~cancel /\ pending # Nothing THEN Upserted ELSE db
    /\ pc' = "finish"
    /\ UNCHANGED <<disk, client, cancel, quiet, outcome, scan, removal, setup,
                   world>>

\* The locals of the run are gone.
ForgetRun ==
    /\ pc' = "idle"
    /\ todo' = {} /\ root' = None /\ seen' = {} /\ scanned' = {}
    /\ existing' = Nothing /\ listing' = Nothing /\ pending' = Nothing
    /\ doomed' = Nothing /\ half' = None

FinishSync ==
    /\ pc = "finish"
    /\ ForgetRun
    /\ outcome' = IF cancel \/ scanned # Root THEN "partial" ELSE mode
    /\ UNCHANGED <<disk, db, client, cancel, quiet, setup, world>>

-----------------------------------------------------------------------------
(* What can happen to a run from outside *)

CancelSync ==
    /\ "cancel" \in Fault
    /\ pc # "idle"
    /\ ~cancel
    /\ cancel' = TRUE
    /\ UNCHANGED <<disk, db, client, pc, quiet, outcome, scan, removal, setup,
                   world>>

\* /sync/reset-baseline does not look whether a run is on.
ResetBaseline ==
    /\ "reset" \in Fault
    /\ db # Nothing
    /\ db' = Nothing
    /\ quiet' = FALSE
    /\ UNCHANGED <<disk, client, pc, cancel, outcome, scan, removal, setup,
                   world>>

\* update_cookie: a new client cannot be built and the old one is dropped.
ClientLost ==
    /\ "clientlost" \in Fault
    /\ client
    /\ client' = FALSE
    /\ UNCHANGED <<disk, db, pc, cancel, quiet, outcome, scan, removal, setup,
                   world>>

ClientRestored ==
    /\ ~client
    /\ client' = TRUE
    /\ UNCHANGED <<disk, db, pc, cancel, quiet, outcome, scan, removal, setup,
                   world>>

\* The process dies: between two steps, or inside the handling of a file.
Crash ==
    /\ "crash" \in Fault
    /\ pc # "idle"
    /\ ForgetRun
    /\ cancel' = FALSE
    /\ outcome' = "none"
    /\ \/ UNCHANGED disk
       \/ \E f \in File : CanTake(f) /\ disk' \in DiskAfterFailedWrite(f)
    /\ UNCHANGED <<db, client, quiet, setup, world>>

-----------------------------------------------------------------------------

Init ==
    /\ drive = Nothing /\ used = {} /\ changes = 0
    /\ disk = [s \in Strm |-> None] /\ db = Nothing /\ client = TRUE
    /\ pc = "idle" /\ mode = "full" /\ cancel = FALSE /\ runs = 0
    /\ opt = [never |-> TRUE, cleanup |-> FALSE]
    /\ todo = {} /\ root = None /\ seen = {} /\ scanned = {}
    /\ existing = Nothing /\ listing = Nothing /\ pending = Nothing
    /\ doomed = Nothing /\ half = None
    /\ quiet = TRUE /\ outcome = "none"

HandleFile(f) ==
    \/ FullFile(f) \/ NewFile(f) \/ ChangedFile(f) \/ MovedFile(f)
    \/ UnchangedFile(f) \/ WriteFails(f)

\* The steps of the sync thread.
SyncStep ==
    \/ \E r \in Root : BeginRoot(r) \/ SweepRoot(r)
    \/ EndScan \/ ResolveRoot \/ ListRoot \/ RootFails \/ AbandonRoot \/ EndRoot
    \/ \E f \in File : HandleFile(f) \/ CleanupFirst(f)
    \/ FullCommit \/ SweepDone \/ IncrementalGate \/ CleanupSecond
    \/ CleanupDone \/ IncrementalCommit \/ FinishSync

\* The steps of everybody else.
EnvironmentStep ==
    \/ \E f \in File : \/ UserUploads(f) \/ UserMoves(f)
                       \/ UserEdits(f) \/ UserDeletes(f)
    \/ \E m \in Mode, o \in Option : StartSync(m, o)
    \/ CancelSync \/ ResetBaseline \/ ClientLost \/ ClientRestored \/ Crash

Next == SyncStep \/ EnvironmentStep

Spec == Init /\ [][Next]_vars

FairSpec == Spec /\ WF_vars(SyncStep)

-----------------------------------------------------------------------------
(* Properties *)

\* A row goes only because a run walked to its end a root that the row's path
\* lies in: a root whose scan failed or was cancelled loses nothing (the
\* comment at full_sync's scanned_roots).
LosesOnlyScanned ==
    [][\A f \in File :
         /\ db[f] # None /\ db'[f] = None
         /\ ~ResetBaseline
         => \E r \in scanned : In(db[f], r)]_vars

\* While nobody changes drive or table behind its back, a run never deletes
\* the row of a file that is still on the drive inside a root it scanned,
\* through whichever root that is (nested roots, a file moved between roots).
NoFalseDeletion ==
    [][\A f \in File :
         /\ db[f] # None /\ db'[f] = None
         /\ ~ResetBaseline /\ quiet
         => \A r \in scanned : ~In(drive[f], r)]_vars

InScope(x) == \E r \in Root : In(x, r)

\* After a run that was neither cancelled nor had a failing root, and until
\* the drive changes again, the table describes the drive: every media file
\* in scope has an up to date row and, after an incremental run, only those.
\* Whatever interrupted earlier runs is repaired.
TableMirrorsDrive ==
    pc = "idle" /\ quiet /\ outcome \in {"full", "incremental"} =>
      \A f \in File :
        /\ InScope(drive[f]) =>
             /\ db[f] # None
             /\ db[f].pan = drive[f].pan
             /\ db[f].sha = drive[f].sha
        /\ outcome = "incremental" /\ InScope(db[f]) => InScope(drive[f])

\* The path p lies in one mapping only.
InOneRoot(p) ==
    \A q, r \in Root : p \in Under[q] /\ p \in Under[r] => q = r

\* After such a run the media library can play what the table says exists:
\* each row of a file in scope (full run), or each row there is (incremental
\* run), has its .strm on disk, and no other file's link in it, whatever
\* earlier runs left half done.  It is the row's own link unless some run was
\* cut off while it wrote a .strm there (Torn): overwrite mode "never" keeps
\* such an empty file, and the row is written all the same.  An incremental
\* run does not look on disk for files whose row is up to date, so rows with
\* two .strm names are left out: an earlier run may have removed the one in
\* the row and not have come as far as writing it again.
RowsBackedByDisk ==
    pc = "idle" /\ quiet /\ outcome \in {"full", "incremental"} =>
      \A f \in File :
        /\ db[f] # None
        /\ IF outcome = "full" THEN InScope(drive[f]) ELSE InOneRoot(db[f].pan)
        => disk[db[f].strm] \in {f, Torn}

\* After an incremental run no link is left that no row stands for: the media
\* library would show a file twice, or one that is gone.  A .strm that a
\* failing write left empty (Torn) has no row, and is left behind when its
\* file goes elsewhere before the next run.
NoOrphanStrm ==
    pc = "idle" /\ quiet /\ outcome = "incremental" =>
      \A s \in Strm : disk[s] \in File =>
        \E f \in File : db[f] # None /\ db[f].strm = s

\* Every run ends, cancelled or not, whatever request, write or removal
\* fails, as long as each listing comes back: a listing is one step here, and
\* whether it comes back is FastScan's question (ScanEnds, finding 12).
EveryRunEnds == pc # "idle" ~> pc = "idle"

=============================================================================
