--------------------------- MODULE StrmSyncProofs ---------------------------
(***************************************************************************)
(* What StrmSync guarantees for every set of files, roots and paths, every *)
(* choice of settings and every combination of disturbances.               *)
(***************************************************************************)
EXTENDS StrmSync, FiniteSetTheorems, TLAPS

USE ConstantAssumption, NoneAssumption, TornAssumption

DiskType == [Strm -> File \union {None, Torn}]

\* What the operators on the disk return.
LEMMA EnsureType ==
    ASSUME NEW d \in DiskType, NEW s \in Strm, NEW f \in File,
           NEW force \in BOOLEAN
    PROVE  EnsureStrm(d, s, f, force) \in DiskType
BY DEF EnsureStrm, DiskType

LEMMA UnlinkType ==
    ASSUME NEW d \in DiskType, NEW s \in Strm, NEW ok
    PROVE  UnlinkStrm(d, s, ok) \in DiskType
BY DEF UnlinkStrm, DiskType

LEMMA MigrateType ==
    ASSUME NEW d \in DiskType, NEW s \in Strm, NEW old \in Strm, NEW f \in File,
           NEW cleared \in BOOLEAN, NEW moved \in BOOLEAN
    PROVE  MigrateStrm(d, old, s, f, cleared, moved) \in DiskType
<1>1. UnlinkStrm(d, s, cleared) \in DiskType
  BY UnlinkType
<1>2. /\ EnsureStrm(d, s, f, FALSE) \in DiskType
      /\ EnsureStrm(UnlinkStrm(d, s, cleared), s, f, FALSE) \in DiskType
  BY <1>1, EnsureType
<1>3. [d EXCEPT ![s] = d[old], ![old] = None] \in DiskType
  BY DEF DiskType
<1> QED
  BY <1>2, <1>3 DEF MigrateStrm

LEMMA RewriteType ==
    ASSUME NEW d \in DiskType, NEW s \in Strm, NEW old \in Strm, NEW f \in File,
           NEW ok \in BOOLEAN
    PROVE  RewriteStrm(d, old, s, f, ok) \in DiskType
BY EnsureType, UnlinkType DEF RewriteStrm

\* The row written for a listed file is a row.
LEMMA NewRowType ==
    ASSUME TypeOK, NEW f \in File, CanTake(f)
    PROVE  /\ listing[f] \in Item
           /\ Target(f) \in Strm
           /\ NewRow(f) \in Row
<1>1. root \in Root /\ listing[f] \in Item
  BY DEF TypeOK, CanTake
<1> QED
  BY <1>1 DEF Target, NewRow, Item, Row

\* What is on disk after the handling of a file was cut off: only the names
\* of its old and its new path are touched; a name loses its link or its
\* file, and none gets another link.
LEMMA FailedHandling ==
    ASSUME TypeOK, NEW f \in File, CanTake(f), NEW d \in DiskAfterFailedWrite(f)
    PROVE  /\ d \in DiskType
           /\ \A t \in Strm :
                /\ d[t] \in {disk[t], None} \/ (t = Target(f) /\ d[t] = Torn)
                /\ t # Target(f) /\ (existing[f] # None => t # existing[f].strm)
                      => d[t] = disk[t]
           /\ mode = "full" \/ existing[f] = None =>
                \A t \in Strm : d[t] \in {disk[t], Torn}
<1> DEFINE old == existing[f].strm
           s   == Target(f)
<1>1. s \in Strm /\ disk \in DiskType
  BY NewRowType DEF TypeOK, DiskType
<1>2. existing[f] # None => old \in Strm
  BY DEF TypeOK, Entry
<1>3. CASE d \in FailedEnsure(disk, s, FALSE)
  <2>1. d \in DiskType /\ \A t \in Strm :
           d[t] = disk[t] \/ (t = s /\ d[t] = Torn)
    <3>1. d = disk \/ d = [disk EXCEPT ![s] = Torn]
      BY <1>3 DEF FailedEnsure
    <3> QED
      BY <1>1, <3>1 DEF DiskType
  <2> QED
    BY <2>1
<1>4. CASE d = disk
  BY <1>1, <1>4
<1>5. ASSUME mode # "full", IsChanged(f), NEW ok \in DiskOK,
             d \in FailedEnsure(IF old # s THEN UnlinkStrm(disk, old, ok)
                               ELSE disk, s, TRUE)
      PROVE  /\ d \in DiskType
             /\ \A t \in Strm :
                  /\ d[t] \in {disk[t], None} \/ (t = s /\ d[t] = Torn)
                  /\ t # s /\ t # old => d[t] = disk[t]
             /\ existing[f] # None
  <2>1. existing[f] # None /\ old \in Strm
    BY <1>2, <1>5 DEF IsChanged
  <2> DEFINE c == IF old # s THEN UnlinkStrm(disk, old, ok) ELSE disk
  <2>2. c \in DiskType /\ \A t \in Strm :
           c[t] \in {disk[t], None} /\ (t # old => c[t] = disk[t])
    BY <1>1, <2>1 DEF UnlinkStrm, DiskType
  <2>3. d = c \/ d = [c EXCEPT ![s] = Torn]
    BY <1>5 DEF FailedEnsure
  <2> HIDE DEF c, s, old
  <2>4. d \in DiskType /\ \A t \in Strm :
           d[t] = c[t] \/ (t = s /\ d[t] = Torn)
    BY <1>1, <2>2, <2>3 DEF DiskType
  <2> QED
    BY <2>1, <2>2, <2>4
<1>6. ASSUME mode # "full", IsMoved(f), NEW cleared \in BOOLEAN,
             d \in FailedEnsure(UnlinkStrm(disk, s, cleared), s, FALSE)
      PROVE  /\ d \in DiskType
             /\ \A t \in Strm :
                  /\ d[t] \in {disk[t], None} \/ (t = s /\ d[t] = Torn)
                  /\ t # s => d[t] = disk[t]
             /\ existing[f] # None
  <2> DEFINE c == UnlinkStrm(disk, s, cleared)
  <2>1. existing[f] # None
    BY <1>6 DEF IsMoved
  <2>2. c \in DiskType /\ \A t \in Strm :
           c[t] \in {disk[t], None} /\ (t # s => c[t] = disk[t])
    BY <1>1 DEF UnlinkStrm, DiskType
  <2>3. d = c \/ d = [c EXCEPT ![s] = Torn]
    BY <1>6 DEF FailedEnsure
  <2> HIDE DEF c, s
  <2>4. d \in DiskType /\ \A t \in Strm :
           d[t] = c[t] \/ (t = s /\ d[t] = Torn)
    BY <1>1, <2>2, <2>3 DEF DiskType
  <2> QED
    BY <2>1, <2>2, <2>4
<1>7. \/ d \in FailedEnsure(disk, s, FALSE)
      \/ d = disk
      \/ /\ mode # "full" /\ IsChanged(f)
         /\ \E ok \in DiskOK :
               d \in FailedEnsure(IF old # s THEN UnlinkStrm(disk, old, ok)
                                 ELSE disk, s, TRUE)
      \/ /\ mode # "full" /\ IsMoved(f)
         /\ \E cleared \in BOOLEAN :
               d \in FailedEnsure(UnlinkStrm(disk, s, cleared), s, FALSE)
  <2> HIDE DEF s
  <2>1. CASE mode = "full" \/ IsNew(f)
    BY <2>1 DEF DiskAfterFailedWrite, s
  <2>2. CASE mode # "full" /\ ~IsNew(f) /\ IsChanged(f)
    <3>1. d \in UNION {FailedEnsure(IF old # s THEN UnlinkStrm(disk, old, ok)
                                    ELSE disk, s, TRUE) : ok \in DiskOK}
      BY <2>2, Zenon DEF DiskAfterFailedWrite, s
    <3> QED
      BY <2>2, <3>1
  <2>3. CASE mode # "full" /\ ~IsNew(f) /\ ~IsChanged(f)
    BY <2>3, Zenon DEF DiskAfterFailedWrite, s
  <2> QED
    BY <2>1, <2>2, <2>3
<1> HIDE DEF s, old
<1> QED
  BY <1>3, <1>4, <1>5, <1>6, <1>7 DEF s, old

\* Handling one file of the listing keeps the types.
LEMMA HandleFileTypes ==
    ASSUME TypeOK, NEW f \in File, HandleFile(f)
    PROVE  TypeOK'
<1>1. CanTake(f)
  BY DEF HandleFile, FullFile, NewFile, ChangedFile, MovedFile, UnchangedFile,
         WriteFails
<1>2. Target(f) \in Strm /\ NewRow(f) \in Row /\ disk \in DiskType
  BY <1>1, NewRowType DEF TypeOK, DiskType
<1>3. existing[f] # None => existing[f].strm \in Strm
  BY DEF Entry, TypeOK
<1>4. disk' \in DiskType
  <2>1. DiskOK \subseteq BOOLEAN
    BY Zenon DEF DiskOK
  <2>2. CASE FullFile(f) \/ NewFile(f)
    <3>1. EnsureStrm(disk, Target(f), f, FALSE) \in DiskType
      BY <1>2, EnsureType, Zenon
    <3> QED
      BY <2>2, <3>1, Zenon DEF FullFile, NewFile
  <2>3. CASE ChangedFile(f)
    <3>1. PICK ok \in DiskOK :
             disk' = RewriteStrm(disk, existing[f].strm, Target(f), f, ok)
      BY <2>3, Zenon DEF ChangedFile
    <3>2. existing[f].strm \in Strm
      BY <1>3, <2>3, Zenon DEF ChangedFile, IsChanged
    <3> QED
      BY <1>2, <2>1, <3>1, <3>2, RewriteType, Zenon
  <2>4. CASE MovedFile(f)
    <3>1. PICK cleared \in DiskOK, moved \in DiskOK :
             disk' = MigrateStrm(disk, existing[f].strm, Target(f), f, cleared,
                                 moved)
      BY <2>4, Zenon DEF MovedFile
    <3>2. existing[f].strm \in Strm
      BY <1>3, <2>4, Zenon DEF MovedFile, IsMoved
    <3> QED
      BY <1>2, <2>1, <3>1, <3>2, MigrateType, Zenon
  <2>5. CASE UnchangedFile(f)
    BY <1>2, <2>5 DEF UnchangedFile
  <2>6. CASE WriteFails(f)
    <3>1. DiskAfterFailedWrite(f) \subseteq DiskType
      BY <1>1, FailedHandling
    <3> QED
      BY <1>2, <2>6, <3>1, Zenon DEF WriteFails
  <2> QED
    BY <2>2, <2>3, <2>4, <2>5, <2>6 DEF HandleFile
<1> USE DEF TypeOK, DiskType, Nothing, PC, world, scan, removal, setup
<1>5. CASE UnchangedFile(f)
  BY <1>4, <1>5 DEF UnchangedFile, Take
<1>6. CASE WriteFails(f)
  BY <1>4, <1>6 DEF WriteFails, LeaveRoot
<1>7. CASE TakeWithRow(f)
  BY <1>2, <1>4, <1>7 DEF TakeWithRow, Take
<1> QED
  BY <1>5, <1>6, <1>7 DEF HandleFile, FullFile, NewFile, ChangedFile, MovedFile

LEMMA NamesType ==
    ASSUME NEW p \in Pan
    PROVE  Names(p) \subseteq Strm
BY DEF Names

\* Every step keeps every variable in its type.
THEOREM TypeCorrect == Spec => []TypeOK
<1> USE DEF TypeOK, Nothing, PC, Item, Row, Entry
<1>1. Init => TypeOK
  <2> SUFFICES ASSUME Init PROVE TypeOK
    OBVIOUS
  <2>1. /\ cancel \in BOOLEAN /\ client \in BOOLEAN /\ quiet \in BOOLEAN
        /\ opt \in [never: BOOLEAN, cleanup: BOOLEAN]
    BY Zenon DEF Init
  <2> QED
    BY <2>1 DEF Init
<1>2. TypeOK /\ [Next]_vars => TypeOK'
  <2> SUFFICES ASSUME TypeOK, [Next]_vars PROVE TypeOK'
    OBVIOUS
  <2> USE DEF world, scan, removal, setup
  <2>1. ASSUME NEW f \in File, UserUploads(f) PROVE TypeOK'
    <3>1. quiet' \in BOOLEAN
      BY <2>1, Zenon DEF UserUploads, Place
    <3> QED
      BY <2>1, <3>1, NamesType DEF UserUploads, Place
  <2>2. ASSUME NEW f \in File, UserMoves(f) PROVE TypeOK'
    <3>1. quiet' \in BOOLEAN
      BY <2>2, Zenon DEF UserMoves, Place
    <3> QED
      BY <2>2, <3>1, NamesType DEF UserMoves, Place
  <2>3. ASSUME NEW f \in File, UserEdits(f) PROVE TypeOK'
    <3>1. quiet' \in BOOLEAN
      BY <2>3, Zenon DEF UserEdits
    <3> QED
      BY <2>3, <3>1 DEF UserEdits
  <2>4. ASSUME NEW f \in File, UserDeletes(f) PROVE TypeOK'
    <3>1. quiet' \in BOOLEAN
      BY <2>4, Zenon DEF UserDeletes
    <3> QED
      BY <2>4, <3>1 DEF UserDeletes
  <2>5. ASSUME NEW m \in Mode, NEW o \in Option, StartSync(m, o) PROVE TypeOK'
    <3>1. cancel' \in BOOLEAN /\ quiet' \in BOOLEAN
      BY <2>5, Zenon DEF StartSync
    <3> QED
      BY <2>5, <3>1 DEF StartSync, EffectiveMode
  <2>6. ASSUME NEW r \in Root, BeginRoot(r) PROVE TypeOK'
    BY <2>6 DEF BeginRoot, LoadExisting, RowUnder, In
  <2>7. CASE EndScan BY <2>7 DEF EndScan
  <2>8. CASE ResolveRoot BY <2>8 DEF ResolveRoot
  <2>9. CASE ListRoot BY <2>9 DEF ListRoot, Listing
  <2>10. CASE RootFails BY <2>10 DEF RootFails, LeaveRoot
  <2>11. CASE AbandonRoot BY <2>11 DEF AbandonRoot, LeaveRoot
  <2>12. CASE EndRoot BY <2>12 DEF EndRoot, LeaveRoot
  <2>13. ASSUME NEW f \in File, HandleFile(f) PROVE TypeOK'
    BY <2>13, HandleFileTypes
  <2>14. CASE FullCommit BY <2>14 DEF FullCommit, Upserted
  <2>15. ASSUME NEW r \in Root, SweepRoot(r) PROVE TypeOK'
    BY <2>15 DEF SweepRoot, LeftOverRow, RowUnder, In
  <2>16. CASE SweepDone BY <2>16 DEF SweepDone
  <2>17. CASE IncrementalGate BY <2>17 DEF IncrementalGate, LeftOverEntry
  <2>18. ASSUME NEW f \in File, CleanupFirst(f) PROVE TypeOK'
    BY <2>18 DEF CleanupFirst, UnlinkStrm, DiskOK
  <2>19. CASE CleanupSecond BY <2>19 DEF CleanupSecond, UnlinkStrm, DiskOK
  <2>20. CASE CleanupDone BY <2>20 DEF CleanupDone
  <2>21. CASE IncrementalCommit BY <2>21 DEF IncrementalCommit, Upserted
  <2>22. CASE FinishSync BY <2>22 DEF FinishSync, ForgetRun
  <2>23. CASE CancelSync BY <2>23 DEF CancelSync
  <2>24. CASE ResetBaseline
    <3>1. quiet' \in BOOLEAN
      BY <2>24, Zenon DEF ResetBaseline
    <3> QED
      BY <2>24, <3>1 DEF ResetBaseline
  <2>25. CASE ClientLost
    <3>1. client' \in BOOLEAN
      BY <2>25, Zenon DEF ClientLost
    <3> QED
      BY <2>25, <3>1 DEF ClientLost
  <2>26. CASE ClientRestored BY <2>26 DEF ClientRestored
  <2>27. CASE Crash
    <3>1. disk' \in DiskType
      BY <2>27, FailedHandling DEF Crash, DiskType
    <3> QED
      BY <2>27, <3>1 DEF Crash, ForgetRun, DiskType
  <2>28. CASE UNCHANGED vars BY <2>28 DEF vars
  <2> QED
    BY <2>1, <2>2, <2>3, <2>4, <2>5, <2>6, <2>7, <2>8, <2>9, <2>10, <2>11,
       <2>12, <2>13, <2>14, <2>15, <2>16, <2>17, <2>18, <2>19, <2>20, <2>21,
       <2>22, <2>23, <2>24, <2>25, <2>26, <2>27, <2>28
       DEF Next, SyncStep, EnvironmentStep
<1> QED
  BY <1>1, <1>2, PTL DEF Spec

-----------------------------------------------------------------------------
(***************************************************************************)
(* Why a removal is justified.  Between the scan that finds a row left     *)
(* over and the step that removes it the run only carries sets around;     *)
(* RunInv says what those sets still mean at each place of the run.        *)
(***************************************************************************)

BeforeCommit == pc \notin {"sweep", "cleanup", "commit", "finish"}

\* A run starts with empty locals.
Forgotten == pc = "idle" => scanned = {} /\ existing = Nothing

\* What was loaded of the table is still what the table says.
ExistingCurrent ==
    BeforeCommit => \A f \in File : existing[f] # None =>
        /\ existing[f].root \in Root
        /\ existing[f].pan \in Under[existing[f].root]
        /\ db[f] # None => db[f].pan = existing[f].pan

\* Only full runs sweep, and they sweep scanned roots only.
SweepsScanned ==
    /\ pc = "sweep" => mode = "full"
    /\ pc \in {"sweep", "cleanup"} /\ mode = "full" => todo \subseteq scanned

\* Whatever is to be removed was seen nowhere and lies in a scanned root.
DoomedLeftOver ==
    pc = "cleanup" => \A f \in File : doomed[f] # None =>
        /\ f \notin seen
        /\ db[f] # None => \E r \in scanned : In(db[f], r)

HalfDoomed ==
    half # None => pc = "cleanup" /\ half \in File /\ doomed[half] # None

RunInv ==
    Forgotten /\ ExistingCurrent /\ SweepsScanned /\ DoomedLeftOver /\ HalfDoomed

\* Steps of others that leave the run's variables and the table alone.
LEMMA RunInvUntouched ==
    ASSUME RunInv,
           UNCHANGED <<db, pc, mode, scanned, existing, todo, doomed, seen, half>>
    PROVE  RunInv'
BY DEF RunInv, BeforeCommit, Forgotten, ExistingCurrent, SweepsScanned,
       DoomedLeftOver, HalfDoomed, In

\* Steps of the scan: they move inside the part before the commit.
LEMMA RunInvScan ==
    ASSUME RunInv, BeforeCommit, BeforeCommit', pc' # "idle",
           UNCHANGED <<db, existing, half>>
    PROVE  RunInv'
BY DEF RunInv, BeforeCommit, Forgotten, ExistingCurrent, SweepsScanned,
       DoomedLeftOver, HalfDoomed

LEMMA RunInvStep ==
    ASSUME TypeOK, RunInv, [Next]_vars
    PROVE  RunInv'
<1> USE DEF world, scan, removal, setup
<1> DEFINE Calm == UNCHANGED <<db, pc, mode, scanned, existing, todo, doomed,
                               seen, half>>
           Scans == /\ BeforeCommit /\ BeforeCommit' /\ pc' # "idle"
                    /\ UNCHANGED <<db, existing, half>>
<1>1. ASSUME NEW f \in File,
             \/ UserUploads(f) \/ UserMoves(f) \/ UserEdits(f) \/ UserDeletes(f)
      PROVE  Calm
  BY <1>1 DEF UserUploads, UserMoves, UserEdits, UserDeletes, Place
<1>2. CASE CancelSync \/ ClientLost \/ ClientRestored \/ UNCHANGED vars
  <2>1. Calm
    BY <1>2 DEF CancelSync, ClientLost, ClientRestored, vars
  <2> QED
    BY <2>1, RunInvUntouched
<1>3. ASSUME NEW m \in Mode, NEW o \in Option, StartSync(m, o) PROVE Scans
  BY <1>3 DEF StartSync, BeforeCommit
<1>4. ASSUME NEW r \in Root, BeginRoot(r) PROVE RunInv'
  <2>1. ExistingCurrent'
    BY <1>4 DEF BeginRoot, RunInv, ExistingCurrent, BeforeCommit, LoadExisting,
                RowUnder, In, TypeOK
  <2> QED
    BY <1>4, <2>1 DEF BeginRoot, RunInv, Forgotten, SweepsScanned,
                      DoomedLeftOver, HalfDoomed
<1>5. CASE EndScan \/ ResolveRoot \/ ListRoot \/ RootFails \/ AbandonRoot \/ EndRoot
  <2>1. Scans
    BY <1>5 DEF EndScan, ResolveRoot, ListRoot, RootFails, AbandonRoot, EndRoot,
                LeaveRoot, BeforeCommit
  <2> QED
    BY <2>1, RunInvScan
<1>6. ASSUME NEW f \in File, HandleFile(f) PROVE Scans
  BY <1>6 DEF HandleFile, FullFile, NewFile, ChangedFile, MovedFile,
              UnchangedFile, WriteFails, TakeWithRow, Take, LeaveRoot, CanTake,
              BeforeCommit
<1>7. CASE FullCommit
  BY <1>7 DEF FullCommit, RunInv, BeforeCommit, Forgotten, ExistingCurrent,
              SweepsScanned, DoomedLeftOver, HalfDoomed
<1>8. ASSUME NEW r \in Root, SweepRoot(r) PROVE RunInv'
  <2>1. DoomedLeftOver'
    BY <1>8 DEF SweepRoot, RunInv, SweepsScanned, DoomedLeftOver, LeftOverRow,
                RowUnder, In, TypeOK
  <2> QED
    BY <1>8, <2>1 DEF SweepRoot, RunInv, BeforeCommit, Forgotten,
                      ExistingCurrent, SweepsScanned, HalfDoomed
<1>9. CASE SweepDone \/ CleanupDone \/ IncrementalCommit
  BY <1>9 DEF SweepDone, CleanupDone, IncrementalCommit, RunInv, BeforeCommit,
              Forgotten, ExistingCurrent, SweepsScanned, DoomedLeftOver,
              HalfDoomed
<1>10. CASE IncrementalGate
  <2>1. DoomedLeftOver'
    BY <1>10 DEF IncrementalGate, RunInv, ExistingCurrent, BeforeCommit,
                 DoomedLeftOver, LeftOverEntry, In, TypeOK
  <2> QED
    BY <1>10, <2>1 DEF IncrementalGate, RunInv, BeforeCommit, Forgotten,
                       ExistingCurrent, SweepsScanned, HalfDoomed
<1>11. ASSUME NEW f \in File, CleanupFirst(f) PROVE RunInv'
  <2>1. DoomedLeftOver'
    BY <1>11 DEF CleanupFirst, RunInv, DoomedLeftOver, In, TypeOK
  <2> QED
    BY <1>11, <2>1 DEF CleanupFirst, RunInv, BeforeCommit, Forgotten,
                       ExistingCurrent, SweepsScanned, HalfDoomed
<1>12. CASE CleanupSecond
  <2>1. DoomedLeftOver'
    BY <1>12 DEF CleanupSecond, RunInv, DoomedLeftOver, HalfDoomed, In, TypeOK
  <2> QED
    BY <1>12, <2>1 DEF CleanupSecond, RunInv, BeforeCommit, Forgotten,
                       ExistingCurrent, SweepsScanned, HalfDoomed
<1>13. CASE FinishSync \/ Crash
  BY <1>13 DEF FinishSync, Crash, ForgetRun, Nothing, RunInv, BeforeCommit,
               Forgotten, ExistingCurrent, SweepsScanned, DoomedLeftOver,
               HalfDoomed
<1>14. CASE ResetBaseline
  BY <1>14 DEF ResetBaseline, Nothing, RunInv, BeforeCommit, Forgotten,
               ExistingCurrent, SweepsScanned, DoomedLeftOver, HalfDoomed, In
<1> QED
  BY <1>1, <1>2, <1>3, <1>4, <1>5, <1>6, <1>7, <1>8, <1>9, <1>10, <1>11,
     <1>12, <1>13, <1>14, RunInvUntouched, RunInvScan
     DEF Next, SyncStep, EnvironmentStep

\* RunInv holds in every reachable state.
THEOREM RunInvHolds == Spec => []RunInv
<1>1. Init => RunInv
  BY DEF Init, RunInv, BeforeCommit, Forgotten, ExistingCurrent, SweepsScanned,
         DoomedLeftOver, HalfDoomed, Nothing
<1>2. TypeOK /\ RunInv /\ [Next]_vars => RunInv'
  BY RunInvStep
<1> QED
  BY <1>1, <1>2, TypeCorrect, PTL DEF Spec

\* Only the reset and the two cleanup steps take a row away.
LEMMA WhoRemoves ==
    ASSUME TypeOK, RunInv, [Next]_vars,
           NEW f \in File, db[f] # None, db'[f] = None, ~ResetBaseline
    PROVE  pc = "cleanup" /\ doomed[f] # None /\ UNCHANGED <<drive, scanned>>
<1> USE DEF world, scan, removal, setup
<1>1. db' # db
  OBVIOUS
<1>2. CASE FullCommit \/ IncrementalCommit
  BY <1>2 DEF FullCommit, IncrementalCommit, Upserted
<1>3. ASSUME NEW g \in File, CleanupFirst(g)
      PROVE  pc = "cleanup" /\ doomed[f] # None /\ UNCHANGED <<drive, scanned>>
  BY <1>3 DEF CleanupFirst, TypeOK
<1>4. CASE CleanupSecond
  BY <1>4 DEF CleanupSecond, TypeOK, RunInv, HalfDoomed
<1>5. ASSUME NEW g \in File,
             UserUploads(g) \/ UserMoves(g) \/ UserEdits(g) \/ UserDeletes(g)
      PROVE  db' = db
  BY <1>5 DEF UserUploads, UserMoves, UserEdits, UserDeletes, Place
<1>6. ASSUME NEW g \in File, HandleFile(g) PROVE db' = db
  BY <1>6 DEF HandleFile, FullFile, NewFile, ChangedFile, MovedFile,
              UnchangedFile, WriteFails, TakeWithRow, Take, LeaveRoot
<1>7. ASSUME NEW r \in Root, BeginRoot(r) \/ SweepRoot(r) PROVE db' = db
  BY <1>7 DEF BeginRoot, SweepRoot
<1>8. ASSUME NEW m \in Mode, NEW o \in Option, StartSync(m, o) PROVE db' = db
  BY <1>8 DEF StartSync
<1>9. CASE \/ EndScan \/ ResolveRoot \/ ListRoot \/ RootFails \/ AbandonRoot
           \/ EndRoot \/ SweepDone \/ IncrementalGate \/ CleanupDone
           \/ FinishSync \/ CancelSync \/ ClientLost \/ ClientRestored \/ Crash
           \/ UNCHANGED vars
  <2>1. db' = db
    BY <1>9 DEF vars, EndScan, ResolveRoot, ListRoot, RootFails, AbandonRoot,
                EndRoot, LeaveRoot, SweepDone, IncrementalGate, CleanupDone,
                FinishSync, CancelSync, ClientLost, ClientRestored, Crash
  <2> QED
    BY <1>1, <2>1
<1> QED
  BY <1>1, <1>2, <1>3, <1>4, <1>5, <1>6, <1>7, <1>8, <1>9
     DEF Next, SyncStep, EnvironmentStep

\* A run deletes rows of roots it walked to the end and of no other root,
\* whatever fails, is cancelled, crashes or is reset in between.
THEOREM OnlyScannedRootsLose == Spec => LosesOnlyScanned
<1>1. TypeOK /\ RunInv /\ [Next]_vars =>
        [\A f \in File :
           /\ db[f] # None /\ db'[f] = None
           /\ ~ResetBaseline
           => \E r \in scanned : In(db[f], r)]_vars
  BY WhoRemoves DEF RunInv, DoomedLeftOver
<1> QED
  BY <1>1, TypeCorrect, RunInvHolds, PTL DEF Spec, LosesOnlyScanned

-----------------------------------------------------------------------------
(***************************************************************************)
(* No false deletion.  While nobody else touches drive or table, a root    *)
(* counts as scanned only when each of its files was seen: its listing was *)
(* complete and every file of it has been handled.  This needs the client: *)
(* without one the fallback lists nothing and raises nothing.              *)
(***************************************************************************)

ScannedSeen ==
    quiet => \A r \in scanned, f \in File : In(drive[f], r) => f \in seen

ListingComplete ==
    pc = "file" /\ quiet /\ ~cancel =>
      \A f \in File : In(drive[f], root) => listing[f] # None \/ f \in seen

SeenInv == client /\ ScannedSeen /\ ListingComplete

LEMMA SeenInvStep ==
    ASSUME "clientlost" \notin Fault, TypeOK, RunInv, SeenInv, [Next]_vars
    PROVE  SeenInv'
<1> USE DEF world, scan, removal, setup
<1> DEFINE Calm == UNCHANGED <<client, quiet, drive, scanned, seen>>
<1>1. ASSUME client' = client, ~quiet' PROVE SeenInv'
  BY <1>1 DEF SeenInv, ScannedSeen, ListingComplete
<1>2. ASSUME Calm, pc' # "file" PROVE SeenInv'
  BY <1>2 DEF SeenInv, ScannedSeen, ListingComplete, In
<1>3. ASSUME NEW f \in File,
             UserUploads(f) \/ UserMoves(f) \/ UserEdits(f) \/ UserDeletes(f)
      PROVE  client' = client /\ ~quiet'
  BY <1>3 DEF UserUploads, UserMoves, UserEdits, UserDeletes, Place
<1>4. CASE ResetBaseline
  BY <1>4 DEF ResetBaseline, SeenInv, ScannedSeen, ListingComplete
<1>5. ASSUME NEW m \in Mode, NEW o \in Option, StartSync(m, o) PROVE SeenInv'
  BY <1>5 DEF StartSync, RunInv, Forgotten, SeenInv, ScannedSeen, ListingComplete
<1>6. ASSUME NEW r \in Root, BeginRoot(r) \/ SweepRoot(r)
      PROVE  Calm /\ pc' # "file"
  BY <1>6 DEF BeginRoot, SweepRoot
<1>7. CASE ListRoot
  <2>1. ListingComplete'
    BY <1>7 DEF ListRoot, Listing, In, SeenInv, ListingComplete, TypeOK
  <2> QED
    BY <1>7, <2>1 DEF ListRoot, SeenInv, ScannedSeen
<1>8. CASE EndRoot
  <2>1. \A f \in File : In(drive[f], root) /\ quiet => f \in seen
    BY <1>8 DEF EndRoot, Nothing, SeenInv, ListingComplete
  <2> QED
    BY <1>8, <2>1 DEF EndRoot, LeaveRoot, SeenInv, ScannedSeen, ListingComplete, In
<1>9. CASE RootFails \/ AbandonRoot
  <2>1. Calm /\ pc' # "file"
    BY <1>9 DEF RootFails, AbandonRoot, LeaveRoot
  <2> QED
    BY <2>1, <1>2
<1>10. ASSUME NEW f \in File, HandleFile(f) PROVE SeenInv'
  <2>1. CASE Take(f)
    BY <2>1 DEF Take, SeenInv, ScannedSeen, ListingComplete, In, TypeOK
  <2>2. CASE WriteFails(f)
    BY <2>2 DEF WriteFails, LeaveRoot, SeenInv, ScannedSeen, ListingComplete, In
  <2> QED
    BY <1>10, <2>1, <2>2 DEF HandleFile, FullFile, NewFile, ChangedFile,
                            MovedFile, UnchangedFile, TakeWithRow
<1>11. CASE EndScan \/ ResolveRoot \/ SweepDone \/ CleanupDone \/ IncrementalCommit
  <2>1. Calm /\ pc' # "file"
    BY <1>11 DEF EndScan, ResolveRoot, SweepDone, CleanupDone, IncrementalCommit
  <2> QED
    BY <2>1, <1>2
<1>12. CASE FullCommit \/ IncrementalGate
  <2>1. Calm /\ pc' # "file"
    BY <1>12 DEF FullCommit, IncrementalGate
  <2> QED
    BY <2>1, <1>2
<1>13. ASSUME NEW f \in File, CleanupFirst(f) PROVE Calm /\ pc' # "file"
  BY <1>13 DEF CleanupFirst
<1>14. CASE CleanupSecond
  <2>1. Calm /\ pc' # "file"
    BY <1>14 DEF CleanupSecond
  <2> QED
    BY <2>1, <1>2
<1>15. CASE FinishSync \/ Crash
  BY <1>15 DEF FinishSync, Crash, ForgetRun, SeenInv, ScannedSeen,
               ListingComplete
<1>16. CASE CancelSync \/ ClientRestored \/ UNCHANGED vars
  <2>1. UNCHANGED <<quiet, drive, scanned, seen, pc, root, listing>>
    BY <1>16 DEF CancelSync, ClientRestored, vars
  <2>2. client' /\ (cancel => cancel')
    <3>1. CASE CancelSync
      BY <3>1, Zenon DEF CancelSync, SeenInv
    <3>2. CASE ClientRestored
      BY <3>2, Zenon DEF ClientRestored
    <3>3. CASE UNCHANGED vars
      BY <3>3, Zenon DEF vars, SeenInv
    <3> QED
      BY <1>16, <3>1, <3>2, <3>3
  <2> QED
    BY <2>1, <2>2 DEF SeenInv, ScannedSeen, ListingComplete, In
<1>17. CASE ClientLost
  BY <1>17 DEF ClientLost
<1> QED
  BY <1>3, <1>4, <1>5, <1>6, <1>7, <1>8, <1>9, <1>10, <1>11, <1>12, <1>13,
     <1>14, <1>15, <1>16, <1>17, <1>1, <1>2 DEF Next, SyncStep, EnvironmentStep

\* While a client is there and nobody changes drive or table behind its back,
\* a run deletes no row of a file that lies in any of the roots it scanned.
THEOREM NoFileLost ==
    ASSUME "clientlost" \notin Fault
    PROVE  Spec => NoFalseDeletion
<1>1. Init => SeenInv
  BY DEF Init, SeenInv, ScannedSeen, ListingComplete
<1>2. TypeOK /\ RunInv /\ SeenInv /\ [Next]_vars => SeenInv'
  BY SeenInvStep
<1>3. TypeOK /\ RunInv /\ SeenInv /\ [Next]_vars =>
        [\A f \in File :
           /\ db[f] # None /\ db'[f] = None
           /\ ~ResetBaseline /\ quiet
           => \A r \in scanned : ~In(drive[f], r)]_vars
  BY WhoRemoves DEF RunInv, DoomedLeftOver, SeenInv, ScannedSeen
<1> QED
  BY <1>1, <1>2, <1>3, TypeCorrect, RunInvHolds, PTL DEF Spec, NoFalseDeletion

-----------------------------------------------------------------------------
(***************************************************************************)
(* A clean run leaves the table as the drive is.  MirrorInv follows what   *)
(* is known of each file from the listing that shows it to the row that is *)
(* written, and of each row from the load to the removal.  It speaks of    *)
(* runs that can still end clean (Sound): nobody changed drive or table,   *)
(* nobody cancelled, and no root has failed so far, for a root whose scan  *)
(* fails is neither scanned, nor to do, nor the current one any more.      *)
(***************************************************************************)

Scanning == pc \in {"root", "resolve", "list", "file"}

Sound == quiet /\ ~cancel /\ Root \subseteq scanned \union todo \union {root}

\* x says of a file what the drive's entry d says.
Tracks(x, d) == x # None /\ x.pan = d.pan /\ x.sha = d.sha

\* The run's locals outside the steps that use them.
Locals ==
    /\ pc = "idle" => listing = Nothing /\ pending = Nothing /\ seen = {}
    /\ pc \notin {"resolve", "list", "file"} => root = None
    /\ pc # "cleanup" => doomed = Nothing
    /\ pc = "commit" => mode = "incremental"
    /\ \A f \in File : pending[f] # None => f \in seen

\* Each root is to do, being scanned, scanned, or lost for this run.
RootOnce ==
    /\ Scanning => todo \intersect scanned = {} /\ root \notin todo \union scanned
    /\ ~Scanning /\ pc # "idle" /\ ~cancel => todo \subseteq scanned

\* A listing shows files of the current root as they are.
ListingTrue ==
    quiet => \A f \in File : listing[f] # None =>
        listing[f] = drive[f] /\ InScope(drive[f])

\* What was loaded is what the table says, and nothing under the roots that
\* were begun is missing.
ExistingTrue ==
    BeforeCommit /\ mode = "incremental" => \A f \in File :
        /\ quiet /\ existing[f] # None => Tracks(db[f], existing[f])
        /\ \A r \in scanned \union {root} :
              r # None /\ RowUnder(f, r) => existing[f] # None

\* A seen file has the row it needs, waiting or in the table.
SeenHandled ==
    Sound => \A f \in seen :
        /\ InScope(drive[f])
        /\ pending[f] # None => Tracks(pending[f], drive[f])
        /\ pending[f] = None => mode = "incremental" /\ Tracks(db[f], drive[f])

Committed ==
    \/ pc \in {"sweep", "finish"}
    \/ pc = "cleanup" /\ mode = "full"

\* After the commit every seen file has its row.
SeenRecorded ==
    Sound /\ Committed => \A f \in seen : Tracks(db[f], drive[f])

\* Rows of files that were not seen are on the list of an incremental run.
UnseenDoomed ==
    Sound /\ mode = "incremental" /\ pc \in {"cleanup", "commit", "finish"} =>
      \A f \in File : InScope(db[f]) => f \in seen \/ doomed[f] # None

MirrorInv ==
    /\ Locals /\ RootOnce /\ ListingTrue /\ ExistingTrue
    /\ SeenHandled /\ SeenRecorded /\ UnseenDoomed

\* A step that leaves table, locals and place alone, and makes no run sound.
LEMMA MirrorUntouched ==
    ASSUME MirrorInv, quiet' => quiet, cancel' = FALSE => cancel = FALSE,
           cancel \in BOOLEAN, cancel' \in BOOLEAN,
           quiet' => UNCHANGED drive,
           UNCHANGED <<db, pc, mode, todo, root, existing, listing, seen,
                       pending, scanned, doomed>>
    PROVE  MirrorInv'
<1>1. Sound' => Sound
  BY DEF Sound
<1>2. (Locals /\ RootOnce)'
  BY DEF MirrorInv, Locals, RootOnce, Scanning
<1>3. (ListingTrue /\ ExistingTrue)'
  BY DEF MirrorInv, ListingTrue, ExistingTrue, BeforeCommit, InScope, In,
         RowUnder, Tracks
<1>4. (SeenHandled /\ SeenRecorded)'
  BY <1>1 DEF MirrorInv, SeenHandled, SeenRecorded, Committed, InScope, In,
              Tracks, Sound
<1>5. UnseenDoomed'
  BY <1>1 DEF MirrorInv, UnseenDoomed, InScope, In, Sound
<1> QED
  BY <1>2, <1>3, <1>4, <1>5 DEF MirrorInv

\* The user's changes, and a reset of the table, end what is said of the run.
LEMMA MirrorDisturbed ==
    ASSUME TypeOK, MirrorInv, quiet' = FALSE,
           \/ UNCHANGED db
           \/ db' = Nothing,
           UNCHANGED <<pc, mode, cancel, todo, root, existing, listing, seen,
                       pending, scanned, doomed>>
    PROVE  MirrorInv'
<1>1. ~Sound' /\ ~quiet'
  BY DEF Sound
<1>2. (Locals /\ RootOnce)'
  BY DEF MirrorInv, Locals, RootOnce, Scanning
<1>3. ExistingTrue'
  BY <1>1 DEF MirrorInv, ExistingTrue, BeforeCommit, RowUnder, In, Nothing
<1> QED
  BY <1>1, <1>2, <1>3 DEF MirrorInv, ListingTrue, SeenHandled, SeenRecorded,
                          UnseenDoomed

LEMMA MirrorStart ==
    ASSUME TypeOK, RunInv, MirrorInv, NEW m \in Mode, NEW o \in Option,
           StartSync(m, o)
    PROVE  MirrorInv'
<1> USE DEF world, removal
<1>1. /\ pc = "idle" /\ pc' = "root" /\ seen' = {} /\ scanned' = {}
      /\ listing' = Nothing /\ pending' = Nothing /\ existing' = Nothing
      /\ root' = None /\ doomed' = Nothing /\ todo' = Root
  BY DEF StartSync, MirrorInv, Locals, RunInv, Forgotten
<1>2. ExistingTrue'
  BY <1>1 DEF ExistingTrue, Nothing
<1>3. Locals'
  BY <1>1 DEF Locals, Nothing
<1>4. RootOnce'
  BY <1>1 DEF RootOnce, Scanning
<1>5. ListingTrue'
  BY <1>1 DEF ListingTrue, Nothing
<1> QED
  BY <1>1, <1>2, <1>3, <1>4, <1>5 DEF MirrorInv, SeenHandled, SeenRecorded,
                                    Committed, UnseenDoomed

LEMMA MirrorBegin ==
    ASSUME TypeOK, RunInv, MirrorInv, NEW r \in Root, BeginRoot(r)
    PROVE  MirrorInv'
<1> USE DEF world, removal, setup
<1>1. /\ pc = "root" /\ pc' = "resolve" /\ root = None /\ root' = r
      /\ r \in todo /\ todo' = todo \ {r} /\ ~cancel
      /\ existing' = IF mode = "incremental" THEN LoadExisting(r) ELSE existing
      /\ UNCHANGED <<drive, db, mode, cancel, quiet, outcome, listing, seen,
                     pending, scanned, doomed>>
  BY DEF BeginRoot, MirrorInv, Locals
<1>2. Sound' => Sound
  BY <1>1 DEF Sound
<1>3. (Locals /\ RootOnce)'
  BY <1>1 DEF MirrorInv, Locals, RootOnce, Scanning
<1>4. ExistingTrue'
  <2>1. ASSUME mode = "incremental", NEW f \in File
        PROVE  /\ quiet /\ existing'[f] # None => Tracks(db[f], existing'[f])
               /\ \A q \in scanned \union {r} :
                     q # None /\ RowUnder(f, q) => existing'[f] # None
    <3>1. existing'[f] = IF RowUnder(f, r)
                         THEN [pan |-> db[f].pan, sha |-> db[f].sha,
                               strm |-> db[f].strm, root |-> r]
                         ELSE existing[f]
      BY <1>1, <2>1 DEF LoadExisting
    <3>2. RowUnder(f, r) => db[f] # None /\ existing'[f] # None
      <4>1. RowUnder(f, r) => existing'[f] \in Entry
        BY <3>1 DEF RowUnder, In, TypeOK, Entry, Row
      <4> QED
        BY <4>1, NoRecordAssumption DEF RowUnder, In
    <3>3. /\ quiet /\ existing[f] # None => Tracks(db[f], existing[f])
          /\ \A q \in scanned :
                q # None /\ RowUnder(f, q) => existing[f] # None
      BY <1>1, <2>1 DEF MirrorInv, ExistingTrue, BeforeCommit
    <3> QED
      BY <3>1, <3>2, <3>3 DEF Tracks
  <2> QED
    BY <1>1, <2>1 DEF ExistingTrue, RowUnder, In, Tracks
<1>5. ListingTrue'
  BY <1>1 DEF MirrorInv, ListingTrue, InScope, In
<1>6. SeenHandled'
  BY <1>1, <1>2 DEF MirrorInv, SeenHandled, InScope, In, Tracks
<1> QED
  BY <1>1, <1>3, <1>4, <1>5, <1>6 DEF MirrorInv, SeenRecorded, Committed,
                                    UnseenDoomed

\* Steps between two places of the scan that handle no file.
LEMMA MirrorWalk ==
    ASSUME TypeOK, RunInv, MirrorInv, EndScan \/ ResolveRoot \/ ListRoot
    PROVE  MirrorInv'
<1> USE DEF world, removal, setup, scan
<1>1. /\ UNCHANGED <<drive, db, mode, cancel, quiet, outcome, root, existing,
                     seen, pending, todo, scanned, doomed>>
      /\ pc \in {"root", "resolve", "list"} /\ pc' \in {"gate", "list", "file"}
      /\ pc' = "gate" => pc = "root" /\ (cancel \/ todo = {})
      /\ pc' # "gate" => pc \in {"resolve", "list"}
      /\ listing' = listing \/ listing' = Listing(root)
  BY DEF EndScan, ResolveRoot, ListRoot
<1>2. Sound' => Sound
  BY <1>1 DEF Sound
<1>3. (Locals /\ RootOnce)'
  BY <1>1 DEF MirrorInv, Locals, RootOnce, Scanning
<1>4. ExistingTrue'
  BY <1>1 DEF MirrorInv, ExistingTrue, BeforeCommit, RowUnder, In, Tracks
<1>5. ListingTrue'
  <2>1. CASE EndScan \/ ResolveRoot
    <3>1. listing' = listing
      BY <2>1 DEF EndScan, ResolveRoot
    <3> QED
      BY <1>1, <3>1 DEF MirrorInv, ListingTrue, InScope, In
  <2>2. CASE ListRoot
    <3>1. root \in Root /\ listing' = Listing(root)
      BY <2>2 DEF ListRoot, TypeOK
    <3>2. \A f \in File : listing'[f] # None =>
            listing'[f] = drive[f] /\ In(drive[f], root)
      BY <3>1 DEF Listing
    <3> QED
      BY <1>1, <3>1, <3>2 DEF ListingTrue, InScope, In
  <2> QED
    BY <2>1, <2>2
<1>6. SeenHandled'
  BY <1>1, <1>2 DEF MirrorInv, SeenHandled, InScope, In, Tracks
<1> QED
  BY <1>1, <1>3, <1>4, <1>5, <1>6 DEF MirrorInv, SeenRecorded, Committed,
                                    UnseenDoomed

\* A root that is left without having been walked to its end is lost.
LEMMA MirrorLeave ==
    ASSUME TypeOK, RunInv, MirrorInv, pc \in {"resolve", "list", "file"},
           LeaveRoot, UNCHANGED scanned,
           seen' \in SUBSET File /\ seen \subseteq seen'
    PROVE  MirrorInv'
<1> USE DEF LeaveRoot, world, removal, setup
<1>1. root \in Root /\ root' = None
  BY DEF TypeOK
<1>2. ~Sound'
  <2>1. root \notin todo \union scanned
    BY DEF MirrorInv, RootOnce, Scanning
  <2> QED
    BY <1>1, <2>1 DEF Sound
<1>3. (Locals /\ RootOnce)'
  <2>1. Locals'
    BY <1>1 DEF MirrorInv, Locals
  <2>2. RootOnce'
    BY <1>1 DEF MirrorInv, RootOnce, Scanning, TypeOK
  <2> QED
    BY <2>1, <2>2
<1>4. ExistingTrue'
  BY <1>1 DEF MirrorInv, ExistingTrue, BeforeCommit, RowUnder, In, Tracks
<1>5. ListingTrue'
  BY DEF ListingTrue, Nothing
<1> QED
  BY <1>2, <1>3, <1>4, <1>5 DEF MirrorInv, SeenHandled, SeenRecorded,
                              UnseenDoomed

LEMMA MirrorEndRoot ==
    ASSUME TypeOK, RunInv, MirrorInv, EndRoot
    PROVE  MirrorInv'
<1> USE DEF LeaveRoot, world, removal, setup
<1>1. /\ pc = "file" /\ pc' = "root" /\ root \in Root /\ root' = None
      /\ scanned' = scanned \union {root} /\ listing' = Nothing
      /\ UNCHANGED <<drive, db, mode, cancel, quiet, outcome, existing,
                     seen, pending, todo, doomed>>
  BY DEF EndRoot, TypeOK
<1>2. Sound' => Sound
  BY <1>1 DEF Sound
<1>3. (Locals /\ RootOnce)'
  <2>1. Locals'
    BY <1>1 DEF MirrorInv, Locals
  <2>2. RootOnce'
    BY <1>1 DEF MirrorInv, RootOnce, Scanning, TypeOK
  <2> QED
    BY <2>1, <2>2
<1>4. ExistingTrue'
  BY <1>1 DEF MirrorInv, ExistingTrue, BeforeCommit, RowUnder, In, Tracks
<1>5. ListingTrue'
  BY <1>1 DEF ListingTrue, Nothing
<1>6. SeenHandled'
  BY <1>1, <1>2 DEF MirrorInv, SeenHandled, InScope, In, Tracks
<1> QED
  BY <1>1, <1>3, <1>4, <1>5, <1>6 DEF MirrorInv, SeenRecorded, Committed,
                                    UnseenDoomed

\* What was loaded for a file of the listing that needs no row: its row.
LEMMA UnchangedTracked ==
    ASSUME TypeOK, MirrorInv, quiet, NEW f \in File, UnchangedFile(f)
    PROVE  Tracks(db[f], drive[f])
<1>1. Tracks(db[f], existing[f])
  BY DEF UnchangedFile, IsNew, CanTake, MirrorInv, ExistingTrue, BeforeCommit
<1>2. /\ existing[f].sha = listing[f].sha /\ existing[f].pan = listing[f].pan
      /\ listing[f] = drive[f]
  BY DEF UnchangedFile, IsNew, IsChanged, IsMoved, CanTake, MirrorInv,
         ListingTrue
<1> QED
  BY <1>1, <1>2 DEF Tracks

\* The row made for a file of the listing says what the drive says.
LEMMA NewRowTracks ==
    ASSUME TypeOK, MirrorInv, quiet, NEW f \in File, CanTake(f)
    PROVE  Tracks(NewRow(f), drive[f])
<1>1. listing[f] = drive[f] /\ NewRow(f) \in Row
  BY NewRowType DEF CanTake, MirrorInv, ListingTrue
<1>2. NewRow(f) # None
  BY <1>1, NoRecordAssumption
<1> QED
  BY <1>1, <1>2 DEF NewRow, Tracks

LEMMA MirrorTake ==
    ASSUME TypeOK, RunInv, MirrorInv, NEW f \in File, CanTake(f), Take(f),
           \/ UnchangedFile(f) /\ pending' = pending
           \/ pending' = [pending EXCEPT ![f] = NewRow(f)]
    PROVE  MirrorInv'
<1> USE DEF world, removal, setup
<1>1. /\ pc = "file" /\ pc' = "file"
      /\ listing' = [listing EXCEPT ![f] = None]
      /\ seen' = seen \union {f}
      /\ UNCHANGED <<drive, db, mode, cancel, quiet, outcome, root, existing,
                     todo, scanned, doomed>>
  BY DEF CanTake, Take
<1>2. /\ \A g \in File \ {f} : pending'[g] = pending[g]
      /\ \/ UnchangedFile(f) /\ pending'[f] = pending[f]
         \/ pending'[f] = NewRow(f)
  BY DEF TypeOK
<1>3. (Locals /\ RootOnce)'
  BY <1>1, <1>2 DEF MirrorInv, Locals, RootOnce, Scanning
<1>4. ListingTrue'
  BY <1>1 DEF MirrorInv, ListingTrue, InScope, In, TypeOK
<1>5. ExistingTrue'
  BY <1>1 DEF MirrorInv, ExistingTrue, BeforeCommit, RowUnder, In, Tracks
<1>6. SeenHandled'
  <2> SUFFICES ASSUME Sound, NEW g \in seen'
               PROVE  /\ InScope(drive[g])
                      /\ pending'[g] # None => Tracks(pending'[g], drive[g])
                      /\ pending'[g] = None =>
                           mode = "incremental" /\ Tracks(db[g], drive[g])
    BY <1>1 DEF SeenHandled, InScope, In, Tracks, Sound
  <2>1. quiet /\ SeenHandled /\ seen' \subseteq File
    BY <1>1 DEF Sound, MirrorInv, TypeOK
  <2>2. CASE g # f
    BY <1>1, <1>2, <2>1, <2>2 DEF SeenHandled, TypeOK
  <2>3. CASE g = f
    <3>1. InScope(drive[f])
      BY <2>1 DEF CanTake, MirrorInv, ListingTrue
    <3>2. CASE pending'[f] = NewRow(f)
      BY <2>1, <2>3, <3>1, <3>2, NewRowTracks DEF Tracks
    <3>3. CASE UnchangedFile(f) /\ pending'[f] = pending[f]
      <4>1. mode = "incremental" /\ Tracks(db[f], drive[f])
        BY <2>1, <3>3, UnchangedTracked DEF UnchangedFile
      <4>2. pending[f] # None => Tracks(pending[f], drive[f])
        BY <2>1 DEF SeenHandled, MirrorInv, Locals
      <4> QED
        BY <2>3, <3>1, <3>3, <4>1, <4>2
    <3> QED
      BY <1>2, <3>2, <3>3
  <2> QED
    BY <2>2, <2>3
<1> QED
  BY <1>1, <1>3, <1>4, <1>5, <1>6 DEF MirrorInv, SeenRecorded, Committed,
                                    UnseenDoomed

LEMMA MirrorHandle ==
    ASSUME TypeOK, RunInv, MirrorInv, NEW f \in File, HandleFile(f)
    PROVE  MirrorInv'
<1>1. CASE WriteFails(f)
  <2>1. seen' \in SUBSET File /\ seen \subseteq seen'
    BY <1>1 DEF WriteFails, TypeOK
  <2> QED
    BY <1>1, <2>1, MirrorLeave DEF WriteFails, CanTake
<1>2. CASE UnchangedFile(f)
  BY <1>2, MirrorTake DEF UnchangedFile
<1>3. CASE FullFile(f) \/ NewFile(f) \/ ChangedFile(f) \/ MovedFile(f)
  BY <1>3, MirrorTake DEF FullFile, NewFile, ChangedFile, MovedFile, TakeWithRow
<1> QED
  BY <1>1, <1>2, <1>3 DEF HandleFile

\* The rows as the commit leaves them: what waited, then what was there.
LEMMA UpsertedTracks ==
    ASSUME TypeOK, MirrorInv, Sound, NEW f \in seen
    PROVE  Tracks(Upserted[f], drive[f])
<1>1. Upserted[f] = IF pending[f] # None THEN pending[f] ELSE db[f]
  BY DEF Upserted, TypeOK
<1> QED
  BY <1>1 DEF MirrorInv, SeenHandled

\* Without rows that wait the commit changes nothing.
LEMMA NothingUpserted ==
    ASSUME TypeOK, pending = Nothing
    PROVE  Upserted = db
BY DEF Upserted, Nothing, TypeOK

LEMMA MirrorFullCommit ==
    ASSUME TypeOK, RunInv, MirrorInv, FullCommit
    PROVE  MirrorInv'
<1> USE DEF world, removal, setup
<1>1. /\ pc = "gate" /\ mode = "full" /\ pc' \in {"sweep", "finish"}
      /\ UNCHANGED <<drive, mode, cancel, quiet, outcome, root, existing,
                     listing, seen, pending, scanned, doomed>>
      /\ ~cancel => db' = Upserted
      /\ todo' = scanned \/ todo' = todo
  BY NothingUpserted DEF FullCommit
<1>2. root = None /\ (~cancel => todo \subseteq scanned)
  BY <1>1 DEF MirrorInv, Locals, RootOnce, Scanning
<1>3. Sound' => Sound
  BY <1>1, <1>2 DEF Sound
<1>4. (Locals /\ RootOnce)'
  <2>1. Locals'
    BY <1>1 DEF MirrorInv, Locals
  <2>2. RootOnce'
    BY <1>1, <1>2 DEF RootOnce, Scanning
  <2> QED
    BY <2>1, <2>2
<1>5. (ListingTrue /\ ExistingTrue)'
  BY <1>1 DEF MirrorInv, ListingTrue, ExistingTrue, BeforeCommit, InScope, In
<1>6. SeenRecorded'
  <2>1. ASSUME Sound, NEW f \in seen PROVE Tracks(db'[f], drive[f])
    BY <1>1, <2>1, UpsertedTracks DEF Sound
  <2> QED
    BY <1>1, <1>3, <2>1 DEF SeenRecorded, Tracks
<1>7. SeenHandled'
  BY <1>1, <1>3 DEF MirrorInv, SeenHandled, InScope, In, Tracks
<1> QED
  BY <1>1, <1>4, <1>5, <1>6, <1>7 DEF MirrorInv, UnseenDoomed

LEMMA MirrorSweep ==
    ASSUME TypeOK, RunInv, MirrorInv,
           \/ \E r \in Root : SweepRoot(r)
           \/ SweepDone
    PROVE  MirrorInv'
<1> USE DEF world, removal, setup, scan
<1>1. /\ pc = "sweep" /\ mode = "full" /\ pc' \in {"cleanup", "finish"}
      /\ UNCHANGED <<drive, db, mode, cancel, quiet, outcome, root, existing,
                     listing, seen, pending, scanned>>
      /\ todo' \subseteq todo
      /\ pc' = "finish" => doomed' = doomed
  BY DEF SweepRoot, SweepDone, RunInv, SweepsScanned
<1>2. Sound' => Sound
  BY <1>1 DEF Sound
<1>3. (Locals /\ RootOnce)'
  <2>1. Locals'
    BY <1>1 DEF MirrorInv, Locals
  <2>2. RootOnce'
    BY <1>1 DEF MirrorInv, RootOnce, Scanning
  <2> QED
    BY <2>1, <2>2
<1>4. (ListingTrue /\ ExistingTrue)'
  BY <1>1 DEF MirrorInv, ListingTrue, ExistingTrue, BeforeCommit, InScope, In
<1>5. (SeenHandled /\ SeenRecorded)'
  BY <1>1, <1>2 DEF MirrorInv, SeenHandled, SeenRecorded, Committed, InScope,
                    In, Tracks
<1> QED
  BY <1>1, <1>3, <1>4, <1>5 DEF MirrorInv, UnseenDoomed

LEMMA MirrorGate ==
    ASSUME TypeOK, RunInv, MirrorInv, IncrementalGate
    PROVE  MirrorInv'
<1> USE DEF world, removal, setup, scan
<1>1. /\ pc = "gate" /\ mode = "incremental" /\ pc' \in {"cleanup", "commit"}
      /\ UNCHANGED <<drive, db, mode, cancel, quiet, outcome, root, existing,
                     listing, seen, pending, scanned, todo>>
      /\ pc' = "commit" => doomed' = doomed /\ cancel
      /\ ~cancel => doomed' = [f \in File |->
                       IF LeftOverEntry(f) THEN existing[f].strm ELSE None]
  BY DEF IncrementalGate
<1>2. root = None /\ (~cancel => todo \subseteq scanned)
  BY <1>1 DEF MirrorInv, Locals, RootOnce, Scanning
<1>3. Sound' <=> Sound
  BY <1>1 DEF Sound
<1>4. (Locals /\ RootOnce)'
  <2>1. Locals'
    BY <1>1 DEF MirrorInv, Locals
  <2>2. RootOnce'
    BY <1>1 DEF MirrorInv, RootOnce, Scanning
  <2> QED
    BY <2>1, <2>2
<1>5. (ListingTrue /\ ExistingTrue)'
  BY <1>1 DEF MirrorInv, ListingTrue, ExistingTrue, BeforeCommit, InScope, In
<1>6. SeenHandled'
  BY <1>1, <1>3 DEF MirrorInv, SeenHandled, InScope, In, Tracks
<1>7. UnseenDoomed'
  <2>1. ASSUME Sound, NEW f \in File, InScope(db[f]), f \notin seen
        PROVE  doomed'[f] # None
    <3>1. PICK r \in Root : RowUnder(f, r)
      BY <2>1 DEF InScope, RowUnder
    <3>2. r \in scanned /\ r # None
      BY <1>2, <2>1 DEF Sound
    <3>3. existing[f] # None
      BY <1>1, <3>1, <3>2 DEF MirrorInv, ExistingTrue, BeforeCommit
    <3>4. existing[f].root \in scanned
      BY <1>1, <1>2, <2>1, <3>3 DEF Sound, RunInv, ExistingCurrent, BeforeCommit
    <3>5. existing[f].strm \in Strm
      BY <3>3 DEF TypeOK, Entry
    <3> QED
      BY <1>1, <2>1, <3>3, <3>4, <3>5 DEF LeftOverEntry, Sound
  <2> QED
    BY <1>1, <1>3, <2>1 DEF UnseenDoomed, InScope, In
<1> QED
  BY <1>1, <1>4, <1>5, <1>6, <1>7 DEF MirrorInv, SeenRecorded, Committed

\* A removal takes the row of one file, and that file was not seen.
LEMMA MirrorRemove ==
    ASSUME TypeOK, RunInv, MirrorInv, pc = "cleanup", NEW f \in File,
           doomed[f] # None,
           UNCHANGED <<drive, pc, mode, cancel, quiet, outcome, todo, root,
                       existing, listing, seen, pending, scanned>>,
           \/ db' = db /\ (doomed' = doomed \/ mode = "full")
           \/ db' = [db EXCEPT ![f] = None],
           \/ doomed' = doomed
           \/ doomed' = [doomed EXCEPT ![f] = None]
    PROVE  MirrorInv'
<1>1. f \notin seen
  BY DEF RunInv, DoomedLeftOver
<1>2. \A g \in File \ {f} : db'[g] = db[g] /\ doomed'[g] = doomed[g]
  BY DEF TypeOK
<1>3. \A g \in seen : db'[g] = db[g]
  BY <1>1, <1>2 DEF TypeOK
<1>4. Sound' <=> Sound
  BY DEF Sound
<1>5. (Locals /\ RootOnce)'
  <2>1. Locals'
    BY DEF MirrorInv, Locals
  <2>2. RootOnce'
    BY DEF MirrorInv, RootOnce, Scanning
  <2> QED
    BY <2>1, <2>2
<1>6. (ListingTrue /\ ExistingTrue)'
  BY DEF MirrorInv, ListingTrue, ExistingTrue, BeforeCommit, InScope, In
<1>7. (SeenHandled /\ SeenRecorded)'
  BY <1>3, <1>4 DEF MirrorInv, SeenHandled, SeenRecorded, Committed, InScope,
                    In, Tracks
<1>8. UnseenDoomed'
  <2>1. ASSUME Sound, mode = "incremental", NEW g \in File, InScope(db'[g]),
               g \notin seen
        PROVE  doomed'[g] # None
    <3>1. CASE g = f
      BY <2>1, <3>1 DEF InScope, In, TypeOK
    <3>2. CASE g # f
      BY <1>2, <2>1, <3>2 DEF MirrorInv, UnseenDoomed, InScope, In
    <3> QED
      BY <3>1, <3>2
  <2> QED
    BY <1>4, <2>1 DEF UnseenDoomed, InScope, In
<1> QED
  BY <1>5, <1>6, <1>7, <1>8 DEF MirrorInv

LEMMA MirrorCleanup ==
    ASSUME TypeOK, RunInv, MirrorInv,
           \/ \E f \in File : CleanupFirst(f)
           \/ CleanupSecond
    PROVE  MirrorInv'
<1> USE DEF world, setup, scan
<1>1. ASSUME NEW f \in File, CleanupFirst(f) PROVE MirrorInv'
  BY <1>1, MirrorRemove DEF CleanupFirst
<1>2. CASE CleanupSecond
  <2>1. half \in File /\ doomed[half] # None
    BY <1>2 DEF CleanupSecond, RunInv, HalfDoomed
  <2> QED
    BY <1>2, <2>1, MirrorRemove DEF CleanupSecond
<1> QED
  BY <1>1, <1>2

LEMMA MirrorCleanupDone ==
    ASSUME TypeOK, RunInv, MirrorInv, CleanupDone
    PROVE  MirrorInv'
<1> USE DEF world, setup, scan, removal
<1>1. /\ pc = "cleanup" /\ pc' \in {"sweep", "commit"} /\ doomed = Nothing
      /\ pc' = "sweep" <=> mode = "full"
      /\ UNCHANGED <<drive, db, mode, cancel, quiet, outcome, root, existing,
                     listing, seen, pending, scanned, todo, doomed>>
  BY DEF CleanupDone
<1>2. Sound' <=> Sound
  BY <1>1 DEF Sound
<1>3. (Locals /\ RootOnce)'
  <2>1. Locals'
    BY <1>1 DEF MirrorInv, Locals, TypeOK
  <2>2. RootOnce'
    BY <1>1 DEF MirrorInv, RootOnce, Scanning
  <2> QED
    BY <2>1, <2>2
<1>4. (ListingTrue /\ ExistingTrue)'
  BY <1>1 DEF MirrorInv, ListingTrue, ExistingTrue, BeforeCommit, InScope, In
<1>5. (SeenHandled /\ SeenRecorded)'
  BY <1>1, <1>2 DEF MirrorInv, SeenHandled, SeenRecorded, Committed, InScope,
                    In, Tracks
<1>6. UnseenDoomed'
  BY <1>1, <1>2 DEF MirrorInv, UnseenDoomed, InScope, In
<1> QED
  BY <1>1, <1>3, <1>4, <1>5, <1>6 DEF MirrorInv

LEMMA MirrorCommit ==
    ASSUME TypeOK, RunInv, MirrorInv, IncrementalCommit
    PROVE  MirrorInv'
<1> USE DEF world, setup, scan, removal
<1>1. /\ pc = "commit" /\ pc' = "finish"
      /\ UNCHANGED <<drive, mode, cancel, quiet, outcome, root, existing,
                     listing, seen, pending, scanned, todo, doomed>>
      /\ ~cancel => db' = Upserted
  BY NothingUpserted DEF IncrementalCommit
<1>2. Sound' <=> Sound
  BY <1>1 DEF Sound
<1>3. (Locals /\ RootOnce)'
  <2>1. Locals'
    BY <1>1 DEF MirrorInv, Locals
  <2>2. RootOnce'
    BY <1>1 DEF MirrorInv, RootOnce, Scanning
  <2> QED
    BY <2>1, <2>2
<1>4. (ListingTrue /\ ExistingTrue)'
  BY <1>1 DEF MirrorInv, ListingTrue, ExistingTrue, BeforeCommit, InScope, In
<1>5. ASSUME Sound, NEW f \in seen PROVE Tracks(db'[f], drive[f])
  BY <1>1, <1>5, UpsertedTracks DEF Sound
<1>6. (SeenHandled /\ SeenRecorded)'
  BY <1>1, <1>2, <1>5 DEF MirrorInv, SeenHandled, SeenRecorded, InScope, In,
                          Tracks
<1>7. UnseenDoomed'
  <2>1. ASSUME Sound, mode = "incremental", NEW f \in File, InScope(db'[f]),
               f \notin seen
        PROVE  doomed[f] # None
    <3>1. pending[f] = None
      BY <2>1 DEF MirrorInv, Locals
    <3>2. db'[f] = db[f]
      BY <1>1, <2>1, <3>1 DEF Sound, Upserted
    <3> QED
      BY <1>1, <2>1, <3>2 DEF MirrorInv, UnseenDoomed, InScope, In
  <2> QED
    BY <1>1, <1>2, <2>1 DEF UnseenDoomed, InScope, In
<1> QED
  BY <1>1, <1>3, <1>4, <1>6, <1>7 DEF MirrorInv

LEMMA MirrorEnds ==
    ASSUME TypeOK, RunInv, MirrorInv, FinishSync \/ Crash
    PROVE  MirrorInv'
<1>1. /\ pc' = "idle"
      /\ todo' = {} /\ root' = None /\ seen' = {} /\ scanned' = {}
      /\ existing' = Nothing /\ listing' = Nothing /\ pending' = Nothing
      /\ doomed' = Nothing
  BY DEF FinishSync, Crash, ForgetRun
<1>2. Locals'
  BY <1>1 DEF Locals, Nothing
<1>3. RootOnce'
  BY <1>1 DEF RootOnce, Scanning
<1>4. ListingTrue'
  BY <1>1 DEF ListingTrue, Nothing
<1>5. ExistingTrue'
  BY <1>1 DEF ExistingTrue, Nothing
<1> QED
  BY <1>1, <1>2, <1>3, <1>4, <1>5
     DEF MirrorInv, SeenHandled, SeenRecorded, Committed, UnseenDoomed

LEMMA MirrorOutside ==
    ASSUME TypeOK, MirrorInv,
           \/ CancelSync \/ ClientLost \/ ClientRestored \/ UNCHANGED vars
    PROVE  MirrorInv'
<1>1. UNCHANGED <<drive, db, pc, mode, todo, root, existing, listing, seen,
                  pending, scanned, doomed, outcome>>
  BY DEF CancelSync, ClientLost, ClientRestored, vars, world, setup, scan, removal
<1>2. quiet' = quiet /\ (cancel' = cancel \/ cancel' = TRUE)
  BY Zenon DEF CancelSync, ClientLost, ClientRestored, vars
<1>3. cancel \in BOOLEAN /\ cancel' \in BOOLEAN
  BY <1>2, Zenon DEF TypeOK
<1>4. cancel' = FALSE => cancel = FALSE
  BY <1>2, <1>3, Zenon
<1>5. quiet' => quiet
  BY <1>2, Zenon
<1> QED
  BY <1>1, <1>3, <1>4, <1>5, MirrorUntouched

LEMMA MirrorUser ==
    ASSUME TypeOK, MirrorInv,
           \/ ResetBaseline
           \/ \E f \in File : \/ UserUploads(f) \/ UserMoves(f)
                              \/ UserEdits(f) \/ UserDeletes(f)
    PROVE  MirrorInv'
<1>1. UNCHANGED <<pc, mode, cancel, todo, root, existing, listing, seen,
                  pending, scanned, doomed, outcome>>
  BY DEF ResetBaseline, UserUploads, UserMoves, UserEdits, UserDeletes, Place,
         setup, scan, removal
<1>2. quiet' = FALSE
  BY Zenon DEF ResetBaseline, UserUploads, UserMoves, UserEdits, UserDeletes, Place
<1>3. UNCHANGED db \/ db' = Nothing
  BY DEF ResetBaseline, UserUploads, UserMoves, UserEdits, UserDeletes, Place
<1> QED
  BY <1>1, <1>2, <1>3, MirrorDisturbed

LEMMA MirrorInvStep ==
    ASSUME TypeOK, RunInv, MirrorInv, [Next]_vars
    PROVE  MirrorInv'
<1>1. CASE RootFails \/ AbandonRoot
  <2>1. pc \in {"resolve", "list", "file"} /\ LeaveRoot
        /\ UNCHANGED <<scanned, seen>>
    BY <1>1 DEF RootFails, AbandonRoot
  <2>2. seen' \in SUBSET File /\ seen \subseteq seen'
    BY <2>1 DEF TypeOK
  <2> QED
    BY <2>1, <2>2, MirrorLeave
<1> QED
  BY <1>1, MirrorOutside, MirrorUser, MirrorStart, MirrorBegin, MirrorWalk,
     MirrorEndRoot, MirrorHandle, MirrorFullCommit, MirrorSweep, MirrorGate,
     MirrorCleanup, MirrorCleanupDone, MirrorCommit, MirrorEnds
     DEF Next, SyncStep, EnvironmentStep

LEMMA MirrorInit == Init => MirrorInv
<1>1. Init => Locals /\ RootOnce /\ ListingTrue
  BY DEF Init, Locals, RootOnce, Scanning, ListingTrue, Nothing
<1>2. Init => ExistingTrue /\ SeenHandled /\ SeenRecorded /\ UnseenDoomed
  BY DEF Init, ExistingTrue, Nothing, SeenHandled, SeenRecorded, Committed,
         UnseenDoomed
<1> QED
  BY <1>1, <1>2 DEF MirrorInv

\* Whatever fails, the run's sets keep their meaning.
LEMMA MirrorInvHolds == Spec => []MirrorInv
<1>1. TypeOK /\ RunInv /\ MirrorInv /\ [Next]_vars => MirrorInv'
  BY MirrorInvStep
<1> QED
  BY <1>1, MirrorInit, TypeCorrect, RunInvHolds, PTL DEF Spec

\* A client that is there when the system starts stays there.
LEMMA SeenInvHolds ==
    ASSUME "clientlost" \notin Fault
    PROVE  Spec => []SeenInv
<1>1. Init => SeenInv
  BY DEF Init, SeenInv, ScannedSeen, ListingComplete
<1>2. TypeOK /\ RunInv /\ SeenInv /\ [Next]_vars => SeenInv'
  BY SeenInvStep
<1> QED
  BY <1>1, <1>2, TypeCorrect, RunInvHolds, PTL DEF Spec

\* After a clean run only its own last step, or steps that change nothing that
\* is spoken of, lead to a state that is still clean.
LEMMA WhoEnds ==
    ASSUME TypeOK, [Next]_vars, pc' = "idle", quiet',
           outcome' \in {"full", "incremental"}
    PROVE  \/ FinishSync
           \/ UNCHANGED <<pc, drive, disk, db, quiet, outcome>>
<1> USE DEF world, scan, removal, setup
<1>1. ASSUME \/ ResetBaseline
             \/ \E f \in File : \/ UserUploads(f) \/ UserMoves(f)
                                \/ UserEdits(f) \/ UserDeletes(f)
      PROVE  FALSE
  <2>1. quiet' = FALSE
    BY <1>1, Zenon DEF ResetBaseline, UserUploads, UserMoves, UserEdits,
                       UserDeletes, Place
  <2> QED
    BY <2>1
<1>2. ~Crash
  BY DEF Crash
<1>3. ASSUME \/ \E r \in Root : BeginRoot(r) \/ SweepRoot(r)
             \/ EndScan \/ ResolveRoot \/ ListRoot \/ RootFails \/ AbandonRoot
             \/ EndRoot \/ FullCommit \/ SweepDone \/ IncrementalGate
             \/ CleanupSecond \/ CleanupDone \/ IncrementalCommit
             \/ \E m \in Mode, o \in Option : StartSync(m, o)
             \/ \E f \in File : CleanupFirst(f)
             \/ CancelSync
      PROVE  FALSE
  BY <1>3 DEF BeginRoot, SweepRoot, EndScan, ResolveRoot, ListRoot, RootFails,
              AbandonRoot, EndRoot, LeaveRoot, FullCommit, SweepDone,
              IncrementalGate, CleanupSecond, CleanupDone, IncrementalCommit,
              StartSync, CleanupFirst, CancelSync
<1>4. ASSUME NEW f \in File, HandleFile(f) PROVE FALSE
  BY <1>4 DEF HandleFile, FullFile, NewFile, ChangedFile, MovedFile,
              UnchangedFile, WriteFails, TakeWithRow, Take, LeaveRoot, CanTake
<1>5. CASE ClientLost \/ ClientRestored \/ UNCHANGED vars
  BY <1>5 DEF ClientLost, ClientRestored, vars
<1> QED
  BY <1>1, <1>2, <1>3, <1>4, <1>5 DEF Next, SyncStep, EnvironmentStep

\* The end of a clean run: what the invariant says of its sets becomes what the
\* table says of the drive.
LEMMA MirrorsStep ==
    ASSUME TypeOK, SeenInv, MirrorInv, TableMirrorsDrive, [Next]_vars
    PROVE  TableMirrorsDrive'
<1> SUFFICES ASSUME pc' = "idle", quiet', outcome' \in {"full", "incremental"}
             PROVE  TableMirrorsDrive'
  BY DEF TableMirrorsDrive
<1>1. CASE UNCHANGED <<pc, drive, disk, db, quiet, outcome>>
  BY <1>1 DEF TableMirrorsDrive, InScope, In
<1>2. CASE FinishSync
  <2> USE DEF world, setup
  <2>1. /\ pc = "finish" /\ doomed = Nothing /\ quiet
        /\ UNCHANGED <<drive, db, mode>>
        /\ outcome' = IF cancel \/ scanned # Root THEN "partial" ELSE mode
    BY <1>2 DEF FinishSync, MirrorInv, Locals
  <2>2. Sound /\ scanned = Root /\ outcome' = mode
    BY <2>1 DEF Sound
  <2>3. ASSUME NEW f \in File
        PROVE  /\ InScope(drive[f]) => Tracks(db[f], drive[f])
               /\ mode = "incremental" /\ InScope(db[f]) => InScope(drive[f])
    <3>1. InScope(drive[f]) => f \in seen
      BY <2>1, <2>2 DEF InScope, SeenInv, ScannedSeen
    <3>2. InScope(drive[f]) => Tracks(db[f], drive[f])
      BY <2>1, <2>2, <3>1 DEF MirrorInv, SeenRecorded, Committed
    <3>3. mode = "incremental" /\ InScope(db[f]) => f \in seen
      BY <2>1, <2>2 DEF MirrorInv, UnseenDoomed, Nothing
    <3>4. f \in seen => InScope(drive[f])
      BY <2>2 DEF MirrorInv, SeenHandled
    <3> QED
      BY <3>2, <3>3, <3>4
  <2> QED
    BY <2>1, <2>2, <2>3 DEF TableMirrorsDrive, Tracks, InScope, In
<1> QED
  BY <1>1, <1>2, WhoEnds

\* While a client is there, a run that ends without a cancel, a failing root
\* or a change behind its back leaves an up to date row for every media file
\* in scope and, if it was incremental, for nothing else: whatever earlier
\* runs left undone, and however the roots are nested.
THEOREM CleanRunMirrors ==
    ASSUME "clientlost" \notin Fault
    PROVE  Spec => []TableMirrorsDrive
<1>1. Init => TableMirrorsDrive
  BY DEF Init, TableMirrorsDrive
<1>2. TypeOK /\ SeenInv /\ MirrorInv /\ TableMirrorsDrive /\ [Next]_vars
      => TableMirrorsDrive'
  BY MirrorsStep
<1> QED
  BY <1>1, <1>2, TypeCorrect, SeenInvHolds, MirrorInvHolds, PTL DEF Spec

-----------------------------------------------------------------------------
(***************************************************************************)
(* The rows of a clean run have their .strm.  As long as no path is taken  *)
(* twice, a .strm name belongs to one file at one path, so a write or a    *)
(* removal for one file never hits another one's link, and a file that     *)
(* left a path does not come back to it.                                   *)
(***************************************************************************)

At(f, p) == drive[f] # None /\ drive[f].pan = p

\* s is the .strm name of file f at path p in one of the stores.
Claim(f, p, s) ==
    \/ At(f, p) /\ s \in Names(p)
    \/ listing[f] # None /\ listing[f].pan = p /\ s \in Names(p)
    \/ \E x \in {existing[f], pending[f], db[f]} :
          x # None /\ x.pan = p /\ x.strm = s

\* Every name in use has one owner, at one path; what is on disk or to be
\* removed under a name is its owner's.
Owners ==
    \A f, g \in File, p, q \in Pan, s \in Strm : Claim(f, p, s) =>
        /\ s \in used
        /\ Claim(g, q, s) => g = f /\ q = p
        /\ disk[s] # None => disk[s] \in {f, Torn}
        /\ doomed[g] = s => g = f

NamesUsed ==
    /\ \A s \in Strm : disk[s] # None => s \in used
    /\ \A f \in File : doomed[f] # None => doomed[f] \in used

\* Rows are named by one of the mappings that their path lies in.
Named ==
    /\ \A f \in File : \A x \in {existing[f], pending[f], db[f]} :
          x # None => x.strm \in Names(x.pan)
    /\ pc # "file" => listing = Nothing
    /\ \A f \in File : listing[f] # None => listing[f].pan \in Under[root]

\* A file that was listed away from its row's path is not there any more.
Departed ==
    \A f \in File :
        listing[f] # None /\ existing[f] # None
        /\ listing[f].pan # existing[f].pan => ~At(f, existing[f].pan)

\* A file that is where its row says is found by the scan of that root.
Found ==
    /\ pc = "file" /\ ~cancel => \A f \in File :
          existing[f] # None /\ At(f, existing[f].pan)
          /\ existing[f].pan \in Under[root] => listing[f] # None \/ f \in seen
    /\ BeforeCommit => \A f \in File, r \in scanned :
          existing[f] # None /\ At(f, existing[f].pan)
          /\ existing[f].pan \in Under[r] => f \in seen

\* What is being removed has no row, or is not where its row says.
Gone ==
    pc = "cleanup" =>
        /\ mode = "incremental" => \A f \in File :
              doomed[f] # None /\ db[f] # None => ~At(f, db[f].pan)
        /\ mode = "full" /\ half # None => db[half] = None

\* A row that waits comes from a root that has been walked past this file.
Handled ==
    Scanning => \A f \in File : pending[f] # None =>
        \E r \in Root \ todo :
            /\ pending[f].pan \in Under[r]
            /\ r = root => pc = "file" /\ listing[f] = None

\* The row x of file f has its .strm if the file is where it says.
Backs(x, f) ==
    x # None /\ At(f, x.pan) /\ InOneRoot(x.pan) => disk[x.strm] \in {f, Torn}

Backed ==
    /\ \A f \in File : Backs(db[f], f) /\ Backs(pending[f], f)
    /\ mode = "full" => \A f \in File :
          pending[f] # None => disk[pending[f].strm] \in {f, Torn}
    /\ Sound /\ mode = "full" /\ pc \in {"sweep", "cleanup", "finish"} =>
          \A f \in seen : db[f] = pending[f]

OwnInv == Owners /\ NamesUsed /\ Named

\* The stores after a step hold names that their files had before.
LEMMA OwnersKept ==
    ASSUME Owners, NamesUsed, used \subseteq used',
           \A f \in File, p \in Pan, s \in Strm :
              Claim(f, p, s)' => Claim(f, p, s),
           \A s \in Strm : disk'[s] # None =>
              \/ disk'[s] = disk[s]
              \/ \E f \in File, p \in Pan :
                    Claim(f, p, s) /\ disk'[s] \in {f, Torn},
           \A f \in File : doomed'[f] # None =>
              \/ doomed'[f] = doomed[f]
              \/ \E p \in Pan : doomed'[f] \in Strm /\ Claim(f, p, doomed'[f])
    PROVE  (Owners /\ NamesUsed)'
<1>1. ASSUME NEW f \in File, NEW g \in File, NEW p \in Pan, NEW q \in Pan,
             NEW s \in Strm, Claim(f, p, s)'
      PROVE  /\ s \in used'
             /\ Claim(g, q, s)' => g = f /\ q = p
             /\ disk'[s] # None => disk'[s] \in {f, Torn}
             /\ doomed'[g] = s => g = f
  <2>1. Claim(f, p, s) /\ (Claim(g, q, s)' => Claim(g, q, s))
    BY <1>1
  <2>2. /\ s \in used
        /\ \A h \in File, o \in Pan : Claim(h, o, s) => h = f /\ o = p
        /\ disk[s] # None => disk[s] \in {f, Torn}
        /\ doomed[g] = s => g = f
    BY <2>1 DEF Owners
  <2>3. disk'[s] # None => disk'[s] \in {f, Torn}
    BY <2>2
  <2>4. doomed'[g] = s => g = f
    BY <2>2
  <2> QED
    BY <2>1, <2>2, <2>3, <2>4
<1>2. Owners'
  BY <1>1 DEF Owners
<1>3. NamesUsed'
  BY DEF NamesUsed, Owners
<1> QED
  BY <1>2, <1>3

\* Nothing that names are taken from changes.
LEMMA OwnersUntouched ==
    ASSUME OwnInv,
           UNCHANGED <<drive, disk, used, listing, existing, pending, db, doomed>>
    PROVE  (Owners /\ NamesUsed)'
BY DEF OwnInv, Owners, NamesUsed, Claim, At

\* A path is taken only when none of its names was ever in use.
LEMMA OwnersPlaced ==
    ASSUME OwnInv, TypeOK, "reuse" \notin Fault, NEW f \in File, NEW p \in Pan,
           NEW sha \in Sha, Place(f, p, sha)
    PROVE  (Owners /\ NamesUsed)'
<1> USE DEF scan, removal, setup
<1>1. /\ Names(p) \intersect used = {} /\ used' = used \union Names(p)
      /\ drive' = [drive EXCEPT ![f] = [pan |-> p, sha |-> sha]]
      /\ UNCHANGED <<disk, listing, existing, pending, db, doomed>>
  BY DEF Place, FreshPath
<1>2. ASSUME NEW g \in File, NEW q \in Pan, At(g, q)'
      PROVE  At(g, q) \/ (g = f /\ q = p)
  BY <1>1, <1>2 DEF At, TypeOK
<1>3. ASSUME NEW g \in File, NEW q \in Pan, NEW s \in Strm, Claim(g, q, s)'
      PROVE  \/ Claim(g, q, s)
             \/ g = f /\ q = p /\ s \in Names(p)
  BY <1>1, <1>2, <1>3 DEF Claim
<1>4. \A g \in File, q \in Pan, s \in Strm : Claim(g, q, s) => s \in used
  BY DEF OwnInv, Owners
<1>5. NamesUsed'
  BY <1>1 DEF OwnInv, NamesUsed
<1>6. ASSUME NEW g \in File, NEW h \in File, NEW q \in Pan, NEW o \in Pan,
             NEW s \in Strm, Claim(g, q, s)'
      PROVE  /\ s \in used'
             /\ Claim(h, o, s)' => h = g /\ o = q
             /\ disk'[s] # None => disk'[s] \in {g, Torn}
             /\ doomed'[h] = s => h = g
  <2>1. CASE s \in Names(p)
    <3>1. g = f /\ q = p /\ s \notin used
      BY <1>1, <1>3, <1>4, <1>6, <2>1
    <3>2. disk[s] = None /\ doomed[h] # s
      BY <3>1 DEF OwnInv, NamesUsed
    <3>3. Claim(h, o, s)' => h = f /\ o = p
      BY <1>3, <1>4, <3>1
    <3> QED
      BY <1>1, <2>1, <3>1, <3>2, <3>3
  <2>2. CASE s \notin Names(p)
    <3>1. Claim(g, q, s) /\ (Claim(h, o, s)' => Claim(h, o, s))
      BY <1>3, <1>6, <2>2
    <3> QED
      BY <1>1, <3>1 DEF OwnInv, Owners
  <2> QED
    BY <2>1, <2>2
<1>7. Owners'
  BY <1>6 DEF Owners
<1> QED
  BY <1>5, <1>7

\* What the branches of a file do to the disk: its target gets its link, or is
\* torn, and nothing else is written.
LEMMA WritesOwnTarget ==
    ASSUME TypeOK, OwnInv, NEW f \in File, HandleFile(f), NEW s \in Strm
    PROVE  \/ disk'[s] \in {disk[s], None}
           \/ s = Target(f) /\ disk'[s] \in {f, Torn}
<1>1. Target(f) \in Strm /\ disk \in DiskType
  BY NewRowType DEF TypeOK, DiskType, HandleFile, FullFile, NewFile,
     ChangedFile, MovedFile, UnchangedFile, WriteFails
<1>2. existing[f] # None =>
        existing[f].strm \in Strm /\ existing[f].pan \in Pan
  BY DEF TypeOK, Entry
<1>3. existing[f] # None /\ disk[existing[f].strm] # None =>
        disk[existing[f].strm] \in {f, Torn}
  BY <1>2 DEF OwnInv, Owners, Claim
<1>4. CASE FullFile(f) \/ NewFile(f)
  BY <1>1, <1>4 DEF FullFile, NewFile, EnsureStrm, DiskType
<1>5. CASE ChangedFile(f)
  <2>1. PICK ok \in DiskOK :
           disk' = RewriteStrm(disk, existing[f].strm, Target(f), f, ok)
    BY <1>5, Zenon DEF ChangedFile
  <2> QED
    BY <1>1, <1>2, <2>1 DEF RewriteStrm, EnsureStrm, UnlinkStrm, DiskType
<1>6. CASE MovedFile(f)
  <2>1. PICK cleared \in DiskOK, moved \in DiskOK :
           disk' = MigrateStrm(disk, existing[f].strm, Target(f), f, cleared,
                               moved)
    BY <1>6, Zenon DEF MovedFile
  <2>2. existing[f] # None
    BY <1>6 DEF MovedFile, IsMoved
  <2> QED
    BY <1>1, <1>2, <1>3, <2>1, <2>2
       DEF MigrateStrm, EnsureStrm, UnlinkStrm, DiskType
<1>7. CASE UnchangedFile(f)
  BY <1>7 DEF UnchangedFile
<1>8. CASE WriteFails(f)
  BY <1>8, FailedHandling DEF WriteFails
<1> QED
  BY <1>4, <1>5, <1>6, <1>7, <1>8 DEF HandleFile

\* The target of a listed file is a name of the path it was listed at.
LEMMA TargetClaimed ==
    ASSUME TypeOK, OwnInv, NEW f \in File, CanTake(f)
    PROVE  /\ listing[f].pan \in Pan /\ Target(f) \in Strm
           /\ Target(f) \in Names(listing[f].pan)
           /\ Claim(f, listing[f].pan, Target(f))
<1>1. root \in Root /\ listing[f].pan \in Under[root] /\ listing[f].pan \in Pan
  BY DEF CanTake, TypeOK, OwnInv, Named, Item
<1>2. Target(f) \in Names(listing[f].pan) /\ Target(f) \in Strm
  BY <1>1 DEF Target, Names
<1> QED
  BY <1>1, <1>2 DEF Claim, CanTake

LEMMA OwnHandle ==
    ASSUME TypeOK, OwnInv, NEW f \in File, HandleFile(f)
    PROVE  OwnInv'
<1> USE DEF world, removal, setup
<1>1. CanTake(f)
  BY DEF HandleFile, FullFile, NewFile, ChangedFile, MovedFile, UnchangedFile,
         WriteFails
<1>2. /\ UNCHANGED <<drive, used, db, doomed, existing>>
      /\ \/ TakeWithRow(f)
         \/ pending' = pending /\ (LeaveRoot \/ Take(f))
  BY DEF HandleFile, FullFile, NewFile, ChangedFile, MovedFile, UnchangedFile,
         WriteFails, TakeWithRow, Take, LeaveRoot
<1>3. /\ listing[f].pan \in Pan /\ Target(f) \in Strm
      /\ Target(f) \in Names(listing[f].pan)
      /\ Claim(f, listing[f].pan, Target(f))
  BY <1>1, TargetClaimed
<1>4. \A g \in File : listing'[g] # None => listing'[g] = listing[g]
  BY <1>2 DEF TakeWithRow, Take, LeaveRoot, Nothing, TypeOK
<1>5. \A g \in File : \/ pending'[g] = pending[g]
                      \/ g = f /\ pending'[g] = NewRow(f)
  <2>1. pending \in [File -> Row \union {None}]
    BY DEF TypeOK
  <2>2. \/ pending' = pending
        \/ pending' = [pending EXCEPT ![f] = NewRow(f)]
    BY <1>2, Zenon DEF TakeWithRow
  <2> HIDE DEF NewRow
  <2> QED
    BY <2>1, <2>2
<1>6. NewRow(f).strm = Target(f) /\ NewRow(f).pan = listing[f].pan
  BY DEF NewRow
<1>7. ASSUME NEW g \in File, NEW p \in Pan, NEW s \in Strm, Claim(g, p, s)'
      PROVE  Claim(g, p, s)
  <2>1. CASE \E x \in {existing[g], pending[g], db[g]} :
                x # None /\ x.pan = p /\ x.strm = s
    BY <2>1 DEF Claim
  <2>2. CASE g = f /\ pending'[g] = NewRow(f) /\ p = listing[f].pan
             /\ s = Target(f)
    BY <1>3, <2>2
  <2>3. CASE listing[g] # None /\ listing[g].pan = p /\ s \in Names(p)
    BY <2>3 DEF Claim
  <2>4. CASE At(g, p) /\ s \in Names(p)
    BY <2>4 DEF Claim
  <2> QED
    BY <1>2, <1>4, <1>5, <1>6, <1>7, <2>1, <2>2, <2>3, <2>4 DEF Claim, At
<1>8. ASSUME NEW s \in Strm, disk'[s] # None
      PROVE  \/ disk'[s] = disk[s]
             \/ \E g \in File, p \in Pan :
                   Claim(g, p, s) /\ disk'[s] \in {g, Torn}
  BY <1>3, <1>8, WritesOwnTarget
<1>9. (Owners /\ NamesUsed)'
  BY <1>2, <1>7, <1>8, OwnersKept DEF OwnInv
<1>10. Named'
  <2>1. \A g \in File : \A x \in {existing[g], pending'[g], db[g]} :
          x # None => x.strm \in Names(x.pan)
    BY <1>3, <1>5, <1>6 DEF OwnInv, Named
  <2>2. /\ pc' # "file" => listing' = Nothing
        /\ \A g \in File : listing'[g] # None => listing'[g].pan \in Under[root']
    BY <1>1, <1>2, <1>4 DEF OwnInv, Named, TakeWithRow, Take, LeaveRoot, CanTake,
                            Nothing
  <2> QED
    BY <1>2, <2>1, <2>2 DEF Named, Names
<1> QED
  BY <1>9, <1>10 DEF OwnInv

\* Steps that copy rows and listings from one store to another.
LEMMA OwnBegin ==
    ASSUME TypeOK, OwnInv, NEW r \in Root, BeginRoot(r)
    PROVE  OwnInv'
<1> USE DEF world, removal, setup
<1>1. /\ UNCHANGED <<drive, disk, used, listing, pending, db, doomed>>
      /\ listing = Nothing
  BY DEF BeginRoot, OwnInv, Named
<1>2. \A f \in File : \/ existing'[f] = existing[f]
                      \/ /\ db[f] # None
                         /\ existing'[f].pan = db[f].pan
                         /\ existing'[f].strm = db[f].strm
  BY DEF BeginRoot, LoadExisting, RowUnder, In
<1>3. ASSUME NEW f \in File, NEW p \in Pan, NEW s \in Strm, Claim(f, p, s)'
      PROVE  Claim(f, p, s)
  BY <1>1, <1>2, <1>3 DEF Claim, At, Names
<1>4. (Owners /\ NamesUsed)'
  BY <1>1, <1>3, OwnersKept DEF OwnInv
<1>5. Named'
  BY <1>1, <1>2 DEF OwnInv, Named, Names, Nothing
<1> QED
  BY <1>4, <1>5 DEF OwnInv

LEMMA OwnList ==
    ASSUME TypeOK, OwnInv, ListRoot
    PROVE  OwnInv'
<1> USE DEF world, removal, setup
<1>1. /\ UNCHANGED <<drive, disk, used, existing, pending, db, doomed, root>>
      /\ \A f \in File : listing'[f] # None =>
            listing'[f] = drive[f] /\ In(drive[f], root)
      /\ pc' = "file"
  BY DEF ListRoot, Listing
<1>2. ASSUME NEW f \in File, NEW p \in Pan, NEW s \in Strm, Claim(f, p, s)'
      PROVE  Claim(f, p, s)
  BY <1>1, <1>2 DEF Claim, At, Names
<1>3. (Owners /\ NamesUsed)'
  BY <1>1, <1>2, OwnersKept DEF OwnInv
<1>4. Named'
  BY <1>1 DEF OwnInv, Named, Names, In
<1> QED
  BY <1>3, <1>4 DEF OwnInv

LEMMA OwnCommit ==
    ASSUME TypeOK, OwnInv, FullCommit \/ IncrementalCommit
    PROVE  OwnInv'
<1> USE DEF world, removal, setup, scan
<1>1. /\ UNCHANGED <<drive, disk, used, existing, listing, pending, doomed, root>>
      /\ \A f \in File : db'[f] \in {db[f], pending[f]}
      /\ pc' # "file" /\ pc # "file"
  BY DEF FullCommit, IncrementalCommit, Upserted
<1>2. ASSUME NEW f \in File, NEW p \in Pan, NEW s \in Strm, Claim(f, p, s)'
      PROVE  Claim(f, p, s)
  BY <1>1, <1>2 DEF Claim, At, Names
<1>3. (Owners /\ NamesUsed)'
  BY <1>1, <1>2, OwnersKept DEF OwnInv
<1>4. Named'
  BY <1>1 DEF OwnInv, Named, Names
<1> QED
  BY <1>3, <1>4 DEF OwnInv

\* What is put on the list of removals is the name of a row.
LEMMA OwnDoom ==
    ASSUME TypeOK, OwnInv,
           \/ IncrementalGate
           \/ \E r \in Root : SweepRoot(r)
    PROVE  OwnInv'
<1> USE DEF world, removal, setup, scan
<1>1. /\ UNCHANGED <<drive, disk, used, existing, listing, pending, db, root>>
      /\ pc' # "file" /\ pc # "file"
  BY DEF IncrementalGate, SweepRoot
<1>2. \A f \in File : doomed'[f] # None =>
         \/ doomed'[f] = doomed[f]
         \/ existing[f] # None /\ doomed'[f] = existing[f].strm
         \/ db[f] # None /\ doomed'[f] = db[f].strm
  BY DEF IncrementalGate, LeftOverEntry, SweepRoot, LeftOverRow, RowUnder, In
<1>3. ASSUME NEW f \in File, doomed'[f] # None, doomed'[f] # doomed[f]
      PROVE  \E p \in Pan : doomed'[f] \in Strm /\ Claim(f, p, doomed'[f])
  <2>1. PICK x \in {existing[f], db[f]} : x # None /\ doomed'[f] = x.strm
    BY <1>2, <1>3
  <2>2. x.pan \in Pan /\ x.strm \in Strm
    BY <2>1 DEF TypeOK, Entry, Row
  <2> QED
    BY <2>1, <2>2 DEF Claim
<1>4. ASSUME NEW f \in File, NEW p \in Pan, NEW s \in Strm, Claim(f, p, s)'
      PROVE  Claim(f, p, s)
  BY <1>1, <1>4 DEF Claim, At, Names
<1>5. (Owners /\ NamesUsed)'
  BY <1>1, <1>3, <1>4, OwnersKept DEF OwnInv
<1>6. Named'
  BY <1>1 DEF OwnInv, Named, Names
<1> QED
  BY <1>5, <1>6 DEF OwnInv

LEMMA OwnCleanup ==
    ASSUME TypeOK, OwnInv,
           \/ \E f \in File : CleanupFirst(f)
           \/ CleanupSecond
    PROVE  OwnInv'
<1> USE DEF world, setup, scan
<1>1. /\ UNCHANGED <<drive, used, existing, listing, pending, root>>
      /\ pc' # "file" /\ pc # "file"
      /\ \A f \in File : db'[f] \in {db[f], None}
      /\ \A f \in File : doomed'[f] \in {doomed[f], None}
  BY DEF CleanupFirst, CleanupSecond, TypeOK
<1>2. \A s \in Strm : disk'[s] \in {disk[s], None}
  BY DEF CleanupFirst, CleanupSecond, UnlinkStrm, TypeOK
<1>3. ASSUME NEW f \in File, NEW p \in Pan, NEW s \in Strm, Claim(f, p, s)'
      PROVE  Claim(f, p, s)
  BY <1>1, <1>3 DEF Claim, At, Names
<1>4. (Owners /\ NamesUsed)'
  BY <1>1, <1>2, <1>3, OwnersKept DEF OwnInv
<1>5. Named'
  BY <1>1 DEF OwnInv, Named, Names
<1> QED
  BY <1>4, <1>5 DEF OwnInv

\* Steps that only forget.
LEMMA OwnForget ==
    ASSUME TypeOK, OwnInv, UNCHANGED used,
           \/ UNCHANGED disk
           \/ \E f \in File : CanTake(f) /\ disk' \in DiskAfterFailedWrite(f),
           \A f \in File : \/ drive'[f] = None
                           \/ /\ drive[f] # None /\ drive'[f] # None
                              /\ drive'[f].pan = drive[f].pan,
           \A f \in File : /\ db'[f] \in {db[f], None}
                           /\ pending'[f] \in {pending[f], None}
                           /\ existing'[f] \in {existing[f], None}
                           /\ doomed'[f] \in {doomed[f], None},
           \/ listing' = Nothing
           \/ UNCHANGED <<listing, pc, root>>
    PROVE  OwnInv'
<1>1. \A f \in File : listing'[f] \in {listing[f], None}
  BY DEF Nothing
<1>2. ASSUME NEW f \in File, NEW p \in Pan, NEW s \in Strm, Claim(f, p, s)'
      PROVE  Claim(f, p, s)
  <2>1. At(f, p)' => At(f, p)
    BY DEF At
  <2> QED
    BY <1>1, <1>2, <2>1 DEF Claim, Names
<1>5. ASSUME NEW s \in Strm, disk'[s] # None
      PROVE  \/ disk'[s] = disk[s]
             \/ \E f \in File, p \in Pan :
                   Claim(f, p, s) /\ disk'[s] \in {f, Torn}
  <2>1. CASE UNCHANGED disk
    BY <2>1
  <2>2. ASSUME NEW f \in File, CanTake(f), disk' \in DiskAfterFailedWrite(f)
        PROVE  \/ disk'[s] = disk[s]
               \/ \E g \in File, p \in Pan :
                     Claim(g, p, s) /\ disk'[s] \in {g, Torn}
    BY <1>5, <2>2, FailedHandling, TargetClaimed
  <2> QED
    BY <2>1, <2>2
<1>3. (Owners /\ NamesUsed)'
  BY <1>2, <1>5, OwnersKept DEF OwnInv
<1>4. Named'
  <2>1. ASSUME NEW f \in File, NEW x \in {existing'[f], pending'[f], db'[f]},
               x # None
        PROVE  x.strm \in Names(x.pan)
    <3>1. x \in {existing[f], pending[f], db[f]}
      BY <2>1
    <3> QED
      BY <2>1, <3>1 DEF OwnInv, Named
  <2>2. pc' # "file" => listing' = Nothing
    BY DEF OwnInv, Named
  <2>3. \A f \in File : listing'[f] # None => listing'[f].pan \in Under[root']
    BY DEF OwnInv, Named, Nothing
  <2> QED
    BY <2>1, <2>2, <2>3 DEF Named, Names
<1> QED
  BY <1>3, <1>4 DEF OwnInv

\* An upload and a move both put the file at one path.
LEMMA Placed ==
    ASSUME TypeOK, NEW f \in File, UserUploads(f) \/ UserMoves(f)
    PROVE  \E p \in Pan, sha \in Sha : Place(f, p, sha)
<1>1. drive[f] # None => drive[f].sha \in Sha
  BY DEF TypeOK, Item
<1> QED
  BY <1>1, Zenon DEF UserUploads, UserMoves

LEMMA OwnInvStep ==
    ASSUME "reuse" \notin Fault, TypeOK, OwnInv, [Next]_vars
    PROVE  OwnInv'
<1> USE DEF world, scan, removal, setup
<1>1. ASSUME NEW f \in File, NEW p \in Pan, NEW sha \in Sha, Place(f, p, sha)
      PROVE  OwnInv'
  <2>1. Named'
    BY <1>1 DEF Place, OwnInv, Named, Names
  <2> QED
    BY <1>1, <2>1, OwnersPlaced DEF OwnInv
<1>2. ASSUME NEW f \in File, UserEdits(f) \/ UserDeletes(f) PROVE OwnInv'
  <2>1. \A g \in File : \/ drive'[g] = None
                        \/ /\ drive[g] # None /\ drive'[g] # None
                           /\ drive'[g].pan = drive[g].pan
    <3>1. CASE UserDeletes(f)
      BY <3>1 DEF UserDeletes, TypeOK
    <3>2. CASE UserEdits(f)
      <4>1. PICK sha \in Sha : drive' = [drive EXCEPT ![f].sha = sha]
        BY <3>2 DEF UserEdits
      <4>2. drive[f] \in Item /\ drive[f] # None
        BY <3>2 DEF UserEdits, TypeOK
      <4>3. drive'[f] \in Item /\ drive'[f].pan = drive[f].pan
        BY <4>1, <4>2 DEF Item, TypeOK
      <4> QED
        BY <4>1, <4>2, <4>3, NoRecordAssumption DEF TypeOK
    <3> QED
      BY <1>2, <3>1, <3>2
  <2> QED
    BY <1>2, <2>1, OwnForget DEF UserEdits, UserDeletes
<1>3. CASE \/ \E m \in Mode, o \in Option : StartSync(m, o)
           \/ EndScan \/ ResolveRoot \/ SweepDone \/ CleanupDone
  <2>1. listing' = Nothing
    BY <1>3 DEF StartSync, EndScan, ResolveRoot, SweepDone, CleanupDone,
                OwnInv, Named
  <2>2. UNCHANGED <<disk, used, drive, db, pending, existing, doomed>>
    BY <1>3 DEF StartSync, EndScan, ResolveRoot, SweepDone, CleanupDone
  <2> QED
    BY <2>1, <2>2, OwnForget
<1>4. CASE RootFails \/ AbandonRoot \/ EndRoot
  <2>1. /\ listing' = Nothing
        /\ UNCHANGED <<disk, used, drive, db, pending, existing, doomed>>
    BY <1>4 DEF RootFails, AbandonRoot, EndRoot, LeaveRoot
  <2> QED
    BY <2>1, OwnForget
<1>5. CASE FinishSync \/ Crash
  <2>1. /\ listing' = Nothing
        /\ UNCHANGED <<used, drive, db>>
        /\ pending' = Nothing /\ existing' = Nothing /\ doomed' = Nothing
        /\ \/ UNCHANGED disk
           \/ \E f \in File : CanTake(f) /\ disk' \in DiskAfterFailedWrite(f)
    BY <1>5 DEF FinishSync, Crash, ForgetRun
  <2> QED
    BY <2>1, OwnForget DEF Nothing
<1>6. CASE \/ ResetBaseline \/ CancelSync \/ ClientLost \/ ClientRestored
           \/ UNCHANGED vars
  <2>1. /\ UNCHANGED <<disk, used, drive, pending, existing, doomed, listing,
                       pc, root>>
        /\ db' = db \/ db' = Nothing
    BY <1>6 DEF ResetBaseline, CancelSync, ClientLost, ClientRestored, vars
  <2> QED
    BY <2>1, OwnForget DEF Nothing
<1> QED
  BY <1>1, <1>2, <1>3, <1>4, <1>5, <1>6, OwnHandle, OwnBegin, OwnList,
     OwnCommit, OwnDoom, OwnCleanup, Placed DEF Next, SyncStep, EnvironmentStep

\* No step of anybody puts a file back to a path whose name was in use.
LEMMA NoReturn ==
    ASSUME "reuse" \notin Fault, TypeOK, [Next]_vars, NEW f \in File,
           NEW p \in Pan, NEW s \in Strm, s \in Names(p), s \in used, At(f, p)'
    PROVE  At(f, p)
<1> USE DEF world, scan, removal, setup
<1>1. ASSUME NEW g \in File, NEW q \in Pan, NEW sha \in Sha, Place(g, q, sha)
      PROVE  At(f, p)
  BY <1>1 DEF Place, FreshPath, At, TypeOK
<1>2. ASSUME NEW g \in File, UserEdits(g) PROVE At(f, p)
  BY <1>2 DEF UserEdits, At, TypeOK, Item
<1>3. ASSUME NEW g \in File, UserDeletes(g) PROVE At(f, p)
  BY <1>3 DEF UserDeletes, At, TypeOK
<1>4. ASSUME drive' = drive PROVE At(f, p)
  BY <1>4 DEF At
<1>5. ASSUME NEW g \in File, HandleFile(g) PROVE drive' = drive
  BY <1>5 DEF HandleFile, FullFile, NewFile, ChangedFile, MovedFile,
              UnchangedFile, WriteFails, TakeWithRow, Take, LeaveRoot
<1>6. ASSUME NEW g \in File, CleanupFirst(g) PROVE drive' = drive
  BY <1>6 DEF CleanupFirst
<1>7. ASSUME NEW r \in Root, BeginRoot(r) \/ SweepRoot(r) PROVE drive' = drive
  BY <1>7 DEF BeginRoot, SweepRoot
<1>8. ASSUME NEW m \in Mode, NEW o \in Option, StartSync(m, o)
      PROVE  drive' = drive
  BY <1>8 DEF StartSync
<1>9. CASE \/ EndScan \/ ResolveRoot \/ ListRoot \/ RootFails \/ AbandonRoot
           \/ EndRoot \/ FullCommit \/ SweepDone \/ IncrementalGate
           \/ CleanupSecond \/ CleanupDone \/ IncrementalCommit \/ FinishSync
           \/ CancelSync \/ ResetBaseline \/ ClientLost \/ ClientRestored
           \/ Crash \/ UNCHANGED vars
  <2>1. drive' = drive
    BY <1>9 DEF vars, EndScan, ResolveRoot, ListRoot, RootFails, AbandonRoot,
                EndRoot, LeaveRoot, FullCommit, SweepDone, IncrementalGate,
                CleanupSecond, CleanupDone, IncrementalCommit, FinishSync,
                CancelSync, ResetBaseline, ClientLost, ClientRestored, Crash
  <2> QED
    BY <1>4, <2>1
<1> QED
  BY <1>1, <1>2, <1>3, <1>4, <1>5, <1>6, <1>7, <1>8, <1>9, Placed
     DEF Next, SyncStep, EnvironmentStep

\* In particular not to the path of a row.
LEMMA NoReturnToRow ==
    ASSUME "reuse" \notin Fault, TypeOK, OwnInv, [Next]_vars, NEW f \in File,
           NEW x \in {existing[f], pending[f], db[f]}, x # None, At(f, x.pan)'
    PROVE  At(f, x.pan)
<1> DEFINE p == x.pan
           s == x.strm
<1>1. p \in Pan /\ s \in Strm
  BY DEF TypeOK, Entry, Row
<1>2. s \in Names(p)
  BY DEF OwnInv, Named
<1>3. Claim(f, p, s)
  BY DEF Claim
<1>4. s \in used
  BY <1>1, <1>3 DEF OwnInv, Owners
<1> QED
  BY <1>1, <1>2, <1>4, NoReturn

PosInv == Departed /\ Found /\ Gone /\ Handled

\* What a step needs to leave PosInv alone: the run stands still, and no file
\* comes back to the path of its row.
LEMMA PosUntouched ==
    ASSUME "reuse" \notin Fault, TypeOK, OwnInv, PosInv, [Next]_vars,
           UNCHANGED <<pc, mode, todo, root, existing, listing, seen, pending,
                       scanned, doomed, half>>,
           db' = db \/ db' = Nothing,
           ~cancel' => ~cancel
    PROVE  PosInv'
<1>1. ASSUME NEW f \in File, existing[f] # None, At(f, existing[f].pan)'
      PROVE  At(f, existing[f].pan)
  BY <1>1, NoReturnToRow
<1>2. ASSUME db' = db, NEW f \in File, db[f] # None, At(f, db[f].pan)'
      PROVE  At(f, db[f].pan)
  BY <1>2, NoReturnToRow
<1>3. Departed'
  BY <1>1 DEF PosInv, Departed, At
<1>4. Found'
  BY <1>1 DEF PosInv, Found, At, BeforeCommit
<1>5. Gone'
  <2>1. CASE db' = Nothing
    BY <2>1 DEF PosInv, Gone, Nothing, TypeOK
  <2>2. CASE db' = db
    BY <1>2, <2>2 DEF PosInv, Gone, At
  <2> QED
    BY <2>1, <2>2
<1>6. Handled'
  BY DEF PosInv, Handled, Scanning
<1> QED
  BY <1>3, <1>4, <1>5, <1>6 DEF PosInv

LEMMA PosStart ==
    ASSUME TypeOK, RunInv, MirrorInv, OwnInv, NEW m \in Mode, NEW o \in Option,
           StartSync(m, o)
    PROVE  PosInv'
<1>1. /\ pc' = "root" /\ existing' = Nothing /\ pending' = Nothing
      /\ listing' = Nothing
  BY DEF StartSync, MirrorInv, Locals, RunInv, Forgotten
<1> QED
  BY <1>1 DEF PosInv, Departed, Found, Gone, Handled, Nothing

LEMMA PosBegin ==
    ASSUME TypeOK, RunInv, MirrorInv, OwnInv, PosInv, NEW r \in Root,
           BeginRoot(r)
    PROVE  PosInv'
<1> USE DEF world, removal, setup
<1>1. /\ pc = "root" /\ pc' = "resolve" /\ root' = r
      /\ r \in todo /\ todo' = todo \ {r}
      /\ existing' = IF mode = "incremental" THEN LoadExisting(r) ELSE existing
      /\ UNCHANGED <<drive, db, mode, listing, seen, pending, scanned>>
      /\ listing = Nothing
  BY DEF BeginRoot, OwnInv, Named
<1>2. Departed'
  BY <1>1 DEF Departed, Nothing
<1>3. Found'
  <2>1. ASSUME NEW f \in File, NEW q \in scanned, existing'[f] # None,
               At(f, existing'[f].pan), existing'[f].pan \in Under[q]
        PROVE  f \in seen
    <3>1. \/ existing'[f] = existing[f]
          \/ /\ mode = "incremental" /\ db[f] # None
             /\ existing'[f].pan = db[f].pan
      BY <1>1 DEF LoadExisting, RowUnder, In
    <3>2. CASE existing'[f] = existing[f]
      BY <1>1, <2>1, <3>2 DEF PosInv, Found, BeforeCommit
    <3>3. CASE mode = "incremental" /\ db[f] # None
               /\ existing'[f].pan = db[f].pan
      <4>1. RowUnder(f, q) /\ q # None
        BY <2>1, <3>3 DEF RowUnder, In, TypeOK
      <4>2. existing[f] # None
        BY <1>1, <3>3, <4>1 DEF MirrorInv, ExistingTrue, BeforeCommit
      <4>3. existing[f].pan = db[f].pan
        BY <1>1, <3>3, <4>2 DEF RunInv, ExistingCurrent, BeforeCommit
      <4> QED
        BY <1>1, <2>1, <3>3, <4>2, <4>3 DEF PosInv, Found, BeforeCommit
    <3> QED
      BY <3>1, <3>2, <3>3
  <2> QED
    BY <1>1, <2>1 DEF Found, At
<1>4. Handled'
  BY <1>1 DEF PosInv, Handled, Scanning
<1> QED
  BY <1>1, <1>2, <1>3, <1>4 DEF PosInv, Gone

LEMMA PosWalk ==
    ASSUME TypeOK, RunInv, SeenInv, OwnInv, PosInv,
           EndScan \/ ResolveRoot \/ ListRoot
    PROVE  PosInv'
<1> USE DEF world, removal, setup, scan
<1>1. /\ UNCHANGED <<drive, db, mode, cancel, root, existing, seen, pending,
                     todo, scanned>>
      /\ pc \in {"root", "resolve", "list"} /\ pc' \in {"gate", "list", "file"}
      /\ pc' = "file" => ListRoot
      /\ listing = Nothing /\ (pc' # "file" => listing' = Nothing)
  BY DEF EndScan, ResolveRoot, ListRoot, OwnInv, Named
<1>2. pc' = "file" => listing' = Listing(root)
  BY <1>1 DEF ListRoot
<1>3. Departed'
  BY <1>1, <1>2 DEF Departed, Listing, At, Nothing
<1>4. Found'
  <2>1. ASSUME pc' = "file", ~cancel, NEW f \in File, existing[f] # None,
               At(f, existing[f].pan), existing[f].pan \in Under[root]
        PROVE  listing'[f] # None
    BY <1>2, <2>1 DEF Listing, In, At, SeenInv
  <2>2. \A f \in File, r \in scanned :
           existing[f] # None /\ At(f, existing[f].pan)
           /\ existing[f].pan \in Under[r] => f \in seen
    BY <1>1 DEF PosInv, Found, BeforeCommit
  <2> QED
    BY <1>1, <2>1, <2>2 DEF Found, At
<1>5. Handled'
  BY <1>1 DEF PosInv, Handled, Scanning
<1> QED
  BY <1>1, <1>3, <1>4, <1>5 DEF PosInv, Gone

LEMMA PosLeave ==
    ASSUME TypeOK, PosInv, LeaveRoot, pc \in {"resolve", "list", "file"},
           drive' = drive, seen \subseteq seen',
           \/ scanned' = scanned
           \/ EndRoot
    PROVE  PosInv'
<1> USE DEF LeaveRoot, removal, setup, world
<1>1. root' = None /\ listing' = Nothing /\ pc' = "root"
  OBVIOUS
<1>2. \A f \in File, r \in scanned' :
         existing[f] # None /\ At(f, existing[f].pan)
         /\ existing[f].pan \in Under[r] => f \in seen
  <2>1. \A f \in File, r \in scanned :
           existing[f] # None /\ At(f, existing[f].pan)
           /\ existing[f].pan \in Under[r] => f \in seen
    BY DEF PosInv, Found, BeforeCommit
  <2>2. CASE EndRoot
    BY <2>1, <2>2 DEF EndRoot, PosInv, Found, Nothing
  <2> QED
    BY <2>1, <2>2
<1>3. Found'
  BY <1>1, <1>2 DEF Found, At
<1>4. Handled'
  BY <1>1 DEF PosInv, Handled, Scanning
<1> QED
  BY <1>1, <1>3, <1>4 DEF PosInv, Departed, Gone, Nothing

LEMMA PosHandle ==
    ASSUME TypeOK, MirrorInv, OwnInv, PosInv, NEW f \in File, HandleFile(f)
    PROVE  PosInv'
<1> USE DEF world, removal, setup
<1>1. CASE WriteFails(f)
  <2>1. /\ LeaveRoot /\ pc = "file" /\ scanned' = scanned
        /\ seen \subseteq seen'
    BY <1>1 DEF WriteFails, CanTake
  <2>2. drive' = drive
    BY <2>1 DEF LeaveRoot
  <2> QED
    BY <2>1, <2>2, PosLeave
<1>2. CASE Take(f) /\ CanTake(f)
           /\ (pending' = pending \/ pending' = [pending EXCEPT ![f] = NewRow(f)])
  <2>1. /\ pc = "file" /\ UNCHANGED <<drive, db, pc, mode, cancel, root, existing,
                                      todo, scanned>>
        /\ seen' = seen \union {f}
        /\ listing' = [listing EXCEPT ![f] = None]
    BY <1>2 DEF Take, CanTake
  <2>2. \A g \in File : \/ pending'[g] = pending[g]
                        \/ g = f /\ pending'[g] = NewRow(f)
    <3>1. pending \in [File -> Row \union {None}]
      BY DEF TypeOK
    <3> HIDE DEF NewRow
    <3> QED
      BY <1>2, <3>1
  <2>3. \A g \in File : listing'[g] = IF g = f THEN None ELSE listing[g]
    BY <2>1 DEF TypeOK
  <2>4. NewRow(f).pan \in Under[root] /\ root \in Root
    BY <1>2 DEF NewRow, OwnInv, Named, CanTake, TypeOK
  <2>5. Departed'
    BY <2>1, <2>3 DEF PosInv, Departed, At
  <2>6. Found'
    BY <2>1, <2>3 DEF PosInv, Found, At, BeforeCommit
  <2>7. Handled'
    <3>1. root \notin todo
      BY <2>1 DEF MirrorInv, RootOnce, Scanning
    <3> HIDE DEF NewRow
    <3>2. ASSUME NEW g \in File, pending'[g] # None
          PROVE  \E r \in Root \ todo :
                    /\ pending'[g].pan \in Under[r]
                    /\ r = root => listing'[g] = None
      <4>1. CASE g = f
        <5>1. CASE pending'[f] = NewRow(f)
          BY <2>3, <2>4, <3>1, <4>1, <5>1
        <5>2. CASE pending'[f] = pending[f]
          BY <2>1, <2>3, <3>2, <4>1, <5>2 DEF PosInv, Handled, Scanning
        <5> QED
          BY <2>2, <5>1, <5>2
      <4>2. CASE g # f
        BY <2>1, <2>2, <2>3, <3>2, <4>2 DEF PosInv, Handled, Scanning
      <4> QED
        BY <4>1, <4>2
    <3> QED
      BY <2>1, <3>2 DEF Handled
  <2> QED
    BY <2>1, <2>5, <2>6, <2>7 DEF PosInv, Gone
<1> QED
  BY <1>1, <1>2 DEF HandleFile, FullFile, NewFile, ChangedFile, MovedFile,
                    UnchangedFile, TakeWithRow

\* Whatever an incremental run puts on its list was known under a root that
\* was walked to its end and is not at the path it was known at.
LEMMA PosGate ==
    ASSUME TypeOK, RunInv, MirrorInv, OwnInv, PosInv, IncrementalGate
    PROVE  PosInv'
<1> USE DEF world, removal, setup, scan
<1>1. /\ pc = "gate" /\ pc' \in {"cleanup", "commit"} /\ mode = "incremental"
      /\ UNCHANGED <<drive, db, mode, existing, listing, seen>>
      /\ listing = Nothing
  BY DEF IncrementalGate, OwnInv, Named
<1>2. ASSUME NEW f \in File, doomed'[f] # None, db[f] # None
      PROVE  ~At(f, db[f].pan)
  <2>1. LeftOverEntry(f)
    BY <1>1, <1>2 DEF IncrementalGate, MirrorInv, Locals, Nothing
  <2>2. existing[f].pan \in Under[existing[f].root] /\ existing[f].pan = db[f].pan
    BY <1>1, <1>2, <2>1 DEF RunInv, ExistingCurrent, BeforeCommit, LeftOverEntry
  <2> QED
    BY <1>1, <2>1, <2>2 DEF PosInv, Found, BeforeCommit, LeftOverEntry
<1>3. Gone'
  BY <1>1, <1>2 DEF Gone, At
<1> QED
  BY <1>1, <1>3 DEF PosInv, Departed, Found, Handled, BeforeCommit, Scanning,
                    Nothing

LEMMA PosAfter ==
    ASSUME TypeOK, RunInv, OwnInv, PosInv,
           \/ FullCommit \/ SweepDone \/ CleanupDone \/ IncrementalCommit
           \/ \E r \in Root : SweepRoot(r)
           \/ \E f \in File : CleanupFirst(f)
           \/ CleanupSecond
    PROVE  PosInv'
<1> USE DEF world, removal, setup, scan
<1>1. /\ pc' \in {"sweep", "cleanup", "commit", "finish"}
      /\ listing' = Nothing
      /\ UNCHANGED <<drive, mode>>
  BY DEF FullCommit, SweepDone, CleanupDone, IncrementalCommit, SweepRoot,
         CleanupFirst, CleanupSecond, OwnInv, Named
<1>2. Gone'
  <2>1. CASE FullCommit \/ SweepDone \/ CleanupDone \/ IncrementalCommit
    BY <2>1 DEF FullCommit, SweepDone, CleanupDone, IncrementalCommit, Gone
  <2>2. CASE \E r \in Root : SweepRoot(r)
    BY <2>2 DEF SweepRoot, Gone, RunInv, SweepsScanned, HalfDoomed
  <2>3. ASSUME NEW f \in File, CleanupFirst(f) PROVE Gone'
    BY <2>3 DEF CleanupFirst, Gone, PosInv, At, TypeOK
  <2>4. CASE CleanupSecond
    BY <2>4 DEF CleanupSecond, Gone, PosInv, At, TypeOK, RunInv, HalfDoomed
  <2> QED
    BY <2>1, <2>2, <2>3, <2>4
<1> QED
  BY <1>1, <1>2 DEF PosInv, Departed, Found, Handled, BeforeCommit, Scanning,
                    Nothing

LEMMA PosInvStep ==
    ASSUME "reuse" \notin Fault, TypeOK, RunInv, SeenInv, MirrorInv, OwnInv,
           PosInv, [Next]_vars
    PROVE  PosInv'
<1> USE DEF world, scan, removal, setup
<1>1. CASE \/ \E f \in File : \/ UserUploads(f) \/ UserMoves(f)
                              \/ UserEdits(f) \/ UserDeletes(f)
           \/ ResetBaseline \/ CancelSync \/ ClientLost \/ ClientRestored
           \/ UNCHANGED vars
  <2>1. /\ UNCHANGED <<pc, mode, todo, root, existing, listing, seen, pending,
                       scanned, doomed, half>>
        /\ db' = db \/ db' = Nothing
    BY <1>1 DEF UserUploads, UserMoves, UserEdits, UserDeletes, Place,
                ResetBaseline, CancelSync, ClientLost, ClientRestored, vars
  <2>2. cancel' = cancel \/ cancel' = TRUE
    BY <1>1, Zenon DEF UserUploads, UserMoves, UserEdits, UserDeletes, Place,
                ResetBaseline, CancelSync, ClientLost, ClientRestored, vars
  <2>3. ~cancel' => ~cancel
    BY <2>2, Zenon
  <2> QED
    BY <2>1, <2>3, PosUntouched
<1>2. CASE FinishSync \/ Crash
  <2>1. /\ pc' = "idle" /\ listing' = Nothing /\ existing' = Nothing
    BY <1>2 DEF FinishSync, Crash, ForgetRun
  <2> QED
    BY <2>1 DEF PosInv, Departed, Found, Gone, Handled, Scanning, Nothing
<1>3. CASE RootFails \/ AbandonRoot \/ EndRoot
  <2>1. /\ LeaveRoot /\ pc \in {"resolve", "list", "file"} /\ drive' = drive
        /\ seen' = seen
        /\ scanned' = scanned \/ EndRoot
    BY <1>3 DEF RootFails, AbandonRoot, EndRoot, LeaveRoot
  <2> QED
    BY <2>1, PosLeave
<1> QED
  BY <1>1, <1>2, <1>3, PosStart, PosBegin, PosWalk, PosHandle, PosGate, PosAfter
     DEF Next, SyncStep, EnvironmentStep

\* Handling a file touches its target and the .strm of its old row only.
LEMMA WritesWhere ==
    ASSUME TypeOK, NEW f \in File, HandleFile(f), NEW s \in Strm,
           s # Target(f), existing[f] # None => s # existing[f].strm
    PROVE  disk'[s] = disk[s]
<1>1. Target(f) \in Strm /\ disk \in DiskType
  BY NewRowType DEF TypeOK, DiskType, HandleFile, FullFile, NewFile,
     ChangedFile, MovedFile, UnchangedFile, WriteFails
<1>2. existing[f] # None => existing[f].strm \in Strm
  BY DEF TypeOK, Entry
<1>3. CASE FullFile(f) \/ NewFile(f)
  BY <1>1, <1>3 DEF FullFile, NewFile, EnsureStrm, DiskType
<1>4. CASE ChangedFile(f)
  <2>1. PICK ok \in DiskOK :
           disk' = RewriteStrm(disk, existing[f].strm, Target(f), f, ok)
    BY <1>4, Zenon DEF ChangedFile
  <2>2. existing[f] # None
    BY <1>4 DEF ChangedFile, IsChanged
  <2> QED
    BY <1>1, <1>2, <2>1, <2>2 DEF RewriteStrm, EnsureStrm, UnlinkStrm, DiskType
<1>5. CASE MovedFile(f)
  <2>1. PICK cleared \in DiskOK, moved \in DiskOK :
           disk' = MigrateStrm(disk, existing[f].strm, Target(f), f, cleared,
                               moved)
    BY <1>5, Zenon DEF MovedFile
  <2>2. existing[f] # None
    BY <1>5 DEF MovedFile, IsMoved
  <2> QED
    BY <1>1, <1>2, <2>1, <2>2 DEF MigrateStrm, EnsureStrm, UnlinkStrm, DiskType
<1>6. CASE UnchangedFile(f)
  BY <1>6 DEF UnchangedFile
<1>7. CASE WriteFails(f)
  BY <1>7, FailedHandling DEF WriteFails
<1> QED
  BY <1>3, <1>4, <1>5, <1>6, <1>7 DEF HandleFile

\* Whoever gets a new row has its link, or a torn one, at the name of that row.
LEMMA TargetWritten ==
    ASSUME TypeOK, OwnInv, NEW f \in File,
           FullFile(f) \/ NewFile(f) \/ ChangedFile(f) \/ MovedFile(f)
    PROVE  disk'[Target(f)] \in {f, Torn}
<1>1. CanTake(f)
  BY DEF FullFile, NewFile, ChangedFile, MovedFile
<1>2. /\ Target(f) \in Strm /\ disk \in DiskType /\ f # None
      /\ disk[Target(f)] # None => disk[Target(f)] \in {f, Torn}
  BY <1>1, TargetClaimed DEF OwnInv, Owners, TypeOK, DiskType
<1>3. existing[f] # None =>
        existing[f].strm \in Strm /\ existing[f].pan \in Pan
  BY DEF TypeOK, Entry
<1>4. existing[f] # None /\ disk[existing[f].strm] # None =>
        disk[existing[f].strm] \in {f, Torn}
  BY <1>3 DEF OwnInv, Owners, Claim
<1>5. CASE FullFile(f) \/ NewFile(f)
  BY <1>2, <1>5 DEF FullFile, NewFile, EnsureStrm, DiskType
<1>6. CASE ChangedFile(f)
  <2>1. PICK ok \in DiskOK :
           disk' = RewriteStrm(disk, existing[f].strm, Target(f), f, ok)
    BY <1>6, Zenon DEF ChangedFile
  <2>2. existing[f] # None
    BY <1>6 DEF ChangedFile, IsChanged
  <2> QED
    BY <1>2, <1>3, <2>1, <2>2 DEF RewriteStrm, EnsureStrm, UnlinkStrm, DiskType
<1>7. CASE MovedFile(f)
  <2>1. PICK cleared \in DiskOK, moved \in DiskOK :
           disk' = MigrateStrm(disk, existing[f].strm, Target(f), f, cleared,
                               moved)
    BY <1>7, Zenon DEF MovedFile
  <2>2. existing[f] # None
    BY <1>7 DEF MovedFile, IsMoved
  <2> QED
    BY <1>2, <1>3, <1>4, <2>1, <2>2
       DEF MigrateStrm, EnsureStrm, UnlinkStrm, DiskType
<1> QED
  BY <1>5, <1>6, <1>7

\* A row's name is used by no other file.
LEMMA NamesApart ==
    ASSUME TypeOK, OwnInv, NEW f \in File, CanTake(f), NEW g \in File, g # f,
           NEW x \in {db[g], pending[g]}, x # None
    PROVE  /\ x.strm \in Strm /\ x.strm # Target(f)
           /\ existing[f] # None => x.strm # existing[f].strm
<1> DEFINE s == x.strm
<1>1. s \in Strm /\ x.pan \in Pan
  BY DEF TypeOK, Row
<1>2. Claim(g, x.pan, s)
  BY DEF Claim
<1>4. s # Target(f)
  BY <1>1, <1>2, TargetClaimed DEF OwnInv, Owners
<1>5. existing[f] # None => s # existing[f].strm
  <2>1. existing[f] # None => existing[f].pan \in Pan
                              /\ Claim(f, existing[f].pan, existing[f].strm)
    BY DEF TypeOK, Entry, Claim
  <2> QED
    BY <1>1, <1>2, <2>1 DEF OwnInv, Owners
<1> QED
  BY <1>1, <1>4, <1>5

\* So handling one file keeps the others'.
LEMMA OthersKept ==
    ASSUME TypeOK, OwnInv, NEW f \in File, HandleFile(f), NEW g \in File, g # f,
           NEW x \in {db[g], pending[g]}, x # None
    PROVE  disk'[x.strm] = disk[x.strm]
<1>1. CanTake(f)
  BY DEF HandleFile, FullFile, NewFile, ChangedFile, MovedFile, UnchangedFile,
         WriteFails
<1> QED
  BY <1>1, NamesApart, WritesWhere

\* Where a row's name meets the names that handling its file touches.
LEMMA RowPlace ==
    ASSUME TypeOK, OwnInv, PosInv, NEW f \in File, CanTake(f),
           NEW x \in {db[f], pending[f]}, x # None, At(f, x.pan),
           InOneRoot(x.pan)
    PROVE  /\ x.strm \in Strm /\ Target(f) \in Strm
           /\ x.strm = Target(f) => x.pan = listing[f].pan
           /\ existing[f] # None /\ x.strm = existing[f].strm =>
                Target(f) = x.strm /\ existing[f].pan = listing[f].pan
<1> DEFINE s == x.strm
           t == Target(f)
           e == existing[f]
<1>1. /\ s \in Strm /\ x.pan \in Pan /\ s \in Names(x.pan)
      /\ Claim(f, x.pan, s)
  BY DEF TypeOK, Row, Claim, OwnInv, Named
<1>3. /\ t \in Strm /\ listing[f].pan \in Pan /\ t \in Names(listing[f].pan)
      /\ Claim(f, listing[f].pan, t)
      /\ root \in Root /\ listing[f].pan \in Under[root]
  BY TargetClaimed DEF CanTake, TypeOK, OwnInv, Named
<1>4. s = t => x.pan = listing[f].pan
  BY <1>1, <1>3 DEF OwnInv, Owners
<1>6. e # None => e.strm \in Strm /\ e.pan \in Pan /\ Claim(f, e.pan, e.strm)
  BY DEF TypeOK, Entry, Claim
<1>7. ASSUME e # None, s = e.strm
      PROVE  t = s /\ e.pan = listing[f].pan
  <2>1. x.pan = e.pan
    BY <1>1, <1>6, <1>7 DEF OwnInv, Owners
  <2>2. listing[f].pan = e.pan
    BY <1>7, <2>1 DEF PosInv, Departed, CanTake
  <2> QED
    BY <1>1, <1>3, <2>1, <2>2 DEF Names, InOneRoot
<1> QED
  BY <1>1, <1>3, <1>4, <1>7

\* A row keeps its .strm while the handling of its file is cut off, if the
\* file is where the row says: at worst the .strm is torn.
LEMMA RowSurvives ==
    ASSUME TypeOK, RunInv, OwnInv, PosInv, NEW f \in File, CanTake(f),
           NEW d \in DiskAfterFailedWrite(f),
           NEW x \in {db[f], pending[f]}, x # None, At(f, x.pan),
           InOneRoot(x.pan), disk[x.strm] \in {f, Torn}
    PROVE  d[x.strm] \in {f, Torn}
<1> DEFINE s == x.strm
           t == Target(f)
           e == existing[f]
<1>1. /\ s \in Strm /\ t \in Strm /\ disk \in DiskType
      /\ s = t => x.pan = listing[f].pan
      /\ e # None /\ s = e.strm => t = s /\ e.pan = listing[f].pan
  BY RowPlace DEF TypeOK, DiskType
<1>2. CASE mode = "full" \/ e = None
  BY <1>1, <1>2, FailedHandling
<1>3. CASE mode # "full" /\ e # None /\ s # t
  BY <1>1, <1>3, FailedHandling
<1>4. CASE mode # "full" /\ e # None /\ s = t
  <2>1. ~IsMoved(f)
    <3>1. x = db[f] => x.pan = e.pan
      BY <1>4 DEF RunInv, ExistingCurrent, BeforeCommit, CanTake
    <3>2. x = pending[f] => x.pan # listing[f].pan
      <4>1. root \in Root /\ listing[f].pan \in Under[root] /\ x.pan \in Pan
        BY DEF CanTake, TypeOK, OwnInv, Named, Row
      <4> QED
        BY <4>1 DEF PosInv, Handled, Scanning, CanTake, InOneRoot
    <3> QED
      BY <1>1, <1>4, <3>1, <3>2 DEF IsMoved
  <2>2. IsChanged(f) /\ \E ok \in DiskOK :
           d \in FailedEnsure(IF e.strm # t THEN UnlinkStrm(disk, e.strm, ok)
                             ELSE disk, t, TRUE)
    <3>1. mode # "full" /\ ~IsNew(f)
      BY <1>4 DEF IsNew
    <3>2. IsChanged(f)
      BY <2>1, <3>1, Zenon DEF DiskAfterFailedWrite
    <3>3. d \in UNION {FailedEnsure(IF e.strm # t THEN UnlinkStrm(disk, e.strm, ok)
                                    ELSE disk, t, TRUE) : ok \in DiskOK}
      BY <3>1, <3>2, Zenon DEF DiskAfterFailedWrite
    <3> QED
      BY <3>2, <3>3
  <2>3. PICK ok \in DiskOK :
           d \in FailedEnsure(IF e.strm # t THEN UnlinkStrm(disk, e.strm, ok)
                             ELSE disk, t, TRUE)
    BY <2>2
  <2> DEFINE c == IF e.strm # t THEN UnlinkStrm(disk, e.strm, ok) ELSE disk
  <2>4. e.strm \in Strm
    BY <1>4 DEF TypeOK, Entry
  <2>5. c \in DiskType /\ c[t] = disk[t]
    BY <1>1, <2>4 DEF UnlinkStrm, DiskType
  <2>6. d = c \/ d = [c EXCEPT ![t] = Torn]
    BY <2>3 DEF FailedEnsure
  <2> HIDE DEF c, t
  <2>7. d[t] = c[t] \/ d[t] = Torn
    BY <1>1, <2>5, <2>6 DEF DiskType
  <2> QED
    BY <1>4, <2>5, <2>7
<1> QED
  BY <1>2, <1>3, <1>4

\* The row that a file has, or waits for, keeps its .strm while the file is
\* handled again, if the file is where the row says.
LEMMA RowKept ==
    ASSUME TypeOK, RunInv, OwnInv, PosInv, NEW f \in File, HandleFile(f),
           NEW x \in {db[f], pending[f]}, x # None, At(f, x.pan),
           InOneRoot(x.pan), disk[x.strm] \in {f, Torn}
    PROVE  disk'[x.strm] \in {f, Torn}
<1> DEFINE s == x.strm
           t == Target(f)
           e == existing[f]
<1>2. CanTake(f)
  BY DEF HandleFile, FullFile, NewFile, ChangedFile, MovedFile, UnchangedFile,
         WriteFails
<1>1. /\ s \in Strm /\ t \in Strm /\ disk \in DiskType
      /\ e # None /\ s = e.strm => t = s
  BY <1>2, RowPlace DEF TypeOK, DiskType
<1>4. CASE FullFile(f) \/ NewFile(f)
  BY <1>1, <1>4 DEF FullFile, NewFile, EnsureStrm, DiskType
<1>5. CASE UnchangedFile(f)
  BY <1>5 DEF UnchangedFile
<1>8. CASE ChangedFile(f) \/ MovedFile(f)
  <2>1. disk'[t] \in {f, Torn}
    BY <1>8, TargetWritten
  <2>2. e # None
    BY <1>8 DEF ChangedFile, MovedFile, IsChanged, IsMoved
  <2>3. CASE s = t
    BY <2>1, <2>3
  <2>4. CASE s # t
    BY <1>1, <2>2, <2>4, WritesWhere
  <2> QED
    BY <2>3, <2>4
<1>9. CASE WriteFails(f)
  BY <1>2, <1>9, RowSurvives DEF WriteFails
<1> QED
  BY <1>4, <1>5, <1>8, <1>9 DEF HandleFile

\* Steps that leave disk and rows alone.
LEMMA BackUntouched ==
    ASSUME "reuse" \notin Fault, TypeOK, OwnInv, Backed, [Next]_vars,
           UNCHANGED <<disk, pending, mode, seen>>,
           \/ db' = db
           \/ db' = Nothing /\ quiet' = FALSE,
           \/ pc' = pc /\ (Sound' => Sound)
           \/ pc' \notin {"sweep", "cleanup", "finish"}
    PROVE  Backed'
<1>1. ASSUME NEW f \in File, NEW x \in {db[f], pending[f]}, x # None,
             At(f, x.pan)', InOneRoot(x.pan)
      PROVE  disk[x.strm] \in {f, Torn}
  <2>1. At(f, x.pan)
    BY <1>1, NoReturnToRow
  <2>2. Backs(x, f)
    BY <1>1 DEF Backed
  <2> QED
    BY <1>1, <2>1, <2>2 DEF Backs
<1>2. ASSUME NEW f \in File
      PROVE  Backs(db[f], f)' /\ Backs(pending[f], f)'
  <2>1. Backs(pending[f], f)'
    BY <1>1 DEF Backs, At, InOneRoot
  <2>2. CASE db' = db
    BY <1>1, <2>1, <2>2 DEF Backs, At, InOneRoot
  <2>3. CASE db' = Nothing
    BY <2>1, <2>3 DEF Backs, Nothing
  <2> QED
    BY <2>1, <2>2, <2>3
<1>3. (mode = "full" => \A f \in File :
          pending[f] # None => disk[pending[f].strm] \in {f, Torn})'
  BY DEF Backed
<1>4. (Sound /\ mode = "full" /\ pc \in {"sweep", "cleanup", "finish"} =>
          \A f \in seen : db[f] = pending[f])'
  <2>1. CASE quiet' = FALSE
    BY <2>1 DEF Sound
  <2>2. CASE quiet' # FALSE
    BY <2>2 DEF Backed
  <2> QED
    BY <2>1, <2>2
<1> QED
  BY <1>2, <1>3, <1>4 DEF Backed

LEMMA BackHandle ==
    ASSUME TypeOK, RunInv, OwnInv, PosInv, Backed, NEW f \in File,
           HandleFile(f)
    PROVE  Backed'
<1> USE DEF world, removal, setup
<1>1. /\ CanTake(f) /\ pc' \in {"file", "root"}
      /\ UNCHANGED <<drive, db, mode>>
      /\ \/ /\ pending' = [pending EXCEPT ![f] = NewRow(f)]
            /\ FullFile(f) \/ NewFile(f) \/ ChangedFile(f) \/ MovedFile(f)
         \/ pending' = pending /\ (UnchangedFile(f) \/ WriteFails(f))
  BY DEF HandleFile, FullFile, NewFile, ChangedFile, MovedFile, UnchangedFile,
         WriteFails, TakeWithRow, Take, LeaveRoot, CanTake
<1>2. \A g \in File : \/ pending'[g] = pending[g]
                      \/ g = f /\ pending'[g] = NewRow(f) /\ disk'[Target(f)] \in {f, Torn}
  <2>1. pending \in [File -> Row \union {None}]
    BY DEF TypeOK
  <2>2. pending' # pending => disk'[Target(f)] \in {f, Torn}
    BY <1>1, TargetWritten
  <2> HIDE DEF NewRow
  <2> QED
    BY <1>1, <2>1, <2>2
<1>3. NewRow(f).strm = Target(f)
  BY DEF NewRow
<1>4. ASSUME NEW g \in File, NEW x \in {db[g], pending[g]}, x # None,
             At(g, x.pan), InOneRoot(x.pan)
      PROVE  disk'[x.strm] \in {g, Torn}
  <2>1. disk[x.strm] \in {g, Torn}
    BY <1>4 DEF Backed, Backs
  <2>2. CASE g = f
    BY <1>4, <2>1, <2>2, RowKept
  <2>3. CASE g # f
    BY <1>4, <2>1, <2>3, OthersKept
  <2> QED
    BY <2>2, <2>3
<1>5. ASSUME NEW g \in File
      PROVE  Backs(db[g], g)' /\ Backs(pending[g], g)'
  <2>1. Backs(db[g], g)'
    BY <1>1, <1>4 DEF Backs, At, InOneRoot
  <2>2. CASE pending'[g] = pending[g]
    BY <1>1, <1>4, <2>1, <2>2 DEF Backs, At, InOneRoot
  <2>3. CASE g = f /\ pending'[g] = NewRow(f) /\ disk'[Target(f)] \in {f, Torn}
    BY <1>3, <2>1, <2>3 DEF Backs
  <2> QED
    BY <1>2, <2>1, <2>2, <2>3
<1>6. ASSUME mode = "full", NEW g \in File, pending'[g] # None
      PROVE  disk'[pending'[g].strm] \in {g, Torn}
  <2>1. CASE pending'[g] = pending[g]
    <3>1. disk[pending[g].strm] \in {g, Torn} /\ pending[g] # None
      BY <1>6, <2>1 DEF Backed
    <3>2. CASE g # f
      BY <2>1, <3>1, <3>2, OthersKept
    <3>3. CASE g = f
      <4>1. pending[f].strm \in Strm /\ disk \in DiskType
        BY <3>1, <3>3 DEF TypeOK, Row, DiskType
      <4>2. CASE FullFile(f)
        <5>1. Target(f) \in Strm
          BY <1>1, TargetClaimed
        <5> QED
          BY <2>1, <3>1, <3>3, <4>1, <4>2, <5>1 DEF FullFile, EnsureStrm, DiskType
      <4>3. CASE WriteFails(f)
        BY <1>1, <1>6, <2>1, <3>1, <3>3, <4>1, <4>3, FailedHandling DEF WriteFails
      <4> QED
        BY <1>6, <4>2, <4>3 DEF HandleFile, NewFile, ChangedFile, MovedFile,
                                UnchangedFile
    <3> QED
      BY <3>2, <3>3
  <2>2. CASE g = f /\ pending'[g] = NewRow(f) /\ disk'[Target(f)] \in {f, Torn}
    BY <1>3, <2>2
  <2> QED
    BY <1>2, <2>1, <2>2
<1> QED
  BY <1>1, <1>5, <1>6 DEF Backed

\* The commit makes rows of what waited.
LEMMA BackCommit ==
    ASSUME TypeOK, MirrorInv, Backed, FullCommit \/ IncrementalCommit
    PROVE  Backed'
<1> USE DEF world, removal, setup, scan
<1>1. /\ UNCHANGED <<drive, disk, mode, cancel, quiet, seen, pending, root,
                     scanned>>
      /\ \A f \in File : db'[f] \in {db[f], pending[f]}
      /\ pc' # "idle" /\ pc \in {"gate", "commit"}
      /\ mode = "full" => FullCommit
  BY DEF FullCommit, IncrementalCommit, Upserted, MirrorInv, Locals
<1>2. ASSUME NEW f \in File
      PROVE  Backs(db[f], f)' /\ Backs(pending[f], f)'
  <2>1. Backs(db[f], f) /\ Backs(pending[f], f)
    BY DEF Backed
  <2> QED
    BY <1>1, <2>1 DEF Backs, At, InOneRoot
<1>3. ASSUME Sound', mode = "full", NEW f \in seen
      PROVE  db'[f] = pending[f]
  <2>1. FullCommit
    BY <1>1, <1>3
  <2>2. ~cancel /\ db' = Upserted
    BY <1>1, <1>3, <2>1, NothingUpserted DEF FullCommit, Sound
  <2>3. Sound
    BY <1>1, <1>3, <2>1, <2>2 DEF FullCommit, Sound, MirrorInv, RootOnce, Scanning
  <2>4. pending[f] # None
    BY <1>3, <2>3 DEF MirrorInv, SeenHandled
  <2> QED
    BY <1>3, <2>2, <2>4 DEF Upserted, TypeOK
<1> QED
  BY <1>1, <1>2, <1>3 DEF Backed

\* A removal hits the .strm of a file without a row, or with a row that the
\* file is not at, and never one of another file.
LEMMA BackUnlink ==
    ASSUME TypeOK, RunInv, MirrorInv, OwnInv, Backed, pc = "cleanup",
           NEW f \in File, doomed[f] # None, NEW ok,
           disk' = UnlinkStrm(disk, doomed[f], ok),
           db[f] = None \/ ~At(f, db[f].pan),
           UNCHANGED <<drive, db, pc, mode, cancel, quiet, todo, root, seen,
                       pending, scanned>>
    PROVE  Backed'
<1>1. doomed[f] \in Strm /\ f \notin seen /\ pending[f] = None
  BY DEF TypeOK, RunInv, DoomedLeftOver, MirrorInv, Locals
<1>2. \A s \in Strm : s # doomed[f] => disk'[s] = disk[s]
  BY <1>1 DEF UnlinkStrm, TypeOK
<1>3. ASSUME NEW g \in File, NEW x \in {db[g], pending[g]}, x # None,
             x.strm = doomed[f]
      PROVE  g = f
  <2>1. x.pan \in Pan /\ Claim(g, x.pan, x.strm)
    BY <1>3 DEF TypeOK, Row, Claim
  <2> QED
    BY <1>1, <1>3, <2>1 DEF OwnInv, Owners
<1>4. ASSUME NEW g \in File
      PROVE  Backs(db[g], g)' /\ Backs(pending[g], g)'
  <2>1. db[g] # None => db[g].strm \in Strm
    BY DEF TypeOK, Row
  <2>2. pending[g] # None => pending[g].strm \in Strm
    BY DEF TypeOK, Row
  <2>3. Backs(db[g], g) /\ Backs(pending[g], g)
    BY DEF Backed
  <2>4. Backs(pending[g], g)'
    BY <1>1, <1>2, <1>3, <2>2, <2>3 DEF Backs, At, InOneRoot
  <2>5. Backs(db[g], g)'
    BY <1>2, <1>3, <2>1, <2>3 DEF Backs, At, InOneRoot
  <2> QED
    BY <2>4, <2>5
<1>5. ASSUME mode = "full", NEW g \in File, pending[g] # None
      PROVE  disk'[pending[g].strm] \in {g, Torn}
  <2>1. pending[g].strm \in Strm /\ disk[pending[g].strm] \in {g, Torn}
    BY <1>5 DEF TypeOK, Row, Backed
  <2> QED
    BY <1>1, <1>2, <1>3, <1>5, <2>1
<1> QED
  BY <1>4, <1>5 DEF Backed, Sound

LEMMA BackRemoveRow ==
    ASSUME TypeOK, RunInv, Backed, pc = "cleanup", NEW f \in File,
           doomed[f] # None, db' = [db EXCEPT ![f] = None],
           UNCHANGED <<drive, disk, pc, mode, cancel, quiet, todo, root, seen,
                       pending, scanned>>
    PROVE  Backed'
<1>1. f \notin seen
  BY DEF RunInv, DoomedLeftOver
<1>2. \A g \in File : db'[g] = IF g = f THEN None ELSE db[g]
  BY DEF TypeOK
<1>3. ASSUME NEW g \in File
      PROVE  Backs(db[g], g)' /\ Backs(pending[g], g)'
  <2>1. Backs(db[g], g) /\ Backs(pending[g], g)
    BY DEF Backed
  <2> QED
    BY <1>2, <2>1 DEF Backs, At, InOneRoot
<1>4. Sound /\ mode = "full" => \A g \in seen : db'[g] = pending[g]
  BY <1>1, <1>2 DEF Backed, TypeOK
<1> QED
  BY <1>3, <1>4 DEF Backed, Sound

LEMMA BackCleanup ==
    ASSUME TypeOK, RunInv, MirrorInv, OwnInv, PosInv, Backed,
           \/ \E f \in File : CleanupFirst(f)
           \/ CleanupSecond
    PROVE  Backed'
<1> USE DEF world, setup, scan
<1>1. ASSUME NEW f \in File, CleanupFirst(f), mode = "full" PROVE Backed'
  BY <1>1, BackRemoveRow DEF CleanupFirst
<1>2. ASSUME NEW f \in File, CleanupFirst(f), mode # "full" PROVE Backed'
  <2>1. db[f] = None \/ ~At(f, db[f].pan)
    BY <1>2 DEF PosInv, Gone, TypeOK, CleanupFirst
  <2>2. PICK ok \in DiskOK : disk' = UnlinkStrm(disk, doomed[f], ok)
    BY <1>2 DEF CleanupFirst
  <2> QED
    BY <1>2, <2>1, <2>2, BackUnlink DEF CleanupFirst
<1>3. CASE CleanupSecond
  <2>1. half \in File /\ doomed[half] # None
    BY <1>3 DEF CleanupSecond, RunInv, HalfDoomed
  <2>2. CASE mode = "full"
    <3>1. db[half] = None
      BY <1>3, <2>2 DEF PosInv, Gone, CleanupSecond
    <3>2. PICK ok \in DiskOK : disk' = UnlinkStrm(disk, doomed[half], ok)
      BY <1>3, <2>2 DEF CleanupSecond
    <3> QED
      BY <1>3, <2>1, <2>2, <3>1, <3>2, BackUnlink DEF CleanupSecond
  <2>3. CASE mode # "full"
    BY <1>3, <2>1, <2>3, BackRemoveRow DEF CleanupSecond
  <2> QED
    BY <2>2, <2>3
<1> QED
  BY <1>1, <1>2, <1>3

\* A run that is over keeps the rows and forgets what waited.
LEMMA BackEnds ==
    ASSUME TypeOK, RunInv, OwnInv, PosInv, Backed, FinishSync \/ Crash
    PROVE  Backed'
<1>1. /\ UNCHANGED <<drive, db>> /\ pc' = "idle" /\ pending' = Nothing
      /\ \/ UNCHANGED disk
         \/ \E f \in File : CanTake(f) /\ disk' \in DiskAfterFailedWrite(f)
  BY DEF FinishSync, Crash, ForgetRun, world
<1>2. ASSUME NEW g \in File, db[g] # None, At(g, db[g].pan),
             InOneRoot(db[g].pan)
      PROVE  disk'[db[g].strm] \in {g, Torn}
  <2>1. disk[db[g].strm] \in {g, Torn}
    BY <1>2 DEF Backed, Backs
  <2>2. ASSUME NEW f \in File, CanTake(f), disk' \in DiskAfterFailedWrite(f)
        PROVE  disk'[db[g].strm] \in {g, Torn}
    <3>1. CASE g = f
      BY <1>2, <2>1, <2>2, <3>1, RowSurvives
    <3>2. CASE g # f
      BY <1>2, <2>1, <2>2, <3>2, NamesApart, FailedHandling
    <3> QED
      BY <3>1, <3>2
  <2> QED
    BY <1>1, <2>1, <2>2
<1> QED
  BY <1>1, <1>2 DEF Backed, Backs, At, InOneRoot, Nothing

LEMMA BackedStep ==
    ASSUME "reuse" \notin Fault, TypeOK, RunInv, MirrorInv, OwnInv, PosInv,
           Backed, [Next]_vars
    PROVE  Backed'
<1> USE DEF world, scan, removal, setup
<1>1. ASSUME \/ \E f \in File : \/ UserUploads(f) \/ UserMoves(f)
                                \/ UserEdits(f) \/ UserDeletes(f)
             \/ ResetBaseline
      PROVE  Backed'
  <2>1. /\ UNCHANGED <<disk, pending, mode, seen, pc>>
        /\ db' = db \/ db' = Nothing
    BY <1>1 DEF UserUploads, UserMoves, UserEdits, UserDeletes, Place,
                ResetBaseline
  <2>2. quiet' = FALSE
    BY <1>1, Zenon DEF UserUploads, UserMoves, UserEdits, UserDeletes, Place,
                       ResetBaseline
  <2>3. ~Sound'
    BY <2>2 DEF Sound
  <2> QED
    BY <2>1, <2>2, <2>3, BackUntouched
<1>2. ASSUME CancelSync \/ ClientLost \/ ClientRestored \/ UNCHANGED vars
      PROVE  Backed'
  <2>1. UNCHANGED <<disk, db, pending, mode, seen, pc, todo, root, scanned>>
    BY <1>2 DEF CancelSync, ClientLost, ClientRestored, vars
  <2>2. quiet' = quiet /\ (cancel' = cancel \/ cancel' = TRUE)
    BY <1>2, Zenon DEF CancelSync, ClientLost, ClientRestored, vars
  <2>3. Sound' => Sound
    BY <2>1, <2>2 DEF Sound
  <2> QED
    BY <2>1, <2>3, BackUntouched
<1>3. ASSUME \/ \E r \in Root : BeginRoot(r)
             \/ EndScan \/ ResolveRoot \/ ListRoot \/ IncrementalGate
             \/ RootFails \/ AbandonRoot \/ EndRoot
      PROVE  Backed'
  <2>1. /\ UNCHANGED <<drive, disk, db, pending, mode, seen>>
        /\ pc' \notin {"sweep", "finish"}
        /\ pc' = "cleanup" => mode = "incremental"
    BY <1>3 DEF BeginRoot, EndScan, ResolveRoot, ListRoot, IncrementalGate,
                RootFails, AbandonRoot, EndRoot, LeaveRoot
  <2> QED
    BY <2>1 DEF Backed, Backs, At, InOneRoot
<1>4. ASSUME NEW m \in Mode, NEW o \in Option, StartSync(m, o)
      PROVE  Backed'
  <2>1. /\ UNCHANGED <<drive, disk, db, pending>> /\ pc' = "root"
        /\ pending = Nothing
    BY <1>4 DEF StartSync, MirrorInv, Locals
  <2>2. \A f \in File : Backs(db[f], f)
    BY DEF Backed
  <2> QED
    BY <2>1, <2>2 DEF Backed, Backs, At, InOneRoot, Nothing
<1>5. ASSUME \/ \E r \in Root : SweepRoot(r)
             \/ SweepDone \/ CleanupDone
      PROVE  Backed'
  <2>1. /\ UNCHANGED <<drive, disk, db, pending, mode, seen, cancel, quiet,
                       root, scanned>>
        /\ pc \in {"sweep", "cleanup"}
        /\ todo' \subseteq todo
    BY <1>5 DEF SweepRoot, SweepDone, CleanupDone
  <2>2. Sound' => Sound
    BY <2>1 DEF Sound
  <2> QED
    BY <2>1, <2>2 DEF Backed, Backs, At, InOneRoot
<1> QED
  BY <1>1, <1>2, <1>3, <1>4, <1>5, BackHandle, BackCommit, BackCleanup,
     BackEnds DEF Next, SyncStep, EnvironmentStep

\* The end of a clean run: each row that is spoken of is where its file is.
LEMMA RowsBackedStep ==
    ASSUME TypeOK, SeenInv, MirrorInv, OwnInv, Backed, TableMirrorsDrive',
           RowsBackedByDisk, [Next]_vars
    PROVE  RowsBackedByDisk'
<1> SUFFICES ASSUME pc' = "idle", quiet', outcome' \in {"full", "incremental"}
             PROVE  RowsBackedByDisk'
  BY DEF RowsBackedByDisk
<1>1. CASE UNCHANGED <<pc, drive, disk, db, quiet, outcome>>
  BY <1>1 DEF RowsBackedByDisk, InScope, In, InOneRoot
<1>2. CASE FinishSync
  <2> USE DEF world, setup
  <2>1. /\ pc = "finish" /\ quiet
        /\ UNCHANGED <<drive, disk, db, mode>>
        /\ outcome' = IF cancel \/ scanned # Root THEN "partial" ELSE mode
    BY <1>2 DEF FinishSync
  <2>2. ASSUME outcome' = "full", NEW f \in File, InScope(drive[f])
        PROVE  disk[db[f].strm] \in {f, Torn}
    <3>1. Sound /\ scanned = Root /\ mode = "full"
      BY <2>1, <2>2 DEF Sound, TypeOK
    <3>2. f \in seen
      BY <2>1, <2>2, <3>1 DEF InScope, SeenInv, ScannedSeen
    <3>3. pending[f] # None
      BY <3>1, <3>2 DEF MirrorInv, SeenHandled
    <3> QED
      BY <2>1, <3>1, <3>2, <3>3 DEF Backed
  <2>3. ASSUME outcome' = "incremental", NEW f \in File, db[f] # None,
               InOneRoot(db[f].pan)
        PROVE  disk[db[f].strm] \in {f, Torn}
    <3>1. PICK r \in Root : db[f].pan \in Under[r]
      BY <2>3 DEF OwnInv, Named, Names
    <3>2. InScope(db[f])
      BY <2>3, <3>1 DEF InScope, In
    <3>3. InScope(drive[f]) /\ db[f].pan = drive[f].pan
      BY <2>1, <2>3, <3>2 DEF TableMirrorsDrive, InScope, In
    <3>4. At(f, db[f].pan)
      BY <3>3 DEF At, InScope, In
    <3> QED
      BY <2>3, <3>4 DEF Backed, Backs
  <2> QED
    BY <2>1, <2>2, <2>3 DEF RowsBackedByDisk, InScope, In, InOneRoot
<1> QED
  BY <1>1, <1>2, WhoEnds

\* While no path is taken twice, names keep their owner.
LEMMA OwnInvHolds ==
    ASSUME "reuse" \notin Fault
    PROVE  Spec => []OwnInv
<1>1. Init => OwnInv
  BY DEF Init, OwnInv, Owners, NamesUsed, Named, Claim, At, Nothing
<1>2. TypeOK /\ OwnInv /\ [Next]_vars => OwnInv'
  BY OwnInvStep
<1> QED
  BY <1>1, <1>2, TypeCorrect, PTL DEF Spec

\* While a client is there and no path is taken twice, what a clean run leaves
\* in the table has its .strm: after a full run each file in scope at the name
\* in its row, after an incremental run each row whose path lies in one root
\* only, whatever was cancelled, failed or crashed before.  The .strm holds
\* that file's link, or was emptied by a write of some run that was cut off;
\* it never holds another file's.
THEOREM CleanRunPlays ==
    ASSUME "clientlost" \notin Fault, "reuse" \notin Fault
    PROVE  Spec => []RowsBackedByDisk
<1>1. Init => PosInv
  BY DEF Init, PosInv, Departed, Found, Gone, Handled, Scanning, Nothing
<1>2. Init => Backed /\ RowsBackedByDisk
  BY DEF Init, Backed, Backs, RowsBackedByDisk, Nothing
<1>3. TypeOK /\ RunInv /\ SeenInv /\ MirrorInv /\ OwnInv /\ PosInv
      /\ [Next]_vars => PosInv'
  BY PosInvStep
<1>4. TypeOK /\ RunInv /\ MirrorInv /\ OwnInv /\ PosInv /\ Backed
      /\ [Next]_vars => Backed'
  BY BackedStep
<1>5. TypeOK /\ SeenInv /\ MirrorInv /\ OwnInv /\ Backed /\ TableMirrorsDrive'
      /\ RowsBackedByDisk /\ [Next]_vars => RowsBackedByDisk'
  BY RowsBackedStep
<1> QED
  BY <1>1, <1>2, <1>3, <1>4, <1>5, TypeCorrect, RunInvHolds, SeenInvHolds,
     MirrorInvHolds, OwnInvHolds, CleanRunMirrors, PTL DEF Spec

-----------------------------------------------------------------------------
(***************************************************************************)
(* No link is left over.  With one mapping and runs that are neither       *)
(* cancelled nor crash nor fail to remove a .strm, a file's old .strm goes *)
(* in the step that makes its new row, so that at every moment each .strm  *)
(* on disk that holds a link is that of a row, in the table or waiting.    *)
(* Failing scans, a lost client and paths taken again do no harm; failing  *)
(* writes leave empty .strm files without a row (Torn), and no links.      *)
(***************************************************************************)

\* What is assumed of the instance.
NothingInterrupts ==
    /\ \A q, r \in Root : q = r
    /\ Mode \subseteq {"incremental"}
    /\ Fault \subseteq {"scanfail", "clientlost", "reuse"}

\* Each link on disk is that of a row, in the table or waiting.
Covered ==
    \A s \in Strm : disk[s] \in File =>
        \E f \in File : Upserted[f] # None /\ Upserted[f].strm = s

\* A file gets at most one new row in a run.
OneVisit ==
    Scanning => \A f \in File : pending[f] # None =>
        todo = {} /\ pc \in {"root", "file"} /\ listing[f] = None

\* A full run starts on an empty table and finds nothing to clean up.
FirstRun ==
    mode = "full" /\ pc # "idle" =>
        /\ BeforeCommit => db = Nothing
        /\ doomed = Nothing
        /\ \A f \in File : db[f] # None => f \in seen

\* Rows lie in the mapping, and so does what is listed.
InMapping ==
    /\ \A f \in File : \A x \in {db[f], pending[f]} : x # None => InScope(x)
    /\ \A f \in File : listing[f] # None =>
          root # None /\ listing[f].pan \in Under[root]

\* What was loaded, and what is to be removed, is named as in the table.
NamedByTable ==
    /\ BeforeCommit => \A f \in File : existing[f] # None =>
          db[f] # None /\ db[f].strm = existing[f].strm
    /\ pc = "cleanup" => \A f \in File : doomed[f] # None =>
          db[f] # None /\ db[f].strm = doomed[f]

\* A removal that is half done has done the half that concerns the disk.
HalfRemoved == half # None => disk[doomed[half]] = None /\ mode = "incremental"

\* What waited for the commit is in the table after it.
Written ==
    Committed => \A f \in File : pending[f] # None => db[f] = pending[f]

CoverInv ==
    /\ cancel = FALSE /\ Covered /\ OneVisit /\ FirstRun /\ InMapping
    /\ NamedByTable /\ HalfRemoved /\ Written

\* A link that is there after a file was handled was there before or is the
\* file's new one; a file with a new row has lost its old one.
LEMMA HandleWrites ==
    ASSUME TypeOK, "unlinkfail" \notin Fault, NEW f \in File, HandleFile(f),
           NEW s \in Strm, disk'[s] \in File
    PROVE  \/ pending' = pending /\ disk[s] \in File
           \/ /\ pending' = [pending EXCEPT ![f] = NewRow(f)]
              /\ \/ s = Target(f)
                 \/ /\ disk[s] \in File
                    /\ \/ mode = "full"
                       \/ existing[f] = None
                       \/ s # existing[f].strm
<1>1. Target(f) \in Strm /\ disk \in DiskType /\ DiskOK = {TRUE}
  BY NewRowType DEF TypeOK, DiskType, HandleFile, FullFile, NewFile,
     ChangedFile, MovedFile, UnchangedFile, WriteFails, DiskOK
<1>2. existing[f] # None => existing[f].strm \in Strm
  BY DEF TypeOK, Entry
<1>3. CASE FullFile(f) \/ NewFile(f)
  <2>1. /\ disk' = EnsureStrm(disk, Target(f), f, FALSE)
        /\ pending' = [pending EXCEPT ![f] = NewRow(f)]
        /\ mode = "full" \/ existing[f] = None
    BY <1>3 DEF FullFile, NewFile, TakeWithRow, IsNew
  <2>2. s = Target(f) \/ disk[s] \in File
    BY <1>1, <2>1 DEF EnsureStrm, DiskType
  <2> QED
    BY <2>1, <2>2
<1>4. CASE ChangedFile(f)
  <2>1. /\ disk' = RewriteStrm(disk, existing[f].strm, Target(f), f, TRUE)
        /\ pending' = [pending EXCEPT ![f] = NewRow(f)]
    BY <1>1, <1>4 DEF ChangedFile, TakeWithRow
  <2>2. existing[f] # None
    BY <1>4 DEF ChangedFile, IsChanged
  <2>3. s = Target(f) \/ (disk[s] \in File /\ s # existing[f].strm)
    BY <1>1, <1>2, <2>1, <2>2 DEF RewriteStrm, EnsureStrm, UnlinkStrm, DiskType
  <2> QED
    BY <2>1, <2>3
<1>5. CASE MovedFile(f)
  <2>1. /\ disk' = MigrateStrm(disk, existing[f].strm, Target(f), f, TRUE, TRUE)
        /\ pending' = [pending EXCEPT ![f] = NewRow(f)]
    BY <1>1, <1>5 DEF MovedFile, TakeWithRow
  <2>2. existing[f] # None
    BY <1>5 DEF MovedFile, IsMoved
  <2>3. s = Target(f) \/ (disk[s] \in File /\ s # existing[f].strm)
    BY <1>1, <1>2, <2>1, <2>2 DEF MigrateStrm, EnsureStrm, DiskType
  <2> QED
    BY <2>1, <2>3
<1>6. CASE UnchangedFile(f)
  BY <1>6 DEF UnchangedFile
<1>7. CASE WriteFails(f)
  <2>1. CanTake(f) /\ pending' = pending /\ disk' \in DiskAfterFailedWrite(f)
    BY <1>7 DEF WriteFails, LeaveRoot
  <2> QED
    BY <2>1, FailedHandling
<1> QED
  BY <1>3, <1>4, <1>5, <1>6, <1>7 DEF HandleFile

\* A listed file that has a row had it loaded, under the same name.
LEMMA RowLoaded ==
    ASSUME NothingInterrupts, TypeOK, MirrorInv, CoverInv, NEW f \in File,
           CanTake(f), db[f] # None
    PROVE  mode = "incremental" /\ existing[f] # None
           /\ existing[f].strm = db[f].strm
<1>1. BeforeCommit /\ pc # "idle" /\ root \in Root
  BY DEF CanTake, BeforeCommit, TypeOK
<1>2. mode = "incremental"
  BY <1>1 DEF CoverInv, FirstRun, Nothing, TypeOK
<1>3. PICK r \in Root : In(db[f], r)
  BY DEF CoverInv, InMapping, InScope
<1>4. RowUnder(f, root)
  BY <1>1, <1>3 DEF NothingInterrupts, RowUnder
<1>5. root # None
  BY <1>1, NoneAssumption
<1>6. existing[f] # None
  BY <1>1, <1>2, <1>4, <1>5 DEF MirrorInv, ExistingTrue
<1> QED
  BY <1>1, <1>2, <1>6 DEF CoverInv, NamedByTable

\* Handling a file.
LEMMA CoverHandle ==
    ASSUME NothingInterrupts, TypeOK, RunInv, MirrorInv, CoverInv,
           NEW f \in File, HandleFile(f)
    PROVE  CoverInv'
<1> USE DEF world, removal, setup
<1>1. /\ CanTake(f) /\ pc' \in {"file", "root"} /\ "unlinkfail" \notin Fault
      /\ UNCHANGED <<db, mode, todo, existing, doomed, half>>
      /\ seen \subseteq seen' /\ cancel' = cancel
  BY DEF HandleFile, FullFile, NewFile, ChangedFile, MovedFile, UnchangedFile,
         WriteFails, TakeWithRow, Take, LeaveRoot, CanTake, NothingInterrupts
<1>2. /\ pc = "file" /\ root \in Root /\ listing[f] # None
      /\ pending[f] = None
  BY <1>1 DEF CanTake, TypeOK, CoverInv, OneVisit, Scanning
<1>3. todo = {}
  BY <1>2 DEF MirrorInv, RootOnce, Scanning, NothingInterrupts, TypeOK
<1>4. \A g \in File : g # f => pending'[g] = pending[g]
  <2>1. \/ pending' = pending
        \/ pending' = [pending EXCEPT ![f] = NewRow(f)]
    BY DEF HandleFile, FullFile, NewFile, ChangedFile, MovedFile,
           UnchangedFile, WriteFails, TakeWithRow, LeaveRoot
  <2> HIDE DEF NewRow
  <2> QED
    BY <2>1 DEF TypeOK
<1>5. \/ pending' = pending
      \/ pending'[f] = NewRow(f) /\ InScope(NewRow(f))
         /\ NewRow(f).strm = Target(f)
  <2>1. InScope(NewRow(f)) /\ NewRow(f).strm = Target(f)
    BY <1>2, NoRecordAssumption, NewRowType
       DEF CoverInv, InMapping, NewRow, InScope, In, CanTake
  <2>2. \/ pending' = pending
        \/ pending' = [pending EXCEPT ![f] = NewRow(f)]
    BY DEF HandleFile, FullFile, NewFile, ChangedFile, MovedFile,
           UnchangedFile, WriteFails, TakeWithRow, LeaveRoot
  <2> HIDE DEF NewRow
  <2> QED
    BY <2>1, <2>2 DEF TypeOK
<1>6. ASSUME NEW s \in Strm, disk'[s] \in File
      PROVE  \E g \in File : Upserted'[g] # None /\ Upserted'[g].strm = s
  <2>1. \A g \in File : Upserted[g] = IF pending[g] # None THEN pending[g] ELSE db[g]
    BY DEF Upserted
  <2>2. \A g \in File :
           Upserted'[g] = IF pending'[g] # None THEN pending'[g] ELSE db[g]
    BY <1>1 DEF Upserted
  <2>3. ASSUME disk[s] \in File
        PROVE  \E g \in File : Upserted[g] # None /\ Upserted[g].strm = s
    BY <2>3 DEF CoverInv, Covered
  <2>4. CASE pending' = pending /\ disk[s] \in File
    BY <2>1, <2>2, <2>3, <2>4
  <2>5. CASE pending' # pending
    <3>1. pending'[f] # None /\ pending'[f].strm = Target(f)
      BY <1>5, <2>5 DEF InScope, In
    <3>2. CASE s = Target(f)
      BY <2>2, <3>1, <3>2
    <3>3. CASE s # Target(f)
      <4>1. /\ disk[s] \in File
            /\ mode = "full" \/ existing[f] = None \/ s # existing[f].strm
        BY <1>1, <1>6, <2>5, <3>3, HandleWrites
      <4>2. PICK g \in File : Upserted[g] # None /\ Upserted[g].strm = s
        BY <2>3, <4>1
      <4>3. g # f
        BY <1>1, <1>2, <2>1, <4>1, <4>2, RowLoaded DEF TypeOK
      <4> QED
        BY <1>4, <2>1, <2>2, <4>2, <4>3
    <3> QED
      BY <3>2, <3>3
  <2>6. NewRow(f) # None
    BY <1>1, NewRowType, NoRecordAssumption
  <2>7. pending' = pending => disk[s] \in File
    <3> HIDE DEF NewRow
    <3> QED
      BY <1>1, <1>2, <1>6, <2>6, HandleWrites DEF TypeOK
  <2> QED
    BY <2>4, <2>5, <2>7
<1>7. Covered'
  BY <1>6 DEF Covered
<1>8. \A g \in File : listing'[g] # None =>
                        listing'[g] = listing[g] /\ root' = root /\ g # f
  <2>1. \/ listing' = [listing EXCEPT ![f] = None] /\ root' = root
        \/ listing' = Nothing
    BY DEF HandleFile, FullFile, NewFile, ChangedFile, MovedFile,
           UnchangedFile, WriteFails, TakeWithRow, Take, LeaveRoot
  <2> QED
    BY <2>1 DEF TypeOK, Nothing
<1>10. OneVisit'
  <2>1. ASSUME NEW g \in File, pending'[g] # None
        PROVE  listing'[g] = None
    BY <1>2, <1>4, <1>8, <2>1 DEF CoverInv, OneVisit, Scanning
  <2> QED
    BY <1>1, <1>3, <2>1 DEF OneVisit
<1>11. InMapping'
  <2>1. \A g \in File : pending'[g] # None => InScope(pending'[g])
    BY <1>4, <1>5 DEF CoverInv, InMapping
  <2>2. \A g \in File : db'[g] # None => InScope(db'[g])
    BY <1>1 DEF CoverInv, InMapping
  <2>3. \A g \in File : listing'[g] # None =>
           root' # None /\ listing'[g].pan \in Under[root']
    BY <1>8 DEF CoverInv, InMapping
  <2> QED
    BY <2>1, <2>2, <2>3 DEF InMapping, InScope, In
<1>12. FirstRun'
  BY <1>1, <1>2 DEF CoverInv, FirstRun, BeforeCommit
<1>13. NamedByTable' /\ HalfRemoved' /\ Written'
  <2>1. half' = None
    BY <1>1, <1>2 DEF RunInv, HalfDoomed
  <2> QED
    BY <1>1, <1>2, <2>1 DEF CoverInv, NamedByTable, HalfRemoved, Written,
                            Committed, BeforeCommit
<1> QED
  BY <1>1, <1>7, <1>10, <1>11, <1>12, <1>13 DEF CoverInv

\* Steps that leave table, disk and waiting rows alone.
LEMMA CoverStill ==
    ASSUME Covered, UNCHANGED <<disk, db, pending>>
    PROVE  Covered'
BY DEF Covered, Upserted

\* The steps of the others that can still happen.
LEMMA CoverOutside ==
    ASSUME NothingInterrupts, TypeOK, RunInv, MirrorInv, CoverInv,
           EnvironmentStep \/ UNCHANGED vars
    PROVE  CoverInv'
<1> USE DEF world, scan, removal, setup
<1>1. ASSUME NEW m \in Mode, NEW o \in Option, StartSync(m, o)
      PROVE  CoverInv'
  <2>1. /\ pc = "idle" /\ pc' = "root" /\ cancel' = FALSE
        /\ UNCHANGED <<disk, db, root, existing, listing, pending, doomed, half>>
        /\ mode' = EffectiveMode(m)
    BY <1>1 DEF StartSync
  <2>2. existing = Nothing /\ listing = Nothing /\ pending = Nothing
        /\ doomed = Nothing /\ half = None
    BY <2>1 DEF RunInv, Forgotten, HalfDoomed, MirrorInv, Locals
  <2>3. mode' = "full" => db = Nothing
    BY <2>1 DEF EffectiveMode, NothingInterrupts, TypeOK, Nothing
  <2>4. Covered'
    BY <2>1, CoverStill DEF CoverInv
  <2>5. InMapping'
    BY <2>1, <2>2 DEF CoverInv, InMapping, InScope, In, Nothing
  <2> QED
    BY <2>1, <2>2, <2>3, <2>4, <2>5
       DEF CoverInv, OneVisit, FirstRun, NamedByTable, HalfRemoved, Written,
           Committed, Nothing
<1>2. ASSUME \/ \E f \in File : \/ UserUploads(f) \/ UserMoves(f)
                                \/ UserEdits(f) \/ UserDeletes(f)
             \/ ClientLost \/ ClientRestored \/ UNCHANGED vars
      PROVE  CoverInv'
  <2>1. UNCHANGED <<disk, db, pc, mode, todo, root, existing, listing, seen,
                    pending, doomed, half>>
    BY <1>2 DEF UserUploads, UserMoves, UserEdits, UserDeletes, Place,
                ClientLost, ClientRestored, vars
  <2>2. cancel' = cancel
    BY <1>2, Zenon DEF UserUploads, UserMoves, UserEdits, UserDeletes, Place,
                       ClientLost, ClientRestored, vars
  <2>3. Covered'
    BY <2>1, CoverStill DEF CoverInv
  <2> QED
    BY <2>1, <2>2, <2>3
       DEF CoverInv, OneVisit, Scanning, FirstRun, BeforeCommit, InMapping,
           InScope, In, NamedByTable, HalfRemoved, Written, Committed
<1> QED
  BY <1>1, <1>2 DEF EnvironmentStep, CancelSync, ResetBaseline, Crash,
                    NothingInterrupts

\* The steps of the scan between the files.
LEMMA CoverScan ==
    ASSUME NothingInterrupts, TypeOK, RunInv, MirrorInv, CoverInv,
           \/ \E r \in Root : BeginRoot(r)
           \/ EndScan \/ ResolveRoot \/ ListRoot
           \/ RootFails \/ AbandonRoot \/ EndRoot
    PROVE  CoverInv'
<1> USE DEF world, scan, removal, setup
<1>1. /\ BeforeCommit /\ BeforeCommit' /\ pc # "idle" /\ pc' # "idle"
      /\ UNCHANGED <<disk, db, mode, cancel, pending, doomed, half, seen>>
  BY DEF BeginRoot, EndScan, ResolveRoot, ListRoot, RootFails, AbandonRoot,
         EndRoot, LeaveRoot, BeforeCommit
<1>2. Covered'
  BY <1>1, CoverStill DEF CoverInv
<1>3. OneVisit'
  <2>1. CASE \E r \in Root : BeginRoot(r)
    BY <2>1 DEF BeginRoot, CoverInv, OneVisit, Scanning
  <2>2. CASE EndScan \/ ResolveRoot \/ ListRoot
    BY <2>2 DEF EndScan, ResolveRoot, ListRoot, CoverInv, OneVisit, Scanning
  <2>3. CASE RootFails \/ AbandonRoot \/ EndRoot
    BY <2>3 DEF RootFails, AbandonRoot, EndRoot, LeaveRoot, CoverInv, OneVisit,
                Scanning, Nothing
  <2> QED
    BY <2>1, <2>2, <2>3
<1>4. InMapping'
  <2>1. ASSUME NEW f \in File, listing'[f] # None
        PROVE  root' # None /\ listing'[f].pan \in Under[root']
    <3>1. CASE \E r \in Root : BeginRoot(r)
      <4>1. root = None
        BY <3>1 DEF BeginRoot, MirrorInv, Locals
      <4> QED
        BY <2>1, <3>1, <4>1 DEF BeginRoot, CoverInv, InMapping
    <3>2. CASE EndScan \/ ResolveRoot
      BY <2>1, <3>2 DEF EndScan, ResolveRoot, CoverInv, InMapping
    <3>3. CASE ListRoot
      <4>1. root \in Root /\ root # None
        BY <3>3, NoneAssumption DEF ListRoot, TypeOK
      <4> QED
        BY <2>1, <3>3, <4>1 DEF ListRoot, Listing, In
    <3>4. CASE RootFails \/ AbandonRoot \/ EndRoot
      BY <2>1, <3>4 DEF RootFails, AbandonRoot, EndRoot, LeaveRoot, Nothing
    <3> QED
      BY <3>1, <3>2, <3>3, <3>4
  <2> QED
    BY <1>1, <2>1 DEF CoverInv, InMapping, InScope, In
<1>5. NamedByTable'
  <2>1. ASSUME NEW f \in File, existing'[f] # None
        PROVE  db[f] # None /\ db[f].strm = existing'[f].strm
    <3>1. CASE existing'[f] = existing[f]
      BY <1>1, <2>1, <3>1 DEF CoverInv, NamedByTable
    <3>2. CASE existing'[f] # existing[f]
      <4>1. PICK r \in Root : existing' = LoadExisting(r)
        BY <3>2 DEF BeginRoot, EndScan, ResolveRoot, ListRoot, RootFails,
                    AbandonRoot, EndRoot, LeaveRoot
      <4> QED
        BY <3>2, <4>1 DEF LoadExisting, RowUnder, In
    <3> QED
      BY <3>1, <3>2
  <2> QED
    BY <1>1, <2>1 DEF NamedByTable, BeforeCommit
<1>6. FirstRun' /\ HalfRemoved' /\ Written'
  BY <1>1 DEF CoverInv, FirstRun, BeforeCommit, HalfRemoved, Written, Committed
<1> QED
  BY <1>1, <1>2, <1>3, <1>4, <1>5, <1>6 DEF CoverInv

\* What a run does after the scan.
LEMMA CoverAfter ==
    ASSUME NothingInterrupts, TypeOK, RunInv, MirrorInv, CoverInv,
           \/ \E r \in Root : SweepRoot(r)
           \/ FullCommit \/ SweepDone \/ IncrementalGate
           \/ \E f \in File : CleanupFirst(f)
           \/ CleanupSecond \/ CleanupDone \/ IncrementalCommit \/ FinishSync
    PROVE  CoverInv'
<1> USE DEF world, scan, removal, setup
<1>1. /\ cancel = FALSE /\ cancel' = FALSE
      /\ ~BeforeCommit' \/ pc' = "idle"
      /\ ~Scanning'
  BY DEF SweepRoot, FullCommit, SweepDone, IncrementalGate, CleanupFirst,
         CleanupSecond, CleanupDone, IncrementalCommit, FinishSync, ForgetRun,
         CoverInv, BeforeCommit, Scanning
<1>2. listing' = Nothing
  <2>1. root = None
    BY DEF SweepRoot, FullCommit, SweepDone, IncrementalGate, CleanupFirst,
           CleanupSecond, CleanupDone, IncrementalCommit, FinishSync,
           MirrorInv, Locals
  <2>2. listing = Nothing
    BY <2>1 DEF CoverInv, InMapping, Nothing, TypeOK
  <2> QED
    BY <2>2 DEF SweepRoot, FullCommit, SweepDone, IncrementalGate, CleanupFirst,
           CleanupSecond, CleanupDone, IncrementalCommit, FinishSync, ForgetRun
<1>3. half # None => pc = "cleanup" /\ half \in File /\ doomed[half] # None
  BY DEF RunInv, HalfDoomed
<1>4. \A f \in File : pending[f] # None => f \in seen
  BY DEF MirrorInv, Locals
<1>5. pc # "cleanup" => doomed = Nothing
  BY DEF MirrorInv, Locals
<1>6. OneVisit'
  BY <1>1 DEF OneVisit
<1>7. InMapping'
  <2>1. \A f \in File : /\ db'[f] \in {db[f], pending[f], None}
                        /\ pending'[f] \in {pending[f], None}
    BY DEF SweepRoot, FullCommit, SweepDone, IncrementalGate, CleanupFirst,
           CleanupSecond, CleanupDone, IncrementalCommit, FinishSync, ForgetRun,
           Upserted, TypeOK, Nothing
  <2>2. \A f \in File : /\ db[f] # None => InScope(db[f])
                        /\ pending[f] # None => InScope(pending[f])
    BY DEF CoverInv, InMapping
  <2>3. ASSUME NEW f \in File, db'[f] # None
        PROVE  InScope(db'[f])
    <3>1. db'[f] = db[f] \/ db'[f] = pending[f]
      BY <2>1, <2>3
    <3> QED
      BY <2>2, <2>3, <3>1 DEF InScope, In
  <2>4. ASSUME NEW f \in File, pending'[f] # None
        PROVE  InScope(pending'[f])
    <3>1. pending'[f] = pending[f]
      BY <2>1, <2>4
    <3> QED
      BY <2>2, <2>4, <3>1 DEF InScope, In
  <2> QED
    BY <1>2, <2>3, <2>4 DEF InMapping, InScope, In, Nothing
<1>8. CASE FullCommit
  <2>1. db = Nothing /\ half = None
    BY <1>3, <1>8 DEF FullCommit, CoverInv, FirstRun, BeforeCommit
  <2>2. \A f \in File : db'[f] = pending[f]
    BY <1>1, <1>8, <2>1 DEF FullCommit, Upserted, Nothing
  <2>3. Covered'
    <3>1. \A f \in File : Upserted'[f] = Upserted[f]
      BY <1>8, <2>1, <2>2 DEF FullCommit, Upserted, Nothing
    <3> QED
      BY <1>8, <3>1 DEF FullCommit, CoverInv, Covered
  <2> QED
    BY <1>1, <1>4, <1>5, <1>6, <1>7, <1>8, <2>1, <2>2, <2>3
       DEF FullCommit, CoverInv, FirstRun, NamedByTable, HalfRemoved, Written,
           Nothing
<1>9. CASE \/ \E r \in Root : SweepRoot(r)
           \/ SweepDone
  <2>1. mode = "full" /\ \A f \in File : db[f] # None => f \in seen
    BY <1>9 DEF SweepRoot, SweepDone, RunInv, SweepsScanned, CoverInv, FirstRun
  <2>2. UNCHANGED <<disk, db, pending, mode, seen, half>> /\ half = None
    BY <1>3, <1>9 DEF SweepRoot, SweepDone
  <2>3. doomed' = Nothing
    <3>1. \A r \in Root, f \in File : ~LeftOverRow(f, r)
      BY <2>1 DEF LeftOverRow, RowUnder, In
    <3> QED
      BY <1>5, <1>9, <3>1 DEF SweepRoot, SweepDone, Nothing
  <2>4. Covered'
    BY <2>2, CoverStill DEF CoverInv
  <2>5. Written'
    BY <1>9, <2>2 DEF SweepRoot, SweepDone, CoverInv, Written, Committed
  <2>6. pc' # "idle"
    BY <1>9 DEF SweepRoot, SweepDone
  <2> QED
    BY <1>1, <1>6, <1>7, <2>1, <2>2, <2>3, <2>4, <2>5, <2>6
       DEF CoverInv, FirstRun, NamedByTable, HalfRemoved, Nothing
<1>10. CASE IncrementalGate
  <2>1. /\ pc = "gate" /\ pc' = "cleanup" /\ mode = "incremental"
        /\ mode' = mode /\ UNCHANGED <<disk, db, pending, half>>
        /\ doomed' = [f \in File |->
                        IF LeftOverEntry(f) THEN existing[f].strm ELSE None]
    BY <1>1, <1>10 DEF IncrementalGate
  <2>2. \A f \in File : doomed'[f] # None =>
           db[f] # None /\ db[f].strm = doomed'[f]
    BY <2>1 DEF LeftOverEntry, CoverInv, NamedByTable, BeforeCommit
  <2>3. half = None
    BY <1>3, <2>1
  <2>4. Covered'
    BY <2>1, CoverStill DEF CoverInv
  <2> QED
    BY <1>1, <1>6, <1>7, <2>1, <2>2, <2>3, <2>4
       DEF CoverInv, FirstRun, NamedByTable, HalfRemoved, Written, Committed
<1>11. ASSUME NEW f \in File, CleanupFirst(f)
       PROVE  CoverInv'
  <2>1. mode = "incremental"
    BY <1>11 DEF CleanupFirst, CoverInv, FirstRun, Nothing, TypeOK
  <2>2. /\ pc = "cleanup" /\ half' = f /\ doomed[f] # None
        /\ UNCHANGED <<db, mode, pc, pending, doomed>>
        /\ disk' = [disk EXCEPT ![doomed[f]] = None]
    BY <1>11, <2>1 DEF CleanupFirst, UnlinkStrm, DiskOK, NothingInterrupts
  <2>3. doomed[f] \in Strm
    BY <2>2 DEF TypeOK
  <2>4. disk'[doomed[f]] = None
        /\ \A s \in Strm : disk'[s] \in File => disk[s] \in File
    BY <2>2, <2>3 DEF TypeOK
  <2>5. Covered'
    BY <2>2, <2>4 DEF CoverInv, Covered, Upserted
  <2> QED
    BY <1>1, <1>6, <1>7, <2>1, <2>2, <2>4, <2>5
       DEF CoverInv, FirstRun, NamedByTable, HalfRemoved, Written, Committed,
           BeforeCommit
<1>12. CASE CleanupSecond
  <2>1. /\ mode = "incremental" /\ half \in File /\ disk[doomed[half]] = None
        /\ doomed[half] # None
    BY <1>3, <1>12 DEF CleanupSecond, CoverInv, HalfRemoved
  <2>2. /\ pc = "cleanup" /\ half' = None
        /\ UNCHANGED <<disk, mode, pc, pending>>
        /\ db' = [db EXCEPT ![half] = None]
        /\ doomed' = [doomed EXCEPT ![half] = None]
    BY <1>12, <2>1 DEF CleanupSecond
  <2>3. pending[half] = None /\ db[half] # None /\ db[half].strm = doomed[half]
    BY <1>4, <2>1, <2>2 DEF RunInv, DoomedLeftOver, CoverInv, NamedByTable
  <2>4. \A f \in File : /\ db'[f] = IF f = half THEN None ELSE db[f]
                        /\ doomed'[f] = IF f = half THEN None ELSE doomed[f]
    BY <2>2 DEF TypeOK
  <2>5. ASSUME NEW s \in Strm, disk[s] \in File
        PROVE  \E f \in File : Upserted'[f] # None /\ Upserted'[f].strm = s
    <3>1. PICK f \in File : Upserted[f] # None /\ Upserted[f].strm = s
      BY <2>5 DEF CoverInv, Covered
    <3>2. f # half
      BY <2>1, <2>3, <2>5, <3>1 DEF Upserted
    <3> QED
      BY <2>2, <2>4, <3>1, <3>2 DEF Upserted
  <2>6. Covered'
    BY <2>2, <2>5 DEF Covered
  <2> QED
    BY <1>1, <1>6, <1>7, <2>1, <2>2, <2>4, <2>6
       DEF CoverInv, FirstRun, NamedByTable, HalfRemoved, Written, Committed,
           BeforeCommit
<1>13. CASE CleanupDone
  <2>1. /\ pc = "cleanup" /\ half = None /\ doomed = Nothing
        /\ UNCHANGED <<disk, db, mode, pending, doomed, half, seen>>
        /\ pc' = IF mode = "full" THEN "sweep" ELSE "commit"
    BY <1>13 DEF CleanupDone
  <2>2. Covered'
    BY <2>1, CoverStill DEF CoverInv
  <2> QED
    BY <1>1, <1>6, <1>7, <2>1, <2>2
       DEF CoverInv, FirstRun, NamedByTable, HalfRemoved, Written, Committed,
           BeforeCommit
<1>14. CASE IncrementalCommit
  <2>1. /\ pc = "commit" /\ pc' = "finish" /\ half = None
        /\ mode = "incremental"
        /\ UNCHANGED <<disk, mode, pending, half>>
        /\ db' = Upserted \/ (pending = Nothing /\ db' = db)
    BY <1>1, <1>3, <1>14 DEF IncrementalCommit, MirrorInv, Locals
  <2>2. \A f \in File : Upserted'[f] = Upserted[f]
    BY <2>1 DEF Upserted
  <2>3. \A f \in File : pending[f] # None => db'[f] = pending[f]
    BY <2>1 DEF Upserted, Nothing
  <2>4. Covered'
    BY <2>1, <2>2 DEF CoverInv, Covered
  <2>5. Written' /\ FirstRun' /\ NamedByTable' /\ HalfRemoved'
    BY <1>1, <2>1, <2>3 DEF FirstRun, NamedByTable, HalfRemoved, Written
  <2> QED
    BY <1>1, <1>6, <1>7, <2>4, <2>5 DEF CoverInv
<1>15. CASE FinishSync
  <2>1. /\ pc = "finish" /\ pc' = "idle" /\ half' = None
        /\ existing' = Nothing /\ pending' = Nothing
        /\ UNCHANGED <<disk, db>>
    BY <1>15 DEF FinishSync, ForgetRun
  <2>2. \A f \in File : Upserted[f] = db[f] /\ Upserted'[f] = db[f]
    BY <2>1 DEF CoverInv, Written, Committed, Upserted, Nothing
  <2>3. Covered'
    BY <2>1, <2>2 DEF CoverInv, Covered
  <2> QED
    BY <1>1, <1>6, <1>7, <2>1, <2>3
       DEF CoverInv, FirstRun, NamedByTable, HalfRemoved, Written, Committed,
           Nothing
<1> QED
  BY <1>8, <1>9, <1>10, <1>11, <1>12, <1>13, <1>14, <1>15

\* Where nothing interrupts a run, no link is left without a row between the
\* runs: the .strm of a file that moved, changed or went is gone with its row,
\* even when the scan of the mapping, or a write in it, failed on the way.
THEOREM NothingLeftOver ==
    ASSUME NothingInterrupts
    PROVE  Spec => []NoOrphanStrm
<1>1. Init => CoverInv
  BY DEF Init, CoverInv, Covered, OneVisit, Scanning, FirstRun, InMapping,
         NamedByTable, HalfRemoved, Written, Committed, Nothing
<1>2. TypeOK /\ RunInv /\ MirrorInv /\ CoverInv /\ [Next]_vars => CoverInv'
  BY CoverOutside, CoverScan, CoverHandle, CoverAfter DEF Next, SyncStep
<1>3. MirrorInv /\ CoverInv => NoOrphanStrm
  BY DEF CoverInv, Covered, Upserted, MirrorInv, Locals, NoOrphanStrm, Nothing
<1> QED
  BY <1>1, <1>2, <1>3, TypeCorrect, RunInvHolds, MirrorInvHolds, PTL DEF Spec

-----------------------------------------------------------------------------
(***************************************************************************)
(* A run gets on: the safety core of EveryRunEnds.  StepsLeft bounds the   *)
(* steps that the sync thread has before it: those of the root it is in,   *)
(* those of the roots to come, and those of the removals and the commit.   *)
(***************************************************************************)

\* The drive and the mappings are finite.
FiniteDrive == IsFiniteSet(File) /\ IsFiniteSet(Root)

Listed  == {f \in File : listing[f] # None}
Leaving == {f \in File : doomed[f] # None}

\* At most so many steps are made for one root by the scan and by the sweep.
RootSteps  == Cardinality(File) + 4
SweepSteps == 2 * Cardinality(File) + 2

Walks(roots)  == Cardinality(roots) * RootSteps
Sweeps(roots) == Cardinality(roots) * SweepSteps

AfterGate == 3 + SweepSteps + Sweeps(Root)
RunLength == AfterGate + 1 + Walks(Root) + RootSteps

\* The removals that are left, two steps each.
Removing == 1 + 2 * Cardinality(Leaving) - (IF half = None THEN 0 ELSE 1)

\* What is left of the root being scanned.
InRoot ==
    CASE pc = "resolve" -> Cardinality(File) + 3
      [] pc = "list"    -> Cardinality(File) + 2
      [] pc = "file"    -> Cardinality(Listed) + 1
      [] OTHER          -> 0

StepsLeft ==
    CASE pc = "idle"    -> 0
      [] pc = "finish"  -> 1
      [] pc = "commit"  -> 2
      [] pc = "sweep"   -> 2 + Sweeps(todo)
      [] pc = "cleanup" -> 2 + Removing + (IF mode = "full" THEN Sweeps(todo) ELSE 0)
      [] pc = "gate"    -> AfterGate
      [] OTHER          -> AfterGate + 1 + Walks(todo) + InRoot

LEMMA Counts ==
    ASSUME FiniteDrive
    PROVE  /\ Cardinality(File) \in Nat /\ Cardinality(Root) \in Nat
           /\ RootSteps \in Nat /\ SweepSteps \in Nat
           /\ \A S \in SUBSET File : /\ Cardinality(S) \in Nat
                                     /\ Cardinality(S) <= Cardinality(File)
                                     /\ \A f \in S : Cardinality(S \ {f}) = Cardinality(S) - 1
           /\ \A S \in SUBSET Root : /\ Cardinality(S) \in Nat
                                     /\ Cardinality(S) <= Cardinality(Root)
                                     /\ \A r \in S : Cardinality(S \ {r}) = Cardinality(S) - 1
<1>1. ASSUME NEW A, IsFiniteSet(A), NEW S \in SUBSET A
      PROVE  /\ Cardinality(S) \in Nat /\ Cardinality(S) <= Cardinality(A)
             /\ \A x \in S : Cardinality(S \ {x}) = Cardinality(S) - 1
  <2>1. IsFiniteSet(S) /\ Cardinality(S) <= Cardinality(A)
    BY <1>1, FS_Subset
  <2> QED
    BY <2>1, FS_CardinalityType, FS_RemoveElement
<1>2. Cardinality(File) \in Nat /\ Cardinality(Root) \in Nat
  BY FS_CardinalityType DEF FiniteDrive
<1> QED
  BY <1>1, <1>2 DEF FiniteDrive, RootSteps, SweepSteps

LEMMA ProductsGrow ==
    ASSUME NEW n \in Nat, NEW m \in Nat, NEW w \in Nat, n <= m
    PROVE  n * w \in Nat /\ n * w <= m * w
<1>1. PICK j \in Nat : m = n + j
  <2>1. m - n \in Nat /\ m = n + (m - n)
    OBVIOUS
  <2> QED
    BY <2>1
<1>2. n * w \in Nat /\ j * w \in Nat /\ m * w = n * w + j * w
  BY <1>1
<1> QED
  BY <1>2

LEMMA OneLess ==
    ASSUME NEW n \in Nat, NEW m \in Nat, NEW w \in Nat, n = m - 1
    PROVE  m * w = n * w + w
<1>1. m = n + 1
  OBVIOUS
<1> QED
  BY <1>1

LEMMA RootsLeft ==
    ASSUME FiniteDrive, NEW S \in SUBSET Root
    PROVE  /\ Walks(S) \in Nat /\ Walks(S) <= Walks(Root) /\ Walks(Root) \in Nat
           /\ Sweeps(S) \in Nat /\ Sweeps(S) <= Sweeps(Root) /\ Sweeps(Root) \in Nat
           /\ \A r \in S : /\ Walks(S) = Walks(S \ {r}) + RootSteps
                           /\ Sweeps(S) = Sweeps(S \ {r}) + SweepSteps
<1>1. /\ Cardinality(S) \in Nat /\ Cardinality(Root) \in Nat
      /\ Cardinality(S) <= Cardinality(Root) /\ RootSteps \in Nat /\ SweepSteps \in Nat
  BY Counts
<1>2. \A r \in S : Cardinality(S \ {r}) \in Nat /\ Cardinality(S \ {r}) = Cardinality(S) - 1
  BY Counts
<1>3. /\ Walks(S) \in Nat /\ Walks(S) <= Walks(Root) /\ Walks(Root) \in Nat
      /\ Sweeps(S) \in Nat /\ Sweeps(S) <= Sweeps(Root) /\ Sweeps(Root) \in Nat
  BY <1>1, ProductsGrow DEF Walks, Sweeps
<1>4. \A r \in S : /\ Walks(S) = Walks(S \ {r}) + RootSteps
                   /\ Sweeps(S) = Sweeps(S \ {r}) + SweepSteps
  BY <1>1, <1>2, OneLess DEF Walks, Sweeps
<1> QED
  BY <1>3, <1>4

\* The parts of StepsLeft are natural numbers, and bounded.
LEMMA PartsLeft ==
    ASSUME FiniteDrive, TypeOK, RunInv
    PROVE  /\ Cardinality(File) \in Nat /\ AfterGate \in Nat
           /\ AfterGate = 2 * Cardinality(File) + 5 + Sweeps(Root)
           /\ RootSteps = Cardinality(File) + 4 /\ SweepSteps = 2 * Cardinality(File) + 2
           /\ InRoot \in 0..(Cardinality(File) + 3)
           /\ Removing \in 1..(2 * Cardinality(File) + 1)
           /\ Walks(todo) \in Nat /\ Walks(todo) <= Walks(Root) /\ Walks(Root) \in Nat
           /\ Sweeps(todo) \in Nat /\ Sweeps(todo) <= Sweeps(Root) /\ Sweeps(Root) \in Nat
<1>1. /\ Cardinality(File) \in Nat
      /\ Cardinality(Listed) \in 0..Cardinality(File)
      /\ Cardinality(Leaving) \in 0..Cardinality(File)
  <2>1. Listed \in SUBSET File /\ Leaving \in SUBSET File
    BY DEF Listed, Leaving
  <2> QED
    BY <2>1, Counts
<1>2. half # None => Cardinality(Leaving) # 0
  <2> SUFFICES ASSUME half # None PROVE Cardinality(Leaving) # 0
    OBVIOUS
  <2>1. half \in Leaving /\ Leaving \in SUBSET File
    BY DEF RunInv, HalfDoomed, Leaving
  <2>2. /\ Cardinality(Leaving \ {half}) = Cardinality(Leaving) - 1
        /\ Cardinality(Leaving \ {half}) \in Nat
    BY <2>1, Counts
  <2> QED
    BY <1>1, <2>2
<1>3. todo \in SUBSET Root
  BY DEF TypeOK
<1>4. InRoot \in 0..(Cardinality(File) + 3)
  BY <1>1 DEF InRoot
<1>5. Removing \in 1..(2 * Cardinality(File) + 1)
  BY <1>1, <1>2 DEF Removing
<1>6. /\ Walks(todo) \in Nat /\ Walks(todo) <= Walks(Root) /\ Walks(Root) \in Nat
      /\ Sweeps(todo) \in Nat /\ Sweeps(todo) <= Sweeps(Root) /\ Sweeps(Root) \in Nat
  BY <1>3, RootsLeft
<1>7. AfterGate = 2 * Cardinality(File) + 5 + Sweeps(Root)
  BY <1>1, <1>6 DEF AfterGate, SweepSteps
<1> QED
  BY <1>1, <1>4, <1>5, <1>6, <1>7 DEF RootSteps, SweepSteps

LEMMA StepsLeftType ==
    ASSUME FiniteDrive
    PROVE  TypeOK /\ RunInv =>
             StepsLeft \in 0..RunLength /\ (StepsLeft = 0 <=> pc = "idle")
<1> SUFFICES ASSUME TypeOK, RunInv
             PROVE  StepsLeft \in 0..RunLength /\ (StepsLeft = 0 <=> pc = "idle")
  OBVIOUS
<1>1. /\ Cardinality(File) \in Nat /\ AfterGate \in Nat
      /\ AfterGate = 2 * Cardinality(File) + 5 + Sweeps(Root)
      /\ Removing \in 1..(2 * Cardinality(File) + 1)
      /\ Walks(todo) \in Nat /\ Walks(todo) <= Walks(Root) /\ Walks(Root) \in Nat
      /\ Sweeps(todo) \in Nat /\ Sweeps(todo) <= Sweeps(Root) /\ Sweeps(Root) \in Nat
  BY PartsLeft
<1>2. RunLength = AfterGate + 5 + Walks(Root) + Cardinality(File)
  BY <1>1 DEF RunLength, RootSteps
<1>3. pc \in PC
  BY DEF TypeOK
<1>4. CASE pc \in {"idle", "finish", "commit", "sweep", "cleanup", "gate"}
  BY <1>1, <1>2, <1>4 DEF StepsLeft
<1>5. CASE pc \in {"root", "resolve", "list", "file"}
  <2>1. StepsLeft = AfterGate + 1 + Walks(todo) + InRoot
    BY <1>5 DEF StepsLeft
  <2>2. InRoot \in 0..(Cardinality(File) + 3)
    BY PartsLeft
  <2> QED
    BY <1>1, <1>2, <1>5, <2>1, <2>2
<1> QED
  BY <1>3, <1>4, <1>5 DEF PC

\* The steps of the scan.
LEMMA ScanFalls ==
    ASSUME FiniteDrive, TypeOK, RunInv,
           \/ \E r \in Root : BeginRoot(r)
           \/ EndScan \/ ResolveRoot \/ ListRoot \/ RootFails \/ AbandonRoot \/ EndRoot
           \/ \E f \in File : HandleFile(f)
    PROVE  StepsLeft' < StepsLeft
<1> USE DEF scan
<1>1. /\ Cardinality(File) \in Nat /\ AfterGate \in Nat
      /\ RootSteps = Cardinality(File) + 4
      /\ InRoot \in 0..(Cardinality(File) + 3) /\ Walks(todo) \in Nat
  BY PartsLeft
<1>2. pc \in {"root", "resolve", "list", "file"}
  BY DEF BeginRoot, EndScan, ResolveRoot, ListRoot, RootFails, AbandonRoot, EndRoot,
         HandleFile, FullFile, NewFile, ChangedFile, MovedFile, UnchangedFile,
         WriteFails, CanTake
<1>3. StepsLeft = AfterGate + 1 + Walks(todo) + InRoot
  BY <1>2 DEF StepsLeft
<1>4. ASSUME pc' \in {"root", "resolve", "list", "file"}
      PROVE  StepsLeft' = AfterGate + 1 + Walks(todo') + InRoot'
  BY <1>4 DEF StepsLeft, AfterGate, Walks, Sweeps, SweepSteps, RootSteps
<1>5. ASSUME pc' \in {"root", "resolve", "list", "file"}, todo' = todo,
             InRoot' \in Nat, InRoot' < InRoot
      PROVE  StepsLeft' < StepsLeft
  <2>1. StepsLeft' = AfterGate + 1 + Walks(todo) + InRoot'
    BY <1>4, <1>5
  <2> QED
    BY <1>1, <1>3, <1>5, <2>1
<1>6. ASSUME NEW r \in Root, BeginRoot(r) PROVE StepsLeft' < StepsLeft
  <2>1. pc = "root" /\ pc' = "resolve" /\ r \in todo /\ todo' = todo \ {r}
    BY <1>6 DEF BeginRoot
  <2>2. InRoot = 0 /\ InRoot' = Cardinality(File) + 3
    BY <2>1 DEF InRoot
  <2>3. Walks(todo) = Walks(todo \ {r}) + RootSteps /\ Walks(todo \ {r}) \in Nat
    <3>1. todo \in SUBSET Root /\ todo \ {r} \in SUBSET Root
      BY DEF TypeOK
    <3> QED
      BY <2>1, <3>1, RootsLeft
  <2>4. StepsLeft' = AfterGate + 1 + Walks(todo \ {r}) + (Cardinality(File) + 3)
    BY <1>4, <2>1, <2>2
  <2> QED
    BY <1>1, <1>3, <2>2, <2>3, <2>4
<1>7. CASE EndScan
  <2>1. StepsLeft' = AfterGate
    BY <1>7 DEF EndScan, StepsLeft, AfterGate, Sweeps, SweepSteps
  <2> QED
    BY <1>1, <1>3, <2>1
<1>8. CASE ResolveRoot
  <2>1. pc = "resolve" /\ pc' = "list" /\ todo' = todo
    BY <1>8 DEF ResolveRoot
  <2>2. InRoot = Cardinality(File) + 3 /\ InRoot' = Cardinality(File) + 2
    BY <2>1 DEF InRoot
  <2> QED
    BY <1>1, <1>5, <2>1, <2>2
<1>9. CASE ListRoot
  <2>1. pc = "list" /\ pc' = "file" /\ todo' = todo
    BY <1>9 DEF ListRoot
  <2>2. InRoot = Cardinality(File) + 2 /\ InRoot' = Cardinality(Listed') + 1
    BY <2>1 DEF InRoot
  <2>3. Cardinality(Listed') \in Nat /\ Cardinality(Listed') <= Cardinality(File)
    <3>1. Listed' \in SUBSET File
      BY DEF Listed
    <3> QED
      BY <3>1, Counts
  <2> QED
    BY <1>1, <1>5, <2>1, <2>2, <2>3
<1>10. ASSUME pc \in {"resolve", "list", "file"}, LeaveRoot
       PROVE  StepsLeft' < StepsLeft
  <2>1. pc' = "root" /\ todo' = todo
    BY <1>10 DEF LeaveRoot
  <2>2. InRoot' = 0
    BY <2>1 DEF InRoot
  <2>3. InRoot > 0
    <3>1. Cardinality(Listed) \in Nat
      BY Counts DEF Listed
    <3> QED
      BY <1>1, <1>10, <3>1 DEF InRoot
  <2> QED
    BY <1>1, <1>5, <2>1, <2>2, <2>3
<1>11. CASE RootFails \/ AbandonRoot \/ EndRoot
  BY <1>10, <1>11 DEF RootFails, AbandonRoot, EndRoot
<1>12. ASSUME NEW f \in File, HandleFile(f) PROVE StepsLeft' < StepsLeft
  <2>1. CanTake(f) /\ (Take(f) \/ LeaveRoot)
    BY <1>12 DEF HandleFile, FullFile, NewFile, ChangedFile, MovedFile, UnchangedFile,
                 WriteFails, TakeWithRow
  <2>2. CASE LeaveRoot
    BY <1>10, <2>1, <2>2 DEF CanTake
  <2>3. CASE Take(f)
    <3>1. pc = "file" /\ pc' = "file" /\ todo' = todo
      BY <2>1, <2>3 DEF CanTake, Take
    <3>2. Listed \in SUBSET File /\ f \in Listed /\ Listed' = Listed \ {f}
      BY <2>1, <2>3 DEF CanTake, Take, Listed, TypeOK
    <3>3. /\ Cardinality(Listed) \in Nat
          /\ Cardinality(Listed \ {f}) = Cardinality(Listed) - 1
          /\ Cardinality(Listed \ {f}) \in Nat
      <4>1. Listed \ {f} \in SUBSET File
        BY <3>2
      <4> QED
        BY <3>2, <4>1, Counts
    <3>4. InRoot = Cardinality(Listed) + 1 /\ InRoot' = Cardinality(Listed \ {f}) + 1
      BY <3>1, <3>2 DEF InRoot
    <3> QED
      BY <1>5, <3>1, <3>3, <3>4
  <2> QED
    BY <2>1, <2>2, <2>3
<1> QED
  BY <1>6, <1>7, <1>8, <1>9, <1>11, <1>12

\* The steps after the scan.
LEMMA AfterFalls ==
    ASSUME FiniteDrive, TypeOK, RunInv,
           \/ \E r \in Root : SweepRoot(r)
           \/ \E f \in File : CleanupFirst(f)
           \/ FullCommit \/ SweepDone \/ IncrementalGate \/ CleanupSecond
           \/ CleanupDone \/ IncrementalCommit \/ FinishSync
    PROVE  StepsLeft' < StepsLeft
<1> USE DEF scan, removal, setup
<1>1. /\ Cardinality(File) \in Nat /\ AfterGate \in Nat
      /\ AfterGate = 2 * Cardinality(File) + 5 + Sweeps(Root)
      /\ SweepSteps = 2 * Cardinality(File) + 2
      /\ Removing \in 1..(2 * Cardinality(File) + 1)
      /\ Sweeps(todo) \in Nat /\ Sweeps(Root) \in Nat
  BY PartsLeft
<1>2. /\ pc = "gate" => StepsLeft = AfterGate
      /\ pc = "sweep" => StepsLeft = 2 + Sweeps(todo)
      /\ pc = "cleanup" /\ mode = "full" => StepsLeft = 2 + Removing + Sweeps(todo)
      /\ pc = "cleanup" /\ mode # "full" => StepsLeft = 2 + Removing
      /\ pc = "commit" => StepsLeft = 2
      /\ pc = "finish" => StepsLeft = 1
  BY <1>1 DEF StepsLeft
<1>3. /\ pc' = "sweep" => StepsLeft' = 2 + Sweeps(todo')
      /\ pc' = "cleanup" /\ mode' = "full" => StepsLeft' = 2 + Removing' + Sweeps(todo')
      /\ pc' = "cleanup" /\ mode' # "full" => StepsLeft' = 2 + Removing' + 0
      /\ pc' = "commit" => StepsLeft' = 2
      /\ pc' = "finish" => StepsLeft' = 1
      /\ pc' = "idle" => StepsLeft' = 0
  BY DEF StepsLeft, Sweeps, SweepSteps
<1>4. Removing' \in Int /\ Removing' <= 2 * Cardinality(File) + 1
  <2>1. Leaving' \in SUBSET File
    BY DEF Leaving
  <2>2. Cardinality(Leaving') \in Nat /\ Cardinality(Leaving') <= Cardinality(File)
    BY <2>1, Counts
  <2> QED
    BY <1>1, <2>2 DEF Removing
<1>5. CASE FullCommit
  <2>1. CASE pc' = "sweep"
    <3>1. todo' = scanned /\ scanned \in SUBSET Root /\ pc = "gate"
      BY <1>5, <2>1 DEF FullCommit, TypeOK
    <3>2. Sweeps(scanned) \in Nat /\ Sweeps(scanned) <= Sweeps(Root)
      BY <3>1, RootsLeft
    <3>3. StepsLeft = AfterGate /\ StepsLeft' = 2 + Sweeps(scanned)
      BY <1>2, <1>3, <2>1, <3>1
    <3> QED
      BY <1>1, <3>2, <3>3
  <2>2. CASE pc' = "finish"
    <3>1. StepsLeft = AfterGate /\ StepsLeft' = 1
      BY <1>2, <1>3, <1>5, <2>2 DEF FullCommit
    <3> QED
      BY <1>1, <3>1
  <2> QED
    BY <1>5, <2>1, <2>2 DEF FullCommit
<1>6. ASSUME NEW r \in Root, SweepRoot(r) PROVE StepsLeft' < StepsLeft
  <2>1. /\ pc = "sweep" /\ pc' = "cleanup" /\ r \in todo /\ todo' = todo \ {r}
        /\ mode = "full" /\ mode' = mode
    BY <1>6 DEF SweepRoot, RunInv, SweepsScanned
  <2>2. Sweeps(todo) = Sweeps(todo \ {r}) + SweepSteps /\ Sweeps(todo \ {r}) \in Nat
    <3>1. todo \in SUBSET Root /\ todo \ {r} \in SUBSET Root
      BY DEF TypeOK
    <3> QED
      BY <2>1, <3>1, RootsLeft
  <2>3. StepsLeft = 2 + Sweeps(todo) /\ StepsLeft' = 2 + Removing' + Sweeps(todo \ {r})
    BY <1>2, <1>3, <2>1
  <2> QED
    BY <1>1, <1>4, <2>2, <2>3
<1>7. CASE SweepDone
  <2>1. StepsLeft = 2 + Sweeps(todo) /\ StepsLeft' = 1
    BY <1>2, <1>3, <1>7 DEF SweepDone
  <2> QED
    BY <1>1, <2>1
<1>8. CASE IncrementalGate
  <2>1. CASE pc' = "cleanup"
    <3>1. StepsLeft = AfterGate /\ StepsLeft' = 2 + Removing' + 0
      BY <1>2, <1>3, <1>8, <2>1 DEF IncrementalGate
    <3> QED
      BY <1>1, <1>4, <3>1
  <2>2. CASE pc' = "commit"
    <3>1. StepsLeft = AfterGate /\ StepsLeft' = 2
      BY <1>2, <1>3, <1>8, <2>2 DEF IncrementalGate
    <3> QED
      BY <1>1, <3>1
  <2> QED
    BY <1>8, <2>1, <2>2 DEF IncrementalGate
<1>9. ASSUME pc = "cleanup", UNCHANGED <<pc, mode, todo>>, Removing' < Removing
      PROVE  StepsLeft' < StepsLeft
  <2>1. CASE mode = "full"
    <3>1. /\ StepsLeft = 2 + Removing + Sweeps(todo)
          /\ StepsLeft' = 2 + Removing' + Sweeps(todo)
      BY <1>2, <1>3, <1>9, <2>1
    <3> QED
      BY <1>1, <1>4, <1>9, <3>1
  <2>2. CASE mode # "full"
    <3>1. StepsLeft = 2 + Removing /\ StepsLeft' = 2 + Removing' + 0
      BY <1>2, <1>3, <1>9, <2>2
    <3>2. \A a, b \in Int : a < b => 2 + a + 0 < 2 + b
      OBVIOUS
    <3>3. Removing \in Int
      BY <1>1
    <3> QED
      BY <1>4, <1>9, <3>1, <3>2, <3>3
  <2> QED
    BY <2>1, <2>2
<1>10. Leaving \in SUBSET File /\ Cardinality(Leaving) \in Nat
  <2>1. Leaving \in SUBSET File
    BY DEF Leaving
  <2> QED
    BY <2>1, Counts
<1>11. ASSUME NEW f \in File, CleanupFirst(f) PROVE StepsLeft' < StepsLeft
  <2>1. /\ pc = "cleanup" /\ UNCHANGED <<pc, mode, todo, doomed>>
        /\ half = None /\ half' # None
    BY <1>11 DEF CleanupFirst
  <2>2. Leaving' = Leaving
    BY <2>1 DEF Leaving
  <2>3. Removing = 1 + 2 * Cardinality(Leaving) /\ Removing' = 2 * Cardinality(Leaving)
    BY <1>10, <2>1, <2>2 DEF Removing
  <2>4. Removing' < Removing
    BY <1>10, <2>3
  <2> QED
    BY <1>9, <2>1, <2>4
<1>12. CASE CleanupSecond
  <2>1. /\ pc = "cleanup" /\ UNCHANGED <<pc, mode, todo>>
        /\ half # None /\ half' = None /\ doomed' = [doomed EXCEPT ![half] = None]
        /\ half \in Leaving
    BY <1>12 DEF CleanupSecond, RunInv, HalfDoomed, Leaving
  <2>2. Leaving' = Leaving \ {half}
    BY <2>1 DEF Leaving, TypeOK
  <2>3. Cardinality(Leaving \ {half}) = Cardinality(Leaving) - 1
    BY <1>10, <2>1, Counts
  <2>4. /\ Removing = 2 * Cardinality(Leaving)
        /\ Removing' = 1 + 2 * (Cardinality(Leaving) - 1)
    BY <1>10, <2>1, <2>2, <2>3 DEF Removing
  <2>5. Removing' < Removing
    BY <1>10, <2>4
  <2> QED
    BY <1>9, <2>1, <2>5
<1>13. CASE CleanupDone
  <2>1. CASE mode = "full"
    <3>1. StepsLeft = 2 + Removing + Sweeps(todo) /\ StepsLeft' = 2 + Sweeps(todo)
      BY <1>2, <1>3, <1>13, <2>1 DEF CleanupDone
    <3> QED
      BY <1>1, <3>1
  <2>2. CASE mode # "full"
    <3>1. StepsLeft = 2 + Removing /\ StepsLeft' = 2
      BY <1>2, <1>3, <1>13, <2>2 DEF CleanupDone
    <3> QED
      BY <1>1, <3>1
  <2> QED
    BY <2>1, <2>2
<1>14. CASE IncrementalCommit
  <2>1. StepsLeft = 2 /\ StepsLeft' = 1
    BY <1>2, <1>3, <1>14 DEF IncrementalCommit
  <2> QED
    BY <2>1
<1>15. CASE FinishSync
  <2>1. StepsLeft = 1 /\ StepsLeft' = 0
    BY <1>2, <1>3, <1>15 DEF FinishSync, ForgetRun
  <2> QED
    BY <2>1
<1> QED
  BY <1>5, <1>6, <1>7, <1>8, <1>11, <1>12, <1>13, <1>14, <1>15

\* Nobody else lengthens a run: only its start, and its end by a crash, change
\* what is left of it.
LEMMA OthersLeave ==
    ASSUME FiniteDrive, TypeOK, RunInv, EnvironmentStep \/ UNCHANGED vars,
           pc # "idle"
    PROVE  StepsLeft' \in {0, StepsLeft}
<1> USE DEF world, scan, removal, setup
<1>1. ASSUME UNCHANGED <<pc, mode, todo, listing, doomed, half>>
      PROVE  StepsLeft' = StepsLeft
  <2>1. Listed' = Listed /\ Leaving' = Leaving
    BY <1>1 DEF Listed, Leaving
  <2>2. InRoot' = InRoot /\ Removing' = Removing
    BY <1>1, <2>1 DEF InRoot, Removing
  <2> QED
    BY <1>1, <2>2 DEF StepsLeft, Walks, Sweeps, AfterGate, RootSteps, SweepSteps
<1>2. ASSUME NEW f \in File,
             \/ UserUploads(f) \/ UserMoves(f) \/ UserEdits(f) \/ UserDeletes(f)
      PROVE  StepsLeft' = StepsLeft
  BY <1>1, <1>2 DEF UserUploads, UserMoves, UserEdits, UserDeletes, Place
<1>3. ASSUME NEW m \in Mode, NEW o \in Option, StartSync(m, o) PROVE FALSE
  BY <1>3 DEF StartSync
<1>4. CASE CancelSync \/ ResetBaseline \/ ClientLost \/ ClientRestored \/ UNCHANGED vars
  BY <1>1, <1>4 DEF CancelSync, ResetBaseline, ClientLost, ClientRestored, vars
<1>5. CASE Crash
  BY <1>5 DEF Crash, ForgetRun, StepsLeft
<1> QED
  BY <1>2, <1>3, <1>4, <1>5 DEF EnvironmentStep

\* A run gets on, whatever fails, is cancelled or changed meanwhile: from its
\* start it has a number of steps before it that depends only on how many files
\* and mappings there are (the loops of full_sync and incremental_sync at
\* strm_generator.py), each step of the sync thread leaves fewer, and nobody
\* else lengthens it.  So no loop over roots, files, rows to remove or mappings
\* to clean up can go round.  A listing is one of these steps: that it comes
\* back at all is not said here (ScanGetsOn, finding 12).
THEOREM RunGetsOn ==
    ASSUME FiniteDrive
    PROVE  Spec => /\ [](StepsLeft \in 0..RunLength /\ (StepsLeft = 0 <=> pc = "idle"))
                   /\ [][/\ SyncStep => StepsLeft' < StepsLeft
                         /\ StepsLeft' > StepsLeft => pc = "idle"]_vars
<1>1. TypeOK /\ RunInv =>
        StepsLeft \in 0..RunLength /\ (StepsLeft = 0 <=> pc = "idle")
  BY StepsLeftType
<1>2. TypeOK /\ RunInv /\ SyncStep => StepsLeft' < StepsLeft
  BY ScanFalls, AfterFalls DEF SyncStep
<1>3. TypeOK /\ RunInv /\ TypeOK' /\ RunInv' /\ [Next]_vars =>
        [/\ SyncStep => StepsLeft' < StepsLeft
         /\ StepsLeft' > StepsLeft => pc = "idle"]_vars
  <2> SUFFICES ASSUME TypeOK, RunInv, TypeOK', RunInv', [Next]_vars
               PROVE  /\ SyncStep => StepsLeft' < StepsLeft
                      /\ StepsLeft' > StepsLeft => pc = "idle"
    OBVIOUS
  <2>1. StepsLeft \in Nat
    BY <1>1
  <2>2. StepsLeft' \in Int
    <3>1. (TypeOK /\ RunInv => StepsLeft \in 0..RunLength)'
      BY <1>1, PTL
    <3> QED
      BY <3>1
  <2>3. CASE SyncStep
    BY <1>2, <2>1, <2>2, <2>3
  <2>4. CASE EnvironmentStep \/ UNCHANGED vars
    <3>1. ASSUME pc # "idle" PROVE StepsLeft' \in {0, StepsLeft}
      BY <2>4, <3>1, OthersLeave
    <3>2. StepsLeft' > StepsLeft => pc = "idle"
      BY <2>1, <2>2, <3>1
    <3> QED
      BY <1>2, <3>2
  <2> QED
    BY <2>3, <2>4 DEF Next
<1> QED
  BY <1>1, <1>3, TypeCorrect, RunInvHolds, PTL DEF Spec

=============================================================================
