------------------------------ MODULE FastScan ------------------------------
(***************************************************************************)
(* iter_files_fast (fast_scan.py): the files of a whole tree from two      *)
(* paged requests, one for the files (newest first, paged by offset) and   *)
(* one for the directories, joined into paths in memory.  Anything that    *)
(* does not fit raises FastScanUnavailable, and _iter_root_files           *)
(* (strm_generator.py) walks the directories one by one instead.           *)
(*                                                                         *)
(* The user changes the drive between the requests.  The drive is external *)
(* and modelled from the requests made and the fields read.                *)
(***************************************************************************)
EXTENDS Naturals, Sequences, FiniteSets

CONSTANTS
    File, Dir,      \* what the tree may hold
    Root,           \* root_cid
    Nowhere,        \* no directory: a file or directory that is not there
    PageSize,       \* FILES_PAGE_SIZE
    DirsPageSize,   \* DIRS_PAGE_SIZE
    MaxDirsPages,   \* MAX_DIRS_PAGES
    ScanFault,      \* "refuse", "nocount", "short", "blank", "pickcode", "endless",
                    \* "dfs", "noclient", "cancel"
    MaxChange,      \* bound on the user's changes
    MaxMove,        \* bound on the moves among them
    MaxRemoval      \* bound on the files removed

ASSUME ScanAssumption ==
    /\ {PageSize, DirsPageSize, MaxDirsPages} \subseteq Nat \ {0}
    /\ ScanFault \subseteq
           {"refuse", "nocount", "short", "blank", "pickcode", "endless", "dfs",
            "noclient", "cancel"}
    /\ {MaxChange, MaxMove, MaxRemoval} \subseteq Nat
    /\ IsFiniteSet(File) /\ IsFiniteSet(Dir)
    /\ Root \notin Dir /\ Nowhere \notin Dir \union {Root}

\* None is no path.
ASSUME NowhereIsNoPath == \A path \in SUBSET (Dir \X (Dir \union {Root})) : path # Nowhere

Folder == Dir \union {Root}

\* A path is the set of its steps <<directory, parent>> up to the root.
Path == SUBSET (Dir \X Folder)
Entry == [file: File, dir: Folder]
Found == [file: File, path: Path]

VARIABLES
    listing,    \* the files of the tree, newest first
    home,       \* home[f]: the directory of a file, or Nowhere
    parent,     \* parent[d]: the parent of a directory, or Nowhere
    unusable,   \* the files listed without a pickcode, or with a directory's
    cancel,     \* _cancel_flag
    pc,
    collected,  \* the distinct entries collected so far
    offset,     \* offset, which is len(collected) in the code as well
    pageNo,     \* page_no
    dirMap,     \* dir_map
    paths,      \* cache of path_of
    climbing, cursor, parts,    \* path_of: its argument, cursor and parts
    result,
    changes, moves, removals,   \* counters of the user's changes
    blind,      \* observed: an empty answer was taken for a complete list
    kept,       \* observed: files in the tree since the scan began
    truths      \* observed: what was true of a file at some moment since then

drive == <<listing, home, parent, unusable, changes, moves, removals>>
climb == <<climbing, cursor, parts>>
scan  == <<pc, collected, offset, pageNo, dirMap, paths, climb, result>>
scanVars  == <<drive, cancel, scan, blind, kept, truths>>

ScanTypeOK ==
    /\ listing \in Seq(File) /\ Len(listing) <= Cardinality(File)
    /\ home \in [File -> Folder \union {Nowhere}]
    /\ parent \in [Dir -> Folder \union {Nowhere}]
    /\ unusable \subseteq File
    /\ cancel \in BOOLEAN
    /\ pc \in {"idle", "files", "derive", "dirs", "paths", "fallback", "done", "failed"}
    /\ collected \subseteq Entry
    /\ offset \in Nat /\ pageNo \in 1..MaxDirsPages
    /\ dirMap \in [Dir -> Folder \union {Nowhere}]
    /\ paths \in [Folder -> Path \union {Nowhere}]
    /\ climbing \in Dir \union {Nowhere}
    /\ cursor \in Folder \union {Nowhere}
    /\ parts \in Path
    /\ result \subseteq Found
    /\ changes \in 0..MaxChange /\ moves \in 0..MaxMove /\ removals \in 0..MaxRemoval
    /\ blind \in BOOLEAN /\ kept \subseteq File /\ truths \subseteq Found

-----------------------------------------------------------------------------
(* The drive *)

\* A set of directories that no parent leads out of.
Closed(tree, S) == \A x \in S : tree[x] \in Dir => tree[x] \in S

\* Directories on the way from d to the root, d included, in a given tree: the
\* least closed set that holds d.
Above(tree, d) ==
    {x \in Dir : \A S \in SUBSET Dir :
                     {d} \intersect Dir \subseteq S /\ Closed(tree, S) => x \in S}

\* What a walk of every directory finds.
Tree(homes, tree) ==
    {[file |-> f, path |-> {<<x, tree[x]>> : x \in Above(tree, homes[f])}] :
        f \in {g \in File : homes[g] # Nowhere}}

Exists(d) == d \in Dir => parent[d] # Nowhere
Without(s, p) == [i \in 1..(Len(s) - 1) |-> IF i < p THEN s[i] ELSE s[i + 1]]

\* Changes before and after the scan are other initial states, or nothing new.
Changed ==
    /\ pc \notin {"idle", "done", "failed"}
    /\ changes < MaxChange
    /\ changes' = changes + 1
    /\ truths' = truths \union Tree(home', parent')
    /\ UNCHANGED <<unusable, cancel, scan, blind>>

\* A pickcode is never given out again.
Upload(f, d) ==
    /\ home[f] = Nowhere /\ f \notin {t.file : t \in truths} /\ Exists(d)
    /\ home' = [home EXCEPT ![f] = d]
    /\ listing' = <<f>> \o listing
    /\ UNCHANGED <<parent, moves, removals, kept>>
    /\ Changed

Delete(p) ==
    /\ removals < MaxRemoval
    /\ removals' = removals + 1
    /\ home' = [home EXCEPT ![listing[p]] = Nowhere]
    /\ listing' = Without(listing, p)
    /\ kept' = kept \ {listing[p]}
    /\ UNCHANGED <<parent, moves>>
    /\ Changed

\* A directory goes with everything below it: here an empty one, or one of a
\* single file.
DeleteDir(d) ==
    LET inside == {i \in DOMAIN listing : home[listing[i]] = d}
    IN  /\ parent[d] # Nowhere
        /\ d \notin {parent[x] : x \in Dir} /\ Cardinality(inside) <= 1
        /\ removals' = removals + Cardinality(inside) /\ removals' <= MaxRemoval
        /\ parent' = [parent EXCEPT ![d] = Nowhere]
        /\ home' = [f \in File |-> IF home[f] = d THEN Nowhere ELSE home[f]]
        /\ listing' = IF inside = {} THEN listing
                      ELSE Without(listing, CHOOSE i \in inside : TRUE)
        /\ kept' = kept \ {listing[i] : i \in inside}
        /\ UNCHANGED moves
        /\ Changed

Moved == moves < MaxMove /\ moves' = moves + 1

MoveFile(f, d) ==
    /\ home[f] \notin {Nowhere, d} /\ Exists(d)
    /\ home' = [home EXCEPT ![f] = d]
    /\ Moved
    /\ UNCHANGED <<listing, parent, removals, kept>>
    /\ Changed

MoveDir(d, e) ==
    /\ parent[d] \notin {Nowhere, e} /\ Exists(e)
    /\ d \notin Above(parent, e)
    /\ parent' = [parent EXCEPT ![d] = e]
    /\ Moved
    /\ UNCHANGED <<listing, home, removals, kept>>
    /\ Changed

User ==
    \/ \E f \in File, d \in Folder : Upload(f, d) \/ MoveFile(f, d)
    \/ \E p \in DOMAIN listing : Delete(p)
    \/ \E d \in Dir : DeleteDir(d) \/ \E e \in Folder : MoveDir(d, e)

RequestCancel ==
    /\ "cancel" \in ScanFault /\ ~cancel /\ pc # "idle"
    /\ cancel' = TRUE
    /\ UNCHANGED <<drive, scan, blind, kept, truths>>

-----------------------------------------------------------------------------
(* The scan *)

still == UNCHANGED <<drive, cancel, kept, truths>>
quiet == still /\ UNCHANGED blind

Begin ==
    /\ pc = "idle"
    /\ pc' = "files"
    /\ kept' = {f \in File : home[f] # Nowhere}
    /\ truths' = Tree(home, parent)
    /\ UNCHANGED <<drive, cancel, collected, offset, pageNo, dirMap, paths, climb, result, blind>>

\* FastScanUnavailable
Unavailable ==
    /\ pc' = "fallback"
    /\ UNCHANGED <<collected, offset, pageNo, dirMap, paths, climb, result>>

CancelSeen ==
    /\ pc \in {"files", "derive"} /\ cancel
    /\ pc' = "done"
    /\ UNCHANGED <<collected, offset, pageNo, dirMap, paths, climb, result>>
    /\ quiet

\* _scan_get: no answer, HTTP 405 or another status, or state = false.
Refused ==
    /\ "refuse" \in ScanFault /\ pc \in {"files", "dirs"} /\ (pc = "files" => ~cancel)
    /\ Unavailable
    /\ quiet

Enough(count, got) == count # 0 /\ got >= count

\* Mutant of Truncated: an empty page is taken for the end of the list.
NeverTruncated(page, count) == FALSE

\* An empty page before the declared total: the list is not complete.
Truncated(page, count) == page = {} /\ count > offset

\* What 115 may answer to a request for files: the page asked for with the
\* total, or without it, or an empty page with the total or without it.
FilesAnswer ==
    LET page == {i \in DOMAIN listing : offset < i /\ i <= offset + PageSize}
    IN  {[page |-> page, count |-> Len(listing)]}
        \union {a \in {[page |-> page, count |-> 0]} : "nocount" \in ScanFault}
        \union {a \in {[page |-> {}, count |-> Len(listing)]} : "short" \in ScanFault}
        \union {a \in {[page |-> {}, count |-> 0]} : "blank" \in ScanFault}

\* An empty page without a total ends the loop like the last page.
Blinded(page, count) == page = {} /\ count = 0 /\ offset < Len(listing)

\* One round of the loop of _fetch_all_files.
FetchFiles(page, count) ==
    /\ pc = "files" /\ ~cancel
    /\ IF Truncated(page, count)
       THEN Unavailable
       ELSE /\ collected' = collected \union
                   {[file |-> listing[i], dir |-> home[listing[i]]] : i \in page}
            /\ offset' = offset + Cardinality(page)
            /\ pc' = IF page = {} \/ Enough(count, offset')
                     THEN "derive" ELSE "files"
            /\ UNCHANGED <<pageNo, dirMap, paths, climb, result>>
    /\ blind' = (blind \/ Blinded(page, count))
    /\ still

\* The entries whose pickcode is one of a file; the others are passed over.
Usable(entries) == {e \in entries : e.file \notin unusable}

\* _derive_root_pickcode needs one such entry that the library can convert.
Derive(converts) ==
    /\ pc = "derive" /\ ~cancel
    /\ IF Usable(collected) = {} \/ ~converts
       THEN Unavailable
       ELSE /\ pc' = "dirs"
            /\ UNCHANGED <<collected, offset, pageNo, dirMap, paths, climb, result>>
    /\ quiet

\* Mutant of ParentRead: fid for pid.
FidForPid(d) == d

ParentRead(d) == parent[d]

\* Mutant of LastPage: the limit itself is passed.
LastPageLate(n) == n > MaxDirsPages

LastPage(n) == n = MaxDirsPages

\* One round of the loop of _fetch_dir_map.  115 lists the directories that
\* it has not listed yet, in an order of its own; it may promise another page
\* when there is none.
FetchDirs(page, hasNext) ==
    LET rest == {d \in Dir : parent[d] # Nowhere /\ dirMap[d] = Nowhere}
    IN  /\ pc = "dirs"
        /\ page \subseteq rest
        /\ Cardinality(page) <= DirsPageSize
        /\ page # rest => Cardinality(page) = DirsPageSize /\ hasNext
        /\ page = rest /\ hasNext => "endless" \in ScanFault
        /\ IF hasNext /\ LastPage(pageNo)
           THEN Unavailable
           ELSE /\ dirMap' = [d \in Dir |-> IF d \in page THEN ParentRead(d) ELSE dirMap[d]]
                /\ pageNo' = IF hasNext THEN pageNo + 1 ELSE pageNo
                /\ pc' = IF hasNext THEN "dirs" ELSE "paths"
                /\ paths' = [paths EXCEPT ![Root] = {}]
                /\ UNCHANGED <<collected, offset, climb, result>>
        /\ quiet

\* path_of(d), with d not in its cache
EnterPathOf(d) ==
    /\ pc = "paths" /\ climbing = Nowhere /\ paths[d] = Nowhere
    /\ \E e \in Usable(collected) : e.dir = d
    /\ climbing' = d /\ cursor' = d /\ parts' = {}
    /\ UNCHANGED <<pc, collected, offset, pageNo, dirMap, paths, result>>
    /\ quiet

\* Mutant of Parent: a directory that is not in the table is put in the root.
ParentGuessed(d) == IF dirMap[d] = Nowhere THEN Root ELSE dirMap[d]

Parent(d) == dirMap[d]

Climb ==
    /\ climbing # Nowhere /\ cursor # Root /\ Parent(cursor) # Nowhere
    /\ parts' = parts \union {<<cursor, Parent(cursor)>>}
    /\ cursor' = Parent(cursor)
    /\ UNCHANGED <<pc, collected, offset, pageNo, dirMap, paths, climbing, result>>
    /\ quiet

LeavePathOf ==
    /\ climbing # Nowhere /\ cursor = Root
    /\ paths' = [paths EXCEPT ![climbing] = parts]
    /\ climbing' = Nowhere /\ cursor' = Nowhere /\ parts' = {}
    /\ UNCHANGED <<pc, collected, offset, pageNo, dirMap, result>>
    /\ quiet

NoParent ==
    /\ climbing # Nowhere /\ cursor # Root /\ Parent(cursor) = Nowhere
    /\ pc' = "fallback"
    /\ climbing' = Nowhere /\ cursor' = Nowhere /\ parts' = {}
    /\ UNCHANGED <<collected, offset, pageNo, dirMap, paths, result>>
    /\ quiet

Compose ==
    /\ pc = "paths" /\ climbing = Nowhere
    /\ \A e \in Usable(collected) : paths[e.dir] # Nowhere
    /\ result' = {[file |-> e.file, path |-> paths[e.dir]] : e \in Usable(collected)}
    /\ pc' = "done"
    /\ UNCHANGED <<collected, offset, pageNo, dirMap, paths, climb>>
    /\ quiet

\* _iter_root_files, FastScanUnavailable caught: directory by directory.
Fallback(fails) ==
    /\ pc = "fallback"
    /\ pc' = IF fails THEN "failed" ELSE "done"
    /\ result' = IF fails THEN {} ELSE Tree(home, parent)
    /\ UNCHANGED <<collected, offset, pageNo, dirMap, paths, climb>>
    /\ quiet

\* _iter_files_115 without a client: an empty listing, and no error.
FallbackBlind ==
    /\ pc = "fallback" /\ "noclient" \in ScanFault
    /\ pc' = "done"
    /\ result' = {}
    /\ blind' = TRUE
    /\ UNCHANGED <<collected, offset, pageNo, dirMap, paths, climb>>
    /\ still

Ended == pc \in {"done", "failed"}

Step ==
    \/ Begin \/ CancelSeen \/ Refused
    \/ \E a \in FilesAnswer : FetchFiles(a.page, a.count)
    \/ \E converts \in {TRUE} \union (IF "pickcode" \in ScanFault THEN {FALSE} ELSE {}) :
           Derive(converts)
    \/ \E page \in SUBSET Dir, hasNext \in BOOLEAN : FetchDirs(page, hasNext)
    \/ \E d \in Dir : EnterPathOf(d)
    \/ Climb \/ LeavePathOf \/ NoParent \/ Compose
    \/ \E fails \in {FALSE} \union (IF "dfs" \in ScanFault THEN {TRUE} ELSE {}) :
           Fallback(fails)
    \/ FallbackBlind

Acyclic(tree) == \A d \in Dir : \E x \in Above(tree, d) : tree[x] = Root

ScanInit ==
    /\ \E n \in 0..Cardinality(File) : listing \in [1..n -> File]
    /\ \A i, j \in DOMAIN listing : listing[i] = listing[j] => i = j
    /\ home \in [File -> Folder \union {Nowhere}]
    /\ \A f \in File : home[f] # Nowhere <=> \E i \in DOMAIN listing : listing[i] = f
    /\ parent \in [Dir -> Folder] /\ Acyclic(parent)
    /\ unusable \in SUBSET File
    /\ cancel = FALSE
    /\ pc = "idle"
    /\ collected = {} /\ offset = 0 /\ pageNo = 1
    /\ dirMap = [d \in Dir |-> Nowhere]
    /\ paths = [d \in Folder |-> Nowhere]
    /\ climbing = Nowhere /\ cursor = Nowhere /\ parts = {}
    /\ result = {}
    /\ changes = 0 /\ moves = 0 /\ removals = 0
    /\ blind = FALSE /\ kept = {} /\ truths = {}

ScanNext == User \/ RequestCancel \/ Step

\* The scan runs in a thread of its own and every request has a timeout.
ScanSpec == ScanInit /\ [][ScanNext]_scanVars /\ WF_scanVars(Step)

-----------------------------------------------------------------------------
(* Properties *)

Missed == kept \ {r.file : r \in result}

\* A scan that was not cancelled finds every file that was in the tree all the
\* time, if its pickcode can be used.  CHANGELOG.md:36 says that it falls back
\* as soon as its result is not complete; it cannot see that a removal has moved
\* an entry to a page it has read already: the next page is empty, the total no
\* larger than what it has, and the loop ends (fast_scan.py:166-172).
NothingMissed == pc = "done" /\ ~cancel => Missed \subseteq unusable

\* While nothing is removed it does find them, whatever the user uploads and
\* moves meanwhile: the offset runs over a list that grows at its front and a
\* total that is read with every page (fast_scan.py:142-178).  Three things
\* escape it: an entry without the pickcode of a file (96-98), an empty answer
\* without a total, and a walk of the directories without a client.
UntouchedFound == removals = 0 /\ ~blind => NothingMissed

\* No path is made up: with at most one move during the scan, every file that
\* is still there is reported in a place where it was at some moment of the
\* scan, although its directory and the directories above it are read at
\* different times (fast_scan.py:86-112).
PathsHeld ==
    pc = "done" /\ moves <= 1 => {r \in result : home[r.file] # Nowhere} \subseteq truths

\* A scan ends, with a list or with an error (fast_scan.py:142, 199 and 47 are
\* its loops), if the user moves at most one thing meanwhile.
ScanEnds == pc = "files" ~> Ended \/ moves > 1
=============================================================================
