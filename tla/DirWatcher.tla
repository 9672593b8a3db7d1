------------------------------ MODULE DirWatcher ------------------------------
(***************************************************************************)
(* The watch list of inodes: policies/dir_watcher.bpf.h, which maintains it *)
(* from vfs_open, and the loader that fills it before the program is        *)
(* attached (dir_watcher.h, cache_ext_policy_watch.h and main of            *)
(* cache_ext_s3fifo.c).                                                     *)
(*                                                                         *)
(* Files move while the loader scans and while they are opened, and opens   *)
(* of one file overlap: each map operation is atomic, the hook is not.      *)
(***************************************************************************)
EXTENDS Integers, FiniteSets, Sequences

CONSTANTS
    Files,         \* inodes, of files and of subdirectories (one that is removed may
                   \* return as another one)
    Nested,        \* the files in a subdirectory of their root
    Roots,         \* watch roots, in the order the loader scans them
    Hidden,        \* the parts of the roots below a name that begins with a dot
    Tag,           \* tag of each root and of its hidden part: client_tag_1, client_tag_2
    Outside,       \* the directories that are not watched
    Removed,       \* a file that does not exist
    Threads,       \* threads that open files
    NoFile,
    MaxEntries,    \* max_entries of inode_watchlist
    MaxMoves       \* bound on files moved, removed and created

Scanned == {Roots[i] : i \in DOMAIN Roots}
Places == Scanned \cup Hidden \cup {Outside}

ASSUME DirWatcherAssumption ==
    /\ IsFiniteSet(Files) /\ NoFile \notin Files /\ Nested \subseteq Files
    /\ Roots \in Seq(Places) /\ Len(Roots) > 0 /\ Scanned \cap Hidden = {}
    /\ Outside \notin Scanned \cup Hidden /\ Removed \notin Places
    /\ Tag \in [Scanned \cup Hidden -> Nat \ {0}]
    /\ MaxEntries \in Nat /\ MaxMoves \in Nat

VARIABLES
    dir,           \* where each file is
    stage,         \* of the loader: "scan", "attach", "running" or "failed"
    rootNr,        \* the root it scans
    unread,        \* files the scan of the current root has not come to
    watchlist,     \* inode_watchlist: the tag of an inode, 0 where there is none
    th,            \* per thread: where it is in vfs_open_enter, and its locals
    moves,         \* history: files moved so far
    moved,         \* history: files that moved since the loader started
    skipped,       \* history: files below a directory that could not be opened
    lost,          \* history: files whose insertion failed
    raced,         \* history: files that moved during an open
    opened         \* history: files opened at the place where they are

vars == <<dir, stage, rootNr, unread, watchlist, th, moves, moved, skipped, lost, raced,
          opened>>

loader == <<stage, rootNr, unread>>
history == <<moves, moved, skipped, raced>>

Idle == [pc |-> "idle", f |-> NoFile, tag |-> 0]
At(t, label) == th[t].pc = label
Opening(f) == \E t \in Threads : th[t].f = f

-----------------------------------------------------------------------------
(* The map *)

Entries == {f \in Files : watchlist[f] # 0}

HasRoomAlways(f) == TRUE   \* mutant: a map that never refuses an insertion
HasRoom(f) == f \in Entries \/ Cardinality(Entries) < MaxEntries

Insert(f, tag) ==
    IF HasRoom(f) THEN watchlist' = [watchlist EXCEPT ![f] = tag] /\ UNCHANGED lost
                  ELSE lost' = lost \cup {f} /\ UNCHANGED watchlist

-----------------------------------------------------------------------------
(* The file system *)

Move(f, to) ==
    /\ moves < MaxMoves
    /\ to # dir[f]
    /\ dir' = [dir EXCEPT ![f] = to]
    /\ moves' = moves + 1
    /\ moved' = moved \cup {f}
    /\ opened' = opened \ {f}
    /\ raced' = IF Opening(f) THEN raced \cup {f} ELSE raced
    /\ UNCHANGED <<loader, watchlist, th, skipped, lost>>

-----------------------------------------------------------------------------
(* The loader: initialize_watch_dir_map_tagged for each root *)

Scanning == stage = "scan"
FilesIn(place) == {f \in Files : dir[f] = place}

\* readdir returns an entry; it may also return a file that came after opendir.
\* When stat finds it gone, or the map is full, the loader gives up. A name that
\* begins with a dot is skipped before stat, with all that is below it: the scan
\* never comes to the Hidden part of a root. A subdirectory is inserted like a file.
ScanEntry(f) ==
    LET root == Roots[rootNr]
    IN  /\ Scanning
        /\ f \in unread \/ dir[f] = root
        /\ unread' = unread \ {f}
        /\ IF dir[f] = root
           THEN /\ Insert(f, Tag[root])
                /\ stage' = IF HasRoom(f) THEN stage ELSE "failed"
           ELSE /\ stage' = "failed"
                /\ UNCHANGED <<watchlist, lost>>
        /\ UNCHANGED <<dir, rootNr, th, history, opened>>

\* A subdirectory that opendir refuses: the recursive call returns errno, which
\* is positive, and the caller only looks for negative results.
SkipDirectory ==
    /\ Scanning /\ unread \cap Nested # {}
    /\ unread' = unread \ Nested
    /\ skipped' = skipped \cup (unread \cap Nested)
    /\ UNCHANGED <<dir, stage, rootNr, watchlist, th, moves, moved, lost, raced, opened>>

\* A file that left the root before readdir came to it is not returned.
ScanDoneEarly == TRUE   \* mutant: a scan that stops at any entry
ScanDone == unread \cap FilesIn(Roots[rootNr]) = {}

\* The next root; after the last one, the policy and vfs_open_enter are attached.
EndScan ==
    /\ Scanning /\ ScanDone
    /\ IF rootNr < Len(Roots)
       THEN /\ rootNr' = rootNr + 1
            /\ unread' = FilesIn(Roots[rootNr + 1])
            /\ UNCHANGED stage
       ELSE stage' = "attach" /\ unread' = {} /\ UNCHANGED rootNr
    /\ UNCHANGED <<dir, watchlist, th, history, lost, opened>>

Attach ==
    /\ stage = "attach"
    /\ stage' = "running"
    /\ UNCHANGED <<dir, rootNr, unread, watchlist, th, history, lost, opened>>

-----------------------------------------------------------------------------
(* vfs_open_enter *)

\* client_tag_from_watch_roots, which takes hidden names as any other; a file
\* outside the roots is left alone.
Open(t, f) ==
    /\ stage = "running"
    /\ At(t, "idle") /\ dir[f] \in DOMAIN Tag
    /\ th' = [th EXCEPT ![t] = [pc |-> "lookup", f |-> f, tag |-> Tag[dir[f]]]]
    /\ UNCHANGED <<dir, loader, watchlist, history, lost, opened>>

AfterLookupKeep(present) == IF present THEN "idle" ELSE "update"   \* mutant: nothing to do
AfterLookup(present) == IF present THEN "delete" ELSE "update"

AfterDeleteSwapped(deleted) == IF deleted THEN "idle" ELSE "update"  \* mutant: test inverted
AfterDelete(deleted) == IF deleted THEN "update" ELSE "idle"

Goto(t, label) ==
    th' = [th EXCEPT ![t] = IF label = "idle" THEN Idle ELSE [@ EXCEPT !.pc = label]]

\* The open is over as far as the watch list goes.
Finish(t) == opened' = opened \cup {th[t].f}

Lookup(t) ==
    /\ At(t, "lookup")
    /\ LET next == AfterLookup(th[t].f \in Entries)
       IN  /\ Goto(t, next)
           /\ IF next = "idle" THEN Finish(t) ELSE UNCHANGED opened
    /\ UNCHANGED <<dir, loader, watchlist, history, lost>>

\* Another opener may have deleted the entry first: the hook returns.
Delete(t) ==
    /\ At(t, "delete")
    /\ LET next == AfterDelete(th[t].f \in Entries)
       IN  /\ Goto(t, next)
           /\ IF next = "idle" THEN Finish(t) ELSE UNCHANGED opened
    /\ watchlist' = [watchlist EXCEPT ![th[t].f] = 0]
    /\ UNCHANGED <<dir, loader, history, lost>>

Update(t) ==
    /\ At(t, "update")
    /\ Insert(th[t].f, th[t].tag)
    /\ Goto(t, "idle")
    /\ Finish(t)
    /\ UNCHANGED <<dir, loader, history>>

-----------------------------------------------------------------------------
(* Specification *)

Init ==
    /\ dir \in [Files -> Places \cup {Removed}]
    /\ stage = "scan" /\ rootNr = 1 /\ unread = FilesIn(Roots[1])
    /\ watchlist = [f \in Files |-> 0]
    /\ th = [t \in Threads |-> Idle]
    /\ moves = 0 /\ moved = {} /\ skipped = {} /\ lost = {} /\ raced = {} /\ opened = {}

Hook(t) == Lookup(t) \/ Delete(t) \/ Update(t)

Next ==
    \/ \E f \in Files, to \in Places \cup {Removed} : Move(f, to)
    \/ \E f \in Files : ScanEntry(f)
    \/ SkipDirectory \/ EndScan \/ Attach
    \/ \E t \in Threads, f \in Files : Open(t, f)
    \/ \E t \in Threads : Hook(t)

Spec == Init /\ [][Next]_vars

\* An attached program runs to its end on every call.
FairSpec == Spec /\ \A t \in Threads : WF_vars(Hook(t))

-----------------------------------------------------------------------------
(* Properties *)

Tags == {0} \cup {Tag[r] : r \in DOMAIN Tag}
ThreadStates ==
    [pc : {"idle", "lookup", "delete", "update"}, f : Files \cup {NoFile}, tag : Tags]

\* Types; the map holds no more entries than it may.
TypeOK ==
    /\ dir \in [Files -> Places \cup {Removed}]
    /\ stage \in {"scan", "attach", "running", "failed"} /\ rootNr \in DOMAIN Roots
    /\ unread \subseteq Files
    /\ watchlist \in [Files -> Tags]
    /\ Cardinality(Entries) <= MaxEntries
    /\ th \in [Threads -> ThreadStates]
    /\ moves \in Nat /\ moved \subseteq Files /\ skipped \subseteq Files
    /\ lost \subseteq Files /\ raced \subseteq Files /\ opened \subseteq Files

\* Once the loader runs, every file that has been under a root all the time, below
\* no name that begins with a dot, is watched with its root's tag, whatever files
\* came and went during the scan and however opens of it overlap: the entry is
\* missing only while an open that deleted it is under way, after the map refused it,
\* or below a directory that could not be opened. Files with hidden names are watched
\* from their first open on (TagFollowsLastOpen).
ScannedIsWatched ==
    stage \in {"attach", "running"} =>
        \A f \in Files \ (moved \cup skipped \cup lost) :
            dir[f] \in Scanned => watchlist[f] = Tag[dir[f]] \/ Opening(f)

\* A file that was opened where it is now has the tag of that place, when no open
\* of it is under way: overlapping opens never leave it unwatched or with the tag
\* of a place it came from, unless it moved in the middle of an open.
TagFollowsLastOpen ==
    \A f \in opened \ (raced \cup lost) :
        dir[f] \in DOMAIN Tag /\ ~Opening(f) => watchlist[f] = Tag[dir[f]]

\* A file that is or has been opened under a root does not stay unwatched, unless
\* the map refused it: a thread that returns because another one deleted the entry
\* first relies on that one to insert it again.
OpenLeadsToWatched ==
    \A f \in Files :
        (Opening(f) \/ f \in opened) /\ watchlist[f] = 0
            ~> watchlist[f] # 0 \/ f \in lost

=============================================================================
