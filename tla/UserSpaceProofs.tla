--------------------------- MODULE UserSpaceProofs ---------------------------
(***************************************************************************)
(* Theorems about the two programs of user space that run beside the        *)
(* kernel's policies.                                                       *)
(*                                                                         *)
(* The watch list, for any files, roots, threads and map size: types and    *)
(* capacity, and which files are watched, with which tag, while opens of    *)
(* one file overlap.                                                        *)
(*                                                                         *)
(* The delay proxy, for messages, reads, delays and rates of any size: types *)
(* and the bound of the buckets, the bytes of the one message, and that the  *)
(* buckets, filled only when they are asked, keep the rate of RateLimit.     *)
(***************************************************************************)
EXTENDS DirWatcher, TcpDelayProxy, FiniteSetTheorems, TLAPS

-----------------------------------------------------------------------------
(* The watch list *)

\* A file that is in no map because an open is about to insert it.
Missing(f) == watchlist[f] = 0 /\ \E t \in Threads : At(t, "update") /\ th[t].f = f
Right(f) == watchlist[f] = Tag[dir[f]] \/ Missing(f)

\* An opener knows the tag of the place, unless the file moved meanwhile.
OpenerInv ==
    \A t \in Threads :
        /\ At(t, "idle") => th[t] = Idle
        /\ ~At(t, "idle") =>
             /\ stage = "running"
             /\ th[t].f \in Files /\ th[t].tag # 0
             /\ th[t].f \notin raced =>
                  dir[th[t].f] \in DOMAIN Tag /\ th[t].tag = Tag[dir[th[t].f]]
        /\ At(t, "delete") /\ th[t].f \notin lost =>
             watchlist[th[t].f] # 0 \/ Missing(th[t].f)

\* The files of the roots before rootNr are watched, and those of the root itself
\* unless the scan has still to come to them.
ScanInv ==
    stage = "scan" =>
        \A f \in Files \ (moved \cup skipped \cup lost) : \A i \in 1 .. rootNr :
            dir[f] = Roots[i] /\ (i < rootNr \/ f \notin unread)
                => watchlist[f] = Tag[dir[f]]

WatchedInv ==
    stage \in {"attach", "running"} =>
        \A f \in Files \ (moved \cup skipped \cup lost) : dir[f] \in Scanned => Right(f)

OpenedInv ==
    /\ opened # {} => stage = "running"
    /\ \A f \in opened \ (raced \cup lost) : dir[f] \in DOMAIN Tag => Right(f)

IndInv == TypeOK /\ raced \subseteq moved /\ OpenerInv /\ ScanInv /\ WatchedInv /\ OpenedInv

-----------------------------------------------------------------------------
LEMMA ConstantFacts ==
    /\ Len(Roots) \in Nat \ {0} /\ DOMAIN Roots = 1 .. Len(Roots)
    /\ Scanned = {Roots[i] : i \in 1 .. Len(Roots)} /\ Scanned \subseteq DOMAIN Tag
    /\ \A r \in DOMAIN Tag : Tag[r] \in Tags /\ Tag[r] # 0
    /\ \A i \in 1 .. Len(Roots) : Roots[i] \in DOMAIN Tag
    /\ 0 \in Tags /\ Idle \in ThreadStates /\ Idle.pc = "idle" /\ Idle.f = NoFile
    /\ IsFiniteSet(Files) /\ NoFile \notin Files /\ MaxEntries \in Nat
    /\ Nested \subseteq Files
<1>1. /\ Roots \in Seq(Places) /\ Len(Roots) > 0
      /\ Tag \in [Scanned \cup Hidden -> Nat \ {0}]
    BY DirWatcherAssumption
<1>2. Len(Roots) \in Nat \ {0} /\ DOMAIN Roots = 1 .. Len(Roots)
    BY <1>1
<1>3. Scanned = {Roots[i] : i \in 1 .. Len(Roots)} /\ Scanned \subseteq DOMAIN Tag
    BY <1>1, <1>2 DEF Scanned
<1>4. \A r \in DOMAIN Tag : Tag[r] \in Tags /\ Tag[r] # 0
    BY <1>1 DEF Tags
<1>5. 0 \in Tags /\ Idle \in ThreadStates /\ Idle.pc = "idle" /\ Idle.f = NoFile
    BY DEF Tags, ThreadStates, Idle
<1> QED
    BY <1>2, <1>3, <1>4, <1>5, DirWatcherAssumption

\* An insertion keeps the capacity, and fails only by losing the file.
LEMMA InsertStep ==
    ASSUME TypeOK, NEW f \in Files, NEW tag \in Tags, tag # 0, Insert(f, tag)
    PROVE  /\ watchlist' \in [Files -> Tags]
           /\ Cardinality(Entries') <= MaxEntries
           /\ lost' \subseteq Files
           /\ \/ watchlist' = [watchlist EXCEPT ![f] = tag] /\ lost' = lost
              \/ lost' = lost \cup {f} /\ watchlist' = watchlist
<1>1. \/ HasRoom(f) /\ watchlist' = [watchlist EXCEPT ![f] = tag] /\ lost' = lost
      \/ lost' = lost \cup {f} /\ watchlist' = watchlist
    BY DEF Insert
<1>2. watchlist \in [Files -> Tags] /\ lost \subseteq Files
    BY DEF TypeOK
<1>3. watchlist' \in [Files -> Tags] /\ lost' \subseteq Files
    BY <1>1, <1>2
<1>4. Cardinality(Entries') <= MaxEntries
  <2>1. CASE watchlist' = watchlist
    <3>1. Entries' = Entries
        BY <2>1 DEF Entries
    <3> QED
        BY <3>1 DEF TypeOK
  <2>2. CASE HasRoom(f) /\ watchlist' = [watchlist EXCEPT ![f] = tag]
    <3>1. Entries' = Entries \cup {f}
        BY <1>2, <2>2 DEF Entries
    <3>2. IsFiniteSet(Entries) /\ Cardinality(Entries) \in Nat
        BY ConstantFacts, FS_Subset, FS_CardinalityType DEF Entries
    <3>3. CASE f \in Entries
      <4>1. Entries' = Entries
          BY <3>1, <3>3
      <4> QED
          BY <4>1 DEF TypeOK
    <3>4. CASE f \notin Entries /\ Cardinality(Entries) < MaxEntries
      <4>1. Cardinality(Entries \cup {f}) = Cardinality(Entries) + 1
          BY <3>2, <3>4, FS_AddElement
      <4> QED
          BY <3>1, <3>2, <3>4, <4>1, ConstantFacts
    <3> QED
        BY <2>2, <3>3, <3>4 DEF HasRoom
  <2> QED
      BY <1>1, <2>1, <2>2
<1> QED
    BY <1>1, <1>3, <1>4

LEMMA InitIndInv == Init => IndInv
<1> SUFFICES ASSUME Init PROVE IndInv
    OBVIOUS
<1>1. TypeOK
  <2>1. Entries = {} /\ Cardinality({}) = 0
      BY FS_EmptySet DEF Init, Entries
  <2>2. Cardinality(Entries) <= MaxEntries
      BY <2>1, ConstantFacts
  <2>3. watchlist \in [Files -> Tags] /\ th \in [Threads -> ThreadStates]
      BY ConstantFacts DEF Init
  <2>4. unread \subseteq Files /\ rootNr \in DOMAIN Roots
      BY ConstantFacts DEF Init, FilesIn
  <2> QED
      BY <2>2, <2>3, <2>4 DEF Init, TypeOK
<1>2. \A t \in Threads : At(t, "idle") /\ th[t] = Idle /\ ~At(t, "delete")
    BY ConstantFacts DEF Init, At
<1>3. OpenerInv
    BY <1>2 DEF OpenerInv
<1>4. ScanInv
  <2> SUFFICES ASSUME NEW f \in Files, NEW i \in 1 .. rootNr, dir[f] = Roots[i],
                      i < rootNr \/ f \notin unread
               PROVE  FALSE
      BY DEF ScanInv
  <2>1. i = 1 /\ rootNr = 1
      BY DEF Init
  <2> QED
      BY <2>1 DEF Init, FilesIn
<1>5. WatchedInv /\ OpenedInv /\ raced \subseteq moved
    BY DEF Init, WatchedInv, OpenedInv
<1> QED
    BY <1>1, <1>3, <1>4, <1>5 DEF IndInv

-----------------------------------------------------------------------------
(* The file system and the loader *)

LEMMA MoveStep ==
    ASSUME IndInv, NEW f \in Files, NEW to \in Places \cup {Removed}, Move(f, to)
    PROVE  IndInv'
<1>1. /\ dir' = [dir EXCEPT ![f] = to] /\ moves' = moves + 1
      /\ moved' = moved \cup {f} /\ opened' = opened \ {f}
      /\ raced' = IF Opening(f) THEN raced \cup {f} ELSE raced
      /\ UNCHANGED <<stage, rootNr, unread, watchlist, th, skipped, lost>>
    BY DEF Move, loader
<1>2. dir \in [Files -> Places \cup {Removed}]
    BY DEF IndInv, TypeOK
<1>3. dir' \in [Files -> Places \cup {Removed}] /\ \A g \in Files : g # f => dir'[g] = dir[g]
    BY <1>1, <1>2
<1>4. raced' \subseteq moved' /\ raced' \subseteq raced \cup {f} /\ raced \subseteq raced'
    BY <1>1 DEF IndInv
<1>5. TypeOK'
  <2>1. moves' \in Nat /\ moved' \subseteq Files /\ raced' \subseteq Files /\ opened' \subseteq Files
      BY <1>1, <1>4 DEF IndInv, TypeOK
  <2>2. Cardinality(Entries') <= MaxEntries
      BY <1>1 DEF IndInv, TypeOK, Entries
  <2> QED
      BY <1>1, <1>3, <2>1, <2>2 DEF IndInv, TypeOK
<1>6. \A g : (Missing(g) <=> Missing(g)')
    BY <1>1 DEF Missing, At
<1>7. OpenerInv'
  <2> SUFFICES ASSUME NEW t \in Threads PROVE OpenerInv!(t)'
      BY DEF OpenerInv
  <2>1. OpenerInv!(t)
      BY DEF IndInv, OpenerInv
  <2>2. CASE th[t].f = f
    <3>1. f \in raced'
        BY <1>1, <2>2 DEF Opening
    <3> QED
        BY <1>1, <1>6, <2>1, <2>2, <3>1 DEF At
  <2>3. CASE th[t].f # f
      BY <1>1, <1>3, <1>4, <1>6, <2>1, <2>3 DEF At
  <2> QED
      BY <2>2, <2>3
<1>8. ScanInv'
    BY <1>1, <1>3 DEF IndInv, ScanInv
<1>9. WatchedInv'
    BY <1>1, <1>3, <1>6 DEF IndInv, WatchedInv, Right
<1>10. OpenedInv'
  <2> SUFFICES ASSUME NEW g \in opened' \ (raced' \cup lost'), dir'[g] \in DOMAIN Tag
               PROVE  Right(g)'
      BY <1>1 DEF IndInv, OpenedInv
  <2>1. g \in opened \ (raced \cup lost) /\ g # f /\ g \in Files
      BY <1>1, <1>4 DEF IndInv, TypeOK
  <2> QED
      BY <1>1, <1>3, <1>6, <2>1 DEF IndInv, OpenedInv, Right
<1> QED
    BY <1>4, <1>5, <1>7, <1>8, <1>9, <1>10 DEF IndInv

\* Before the program is attached no file is being opened and none has been.
LEMMA BeforeRunning ==
    ASSUME IndInv, stage # "running"
    PROVE  opened = {} /\ \A t \in Threads : At(t, "idle")
BY DEF IndInv, OpenerInv, OpenedInv

\* Steps of the loader that leave the threads idle.
LEMMA LoaderStep ==
    ASSUME IndInv, stage # "running", UNCHANGED <<th, opened, moved, raced>>
    PROVE  OpenerInv' /\ OpenedInv' /\ (raced \subseteq moved)'
<1>1. opened = {} /\ \A t \in Threads : At(t, "idle")
    BY BeforeRunning
<1>2. \A t \in Threads : At(t, "idle")' /\ th'[t] = Idle /\ ~At(t, "delete")'
    BY <1>1 DEF At, IndInv, OpenerInv
<1>3. OpenerInv'
    BY <1>2 DEF OpenerInv
<1> QED
    BY <1>1, <1>3 DEF IndInv, OpenedInv

LEMMA ScanEntryStep ==
    ASSUME IndInv, NEW f \in Files, ScanEntry(f)
    PROVE  IndInv'
<1> DEFINE root == Roots[rootNr]
<1>1. /\ stage = "scan" /\ unread' = unread \ {f} /\ stage' \in {"scan", "failed"}
      /\ stage' = "scan" => dir[f] = root /\ HasRoom(f)
      /\ dir[f] = root => Insert(f, Tag[root])
      /\ dir[f] # root => UNCHANGED <<watchlist, lost>>
      /\ UNCHANGED <<dir, rootNr, th, moves, moved, skipped, raced, opened>>
    BY DEF ScanEntry, Scanning, history
<1>2. root \in DOMAIN Tag /\ Tag[root] \in Tags /\ Tag[root] # 0
  <2>1. rootNr \in 1 .. Len(Roots)
      BY ConstantFacts DEF IndInv, TypeOK
  <2> QED
      BY <2>1, ConstantFacts
<1>3. /\ watchlist' \in [Files -> Tags]
      /\ Cardinality(Entries') <= MaxEntries
      /\ lost' \subseteq Files
  <2>1. CASE dir[f] = root
      BY <1>1, <1>2, <2>1, InsertStep DEF IndInv
  <2>2. CASE dir[f] # root
      BY <1>1, <2>2 DEF IndInv, TypeOK, Entries
  <2> QED
      BY <2>1, <2>2
<1>4. TypeOK'
  <2>1. unread' \subseteq Files
      BY <1>1 DEF IndInv, TypeOK
  <2> QED
      BY <1>1, <1>3, <2>1 DEF IndInv, TypeOK
<1>5. OpenerInv' /\ OpenedInv' /\ (raced \subseteq moved)'
    BY <1>1, LoaderStep
<1>6. ScanInv'
  <2> SUFFICES ASSUME stage' = "scan", NEW g \in Files \ (moved \cup skipped \cup lost'),
                      NEW i \in 1 .. rootNr, dir[g] = Roots[i],
                      i < rootNr \/ g \notin unread'
               PROVE  watchlist'[g] = Tag[dir[g]]
      BY <1>1 DEF ScanInv
  <2>1. watchlist' = [watchlist EXCEPT ![f] = Tag[root]] /\ lost' = lost
      BY <1>1 DEF Insert
  <2>2. watchlist \in [Files -> Tags]
      BY DEF IndInv, TypeOK
  <2>3. CASE g = f
      BY <1>1, <2>1, <2>2, <2>3
  <2>4. CASE g # f
    <3>1. watchlist[g] = Tag[dir[g]]
        BY <1>1, <2>1, <2>4 DEF IndInv, ScanInv
    <3> QED
        BY <2>1, <2>2, <2>4, <3>1
  <2> QED
      BY <2>3, <2>4
<1>7. WatchedInv'
    BY <1>1 DEF WatchedInv
<1> QED
    BY <1>4, <1>5, <1>6, <1>7 DEF IndInv

LEMMA SkipDirectoryStep ==
    ASSUME IndInv, SkipDirectory
    PROVE  IndInv'
<1>1. /\ stage = "scan" /\ unread' = unread \ Nested
      /\ skipped' = skipped \cup (unread \cap Nested)
      /\ UNCHANGED <<dir, stage, rootNr, watchlist, th, moves, moved, lost, raced, opened>>
    BY DEF SkipDirectory, Scanning
<1>2. TypeOK'
  <2>1. unread' \subseteq Files /\ skipped' \subseteq Files
      BY <1>1 DEF IndInv, TypeOK
  <2>2. Cardinality(Entries') <= MaxEntries
      BY <1>1 DEF IndInv, TypeOK, Entries
  <2> QED
      BY <1>1, <2>1, <2>2 DEF IndInv, TypeOK
<1>3. OpenerInv' /\ OpenedInv' /\ (raced \subseteq moved)'
    BY <1>1, LoaderStep
<1>4. ScanInv'
    BY <1>1 DEF IndInv, ScanInv
<1>5. WatchedInv'
    BY <1>1 DEF WatchedInv
<1> QED
    BY <1>2, <1>3, <1>4, <1>5 DEF IndInv

LEMMA EndScanStep ==
    ASSUME IndInv, EndScan
    PROVE  IndInv'
<1>1. /\ stage = "scan" /\ unread \cap FilesIn(Roots[rootNr]) = {}
      /\ \/ /\ rootNr < Len(Roots) /\ rootNr' = rootNr + 1
            /\ unread' = FilesIn(Roots[rootNr + 1]) /\ stage' = "scan"
         \/ ~(rootNr < Len(Roots)) /\ rootNr' = rootNr /\ unread' = {} /\ stage' = "attach"
      /\ UNCHANGED <<dir, watchlist, th, moves, moved, skipped, raced, lost, opened>>
    BY DEF EndScan, Scanning, ScanDone, history
<1>2. rootNr \in 1 .. Len(Roots) /\ Len(Roots) \in Nat
    BY ConstantFacts DEF IndInv, TypeOK
<1>3. \A f \in Files \ (moved \cup skipped \cup lost) : \A i \in 1 .. rootNr :
         dir[f] = Roots[i] => watchlist[f] = Tag[dir[f]]
  <2> SUFFICES ASSUME NEW f \in Files \ (moved \cup skipped \cup lost),
                      NEW i \in 1 .. rootNr, dir[f] = Roots[i]
               PROVE  watchlist[f] = Tag[dir[f]]
      OBVIOUS
  <2>1. i = rootNr => f \notin unread
      BY <1>1 DEF FilesIn
  <2>2. i < rootNr \/ i = rootNr
      BY <1>2
  <2> QED
      BY <1>1, <2>1, <2>2 DEF IndInv, ScanInv
<1>4. TypeOK'
  <2>1. unread' \subseteq Files
      BY <1>1 DEF FilesIn
  <2>2. rootNr' \in DOMAIN Roots
      BY <1>1, <1>2, ConstantFacts
  <2>3. Cardinality(Entries') <= MaxEntries
      BY <1>1 DEF IndInv, TypeOK, Entries
  <2> QED
      BY <1>1, <2>1, <2>2, <2>3 DEF IndInv, TypeOK
<1>5. OpenerInv' /\ OpenedInv' /\ (raced \subseteq moved)'
    BY <1>1, LoaderStep
<1>6. ScanInv'
  <2> SUFFICES ASSUME stage' = "scan", NEW f \in Files \ (moved \cup skipped \cup lost),
                      NEW i \in 1 .. rootNr', dir[f] = Roots[i],
                      i < rootNr' \/ f \notin unread'
               PROVE  watchlist[f] = Tag[dir[f]]
      BY <1>1 DEF ScanInv
  <2>1. rootNr' = rootNr + 1 /\ unread' = FilesIn(Roots[rootNr + 1])
      BY <1>1
  <2>2. i \in 1 .. rootNr \/ i = rootNr + 1
      BY <1>2, <2>1
  <2>3. i # rootNr + 1
      BY <1>2, <2>1 DEF FilesIn
  <2> QED
      BY <1>3, <2>2, <2>3
<1>7. WatchedInv'
  <2> SUFFICES ASSUME stage' = "attach", NEW f \in Files \ (moved \cup skipped \cup lost),
                      dir[f] \in Scanned
               PROVE  watchlist[f] = Tag[dir[f]]
      BY <1>1 DEF WatchedInv, Right
  <2>1. rootNr = Len(Roots)
      BY <1>1, <1>2
  <2>2. \E i \in 1 .. rootNr : dir[f] = Roots[i]
      BY <2>1, ConstantFacts
  <2> QED
      BY <1>3, <2>2
<1> QED
    BY <1>4, <1>5, <1>6, <1>7 DEF IndInv

LEMMA AttachStep ==
    ASSUME IndInv, Attach
    PROVE  IndInv'
<1>1. /\ stage = "attach" /\ stage' = "running"
      /\ UNCHANGED <<dir, rootNr, unread, watchlist, th, moves, moved, skipped, raced,
                     lost, opened>>
    BY DEF Attach, history
<1>2. TypeOK'
    BY <1>1 DEF IndInv, TypeOK, Entries
<1>3. OpenerInv' /\ OpenedInv' /\ (raced \subseteq moved)'
    BY <1>1, LoaderStep
<1>4. ScanInv'
    BY <1>1 DEF ScanInv
<1>5. WatchedInv'
    BY <1>1 DEF IndInv, WatchedInv, Right, Missing, At
<1> QED
    BY <1>2, <1>3, <1>4, <1>5 DEF IndInv

-----------------------------------------------------------------------------
(* vfs_open_enter *)

\* A file stays about to be inserted when a thread that is not going to insert it
\* moves on.
LEMMA MissingKept ==
    ASSUME TypeOK, NEW t \in Threads, NEW new, th' = [th EXCEPT ![t] = new],
           NEW g, watchlist'[g] = watchlist[g], ~At(t, "update") \/ th[t].f # g
    PROVE  Missing(g) => Missing(g)'
<1> SUFFICES ASSUME Missing(g) PROVE Missing(g)'
    OBVIOUS
<1>1. PICK u \in Threads : At(u, "update") /\ th[u].f = g
    BY DEF Missing
<1>2. u # t
    BY <1>1
<1>3. th'[u] = th[u]
    BY <1>2 DEF TypeOK
<1> QED
    BY <1>1, <1>3 DEF Missing, At

\* What an opener knows of itself.
LEMMA OpenerFacts ==
    ASSUME IndInv, NEW t \in Threads, ~At(t, "idle")
    PROVE  /\ stage = "running" /\ th[t] \in ThreadStates
           /\ th[t].f \in Files /\ th[t].tag \in Tags /\ th[t].tag # 0
           /\ th[t].f \notin raced => dir[th[t].f] \in DOMAIN Tag /\ th[t].tag = Tag[dir[th[t].f]]
<1>1. OpenerInv!(t)
    BY DEF IndInv, OpenerInv
<1>2. th[t] \in ThreadStates
    BY DEF IndInv, TypeOK
<1>3. th[t].tag \in Tags
    BY <1>2 DEF ThreadStates
<1> QED
    BY <1>1, <1>2, <1>3

LEMMA OpenStep ==
    ASSUME IndInv, NEW t \in Threads, NEW f \in Files, Open(t, f)
    PROVE  IndInv'
<1> DEFINE new == [pc |-> "lookup", f |-> f, tag |-> Tag[dir[f]]]
<1>1. /\ stage = "running" /\ At(t, "idle") /\ dir[f] \in DOMAIN Tag
      /\ th' = [th EXCEPT ![t] = new]
      /\ UNCHANGED <<dir, stage, rootNr, unread, watchlist, moves, moved, skipped, raced,
                     lost, opened>>
    BY DEF Open, loader, history
<1>2. Tag[dir[f]] \in Tags /\ Tag[dir[f]] # 0
    BY <1>1, ConstantFacts
<1>3. new \in ThreadStates /\ new.pc = "lookup" /\ new.f = f /\ new.tag = Tag[dir[f]]
    BY <1>2 DEF ThreadStates
<1> HIDE DEF new
<1>4. th' \in [Threads -> ThreadStates] /\ th'[t] = new
      /\ \A u \in Threads : u # t => th'[u] = th[u]
    BY <1>1, <1>3 DEF IndInv, TypeOK
<1>5. TypeOK'
  <2>1. Cardinality(Entries') <= MaxEntries
      BY <1>1 DEF IndInv, TypeOK, Entries
  <2> QED
      BY <1>1, <1>4, <2>1 DEF IndInv, TypeOK
<1>6. \A g : Missing(g) => Missing(g)'
  <2> SUFFICES ASSUME NEW g PROVE Missing(g) => Missing(g)'
      OBVIOUS
  <2>1. ~At(t, "update")
      BY <1>1 DEF At
  <2> QED
      BY <1>1, <2>1, MissingKept DEF IndInv
<1>7. OpenerInv'
  <2> SUFFICES ASSUME NEW u \in Threads PROVE OpenerInv!(u)'
      BY DEF OpenerInv
  <2>1. OpenerInv!(u)
      BY DEF IndInv, OpenerInv
  <2>2. CASE u = t
      BY <1>1, <1>2, <1>3, <1>4, <2>2 DEF At
  <2>3. CASE u # t
      BY <1>1, <1>4, <1>6, <2>1, <2>3 DEF At
  <2> QED
      BY <2>2, <2>3
<1>8. ScanInv'
    BY <1>1 DEF ScanInv
<1>9. WatchedInv' /\ OpenedInv' /\ (raced \subseteq moved)'
    BY <1>1, <1>6 DEF IndInv, WatchedInv, OpenedInv, Right
<1> QED
    BY <1>5, <1>7, <1>8, <1>9 DEF IndInv

\* A step of an open of f keeps the invariant when it leaves f in the map, or lost,
\* or about to be inserted, and does not make a right entry wrong.
LEMMA HookStep ==
    ASSUME IndInv, NEW t \in Threads, NEW f, f = th[t].f, ~At(t, "idle"),
           NEW label \in {"idle", "delete", "update"}, Goto(t, label),
           UNCHANGED <<dir, stage, rootNr, unread, moves, moved, skipped, raced>>,
           lost \subseteq lost', lost' \subseteq Files,
           watchlist' \in [Files -> Tags], Cardinality(Entries') <= MaxEntries,
           \A g \in Files : g # f => watchlist'[g] = watchlist[g],
           f \in lost' \/ watchlist'[f] # 0 \/ Missing(f)',
           Right(f) => f \in raced \cup lost' \/ Right(f)',
           \/ opened' = opened
           \/ opened' = opened \cup {f} /\ (f \in raced \cup lost' \/ Right(f)')
    PROVE  IndInv'
<1> DEFINE new == IF label = "idle" THEN Idle ELSE [th[t] EXCEPT !.pc = label]
<1>1. th' = [th EXCEPT ![t] = new]
    BY DEF Goto, IndInv, TypeOK
<1>2. /\ stage = "running" /\ th[t] \in ThreadStates /\ f \in Files
      /\ th[t].tag \in Tags /\ th[t].tag # 0
      /\ f \notin raced => dir[f] \in DOMAIN Tag /\ th[t].tag = Tag[dir[f]]
    BY OpenerFacts
<1>3. /\ new \in ThreadStates /\ new.pc = label
      /\ label = "idle" => new = Idle
      /\ label # "idle" => new.f = f /\ new.tag = th[t].tag
    BY <1>2, ConstantFacts DEF ThreadStates
<1> HIDE DEF new
<1>4. th' \in [Threads -> ThreadStates] /\ th'[t] = new
      /\ \A u \in Threads : u # t => th'[u] = th[u]
    BY <1>1, <1>3 DEF IndInv, TypeOK
<1>5. TypeOK'
  <2>1. opened' \subseteq Files
      BY <1>2 DEF IndInv, TypeOK
  <2> QED
      BY <1>4, <2>1 DEF IndInv, TypeOK
<1>6. \A g \in Files : g # f /\ Missing(g) => Missing(g)'
    BY <1>1, MissingKept DEF IndInv
<1>7. \A g \in Files : g # f /\ Right(g) => Right(g)'
    BY <1>6 DEF Right
<1>8. OpenerInv'
  <2> SUFFICES ASSUME NEW u \in Threads PROVE OpenerInv!(u)'
      BY DEF OpenerInv
  <2>1. OpenerInv!(u)
      BY DEF IndInv, OpenerInv
  <2>2. CASE u = t
      BY <1>2, <1>3, <1>4, <2>2 DEF At
  <2>3. CASE u # t
    <3>1. th'[u] = th[u]
        BY <1>4, <2>3
    <3>2. \A g : At(u, "delete") /\ g = th[u].f /\ g \notin lost' =>
                    watchlist'[g] # 0 \/ Missing(g)'
      <4> SUFFICES ASSUME NEW g, At(u, "delete"), g = th[u].f, g \notin lost'
                   PROVE  watchlist'[g] # 0 \/ Missing(g)'
          OBVIOUS
      <4>1. g \in Files /\ (watchlist[g] # 0 \/ Missing(g))
          BY <2>1 DEF At
      <4> QED
          BY <1>6, <4>1
    <3> QED
        BY <2>1, <3>1, <3>2 DEF At
  <2> QED
      BY <2>2, <2>3
<1>9. ScanInv'
    BY <1>2 DEF ScanInv
<1>10. WatchedInv'
  <2> SUFFICES ASSUME NEW g \in Files \ (moved \cup skipped \cup lost'), dir[g] \in Scanned
               PROVE  Right(g)'
      BY DEF WatchedInv
  <2>1. Right(g) /\ g \notin raced
      BY <1>2 DEF IndInv, WatchedInv
  <2> QED
      BY <1>7, <2>1
<1>11. OpenedInv'
  <2> SUFFICES ASSUME NEW g \in opened' \ (raced \cup lost'), dir[g] \in DOMAIN Tag
               PROVE  Right(g)'
      BY <1>2 DEF OpenedInv
  <2>1. CASE g \in opened
    <3>1. Right(g) /\ g \in Files
        BY <2>1 DEF IndInv, OpenedInv, TypeOK
    <3> QED
        BY <1>7, <3>1
  <2>2. CASE g \notin opened
      BY <2>2
  <2> QED
      BY <2>1, <2>2
<1> QED
    BY <1>5, <1>8, <1>9, <1>10, <1>11 DEF IndInv

LEMMA LookupStep ==
    ASSUME IndInv, NEW t \in Threads, Lookup(t)
    PROVE  IndInv'
<1>0. PICK f : f = th[t].f
    OBVIOUS
<1> DEFINE next == AfterLookup(f \in Entries)
<1>1. /\ At(t, "lookup") /\ Goto(t, next)
      /\ UNCHANGED <<dir, stage, rootNr, unread, watchlist, moves, moved, skipped, raced,
                     lost, opened>>
      /\ next = IF f \in Entries THEN "delete" ELSE "update"
    BY <1>0 DEF Lookup, AfterLookup, loader, history
<1>2. ~At(t, "idle") /\ ~At(t, "update")
    BY <1>1 DEF At
<1>3. f \in Files /\ th[t] \in ThreadStates
    BY <1>0, <1>2, OpenerFacts
<1>4. Missing(f) => Missing(f)'
  <2>1. \E new : th' = [th EXCEPT ![t] = new]
      BY <1>1 DEF Goto, IndInv, TypeOK
  <2> QED
      BY <1>0, <1>1, <1>2, <2>1, MissingKept DEF IndInv
<1>5. watchlist'[f] # 0 \/ Missing(f)'
  <2>1. CASE f \in Entries
      BY <1>1, <2>1 DEF Entries
  <2>2. CASE f \notin Entries
    <3>1. watchlist'[f] = 0
        BY <1>1, <1>3, <2>2 DEF Entries
    <3>2. th'[t] = [th[t] EXCEPT !.pc = "update"]
        BY <1>1, <2>2 DEF Goto, IndInv, TypeOK
    <3>3. th'[t].pc = "update" /\ th'[t].f = f
        BY <1>0, <1>3, <3>2 DEF ThreadStates
    <3> QED
        BY <3>1, <3>3 DEF Missing, At
  <2> QED
      BY <2>1, <2>2
<1>6. Right(f) => Right(f)'
    BY <1>1, <1>4 DEF Right
<1>7. /\ watchlist' \in [Files -> Tags] /\ Cardinality(Entries') <= MaxEntries
      /\ lost' \subseteq Files
    BY <1>1 DEF IndInv, TypeOK, Entries
<1>8. next \in {"idle", "delete", "update"}
    BY <1>1
<1> HIDE DEF next
<1> QED
    BY <1>1, <1>2, <1>5, <1>6, <1>7, <1>8, <1>0, HookStep

LEMMA DeleteStep ==
    ASSUME IndInv, NEW t \in Threads, Delete(t)
    PROVE  IndInv'
<1>0. PICK f : f = th[t].f
    OBVIOUS
<1> DEFINE next == AfterDelete(f \in Entries)
<1>1. /\ At(t, "delete") /\ Goto(t, next)
      /\ watchlist' = [watchlist EXCEPT ![f] = 0]
      /\ UNCHANGED <<dir, stage, rootNr, unread, moves, moved, skipped, raced, lost>>
      /\ next = IF f \in Entries THEN "update" ELSE "idle"
      /\ opened' = IF f \in Entries THEN opened ELSE opened \cup {f}
    BY <1>0 DEF Delete, AfterDelete, Finish, loader, history
<1>2. ~At(t, "idle") /\ ~At(t, "update")
    BY <1>1 DEF At
<1>3. f \in Files /\ th[t] \in ThreadStates /\ watchlist \in [Files -> Tags]
    BY <1>0, <1>2, OpenerFacts DEF IndInv, TypeOK
<1>4. f \in lost \/ Missing(f)'
  <2>1. CASE f \in Entries
    <3>1. watchlist'[f] = 0
        BY <1>1, <1>3
    <3>2. th'[t] = [th[t] EXCEPT !.pc = "update"]
        BY <1>1, <2>1 DEF Goto, IndInv, TypeOK
    <3>3. th'[t].pc = "update" /\ th'[t].f = f
        BY <1>0, <1>3, <3>2 DEF ThreadStates
    <3> QED
        BY <3>1, <3>3 DEF Missing, At
  <2>2. CASE f \notin Entries
    <3>1. watchlist[f] = 0 /\ watchlist'[f] = watchlist[f]
        BY <1>1, <1>3, <2>2 DEF Entries
    <3>2. f \in lost \/ Missing(f)
        BY <1>0, <1>1, <3>1 DEF IndInv, OpenerInv
    <3>3. \E new : th' = [th EXCEPT ![t] = new]
        BY <1>1 DEF Goto, IndInv, TypeOK
    <3> QED
        BY <1>2, <3>1, <3>2, <3>3, MissingKept DEF IndInv
  <2> QED
      BY <2>1, <2>2
<1>5. f \in lost \/ Right(f)'
    BY <1>4 DEF Right
<1>6. /\ watchlist' \in [Files -> Tags]
      /\ \A g \in Files : g # f => watchlist'[g] = watchlist[g]
    BY <1>1, <1>3, ConstantFacts
<1>7. Cardinality(Entries') <= MaxEntries
  <2>1. Entries' \subseteq Entries
      BY <1>1, <1>3 DEF Entries
  <2>2. IsFiniteSet(Entries)
      BY ConstantFacts, FS_Subset DEF Entries
  <2>3. Cardinality(Entries') <= Cardinality(Entries)
      BY <2>1, <2>2, FS_Subset
  <2>4. Cardinality(Entries') \in Nat /\ Cardinality(Entries) \in Nat
      BY <2>1, <2>2, FS_Subset, FS_CardinalityType
  <2> QED
      BY <2>3, <2>4, ConstantFacts DEF IndInv, TypeOK
<1>8. next \in {"idle", "delete", "update"} /\ lost' \subseteq Files
    BY <1>1 DEF IndInv, TypeOK
<1> HIDE DEF next
<1> QED
    BY <1>1, <1>2, <1>4, <1>5, <1>6, <1>7, <1>8, <1>0, HookStep

LEMMA UpdateStep ==
    ASSUME IndInv, NEW t \in Threads, Update(t)
    PROVE  IndInv'
<1>0. PICK f : f = th[t].f
    OBVIOUS
<1>1. /\ At(t, "update") /\ Goto(t, "idle") /\ Insert(f, th[t].tag)
      /\ opened' = opened \cup {f}
      /\ UNCHANGED <<dir, stage, rootNr, unread, moves, moved, skipped, raced>>
    BY <1>0 DEF Update, Finish, loader, history
<1>2. ~At(t, "idle")
    BY <1>1 DEF At
<1>3. /\ f \in Files /\ th[t].tag \in Tags /\ th[t].tag # 0
      /\ f \notin raced => th[t].tag = Tag[dir[f]]
    BY <1>0, <1>2, OpenerFacts
<1>4. /\ watchlist' \in [Files -> Tags] /\ Cardinality(Entries') <= MaxEntries
      /\ lost' \subseteq Files
      /\ \/ watchlist' = [watchlist EXCEPT ![f] = th[t].tag] /\ lost' = lost
         \/ lost' = lost \cup {f} /\ watchlist' = watchlist
    BY <1>0, <1>1, <1>3, InsertStep DEF IndInv
<1>5. watchlist \in [Files -> Tags]
    BY DEF IndInv, TypeOK
<1>6. lost \subseteq lost' /\ \A g \in Files : g # f => watchlist'[g] = watchlist[g]
    BY <1>4, <1>5
<1>7. f \in lost' \/ watchlist'[f] = th[t].tag
    BY <1>3, <1>4, <1>5
<1>8. f \in lost' \/ watchlist'[f] # 0
    BY <1>3, <1>7
<1>9. f \in raced \cup lost' \/ Right(f)'
    BY <1>1, <1>3, <1>7 DEF Right
<1> QED
    BY <1>1, <1>2, <1>4, <1>6, <1>8, <1>9, <1>0, HookStep

-----------------------------------------------------------------------------
LEMMA StutterStep ==
    ASSUME IndInv, UNCHANGED vars
    PROVE  IndInv'
<1>1. UNCHANGED <<dir, stage, rootNr, unread, watchlist, th, moves, moved, skipped, lost,
                  raced, opened>>
    BY DEF vars
<1> QED
    BY <1>1 DEF IndInv, TypeOK, Entries, OpenerInv, ScanInv, WatchedInv, OpenedInv, Right,
                Missing, At

LEMMA NextIndInv == IndInv /\ [Next]_vars => IndInv'
<1> SUFFICES ASSUME IndInv, [Next]_vars PROVE IndInv'
    OBVIOUS
<1>1. ASSUME NEW f \in Files, NEW to \in Places \cup {Removed}, Move(f, to) PROVE IndInv'
    BY <1>1, MoveStep
<1>2. ASSUME NEW f \in Files, ScanEntry(f) PROVE IndInv'
    BY <1>2, ScanEntryStep
<1>3. CASE SkipDirectory \/ EndScan \/ Attach
    BY <1>3, SkipDirectoryStep, EndScanStep, AttachStep
<1>4. ASSUME NEW t \in Threads, NEW f \in Files, Open(t, f) PROVE IndInv'
    BY <1>4, OpenStep
<1>5. ASSUME NEW t \in Threads, Hook(t) PROVE IndInv'
    BY <1>5, LookupStep, DeleteStep, UpdateStep DEF Hook
<1>6. CASE UNCHANGED vars
    BY <1>6, StutterStep
<1> QED
    BY <1>1, <1>2, <1>3, <1>4, <1>5, <1>6 DEF Next

\* The strengthening that the loader and vfs_open_enter keep at every step.
THEOREM Inductive == Spec => []IndInv
<1>1. Init => IndInv
    BY InitIndInv
<1>2. IndInv /\ [Next]_vars => IndInv'
    BY NextIndInv
<1> QED
    BY <1>1, <1>2, PTL DEF Spec

\* The types and the capacity of inode_watchlist, for any map size.
THEOREM TypeCorrect == Spec => []TypeOK
<1>1. IndInv => TypeOK
    BY DEF IndInv
<1> QED
    BY <1>1, Inductive, PTL

\* initialize_watch_dir_map_tagged followed by any opens watches every file that
\* stayed under a root, outside its hidden part, for any number of files, roots and openers.
THEOREM ScannedIsWatchedHolds == Spec => []ScannedIsWatched
<1>1. IndInv => ScannedIsWatched
    BY DEF IndInv, WatchedInv, ScannedIsWatched, Right, Missing, Opening
<1> QED
    BY <1>1, Inductive, PTL

\* vfs_open_enter leaves an opened file with the tag of the place where it is, for
\* any number of overlapping opens.
THEOREM TagFollowsLastOpenHolds == Spec => []TagFollowsLastOpen
<1>1. IndInv => TagFollowsLastOpen
    BY DEF IndInv, OpenedInv, TagFollowsLastOpen, Right, Missing, Opening
<1> QED
    BY <1>1, Inductive, PTL

-----------------------------------------------------------------------------
(* The delay proxy: invariants *)

\* A coroutine has a chunk exactly while it passes it on, and a bucket is full
\* until the coroutines start.
PipeInv ==
    \A d \in Directions :
        /\ pipe[d].pc \in {"consume", "write"} <=> pipe[d].n # 0
        /\ pipe[d].pc = "connect" => tokens[d] = Rate

\* Between two open ends no direction has ended.
OpenInv ==
    client # "closed" /\ server = "open" =>
        \A d \in Directions : ~eof[d] /\ ~shut[d] /\ pipe[d].pc # "done"

ProxyIndInv == ProxyTypeOK /\ PipeInv /\ OpenInv /\ OneMessageInFlight

-----------------------------------------------------------------------------
(* Arithmetic of the buckets *)

LEMMA RateNat == Rate \in Nat /\ Rate > 0
BY TcpDelayProxyAssumption DEF Rate

\* What a bucket holds with tok tokens, touched s ticks ago.
Held(tok, s) == Min2(Rate, tok + Fill * s)

LEMMA FilledIsHeld == \A d : Filled(d) = Held(tokens[d], since[d])
BY DEF Filled, Held

LEMMA HeldRange ==
    ASSUME NEW tok \in 0 .. Rate, NEW s \in 0 .. TicksPerSec
    PROVE  Held(tok, s) \in 0 .. Rate
<1>1. Fill * s \in Nat
    BY TcpDelayProxyAssumption
<1> QED
    BY <1>1, RateNat DEF Held, Min2

LEMMA HeldNow ==
    ASSUME NEW tok \in 0 .. Rate
    PROVE  Held(tok, 0) = tok
<1>1. Fill * 0 = 0
    BY TcpDelayProxyAssumption
<1> QED
    BY <1>1, RateNat DEF Held, Min2

\* One more tick adds Fill, up to the rate, also when the time is capped.
LEMMA HeldTick ==
    ASSUME NEW tok \in 0 .. Rate, NEW s \in 0 .. TicksPerSec
    PROVE  Held(tok, Min2(TicksPerSec, s + 1)) = Min2(Rate, Held(tok, s) + Fill)
<1>1. Fill * s \in Nat /\ Fill \in Nat
    BY TcpDelayProxyAssumption
<1>2. CASE s < TicksPerSec
  <2>1. Min2(TicksPerSec, s + 1) = s + 1
      BY <1>2, TcpDelayProxyAssumption DEF Min2
  <2>2. Fill * (s + 1) = Fill * s + Fill
      BY TcpDelayProxyAssumption
  <2> QED
      BY <1>1, <2>1, <2>2, RateNat DEF Held, Min2
<1>3. CASE s = TicksPerSec
  <2>1. Min2(TicksPerSec, s + 1) = s
      BY <1>3, TcpDelayProxyAssumption DEF Min2
  <2>2. Fill * s = Rate
      BY <1>3 DEF Rate
  <2> QED
      BY <1>1, <2>1, <2>2, RateNat DEF Held, Min2
<1> QED
    BY <1>2, <1>3, TcpDelayProxyAssumption

LEMMA FilledRange ==
    ASSUME ProxyTypeOK, NEW d \in Directions
    PROVE  Filled(d) \in 0 .. Rate
BY FilledIsHeld, HeldRange DEF ProxyTypeOK

LEMMA WaitNat ==
    ASSUME NEW n \in Nat
    PROVE  WaitFor(n) \in Nat
BY TcpDelayProxyAssumption DEF WaitFor

-----------------------------------------------------------------------------
(* Type correctness *)

LEMMA InitType == ProxyInit => ProxyTypeOK
BY RateNat, TcpDelayProxyAssumption DEF ProxyInit, ProxyTypeOK, Directions

LEMMA EndsType ==
    ASSUME ProxyTypeOK, Send \/ Receive \/ ClientCloses \/ Serve \/ ServerCloses \/ Connect \/ ConnectFails
    PROVE  ProxyTypeOK'
<1> USE TcpDelayProxyAssumption DEF ProxyTypeOK, Directions, ends, bucket, sockets
<1>1. CASE Send
    BY <1>1 DEF Send
<1>2. CASE Receive
    BY <1>2 DEF Receive
<1>3. CASE ClientCloses
    BY <1>3 DEF ClientCloses
<1>4. CASE Serve
    BY <1>4 DEF Serve
<1>5. CASE ServerCloses
    BY <1>5 DEF ServerCloses
<1>6. CASE Connect
    BY <1>6, RateNat DEF Connect, BothGoto
<1>7. CASE ConnectFails
    BY <1>7 DEF ConnectFails, BothGoto
<1> QED
    BY <1>1, <1>2, <1>3, <1>4, <1>5, <1>6, <1>7

LEMMA TickType == ProxyTypeOK /\ Tick => ProxyTypeOK'
<1> SUFFICES ASSUME ProxyTypeOK, Tick PROVE ProxyTypeOK'
    OBVIOUS
<1>1. timer' \in [Directions -> Nat]
  <2>1. \A d \in Directions : (IF timer[d] = 0 THEN 0 ELSE timer[d] - 1) \in Nat
      BY DEF ProxyTypeOK
  <2> QED
      BY <2>1 DEF Tick
<1>2. \A s \in 0 .. TicksPerSec : Min2(TicksPerSec, s + 1) \in 0 .. TicksPerSec
    BY TcpDelayProxyAssumption DEF Min2
<1>3. since' \in [Directions -> 0 .. TicksPerSec]
    BY <1>2 DEF Tick, ProxyTypeOK
<1> QED
    BY <1>1, <1>3 DEF Tick, ProxyTypeOK, ends, sockets

LEMMA CoroutineType ==
    ASSUME ProxyTypeOK, NEW d \in Directions, Coroutine(d)
    PROVE  ProxyTypeOK'
<1>1. CASE Read(d)
    BY <1>1, TcpDelayProxyAssumption DEF Read, PipeGoto, Sleep, ProxyTypeOK, ends, bucket, Min2
<1>2. CASE ReadEnd(d) \/ Fails(d)
  <2>1. Closes(d)
      BY <1>2 DEF ReadEnd, Fails
  <2> QED
      BY <2>1 DEF Closes, PipeGoto, ProxyTypeOK, ends, bucket
<1>3. CASE ConsumeNow(d)
  <2>1. Filled(d) - pipe[d].n \in 0 .. Rate
      BY <1>3, FilledRange, RateNat DEF ConsumeNow, ProxyTypeOK
  <2>2. pipe[d].n \in Nat
      BY DEF ProxyTypeOK
  <2> QED
      BY <1>3, <2>1, <2>2, TcpDelayProxyAssumption
      DEF ConsumeNow, Touch, PipeGoto, ProxyTypeOK, ends, sockets
<1>4. CASE ConsumeLater(d)
  <2>1. pipe[d].n - Filled(d) \in Nat
      BY <1>4, FilledRange, RateNat DEF ConsumeLater, ProxyTypeOK
  <2>2. WaitFor(pipe[d].n - Filled(d)) \in Nat
      BY <2>1, WaitNat
  <2> QED
      BY <1>4, <2>2, FilledRange, TcpDelayProxyAssumption
      DEF ConsumeLater, Touch, Sleep, ProxyTypeOK, ends, sockets
<1>5. CASE Write(d)
    BY <1>5 DEF Write, PipeGoto, ProxyTypeOK, ends, bucket
<1> QED
    BY <1>1, <1>2, <1>3, <1>4, <1>5 DEF Coroutine

LEMMA TypeStep == ProxyTypeOK /\ [ProxyNext]_proxy_vars => ProxyTypeOK'
<1>1. ProxyTypeOK /\ UNCHANGED proxy_vars => ProxyTypeOK'
    BY DEF ProxyTypeOK, proxy_vars
<1> QED
    BY <1>1, EndsType, TickType, CoroutineType DEF ProxyNext

\* Types; a bucket never holds less than nothing or more than one second of bytes
\* (TokenBucket.consume), however late a coroutine wakes.
THEOREM ProxyTypeCorrect == ProxySpec => []ProxyTypeOK
BY InitType, TypeStep, PTL DEF ProxySpec

-----------------------------------------------------------------------------
(* One message in flight *)

LEMMA InitInv == ProxyInit => ProxyIndInv
<1> SUFFICES ASSUME ProxyInit PROVE ProxyIndInv
    OBVIOUS
<1>1. ProxyTypeOK
    BY InitType
<1>2. PipeInv /\ OpenInv
    BY DEF ProxyInit, PipeInv, OpenInv
<1>3. OneMessageInFlight
    BY DEF ProxyInit, OneMessageInFlight, InTransit
<1> QED
    BY <1>1, <1>2, <1>3 DEF ProxyIndInv

LEMMA PipeStep ==
    ASSUME ProxyIndInv, ProxyNext
    PROVE  PipeInv'
<1> USE DEF ProxyIndInv, ProxyTypeOK, PipeInv
<1>1. CASE Send \/ Receive \/ ClientCloses \/ Serve \/ ServerCloses \/ Tick
    BY <1>1 DEF Send, Receive, ClientCloses, Serve, ServerCloses, Tick, bucket
<1>2. CASE Connect \/ ConnectFails
    BY <1>2 DEF Connect, ConnectFails, BothGoto, bucket
<1>3. ASSUME NEW d \in Directions, Coroutine(d) PROVE PipeInv'
  <2>1. CASE Read(d)
    <3>1. PICK n \in 1 .. Min2(ReadSize, arrived[d]) : PipeGoto(d, "consume", n)
        BY <2>1 DEF Read
    <3> QED
        BY <2>1, <3>1 DEF Read, PipeGoto, bucket
  <2>2. CASE ReadEnd(d) \/ Fails(d)
      BY <2>2 DEF ReadEnd, Fails, Closes, PipeGoto, bucket
  <2>3. CASE ConsumeNow(d)
      BY <2>3 DEF ConsumeNow, PipeAt, PipeGoto
  <2>4. CASE ConsumeLater(d)
      BY <2>4 DEF ConsumeLater, PipeAt
  <2>5. CASE Write(d)
      BY <2>5 DEF Write, PipeGoto, bucket
  <2> QED
      BY <1>3, <2>1, <2>2, <2>3, <2>4, <2>5 DEF Coroutine
<1> QED
    BY <1>1, <1>2, <1>3 DEF ProxyNext

\* The steps that need an end to be closed make or leave one closed.
LEMMA ClosingSteps ==
    ASSUME ProxyIndInv,
           \/ ClientCloses \/ ServerCloses \/ ConnectFails
           \/ \E d \in Directions : ReadEnd(d) \/ Fails(d)
    PROVE  ~(client # "closed" /\ server = "open")'
<1>1. CASE ClientCloses \/ ServerCloses \/ ConnectFails
    BY <1>1 DEF ClientCloses, ServerCloses, ConnectFails, ends
<1>2. ASSUME NEW d \in Directions, ReadEnd(d) \/ Fails(d)
      PROVE  ~(client # "closed" /\ server = "open")'
  <2>1. UNCHANGED <<client, server>>
      BY <1>2 DEF ReadEnd, Fails, Closes, ends
  <2>2. ~(client # "closed" /\ server = "open")
      BY <1>2 DEF ProxyIndInv, OpenInv, ReadEnd, SeesEnd, Fails, From, To
  <2> QED
      BY <2>1, <2>2
<1> QED
    BY <1>1, <1>2

LEMMA OpenEndsStep ==
    ASSUME ProxyIndInv, ProxyNext
    PROVE  OpenInv'
<1> USE DEF ProxyIndInv, ProxyTypeOK, OpenInv
<1>1. CASE Send \/ Receive \/ Serve \/ Tick
    BY <1>1 DEF Send, Receive, Serve, Tick, ends, sockets
<1>2. CASE Connect
    BY <1>2 DEF Connect, BothGoto, ends, sockets
<1>3. CASE \/ ClientCloses \/ ServerCloses \/ ConnectFails
           \/ \E d \in Directions : ReadEnd(d) \/ Fails(d)
    BY <1>3, ClosingSteps
<1>4. ASSUME NEW d \in Directions, Read(d) \/ ConsumeNow(d) \/ ConsumeLater(d) \/ Write(d)
      PROVE  OpenInv'
  <2>1. UNCHANGED <<client, server, eof, shut>>
      BY <1>4 DEF Read, ConsumeNow, ConsumeLater, Write, ends, sockets
  <2>2. \A e \in Directions : pipe[e].pc # "done" => pipe'[e].pc # "done"
      BY <1>4 DEF Read, ConsumeNow, ConsumeLater, Write, PipeGoto
  <2> QED
      BY <2>1, <2>2
<1> QED
    BY <1>1, <1>2, <1>3, <1>4 DEF ProxyNext, Coroutine

\* What a coroutine passes on stays in transit.
LEMMA TransitKept ==
    ASSUME ProxyIndInv, NEW d \in Directions,
           Read(d) \/ ConsumeNow(d) \/ ConsumeLater(d) \/ Write(d)
    PROVE  \A e \in Directions : InTransit(e)' = InTransit(e)
<1> USE DEF ProxyIndInv, ProxyTypeOK, PipeInv, InTransit
<1>1. CASE Read(d)
  <2>1. PICK n \in 1 .. Min2(ReadSize, arrived[d]) :
            arrived' = [arrived EXCEPT ![d] = @ - n] /\ PipeGoto(d, "consume", n)
      BY <1>1 DEF Read
  <2>2. pipe[d].n = 0
      BY <1>1 DEF Read, PipeAt
  <2>3. arrived[d] \in Nat /\ delivered[d] \in Nat /\ n \in Int
      OBVIOUS
  <2>4. delivered' = delivered
      BY <1>1 DEF Read
  <2>5. arrived'[d] = arrived[d] - n /\ pipe'[d].n = n
      BY <2>1 DEF PipeGoto
  <2>6. \A e \in Directions : e # d => arrived'[e] = arrived[e] /\ pipe'[e] = pipe[e]
      BY <2>1 DEF PipeGoto
  <2> QED
      BY <2>2, <2>3, <2>4, <2>5, <2>6
<1>2. CASE ConsumeNow(d) \/ ConsumeLater(d)
    BY <1>2 DEF ConsumeNow, ConsumeLater, PipeGoto, sockets
<1>3. CASE Write(d)
    BY <1>3 DEF Write, PipeGoto
<1> QED
    BY <1>1, <1>2, <1>3

LEMMA TransitNat == ProxyTypeOK => \A d \in Directions : InTransit(d) \in Nat
BY DEF ProxyTypeOK, InTransit

LEMMA MessageStep ==
    ASSUME ProxyIndInv, ProxyNext
    PROVE  OneMessageInFlight'
<1> USE DEF ProxyIndInv, OneMessageInFlight
<1>1. CASE Send
  <2>1. /\ client = "idle" /\ client' = "waiting" /\ UNCHANGED <<server, shut>>
        /\ arrived'["up"] = arrived["up"] + RequestSize /\ arrived'["down"] = arrived["down"]
        /\ UNCHANGED <<delivered, pipe>>
      BY <1>1 DEF Send, ProxyTypeOK, Directions
  <2>2. InTransit("up")' = InTransit("up") + RequestSize /\ InTransit("down")' = InTransit("down")
      BY <2>1, TransitNat, TcpDelayProxyAssumption DEF InTransit, ProxyTypeOK, Directions
  <2>3. "up" \in Directions /\ "down" \in Directions
      BY DEF Directions
  <2> QED
      BY <2>1, <2>2, <2>3, TcpDelayProxyAssumption
<1>2. CASE Receive
    BY <1>2, TcpDelayProxyAssumption DEF Receive, ProxyTypeOK, InTransit, Directions
<1>3. CASE Serve
  <2>1. CASE client = "closed" \/ shut["up"]
      BY <1>3, <2>1 DEF Serve, ends, Directions
  <2>2. CASE client # "closed" /\ ~shut["up"]
    <3>1. /\ server = "open" /\ delivered["up"] >= RequestSize
          /\ UNCHANGED <<client, server, shut, pipe>>
          /\ delivered'["up"] = delivered["up"] - RequestSize
          /\ delivered'["down"] = delivered["down"]
          /\ arrived'["down"] = arrived["down"] + ResponseSize /\ arrived'["up"] = arrived["up"]
        BY <1>3, <2>2 DEF Serve, ends, ProxyTypeOK, Directions
    <3>2. /\ InTransit("up")' = InTransit("up") - RequestSize
          /\ InTransit("down")' = InTransit("down") + ResponseSize
          /\ InTransit("up") >= RequestSize
        BY <3>1, TcpDelayProxyAssumption DEF InTransit, ProxyTypeOK, Directions
    <3>3. "up" \in Directions /\ "down" \in Directions
        BY DEF Directions
    <3>4. InTransit("up") = RequestSize /\ InTransit("down") = 0 /\ client = "waiting"
        BY <2>2, <3>1, <3>2, <3>3, TcpDelayProxyAssumption DEF ProxyTypeOK
    <3> QED
        BY <2>2, <3>1, <3>2, <3>4, TcpDelayProxyAssumption
  <2> QED
      BY <2>1, <2>2
<1>4. CASE Tick
    BY <1>4 DEF Tick, InTransit, ends, sockets
<1>5. CASE Connect
  <2>1. \A d \in Directions : pipe[d].n = 0 /\ pipe'[d].n = 0
      BY <1>5 DEF Connect, BothAt, BothGoto, PipeInv
  <2>2. UNCHANGED <<client, server, arrived, delivered, shut>>
      BY <1>5 DEF Connect, ends, sockets
  <2> QED
      BY <2>1, <2>2 DEF InTransit, Directions
<1>6. CASE \/ ClientCloses \/ ServerCloses \/ ConnectFails
           \/ \E d \in Directions : ReadEnd(d) \/ Fails(d)
    BY <1>6, ClosingSteps
<1>7. ASSUME NEW d \in Directions, Read(d) \/ ConsumeNow(d) \/ ConsumeLater(d) \/ Write(d)
      PROVE  OneMessageInFlight'
  <2>1. \A e \in Directions : InTransit(e)' = InTransit(e)
      BY <1>7, TransitKept
  <2>2. UNCHANGED <<client, server, shut>>
      BY <1>7 DEF Read, ConsumeNow, ConsumeLater, Write, ends, sockets
  <2>3. InTransit("up")' = InTransit("up") /\ InTransit("down")' = InTransit("down")
      BY <2>1 DEF Directions
  <2> QED
      BY <2>1, <2>2, <2>3
<1> QED
    BY <1>1, <1>2, <1>3, <1>4, <1>5, <1>6, <1>7 DEF ProxyNext, Coroutine

LEMMA StepInv == ProxyIndInv /\ [ProxyNext]_proxy_vars => ProxyIndInv'
<1> SUFFICES ASSUME ProxyIndInv, [ProxyNext]_proxy_vars PROVE ProxyIndInv'
    OBVIOUS
<1>1. CASE UNCHANGED proxy_vars
    BY <1>1 DEF proxy_vars, ProxyIndInv, ProxyTypeOK, PipeInv, OpenInv, OneMessageInFlight, InTransit
<1>2. CASE ProxyNext
    BY <1>2, TypeStep, PipeStep, OpenEndsStep, MessageStep DEF ProxyIndInv
<1> QED
    BY <1>1, <1>2

LEMMA ProxyInductive == ProxySpec => []ProxyIndInv
BY InitInv, StepInv, PTL DEF ProxySpec

\* However a message is split, delayed and limited, between two open ends the
\* connection holds exactly its bytes (pipe, handle_connection).
THEOREM OneMessageInFlightHolds == ProxySpec => []OneMessageInFlight
<1>1. ProxyIndInv => OneMessageInFlight
    BY DEF ProxyIndInv
<1> QED
    BY <1>1, ProxyInductive, PTL

-----------------------------------------------------------------------------
(* The rate limit *)

allowances == [d \in Directions |-> Filled(d)]
chunks == [d \in Directions |-> IF pipe[d].pc = "write" THEN pipe[d].n ELSE 0]

LEMMA InitLimits == ProxyInit => Limit!Init
<1> SUFFICES ASSUME ProxyInit PROVE Limit!Init
    OBVIOUS
<1>1. \A d \in Directions : Filled(d) = Rate
    BY FilledIsHeld, HeldNow, RateNat DEF ProxyInit
<1>2. \A d \in Directions : pipe[d].pc # "write"
    BY DEF ProxyInit
<1> QED
    BY <1>1, <1>2 DEF Limit!Init

\* A step that leaves buckets and chunks in hand alone.
LEMMA QuietSteps ==
    ASSUME ProxyIndInv,
           \/ Send \/ Receive \/ ClientCloses \/ Serve \/ ServerCloses \/ ConnectFails
           \/ \E d \in Directions :
                Read(d) \/ ReadEnd(d) \/ (Fails(d) /\ PipeAt(d, "read")) \/ UNCHANGED proxy_vars
    PROVE  UNCHANGED <<allowances, chunks>>
<1>1. UNCHANGED <<tokens, since>>
    BY DEF Send, Receive, ClientCloses, Serve, ServerCloses, ConnectFails, Read, ReadEnd,
           Fails, Closes, bucket, proxy_vars
<1>2. \A d \in Directions :
          /\ pipe'[d].pc = "write" <=> pipe[d].pc = "write"
          /\ pipe[d].pc = "write" => pipe'[d] = pipe[d]
    BY DEF Send, Receive, ClientCloses, Serve, ServerCloses, ConnectFails, BothAt, BothGoto,
           Read, ReadEnd, Fails, Closes, PipeAt, PipeGoto, proxy_vars, ProxyIndInv, ProxyTypeOK
<1> QED
    BY <1>1, <1>2 DEF allowances, chunks, Filled

LEMMA TickLimits ==
    ASSUME ProxyIndInv, Tick
    PROVE  Limit!Tick
<1>1. pipe' = pipe /\ tokens' = tokens
    BY DEF Tick
<1>2. ASSUME NEW d \in Directions PROVE Filled(d)' = Min2(Rate, Filled(d) + Fill)
  <2>1. since'[d] = Min2(TicksPerSec, since[d] + 1)
      BY DEF Tick
  <2>2. tokens[d] \in 0 .. Rate /\ since[d] \in 0 .. TicksPerSec
      BY DEF ProxyIndInv, ProxyTypeOK
  <2>3. Filled(d)' = Held(tokens[d], since'[d])
      BY <1>1 DEF Filled, Held
  <2> QED
      BY <2>1, <2>2, <2>3, HeldTick, FilledIsHeld
<1>3. \A d \in Directions : Limit!AtMost(Rate, Filled(d) + Fill) = Min2(Rate, Filled(d) + Fill)
    BY FilledRange, RateNat, TcpDelayProxyAssumption DEF Limit!AtMost, Min2, ProxyIndInv
<1>4. chunks' = chunks
    BY <1>1 DEF chunks
<1> QED
    BY <1>2, <1>3, <1>4 DEF Limit!Tick, chunks

\* The buckets are full when the coroutines start.
LEMMA ConnectLimits ==
    ASSUME ProxyIndInv, Connect
    PROVE  UNCHANGED <<allowances, chunks>>
<1>1. \A d \in Directions : Filled(d) = Rate
  <2>1. \A d \in Directions : tokens[d] = Rate /\ Fill * since[d] \in Nat
      BY TcpDelayProxyAssumption DEF Connect, BothAt, ProxyIndInv, PipeInv, ProxyTypeOK
  <2> QED
      BY <2>1, RateNat DEF Filled, Min2
<1>2. \A d \in Directions : Filled(d)' = Rate
  <2>1. \A d \in Directions : Filled(d)' = Held(Rate, 0)
      BY DEF Connect, Filled, Held
  <2> QED
      BY <2>1, HeldNow, RateNat
<1>3. \A d \in Directions : pipe[d].pc # "write" /\ pipe'[d].pc # "write"
    BY DEF Connect, BothAt, BothGoto
<1> QED
    BY <1>1, <1>2, <1>3 DEF allowances, chunks

\* After the update of the bucket, tok is what it holds.
LEMMA Refilled ==
    ASSUME ProxyIndInv, NEW d \in Directions, NEW tok \in 0 .. Rate,
           tokens' = [tokens EXCEPT ![d] = tok], Touch(d)
    PROVE  allowances' = [allowances EXCEPT ![d] = tok]
<1>1. tokens'[d] = tok /\ since'[d] = 0
    BY DEF ProxyIndInv, ProxyTypeOK, Touch
<1>2. Filled(d)' = Held(tok, 0)
    BY <1>1 DEF Filled, Held
<1>3. Filled(d)' = tok
    BY <1>2, HeldNow
<1>4. \A e \in Directions : e # d => Filled(e)' = Filled(e)
    BY DEF ProxyIndInv, ProxyTypeOK, Touch, Filled
<1> QED
    BY <1>3, <1>4 DEF allowances

LEMMA ConsumeNowLimits ==
    ASSUME ProxyIndInv, NEW d \in Directions, ConsumeNow(d)
    PROVE  pipe[d].n \in 1 .. Rate /\ Limit!Pass(d, pipe[d].n)
<1> DEFINE n == pipe[d].n
<1>1. n \in Nat /\ n # 0
    BY DEF ConsumeNow, PipeAt, ProxyIndInv, ProxyTypeOK, PipeInv
<1>2. Filled(d) \in 0 .. Rate /\ n <= Filled(d)
    BY FilledRange DEF ConsumeNow, ProxyIndInv
<1>3. n \in 1 .. Rate /\ Filled(d) - n \in 0 .. Rate
    BY <1>1, <1>2, RateNat
<1>4. allowances' = [allowances EXCEPT ![d] = Filled(d) - n]
    BY <1>3, Refilled DEF ConsumeNow
<1>5. allowances[d] = Filled(d)
    BY DEF allowances
<1>6. chunks[d] = 0
    BY DEF chunks, ConsumeNow, PipeAt
<1>7. chunks' = [chunks EXCEPT ![d] = n]
    BY DEF chunks, ConsumeNow, PipeGoto, ProxyIndInv, ProxyTypeOK
<1>8. Limit!Pass(d, n)
    BY <1>2, <1>4, <1>5, <1>6, <1>7 DEF Limit!Pass, allowances, chunks
<1> QED
    BY <1>3, <1>8

LEMMA ConsumeLaterLimits ==
    ASSUME ProxyIndInv, NEW d \in Directions, ConsumeLater(d)
    PROVE  UNCHANGED <<allowances, chunks>>
<1>1. allowances' = [allowances EXCEPT ![d] = Filled(d)]
    BY FilledRange, Refilled DEF ConsumeLater, ProxyIndInv
<1>2. allowances' = allowances
    BY <1>1 DEF allowances
<1>3. pipe' = pipe
    BY DEF ConsumeLater
<1> QED
    BY <1>2, <1>3 DEF chunks

\* The chunk leaves, onto the socket or with the connection.
LEMMA WriteLimits ==
    ASSUME ProxyIndInv, NEW d \in Directions, Write(d) \/ (Fails(d) /\ PipeAt(d, "write"))
    PROVE  Limit!Leave(d)
<1>1. chunks[d] # 0
    BY DEF chunks, Write, PipeAt, ProxyIndInv, PipeInv
<1>2. UNCHANGED <<tokens, since>>
    BY DEF Write, Fails, Closes, bucket
<1>3. \E l \in {"read", "done"} : PipeGoto(d, l, 0)
    BY DEF Write, Fails, Closes
<1>4. chunks' = [chunks EXCEPT ![d] = 0]
  <2>1. pipe'[d].pc # "write" /\ \A e \in Directions : e # d => pipe'[e] = pipe[e]
      BY <1>3 DEF PipeGoto, ProxyIndInv, ProxyTypeOK
  <2> QED
      BY <2>1 DEF chunks
<1>5. allowances' = allowances
    BY <1>2 DEF allowances, Filled
<1> QED
    BY <1>1, <1>4, <1>5 DEF Limit!Leave, chunks, allowances

AbstractStep == Limit!Next \/ UNCHANGED <<allowances, chunks>>

LEMMA StepLimits == ProxyIndInv /\ [ProxyNext]_proxy_vars => AbstractStep
<1> SUFFICES ASSUME ProxyIndInv, [ProxyNext]_proxy_vars PROVE AbstractStep
    OBVIOUS
<1>1. CASE UNCHANGED proxy_vars
    BY <1>1, QuietSteps DEF AbstractStep, Directions
<1>2. CASE Send \/ Receive \/ ClientCloses \/ Serve \/ ServerCloses \/ ConnectFails
    BY <1>2, QuietSteps DEF AbstractStep
<1>3. CASE Tick
    BY <1>3, TickLimits DEF AbstractStep, Limit!Next
<1>4. CASE Connect
    BY <1>4, ConnectLimits DEF AbstractStep
<1>5. ASSUME NEW d \in Directions, Coroutine(d) PROVE AbstractStep
  <2>1. CASE Read(d) \/ ReadEnd(d) \/ (Fails(d) /\ PipeAt(d, "read"))
      BY <2>1, QuietSteps DEF AbstractStep
  <2>2. CASE ConsumeNow(d)
    <3>1. pipe[d].n \in 1 .. Rate /\ Limit!Pass(d, pipe[d].n)
        BY <2>2, ConsumeNowLimits
    <3>2. \E n \in 1 .. Rate : Limit!Pass(d, n)
        BY <3>1 DEF Limit!Pass
    <3> QED
        BY <3>2 DEF AbstractStep, Limit!Next
  <2>3. CASE ConsumeLater(d)
      BY <2>3, ConsumeLaterLimits DEF AbstractStep
  <2>4. CASE Write(d) \/ (Fails(d) /\ PipeAt(d, "write"))
      BY <2>4, WriteLimits DEF AbstractStep, Limit!Next
  <2> QED
      BY <1>5, <2>1, <2>2, <2>3, <2>4 DEF Coroutine, Fails
<1> QED
    BY <1>1, <1>2, <1>3, <1>4, <1>5 DEF ProxyNext

\* A bucket that TokenBucket.consume brings up to date only when it is asked, before
\* and after sleeps of any length, lets through what one that fills at every tick
\* would let through.
THEOREM ProxyImplementsRateLimit == ProxySpec => ImplementsRateLimit
<1>1. ProxyInit => Limit!Init
    BY InitLimits
<1>2. ProxyIndInv /\ [ProxyNext]_proxy_vars => [Limit!Next]_<<allowances, chunks>>
    BY StepLimits DEF AbstractStep
<1> QED
    BY <1>1, <1>2, ProxyInductive, PTL DEF ProxySpec, ImplementsRateLimit, Limit!Spec, allowances, chunks

=============================================================================
