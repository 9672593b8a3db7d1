--------------------------- MODULE OnePolicyProofs ---------------------------
(***************************************************************************)
(* Theorems about the policies that keep one list, for any folios, threads  *)
(* and servers: the list holds cached folios once each, list and metadata   *)
(* agree but for the listed causes, and FIFO, MRU and sampling implement    *)
(* PagePolicy.                                                              *)
(*                                                                         *)
(* Theorems about the listeners that the evolved policies among them score  *)
(* folios by, for samples of any sign, any window and ring, and any number  *)
(* of samples: types, estimates that stay within the range of the stream,   *)
(* the order of the recent values, and the average of the full window.      *)
(***************************************************************************)
EXTENDS OnePolicy, Vulcan, CacheExtListsProofs

Locked == AddLabels \cup {"evicted"}
FolioLabels == Labels \ {"idle", "recvmsg"}

\* What a thread in the middle of a hook knows.
HookInv ==
    \A t \in Threads :
        /\ th[t].pc \in FolioLabels => th[t].f \in Folios
        /\ th[t].pc = "recvmsg" => th[t].pid \in Servers
        /\ th[t].pc \in AddLabels => th[t].f \in cached
        /\ th[t].pc = "add_meta" => th[t].f \in Listed
        /\ th[t].pc = "evicted" => th[t].f \notin cached
        /\ th[t].pc = "link" => policy \notin Strict
        /\ th[t].pc = "create" => policy = "sampling"

\* The folio lock.
Exclusive ==
    \A t, u \in Threads :
        t # u /\ th[t].pc \in Locked /\ th[u].pc \in Locked => th[t].f # th[u].f

Unlinked(f) == "unlinked" \in causes[f]

\* An access that no removal overtook: its folio is still there, and on the list when
\* it is about to store metadata, unless its insertion failed.
AccessInv(t) ==
    th[t].pc \in AccessLabels /\ t \notin late =>
        /\ th[t].f \in cached
        /\ th[t].pc \in {"store", "move_store"} => th[t].f \in Listed \/ Unlinked(th[t].f)

\* The folios that the added hook of sampling links, or fails to link.
SamplingInv(f) ==
    policy = "sampling" /\ f \in cached =>
        f \in Listed \/ Unlinked(f) \/ Working(f, {"add_list"})

\* Who has yet to remove the metadata of a folio that is on no list, and who has
\* yet to store that of a listed one.
Gone(f) == causes[f] \cap {"unlinked", "left", "kept"} # {}
Traced(f) ==
    KeepsMetadata =>
        /\ f \in tracked \ Listed =>
              \/ Gone(f) \/ Removing(f)
              \/ policy = "sampling" /\ Working(f, {"add_list"})
        /\ f \in Listed \ tracked =>
              "unstored" \in causes[f] \/ Working(f, {"add_meta", "store"})

FolioInv(f) == SamplingInv(f) /\ Traced(f)

Relations ==
    HookInv /\ Exclusive /\ (\A t \in Threads : AccessInv(t)) /\ \A f \in Folios : FolioInv(f)

IndInv == TypeOK /\ Relations

-----------------------------------------------------------------------------
(* Lists and threads *)

\* The list after f was linked, unlinked or moved.
IsList(list, folios) ==
    list \in Seq(Folios) /\ IsInjective(list) /\ ToSet(list) = folios

LEMMA AddedList ==
    ASSUME NEW list, NEW S \in SUBSET Folios, IsList(list, S), NEW f \in Folios \ S
    PROVE  /\ IsList(ListAdd(list, f), S \cup {f})
           /\ IsList(ListAddTail(list, f), S \cup {f})
<1>1. list \in Seq(Folios) /\ IsInjective(list) /\ ToSet(list) = S /\ f \in Folios \ ToSet(list)
    BY DEF IsList
<1>2. IsInjective(ListAdd(list, f)) /\ IsInjective(ListAddTail(list, f))
    BY <1>1, AddInjective, OperationsInjective
<1>3. f \in Folios /\ list \in Seq(Folios)
    BY <1>1
<1>4. ListAdd(list, f) \in Seq(Folios) /\ ToSet(ListAdd(list, f)) = ToSet(list) \cup {f}
    BY <1>3, AddProperties
<1>5. /\ ListAddTail(list, f) \in Seq(Folios)
      /\ ToSet(ListAddTail(list, f)) = ToSet(list) \cup {f}
    BY <1>3, AddProperties
<1> QED
    BY <1>1, <1>2, <1>4, <1>5 DEF IsList

LEMMA DeletedList ==
    ASSUME NEW list, NEW S \in SUBSET Folios, IsList(list, S), NEW f
    PROVE  IsList(ListDel(list, f), S \ {f})
BY DelProperties, OperationsInjective DEF IsList

LEMMA MainList == TypeOK => IsList(main_list, Listed) /\ Listed \in SUBSET Folios
BY DEF TypeOK, IsList, Listed

LEMMA LinkedList ==
    ASSUME TypeOK, NEW f \in Folios \ Listed
    PROVE  /\ IsList(Linked(f), Listed \cup {f})
           /\ IsList(ListAdd(main_list, f), Listed \cup {f})
BY MainList, AddedList DEF Linked

LEMMA MovedList ==
    ASSUME TypeOK, NEW f \in Folios
    PROVE  IsList(Moved(f), Listed)
<1>1. CASE f \notin Listed
    BY <1>1, MainList DEF Moved
<1>2. CASE f \in Listed
  <2> DEFINE rest == ListDel(main_list, f)
             S == Listed \ {f}
  <2>1. IsList(rest, S) /\ S \in SUBSET Folios
      BY MainList, DeletedList
  <2> HIDE DEF rest
  <2>2. IsList(ListAdd(rest, f), S \cup {f}) /\ IsList(ListAddTail(rest, f), S \cup {f})
    <3> HIDE DEF S
    <3>1. f \notin S
        BY DEF S
    <3> QED
        BY <2>1, <3>1, AddedList
  <2>3. S \cup {f} = Listed
      BY <1>2
  <2>4. Moved(f) \in {ListAdd(rest, f), ListAddTail(rest, f)}
      BY <1>2 DEF Moved, ToTail, ToHead, rest
  <2> HIDE DEF S
  <2> QED
      BY <2>2, <2>3, <2>4
<1> QED
    BY <1>1, <1>2

\* A step of one thread changes the state of no other.
LEMMA ThreadStep ==
    ASSUME TypeOK, NEW t \in Threads, NEW new, th' = [th EXCEPT ![t] = new]
    PROVE  /\ th'[t] = new
           /\ \A u \in Threads : u # t => th'[u] = th[u]
           /\ th[t].pc \in Labels
BY DEF TypeOK, ThreadStates

\* The states a hook gives its thread.
InHook(label, f) == [pc |-> label, f |-> f, pid |-> NoServer]
Receiving(s) == [pc |-> "recvmsg", f |-> NoFolio, pid |-> s]

LEMMA NewStates ==
    /\ Idle \in ThreadStates /\ Idle.pc = "idle"
    /\ \A l \in Labels, f \in Folios :
          /\ InHook(l, f) \in ThreadStates
          /\ InHook(l, f).pc = l /\ InHook(l, f).f = f
    /\ \A s \in Servers :
          /\ Receiving(s) \in ThreadStates
          /\ Receiving(s).pc = "recvmsg" /\ Receiving(s).pid = s
<1>1. "idle" \in Labels /\ "recvmsg" \in Labels
    BY DEF Labels
<1> HIDE DEF Labels
<1> QED
    BY <1>1 DEF Idle, ThreadStates, InHook, Receiving

-----------------------------------------------------------------------------
(* Steps on one folio *)

SameBut(S, T, g) == S \ {g} = T \ {g}

\* The step of t that makes th[t] new concerns folio g alone and keeps what the
\* other threads know of it.
Owns(t, g, new) ==
    /\ th' = [th EXCEPT ![t] = new] /\ new.pc \in Labels /\ policy' = policy
    /\ SameBut(cached', cached, g) /\ SameBut(Listed', Listed, g)
    /\ SameBut(tracked', tracked, g)
    /\ \A h \in Folios \ {g} : causes'[h] = causes[h]
    /\ \A u \in Threads : u # t /\ th[u].f # g => (u \in late' <=> u \in late)
    /\ th[t].pc \in FolioLabels => th[t].f = g
    /\ new.pc \in FolioLabels => new.f = g /\ g \in Folios
    /\ new.pc = "recvmsg" => new.pid \in Servers
    /\ new.pc = "link" => policy \notin Strict
    /\ new.pc = "create" => policy = "sampling"
    /\ new.pc \in AccessLabels /\ t \notin late' =>
          /\ g \in cached'
          /\ new.pc \in {"store", "move_store"} => g \in Listed' \/ Unlinked(g)'
    /\ new.pc \in AddLabels => g \in cached'
    /\ new.pc = "add_meta" => g \in Listed'
    /\ new.pc = "evicted" => g \notin cached'

\* What the step leaves to the other threads in hooks that hold the lock of g.
LeavesLocked(t, g, new) ==
    \A u \in Threads : u # t /\ th[u].pc \in Locked /\ th[u].f = g =>
        /\ new.pc \notin Locked
        /\ th[u].pc \in AddLabels => g \in cached'
        /\ th[u].pc = "add_meta" => g \in Listed'
        /\ th[u].pc = "evicted" => g \notin cached'

\* And to those that access g and that it does not overtake.
LeavesAccesses(t, g) ==
    \A u \in Threads :
        u # t /\ th[u].pc \in AccessLabels /\ th[u].f = g /\ u \notin late' =>
            /\ u \notin late /\ g \in cached'
            /\ g \in Listed \/ Unlinked(g) => g \in Listed' \/ Unlinked(g)'

LEMMA WorkingAfter ==
    ASSUME TypeOK, NEW t \in Threads, NEW new, th' = [th EXCEPT ![t] = new],
           NEW f, NEW L
    PROVE  (\E u \in Threads : th'[u].pc \in L /\ th'[u].f = f)
              <=> \/ new.pc \in L /\ new.f = f
                  \/ \E u \in Threads : u # t /\ th[u].pc \in L /\ th[u].f = f
BY ThreadStep

LEMMA OwnedStep ==
    ASSUME IndInv, NEW t \in Threads, NEW g, NEW new, Owns(t, g, new),
           LeavesLocked(t, g, new), LeavesAccesses(t, g), g \in Folios => FolioInv(g)'
    PROVE  Relations'
<1>0. TypeOK
    BY DEF IndInv
<1>1. th'[t] = new /\ \A u \in Threads : u # t => th'[u] = th[u]
    BY <1>0, ThreadStep DEF Owns
<1>2. HookInv'
  <2> SUFFICES ASSUME NEW u \in Threads PROVE HookInv!(u)'
      BY DEF HookInv
  <2>1. CASE u = t
      BY <1>1, <2>1 DEF Owns, FolioLabels, Labels, AddLabels, AccessLabels
  <2>2. CASE u # t
    <3>1. HookInv!(u) /\ th'[u] = th[u]
        BY <1>1, <2>2 DEF IndInv, Relations, HookInv
    <3>2. th[u].pc \in Locked => th[u].f \in Folios
        BY <3>1 DEF Locked, FolioLabels, Labels, AddLabels
    <3>3. CASE th[u].f = g
        BY <2>2, <3>1, <3>3 DEF Owns, LeavesLocked, Locked, AddLabels, FolioLabels, Labels
    <3>4. CASE th[u].f # g
        BY <3>1, <3>2, <3>4 DEF Owns, SameBut, Locked, AddLabels, FolioLabels, Labels
    <3> QED
        BY <3>3, <3>4
  <2> QED
      BY <2>1, <2>2
<1>3. Exclusive'
  <2> SUFFICES ASSUME NEW u \in Threads, NEW v \in Threads, u # v,
                      th'[u].pc \in Locked, th'[v].pc \in Locked
               PROVE  th'[u].f # th'[v].f
      BY DEF Exclusive, Locked, AddLabels
  <2>1. new.pc \in Locked => new.f = g
      BY DEF Owns, Locked, FolioLabels, AddLabels
  <2>2. CASE u # t /\ v # t
      BY <1>1, <2>2 DEF IndInv, Relations, Exclusive
  <2>3. CASE u = t
      BY <1>1, <2>1, <2>3 DEF LeavesLocked
  <2>4. CASE v = t
      BY <1>1, <2>1, <2>4 DEF LeavesLocked
  <2> QED
      BY <2>2, <2>3, <2>4
<1>4. ASSUME NEW f \in Folios, f # g PROVE FolioInv(f)'
  <2>1. FolioInv(f)
      BY DEF IndInv, Relations
  <2>2. new.pc \in FolioLabels => new.f # f
      BY <1>4 DEF Owns
  <2>3. th[t].pc \in FolioLabels => th[t].f # f
      BY <1>4 DEF Owns
  <2>4. ASSUME NEW L \in SUBSET FolioLabels PROVE Working(f, L) => Working(f, L)'
      BY <1>1, <2>2, <2>3 DEF Working
  <2>5. /\ {"add_meta", "store"} \in SUBSET FolioLabels /\ {"evicted"} \in SUBSET FolioLabels
        /\ {"add_list"} \in SUBSET FolioLabels
      BY DEF FolioLabels, Labels, AddLabels, AccessLabels
  <2>6. KeepsMetadata' = KeepsMetadata /\ policy' = policy
      BY DEF KeepsMetadata, Owns
  <2>7. /\ f \in tracked' <=> f \in tracked
        /\ f \in cached' <=> f \in cached
        /\ f \in Listed' <=> f \in Listed
        /\ causes'[f] = causes[f]
      BY <1>4 DEF Owns, SameBut
  <2>8. /\ Removing(f) => Removing(f)'
        /\ Working(f, {"add_list"}) => Working(f, {"add_list"})'
        /\ Working(f, {"add_meta", "store"}) => Working(f, {"add_meta", "store"})'
      BY <2>4, <2>5 DEF Removing
  <2> QED
      BY <2>1, <2>6, <2>7, <2>8 DEF FolioInv, SamplingInv, Traced, Gone, Unlinked
<1>5. ASSUME NEW u \in Threads PROVE AccessInv(u)'
  <2>1. CASE u = t
      BY <1>1, <2>1 DEF Owns, AccessInv, FolioLabels, Labels, AccessLabels, Unlinked
  <2>2. CASE u # t
    <3>1. AccessInv(u) /\ th'[u] = th[u]
        BY <1>1, <2>2 DEF IndInv, Relations
    <3>2. th[u].pc \in AccessLabels => th[u].f \in Folios
        BY DEF IndInv, Relations, HookInv, FolioLabels, Labels, AccessLabels
    <3>3. CASE th[u].f = g
        BY <2>2, <3>1, <3>3 DEF LeavesAccesses, AccessInv, Unlinked
    <3>4. CASE th[u].f # g
      <4> SUFFICES ASSUME th[u].pc \in AccessLabels, u \notin late' PROVE AccessInv(u)'
          BY <3>1 DEF AccessInv
      <4>1. u \notin late /\ causes'[th[u].f] = causes[th[u].f]
          BY <2>2, <3>2, <3>4 DEF Owns
      <4>2. /\ th[u].f \in cached' <=> th[u].f \in cached
            /\ th[u].f \in Listed' <=> th[u].f \in Listed
          BY <3>4 DEF Owns, SameBut
      <4> QED
          BY <3>1, <4>1, <4>2 DEF AccessInv, Unlinked
    <3> QED
        BY <3>3, <3>4
  <2> QED
      BY <2>1, <2>2
<1> QED
    BY <1>2, <1>3, <1>4, <1>5 DEF Relations

-----------------------------------------------------------------------------
(* The hooks, one by one *)

\* What a step has to do to the state to keep its types.
Typed(new, list, folios) ==
    /\ new \in ThreadStates
    /\ IsList(list, folios) /\ folios \subseteq cached'
    /\ policy' = policy /\ cached' \in SUBSET Folios /\ watched' \in BOOLEAN
    /\ tracked' \in SUBSET Folios /\ late' \in SUBSET Threads
    /\ causes' \in [Folios -> SUBSET Causes]
    /\ owner' \in [Folios -> Servers \cup {NoServer}]
    /\ age' \in [Folios -> {"recent", "working", "old"}]
    /\ active_db_pid' \in Servers \cup {NoServer} /\ session' \in BOOLEAN

LEMMA TypedStep ==
    ASSUME TypeOK, NEW t \in Threads, NEW new, th' = [th EXCEPT ![t] = new],
           NEW folios, Typed(new, main_list', folios)
    PROVE  TypeOK' /\ Listed' = folios
BY DEF TypeOK, Typed, IsList, Listed

\* Nobody is in a hook that holds the lock of f.
LEMMA Unlocked ==
    ASSUME IndInv, NEW f \in Folios, ~Adding(f), ~Removing(f)
    PROVE  \A u \in Threads : th[u].pc \in Locked => th[u].f # f
BY DEF Adding, Removing, Working, Locked

\* A thread that is in such a hook is alone.
LEMMA HoldsLock ==
    ASSUME IndInv, NEW t \in Threads, th[t].pc \in Locked
    PROVE  \A u \in Threads : u # t /\ th[u].pc \in Locked => th[u].f # th[t].f
BY DEF IndInv, Relations, Exclusive

\* A step that changes neither the page cache nor, but for an insertion, the list.
LEMMA OthersKeep ==
    ASSUME IndInv, NEW t \in Threads, NEW g, NEW new,
           cached' = cached, Listed \subseteq Listed',
           new.pc \notin Locked
             \/ \A u \in Threads : u # t /\ th[u].pc \in Locked => th[u].f # g
    PROVE  LeavesLocked(t, g, new)
BY DEF IndInv, Relations, HookInv, LeavesLocked

\* A step that takes nothing from the page cache and the list, and forgives nothing.
LEMMA AccessesKeep ==
    ASSUME IndInv, NEW t \in Threads, NEW g, cached \subseteq cached', Listed \subseteq Listed',
           \A u \in Threads : u # t /\ u \in late => u \in late',
           Unlinked(g) => Unlinked(g)'
    PROVE  LeavesAccesses(t, g)
BY DEF IndInv, Relations, AccessInv, LeavesAccesses

\* Blame.
LEMMA Blamed ==
    ASSUME TypeOK, NEW f \in Folios, NEW cause \in Causes, Blame(f, cause) \/ UNCHANGED causes
    PROVE  /\ causes' \in [Folios -> SUBSET Causes]
           /\ \A h \in Folios : causes[h] \subseteq causes'[h] /\ (h # f => causes'[h] = causes[h])
           /\ Blame(f, cause) => cause \in causes'[f]
<1>1. causes \in [Folios -> SUBSET Causes]
    BY DEF TypeOK
<1> QED
    BY <1>1 DEF Blame

Kept == TypeOK' /\ Relations'

LEMMA FolioAddedKept ==
    ASSUME IndInv, NEW t \in Threads, NEW f \in Folios, FolioAdded(t, f)
    PROVE  Kept
<1>0. TypeOK
    BY DEF IndInv
<1>1. PICK new \in {InHook("add_list", f), th[t]} : th' = [th EXCEPT ![t] = new]
  <2>1. th = [th EXCEPT ![t] = th[t]]
      BY <1>0 DEF TypeOK
  <2> QED
      BY <2>1 DEF FolioAdded, Goto, InHook
<1>2. new \in ThreadStates /\ new.pc \in {"add_list", "idle"} /\ (new.pc = "add_list" => new.f = f)
    BY <1>0, NewStates DEF FolioAdded, At, TypeOK, Labels, AccessLabels, AddLabels
<1>3. /\ th[t].pc = "idle" /\ cached' = cached \cup {f} /\ f \notin cached
      /\ UNCHANGED <<policy, watched, main_list, tracked, owner, age, active_db_pid, session, late>>
    BY DEF FolioAdded, At, metadata, traffic
<1>a. /\ causes' \in [Folios -> SUBSET Causes]
      /\ \A h \in Folios : causes[h] \subseteq causes'[h] /\ (h # f => causes'[h] = causes[h])
      /\ policy = "sampling" /\ ~watched => Unlinked(f)'
  <2>1. "unlinked" \in Causes
      BY DEF Causes
  <2>2. IF policy = "sampling" /\ ~watched THEN Blame(f, "unlinked") ELSE UNCHANGED causes
      BY DEF FolioAdded, BlameIf
  <2> QED
      BY <1>0, <2>1, <2>2, Blamed DEF Unlinked
<1>4. Typed(new, main_list', Listed)
    BY <1>0, <1>2, <1>3, <1>a, MainList DEF Typed, TypeOK
<1>5. TypeOK' /\ Listed' = Listed
    BY <1>0, <1>1, <1>4, TypedStep
<1>6. \A u \in Threads : th[u].pc \in Locked => th[u].f # f
  <2>1. ~Adding(f)
      BY <1>3 DEF Adding, Working, IndInv, Relations, HookInv
  <2> QED
      BY <2>1, Unlocked DEF FolioAdded
<1>b. Traced(f)'
  <2>1. f \notin Listed
      BY <1>0, <1>3 DEF TypeOK
  <2>2. ~Removing(f) /\ ~Working(f, {"add_list"})
      BY <1>6 DEF Removing, Working, Locked, AddLabels
  <2>3. KeepsMetadata /\ f \in tracked => Gone(f)
      BY <2>1, <2>2 DEF IndInv, Relations, FolioInv, Traced
  <2>4. Gone(f) => Gone(f)'
      BY <1>a DEF Gone
  <2> QED
      BY <1>3, <1>5, <2>1, <2>3, <2>4 DEF Traced, KeepsMetadata
<1>c. SamplingInv(f)'
  <2>1. watched /\ policy = "sampling" => Working(f, {"add_list"})'
    <3>1. watched /\ policy = "sampling" => th' = [th EXCEPT ![t] = InHook("add_list", f)]
        BY DEF FolioAdded, Goto, InHook
    <3>2. InHook("add_list", f).pc = "add_list" /\ InHook("add_list", f).f = f
        BY DEF InHook
    <3> QED
        BY <1>0, <3>1, <3>2, ThreadStep DEF Working
  <2> QED
      BY <1>3, <1>a, <2>1 DEF SamplingInv
<1>7. FolioInv(f)' /\ LeavesAccesses(t, f)
    BY <1>3, <1>5, <1>a, <1>b, <1>c, AccessesKeep DEF FolioInv, Unlinked
<1>8. Owns(t, f, new)
    BY <1>1, <1>2, <1>3, <1>5, <1>a DEF Owns, SameBut, FolioLabels, Labels, AddLabels, AccessLabels
<1>9. LeavesLocked(t, f, new)
    BY <1>6 DEF LeavesLocked
<1> QED
    BY <1>5, <1>7, <1>8, <1>9, OwnedStep DEF Kept

LEMMA FolioAddedListKept ==
    ASSUME IndInv, NEW t \in Threads, NEW f, f = th[t].f, FolioAddedList(t)
    PROVE  Kept
<1>0. TypeOK
    BY DEF IndInv
<1>1. /\ th[t].pc = "add_list" /\ f \in Folios /\ f \in cached
      /\ UNCHANGED <<policy, cached, watched, tracked, owner, age, active_db_pid, session, late>>
    BY DEF FolioAddedList, At, kernel, metadata, traffic, IndInv, Relations, HookInv,
           AddLabels, FolioLabels, Labels, AccessLabels
<1>2. \A u \in Threads : u # t /\ th[u].pc \in Locked => th[u].f # f
    BY <1>1, HoldsLock DEF Locked, AddLabels
<1>3. FolioInv(f)
    BY <1>1 DEF IndInv, Relations
<1>4. CASE /\ f \notin Listed /\ main_list' = Linked(f)
           /\ IF KeepsMetadata THEN Goto(t, "add_meta", f) ELSE Return(t)
           /\ UNCHANGED causes
  <2>1. PICK new \in {InHook("add_meta", f), Idle} :
            /\ th' = [th EXCEPT ![t] = new]
            /\ KeepsMetadata <=> new = InHook("add_meta", f)
      BY <1>4, NewStates DEF Goto, Return, InHook, Labels, AccessLabels, AddLabels
  <2>2. /\ new \in ThreadStates /\ new.pc \in {"add_meta", "idle"}
        /\ new.pc = "add_meta" => new.f = f
        /\ KeepsMetadata => new.pc = "add_meta"
      BY <1>1, <2>1, NewStates DEF Labels, AccessLabels, AddLabels
  <2>3. Typed(new, main_list', Listed \cup {f})
      BY <1>0, <1>1, <1>4, <2>2, LinkedList DEF Typed, TypeOK
  <2>4. TypeOK' /\ Listed' = Listed \cup {f}
      BY <1>0, <2>1, <2>3, TypedStep
  <2>5. FolioInv(f)' /\ LeavesAccesses(t, f)
    <3>1. KeepsMetadata => Working(f, {"add_meta", "store"})'
        BY <1>0, <2>1, <2>2, ThreadStep DEF Working
    <3>2. LeavesAccesses(t, f)
        BY <1>1, <1>4, <2>4, AccessesKeep DEF Unlinked
    <3> QED
        BY <1>1, <2>4, <3>1, <3>2 DEF FolioInv, SamplingInv, Traced, KeepsMetadata
  <2>6. Owns(t, f, new)
      BY <1>1, <1>4, <2>1, <2>2, <2>4
      DEF Owns, SameBut, FolioLabels, Labels, AddLabels, AccessLabels
  <2>7. LeavesLocked(t, f, new)
      BY <1>2 DEF LeavesLocked
  <2> QED
      BY <2>4, <2>5, <2>6, <2>7, OwnedStep DEF Kept
<1>5. CASE /\ Return(t)
           /\ BlameIf(policy = "sampling", f, "unlinked")
           /\ UNCHANGED main_list
  <2>a. /\ causes' \in [Folios -> SUBSET Causes]
        /\ \A h \in Folios : causes[h] \subseteq causes'[h] /\ (h # f => causes'[h] = causes[h])
        /\ policy = "sampling" => Unlinked(f)'
    <3>1. "unlinked" \in Causes
        BY DEF Causes
    <3>2. IF policy = "sampling" THEN Blame(f, "unlinked") ELSE UNCHANGED causes
        BY <1>5 DEF BlameIf
    <3> QED
        BY <1>0, <1>1, <3>1, <3>2, Blamed DEF Unlinked
  <2>1. th' = [th EXCEPT ![t] = Idle] /\ Idle \in ThreadStates /\ Idle.pc = "idle"
      BY <1>5, NewStates DEF Return
  <2>2. Typed(Idle, main_list', Listed)
      BY <1>0, <1>1, <1>5, <2>1, <2>a, MainList DEF Typed, TypeOK
  <2>3. TypeOK' /\ Listed' = Listed
      BY <1>0, <2>1, <2>2, TypedStep
  <2>4. FolioInv(f)' /\ LeavesAccesses(t, f)
    <3>1. \A u \in Threads : u # t => th'[u] = th[u]
        BY <1>0, <2>1, ThreadStep
    <3>2. Working(f, {"add_meta", "store"}) => Working(f, {"add_meta", "store"})'
        BY <1>1, <3>1 DEF Working
    <3>3. Removing(f) => Removing(f)'
        BY <1>1, <3>1 DEF Removing, Working
    <3>4. LeavesAccesses(t, f)
        BY <1>1, <2>3, <2>a, AccessesKeep DEF Unlinked
    <3>5. (policy = "sampling" => Gone(f)') /\ (Gone(f) => Gone(f)')
        BY <1>1, <2>a DEF Gone, Unlinked
    <3>6. "unstored" \in causes[f] => "unstored" \in causes'[f]
        BY <1>1, <2>a
    <3>7. Traced(f)'
        BY <1>1, <1>3, <2>3, <3>2, <3>3, <3>5, <3>6 DEF FolioInv, Traced, KeepsMetadata
    <3>8. SamplingInv(f)'
        BY <1>1, <2>a DEF SamplingInv
    <3> QED
        BY <3>4, <3>7, <3>8 DEF FolioInv
  <2>5. Owns(t, f, Idle)
      BY <1>1, <2>1, <2>3, <2>a DEF Owns, SameBut, FolioLabels, Labels, AddLabels, AccessLabels
  <2>6. LeavesLocked(t, f, Idle)
      BY <1>2 DEF LeavesLocked
  <2> QED
      BY <2>3, <2>4, <2>5, <2>6, OwnedStep DEF Kept
<1> QED
    BY <1>4, <1>5 DEF FolioAddedList

LEMMA FolioAddedMetaKept ==
    ASSUME IndInv, NEW t \in Threads, NEW f, f = th[t].f, FolioAddedMeta(t)
    PROVE  Kept
<1>0. TypeOK
    BY DEF IndInv
<1>1. /\ th[t].pc = "add_meta" /\ f \in Folios /\ f \in Listed
      /\ UNCHANGED <<policy, cached, watched, main_list, owner, age, active_db_pid, session, late>>
    BY DEF FolioAddedMeta, At, kernel, traffic, IndInv, Relations, HookInv,
           AddLabels, FolioLabels, Labels, AccessLabels
<1>2. th' = [th EXCEPT ![t] = Idle] /\ Idle \in ThreadStates /\ Idle.pc = "idle"
    BY NewStates DEF FolioAddedMeta, Return
<1>3. /\ tracked' \in {tracked, tracked \cup {f}} /\ causes' \in [Folios -> SUBSET Causes]
      /\ \A h \in Folios \ {f} : causes'[h] = causes[h]
      /\ f \in tracked' \/ "unstored" \in causes'[f]
  <2>1. CASE tracked' = tracked \cup {f} /\ causes' = [causes EXCEPT ![f] = {}]
      BY <1>0, <2>1 DEF TypeOK
  <2>2. CASE BlameIf(f \notin tracked, f, "unstored") /\ UNCHANGED tracked
    <3>1. "unstored" \in Causes
        BY DEF Causes
    <3>2. IF f \notin tracked THEN Blame(f, "unstored") ELSE UNCHANGED causes
        BY <2>2 DEF BlameIf
    <3> QED
        BY <1>0, <1>1, <2>2, <3>1, <3>2, Blamed
  <2> QED
      BY <2>1, <2>2 DEF FolioAddedMeta
<1>4. Typed(Idle, main_list', Listed)
    BY <1>0, <1>1, <1>2, <1>3, MainList DEF Typed, TypeOK
<1>5. TypeOK' /\ Listed' = Listed
    BY <1>0, <1>2, <1>4, TypedStep
<1>6. FolioInv(f)' /\ LeavesAccesses(t, f)
  <2>1. LeavesAccesses(t, f)
      BY <1>1, <1>5 DEF LeavesAccesses, IndInv, Relations, AccessInv
  <2> QED
      BY <1>1, <1>3, <1>5, <2>1 DEF FolioInv, SamplingInv, Traced
<1>7. Owns(t, f, Idle)
    BY <1>1, <1>2, <1>3, <1>5 DEF Owns, SameBut, FolioLabels, Labels, AddLabels, AccessLabels
<1>8. LeavesLocked(t, f, Idle)
  <2>1. \A u \in Threads : u # t /\ th[u].pc \in Locked => th[u].f # f
      BY <1>1, HoldsLock DEF Locked, AddLabels
  <2> QED
      BY <2>1 DEF LeavesLocked
<1> QED
    BY <1>5, <1>6, <1>7, <1>8, OwnedStep DEF Kept

\* A step that leaves lists, metadata and locks as they are, and forgives nothing.
LEMMA PlainStep ==
    ASSUME IndInv, NEW t \in Threads, NEW g, NEW new, th' = [th EXCEPT ![t] = new],
           th[t].pc \notin AddLabels \cup {"store", "evicted"}, new.pc \notin Locked,
           th[t].pc \in FolioLabels => th[t].f = g,
           new.pc \in FolioLabels => new.f = g /\ g \in Folios,
           new.pc = "recvmsg" => new.pid \in Servers,
           new.pc = "link" => policy \notin Strict,
           new.pc = "create" => policy = "sampling",
           new.pc \in AccessLabels /\ t \notin late' =>
              /\ g \in cached
              /\ new.pc \in {"store", "move_store"} => g \in Listed \/ Unlinked(g)',
           UNCHANGED <<policy, cached, tracked>>,
           \A u \in Threads : u # t => (u \in late' <=> u \in late),
           \A h \in Folios : causes[h] \subseteq causes'[h] /\ (h # g => causes'[h] = causes[h]),
           Typed(new, main_list', Listed)
    PROVE  Kept
<1>0. TypeOK
    BY DEF IndInv
<1>1. TypeOK' /\ Listed' = Listed
    BY <1>0, TypedStep
<1>2. ASSUME g \in Folios PROVE FolioInv(g)'
  <2>1. \A u \in Threads : u # t => th'[u] = th[u]
      BY <1>0, ThreadStep
  <2>2. /\ Working(g, {"add_meta", "store"}) => Working(g, {"add_meta", "store"})'
        /\ Working(g, {"add_list"}) => Working(g, {"add_list"})'
      BY <2>1 DEF Working, AddLabels
  <2>3. Removing(g) => Removing(g)'
      BY <2>1 DEF Removing, Working
  <2>4. FolioInv(g)
      BY <1>2 DEF IndInv, Relations
  <2>5. /\ Gone(g) => Gone(g)'
        /\ Unlinked(g) => Unlinked(g)'
        /\ "unstored" \in causes[g] => "unstored" \in causes'[g]
      BY <1>2 DEF Gone, Unlinked
  <2> QED
      BY <1>1, <2>2, <2>3, <2>4, <2>5 DEF FolioInv, SamplingInv, Traced, KeepsMetadata
<1>3. Owns(t, g, new)
  <2>1. new.pc \in Labels
      BY DEF Typed, ThreadStates
  <2> QED
      BY <1>1, <2>1 DEF Owns, SameBut, Locked, AddLabels
<1>4. LeavesLocked(t, g, new)
    BY <1>1, OthersKeep
<1>5. LeavesAccesses(t, g)
  <2>1. CASE g \in Folios
      BY <1>1, <2>1, AccessesKeep DEF Unlinked
  <2>2. CASE g \notin Folios
    <3>1. \A u \in Threads : th[u].pc \in AccessLabels => th[u].f \in Folios
        BY DEF IndInv, Relations, HookInv, FolioLabels, Labels, AccessLabels
    <3> QED
        BY <2>2, <3>1 DEF LeavesAccesses
  <2> QED
      BY <2>1, <2>2
<1> QED
    BY <1>1, <1>2, <1>3, <1>4, <1>5, OwnedStep DEF Kept

\* A step that no thread takes part in.
LEMMA QuietStep ==
    ASSUME IndInv, UNCHANGED <<policy, cached, tracked, late, causes, th>>,
           NEW new, Typed(new, main_list', Listed)
    PROVE  Kept
<1>1. TypeOK' /\ Listed' = Listed
    BY DEF IndInv, TypeOK, Typed, IsList, Listed
<1>2. HookInv' /\ Exclusive'
    BY <1>1 DEF IndInv, Relations, HookInv, Exclusive
<1>3. \A f \in Folios : FolioInv(f)'
    BY <1>1 DEF IndInv, Relations, FolioInv, SamplingInv, Traced, KeepsMetadata, Removing, Working,
                Gone, Unlinked
<1>4. \A t \in Threads : AccessInv(t)'
    BY <1>1 DEF IndInv, Relations, AccessInv, Unlinked
<1> QED
    BY <1>1, <1>2, <1>3, <1>4 DEF Kept, Relations

LEMMA EnvironmentKept ==
    ASSUME IndInv,
           ChangeWatchlist \/ PeriodElapses \/ WorkingSetElapses \/ SessionElapses
    PROVE  Kept
<1>0. TypeOK
    BY DEF IndInv
<1>1. /\ UNCHANGED <<policy, cached, tracked, late, causes, th, main_list, owner, active_db_pid>>
      /\ watched' \in BOOLEAN /\ session' \in BOOLEAN
      /\ age' \in [Folios -> {"recent", "working", "old"}]
  <2>1. CASE ChangeWatchlist
      BY <1>0, <2>1 DEF ChangeWatchlist, metadata, traffic, history, TypeOK
  <2>2. CASE PeriodElapses
      BY <1>0, <2>2 DEF PeriodElapses, Elapses, kernel, history, TypeOK
  <2>3. CASE WorkingSetElapses \/ SessionElapses
      BY <1>0, <2>3 DEF WorkingSetElapses, SessionElapses, Elapses, kernel, history, TypeOK
  <2> QED
      BY <2>1, <2>2, <2>3
<1>2. Typed(Idle, main_list', Listed)
    BY <1>0, <1>1, NewStates, MainList DEF Typed, TypeOK
<1> QED
    BY <1>1, <1>2, QuietStep

LEMMA FolioAccessedMoveKept ==
    ASSUME IndInv, NEW t \in Threads, NEW f \in Folios, FolioAccessedMove(t, f)
    PROVE  Kept
<1>0. TypeOK
    BY DEF IndInv
<1>1. UNCHANGED <<policy, cached, watched, tracked, owner, age, active_db_pid, session, late,
                  causes, th>>
    BY DEF FolioAccessedMove, kernel, metadata, traffic, history
<1>2. Typed(Idle, main_list', Listed)
    BY <1>0, <1>1, NewStates, MovedList, MainList DEF FolioAccessedMove, Typed, TypeOK
<1> QED
    BY <1>1, <1>2, QuietStep

LEMMA FolioAccessedKept ==
    ASSUME IndInv, NEW t \in Threads, NEW f \in Folios,
           FolioAccessedAgain(t, f) \/ FolioAccessedNew(t, f)
    PROVE  Kept
<1>0. TypeOK
    BY DEF IndInv
<1>1. /\ th[t].pc = "idle" /\ f \in cached
      /\ UNCHANGED <<policy, cached, watched, tracked, owner, active_db_pid, session, late, causes,
                     main_list>>
      /\ age' \in [Folios -> {"recent", "working", "old"}]
    BY <1>0 DEF FolioAccessedAgain, FolioAccessedNew, Accessible, At, kernel, metadata, traffic, history, TypeOK
<1>2. PICK l \in {"move", "create", "link"} :
          /\ th' = [th EXCEPT ![t] = InHook(l, f)]
          /\ (l = "link" => policy \notin Strict) /\ (l = "create" => policy = "sampling")
  <2>1. CASE FolioAccessedAgain(t, f)
      BY <2>1 DEF FolioAccessedAgain, Goto, InHook
  <2>2. CASE FolioAccessedNew(t, f)
      BY <2>2 DEF FolioAccessedNew, KeepsMetadata, Strict, Goto, InHook
  <2> QED
      BY <2>1, <2>2
<1>3. /\ InHook(l, f) \in ThreadStates /\ InHook(l, f).pc = l /\ InHook(l, f).f = f
      /\ l \notin Locked /\ l # "recvmsg"
    BY <1>2, NewStates DEF Labels, AccessLabels, Locked, AddLabels
<1>4. Typed(InHook(l, f), main_list', Listed)
    BY <1>0, <1>1, <1>3, MainList DEF Typed, TypeOK
<1> QED
    BY <1>1, <1>2, <1>3, <1>4, PlainStep DEF FolioLabels, AddLabels

LEMMA FolioAccessedMovedKept ==
    ASSUME IndInv, NEW t \in Threads, NEW f, f = th[t].f, FolioAccessedMoved(t)
    PROVE  Kept
<1>0. TypeOK
    BY DEF IndInv
<1>1. /\ th[t].pc \in {"move", "move_store"} /\ f \in Folios
      /\ UNCHANGED <<policy, cached, watched, tracked, owner, age, active_db_pid, session, causes>>
    BY DEF FolioAccessedMoved, kernel, metadata, traffic, IndInv, Relations, HookInv,
           FolioLabels, Labels, AccessLabels
<1>2. PICK new \in {Idle, InHook("store", f)} :
          /\ th' = [th EXCEPT ![t] = new] /\ late' \in {late, late \ {t}}
          /\ new # Idle => late' = late /\ th[t].pc = "move_store"
    BY <1>1 DEF FolioAccessedMoved, Goto, Return, InHook, At
<1>a. th[t].pc = "move_store" /\ t \notin late => f \in cached /\ (f \in Listed \/ Unlinked(f))
    BY DEF IndInv, Relations, AccessInv, AccessLabels
<1>3. /\ new \in ThreadStates /\ new.pc \in {"idle", "store"} /\ (new.pc = "store" => new.f = f)
      /\ new.pc \notin Locked
    BY <1>1, <1>2, NewStates DEF Labels, AccessLabels, Locked, AddLabels
<1>4. Typed(new, main_list', Listed)
    BY <1>0, <1>1, <1>2, <1>3, MovedList, MainList DEF FolioAccessedMoved, Typed, TypeOK
<1>5. new.pc \in AccessLabels => new.pc = "store" /\ late' = late /\ th[t].pc = "move_store"
    BY <1>2, <1>3, NewStates DEF AccessLabels
<1> QED
    BY <1>1, <1>2, <1>3, <1>4, <1>5, <1>a, PlainStep DEF FolioLabels, AddLabels, Unlinked

LEMMA RecvmsgKept ==
    ASSUME IndInv, NEW t \in Threads, (\E s \in Servers : Recvmsg(t, s)) \/ RecvmsgActive(t)
    PROVE  Kept
<1>0. TypeOK
    BY DEF IndInv
<1>1. CASE \E s \in Servers : Recvmsg(t, s)
  <2>1. PICK s \in Servers : Recvmsg(t, s)
      BY <1>1
  <2>2. /\ th[t].pc = "idle" /\ th' = [th EXCEPT ![t] = Receiving(s)] /\ session' = TRUE
        /\ UNCHANGED <<policy, cached, watched, tracked, owner, age, active_db_pid, late, causes,
                       main_list>>
      BY <2>1 DEF Recvmsg, At, Receiving, kernel, metadata, history
  <2>3. /\ Receiving(s) \in ThreadStates
        /\ Receiving(s).pc = "recvmsg" /\ Receiving(s).pid = s /\ "recvmsg" \notin Locked
      BY NewStates DEF Locked, AddLabels
  <2>4. Typed(Receiving(s), main_list', Listed)
      BY <1>0, <2>2, <2>3, MainList DEF Typed, TypeOK
  <2> QED
      BY <2>2, <2>3, <2>4, PlainStep DEF FolioLabels, AddLabels, AccessLabels
<1>2. CASE RecvmsgActive(t)
  <2>1. /\ th[t].pc = "recvmsg" /\ th' = [th EXCEPT ![t] = Idle] /\ active_db_pid' = th[t].pid
        /\ UNCHANGED <<policy, cached, watched, tracked, owner, age, session, late, causes, main_list>>
      BY <1>2 DEF RecvmsgActive, At, Return, kernel, metadata, history
  <2>2. th[t].pid \in Servers
      BY <2>1 DEF IndInv, Relations, HookInv
  <2>3. Idle \in ThreadStates /\ Idle.pc = "idle" /\ "idle" \notin Locked
      BY NewStates DEF Locked, AddLabels
  <2>4. Typed(Idle, main_list', Listed)
      BY <1>0, <2>1, <2>2, <2>3, MainList DEF Typed, TypeOK
  <2> QED
      BY <2>1, <2>3, <2>4, PlainStep DEF FolioLabels, AddLabels, AccessLabels
<1> QED
    BY <1>1, <1>2

LEMMA FolioAccessedLinkKept ==
    ASSUME IndInv, NEW t \in Threads, NEW f, f = th[t].f, FolioAccessedLink(t)
    PROVE  Kept
<1>0. TypeOK
    BY DEF IndInv
<1>1. /\ th[t].pc = "link" /\ f \in Folios
      /\ UNCHANGED <<policy, cached, watched, tracked, owner, age, active_db_pid, session, late>>
    BY DEF FolioAccessedLink, At, kernel, metadata, traffic, IndInv, Relations, HookInv,
           FolioLabels, Labels, AccessLabels
<1>2. CASE /\ f \in cached /\ f \notin Listed
           /\ main_list' = ListAdd(main_list, f) /\ Goto(t, "store", f) /\ UNCHANGED causes
  <2> DEFINE new == InHook("store", f)
  <2>1. /\ th' = [th EXCEPT ![t] = new]
        /\ new \in ThreadStates /\ new.pc = "store" /\ new.f = f
      BY <1>1, <1>2, NewStates DEF Goto, InHook, Labels, AccessLabels
  <2> HIDE DEF new
  <2>2. Typed(new, main_list', Listed \cup {f})
      BY <1>0, <1>1, <1>2, <2>1, LinkedList DEF Typed, TypeOK
  <2>3. TypeOK' /\ Listed' = Listed \cup {f}
      BY <1>0, <2>1, <2>2, TypedStep
  <2>4. FolioInv(f)' /\ LeavesAccesses(t, f)
    <3>1. Working(f, {"add_meta", "store"})'
        BY <1>0, <2>1, ThreadStep DEF Working
    <3>2. LeavesAccesses(t, f)
        BY <1>1, <1>2, <2>3, AccessesKeep DEF Unlinked
    <3> QED
        BY <2>3, <3>1, <3>2 DEF FolioInv, SamplingInv, Traced
  <2>5. Owns(t, f, new)
      BY <1>1, <1>2, <2>1, <2>3 DEF Owns, SameBut, FolioLabels, Labels, AddLabels, AccessLabels
  <2>6. LeavesLocked(t, f, new)
    <3>1. new.pc \notin Locked
        BY <2>1 DEF Locked, AddLabels
    <3> QED
        BY <1>1, <2>3, <3>1, OthersKeep
  <2> QED
      BY <2>3, <2>4, <2>5, <2>6, OwnedStep DEF Kept
<1>3. CASE /\ Goto(t, IF policy = "net" THEN "move" ELSE "move_store", f)
           /\ BlameIf(policy \in Evolved /\ f \notin Listed, f, "unlinked")
           /\ UNCHANGED main_list
  <2>1. PICK l \in {"move", "move_store"} :
            /\ th' = [th EXCEPT ![t] = InHook(l, f)]
            /\ l = "move_store" => policy # "net"
      BY <1>3 DEF Goto, InHook
  <2>a. /\ causes' \in [Folios -> SUBSET Causes]
        /\ \A h \in Folios : causes[h] \subseteq causes'[h] /\ (h # f => causes'[h] = causes[h])
        /\ policy \in Evolved => f \in Listed \/ Unlinked(f)'
    <3>1. "unlinked" \in Causes
        BY DEF Causes
    <3>2. IF policy \in Evolved /\ f \notin Listed THEN Blame(f, "unlinked") ELSE UNCHANGED causes
        BY <1>3 DEF BlameIf
    <3> QED
        BY <1>0, <1>1, <3>1, <3>2, Blamed DEF Unlinked
  <2>b. l = "move_store" => policy \in Evolved
      BY <1>0, <1>1, <2>1 DEF IndInv, Relations, HookInv, TypeOK, Policies
  <2>c. t \notin late => f \in cached
      BY <1>1 DEF IndInv, Relations, AccessInv, AccessLabels
  <2>2. /\ InHook(l, f) \in ThreadStates /\ InHook(l, f).pc = l /\ InHook(l, f).f = f
        /\ l \notin Locked
      BY <1>1, <2>1, NewStates DEF Labels, AccessLabels, Locked, AddLabels
  <2>3. Typed(InHook(l, f), main_list', Listed)
      BY <1>0, <1>1, <1>3, <2>2, <2>a, MainList DEF Typed, TypeOK
  <2>4. InHook(l, f).pc \in AccessLabels => InHook(l, f).pc = "move_store"
      BY <2>2 DEF AccessLabels
  <2> QED
      BY <1>1, <2>1, <2>2, <2>3, <2>4, <2>a, <2>b, <2>c, PlainStep DEF FolioLabels, AddLabels
<1> QED
    BY <1>2, <1>3 DEF FolioAccessedLink

LEMMA FolioAccessedStoreKept ==
    ASSUME IndInv, NEW t \in Threads, NEW f, f = th[t].f, FolioAccessedStore(t)
    PROVE  Kept
<1>0. TypeOK
    BY DEF IndInv
<1>1. /\ th[t].pc \in {"store", "create"} /\ f \in Folios
      /\ UNCHANGED <<policy, cached, watched, active_db_pid, session, main_list>>
      /\ th' = [th EXCEPT ![t] = Idle]
    BY DEF FolioAccessedStore, kernel, traffic, Return, IndInv, Relations, HookInv,
           FolioLabels, Labels, AccessLabels
<1>2. /\ owner' \in [Folios -> Servers \cup {NoServer}]
      /\ age' \in [Folios -> {"recent", "working", "old"}]
    BY <1>0 DEF FolioAccessedStore, metadata, TypeOK
<1>3. /\ \/ tracked' = tracked \cup {f} /\ (t \in late => "left" \in causes'[f])
         \/ tracked' = tracked /\ (f \in tracked \/ "unstored" \in causes'[f])
      /\ causes' \in [Folios -> SUBSET Causes] /\ late' = late \ {t}
      /\ causes[f] \ {"unstored"} \subseteq causes'[f]
      /\ f \in tracked' \/ "unstored" \in causes'[f]
      /\ \A h \in Folios \ {f} : causes'[h] = causes[h]
  <2>1. CASE /\ tracked' = tracked \cup {f}
             /\ causes' = [causes EXCEPT ![f] = (@ \ {"unstored"})
                                             \cup IF t \in late THEN {"left"} ELSE {}]
    <3>1. "left" \in Causes
        BY DEF Causes
    <3> QED
      <4>1. causes \in [Folios -> SUBSET Causes] /\ late' = late \ {t}
          BY <1>0 DEF TypeOK, FolioAccessedStore
      <4>2. causes'[f] = (causes[f] \ {"unstored"}) \cup IF t \in late THEN {"left"} ELSE {}
          BY <1>1, <2>1, <4>1
      <4>3. causes'[f] \in SUBSET Causes
          BY <1>1, <3>1, <4>1, <4>2
      <4>4. causes' \in [Folios -> SUBSET Causes] /\ \A h \in Folios \ {f} : causes'[h] = causes[h]
          BY <1>1, <2>1, <4>1, <4>2, <4>3
      <4> QED
          BY <2>1, <4>1, <4>2, <4>4
  <2>2. CASE BlameIf(f \notin tracked, f, "unstored") /\ UNCHANGED tracked
    <3>1. "unstored" \in Causes /\ late' = late \ {t}
        BY DEF Causes, FolioAccessedStore
    <3>2. IF f \notin tracked THEN Blame(f, "unstored") ELSE UNCHANGED causes
        BY <2>2 DEF BlameIf
    <3> QED
        BY <1>0, <1>1, <2>2, <3>1, <3>2, Blamed
  <2> QED
    <3>1. late' = late \ {t}
        BY DEF FolioAccessedStore
    <3>2. \/ /\ tracked' = tracked \cup {f}
             /\ causes' = [causes EXCEPT ![f] = (@ \ {"unstored"})
                                             \cup IF t \in late THEN {"left"} ELSE {}]
          \/ BlameIf(f \notin tracked, f, "unstored") /\ UNCHANGED tracked
        BY DEF FolioAccessedStore, metadata
    <3> QED
        BY <2>1, <2>2, <3>1, <3>2
<1>4. Idle \in ThreadStates /\ Idle.pc = "idle" /\ "idle" \notin Locked
    BY NewStates DEF Locked, AddLabels
<1>5. Typed(Idle, main_list', Listed)
    BY <1>0, <1>1, <1>2, <1>3, <1>4, MainList DEF Typed, TypeOK
<1>6. TypeOK' /\ Listed' = Listed
    BY <1>0, <1>1, <1>5, TypedStep
<1>a. (Gone(f) => Gone(f)') /\ (Unlinked(f) => Unlinked(f)') /\ (Unlinked(f) => Gone(f))
  <2>1. Gone(f) <=> "unlinked" \in causes[f] \/ "left" \in causes[f] \/ "kept" \in causes[f]
      BY DEF Gone
  <2>2. Gone(f)' <=> "unlinked" \in causes'[f] \/ "left" \in causes'[f] \/ "kept" \in causes'[f]
      BY DEF Gone
  <2> QED
      BY <1>3, <2>1, <2>2 DEF Unlinked
<1>7. FolioInv(f)' /\ LeavesAccesses(t, f)
  <2>1. \A u \in Threads : u # t => th'[u] = th[u]
      BY <1>0, <1>1, ThreadStep
  <2>2. (Removing(f) => Removing(f)') /\ (Working(f, {"add_list"}) => Working(f, {"add_list"})')
      BY <1>1, <2>1 DEF Removing, Working
  <2>3. FolioInv(f)
      BY <1>1 DEF IndInv, Relations
  <2>4. LeavesAccesses(t, f)
      BY <1>1, <1>3, <1>6, <1>a, AccessesKeep
  <2>5. SamplingInv(f)'
      BY <1>1, <1>6, <1>a, <2>2, <2>3 DEF FolioInv, SamplingInv
  <2>6. tracked' = tracked \cup {f} /\ t \notin late =>
            \/ f \in Listed \/ Unlinked(f)
            \/ policy = "sampling" /\ Working(f, {"add_list"})
    <3>1. CASE th[t].pc = "store"
        BY <3>1 DEF IndInv, Relations, AccessInv, AccessLabels
    <3>2. CASE th[t].pc = "create"
      <4>1. t \notin late => f \in cached
          BY <3>2 DEF IndInv, Relations, AccessInv, AccessLabels
      <4> QED
          BY <2>3, <3>2, <4>1 DEF IndInv, Relations, HookInv, FolioInv, SamplingInv
    <3> QED
        BY <1>1, <3>1, <3>2
  <2>7. "left" \in causes'[f] => Gone(f)'
      BY DEF Gone
  <2>8. Traced(f)'
    <3> SUFFICES ASSUME KeepsMetadata PROVE Traced(f)'
        BY <1>1 DEF Traced, KeepsMetadata
    <3>1. f \in tracked' \ Listed' =>
              Gone(f)' \/ Removing(f)' \/ (policy = "sampling" /\ Working(f, {"add_list"})')
        BY <1>3, <1>6, <1>a, <2>2, <2>3, <2>6, <2>7 DEF FolioInv, Traced
    <3> QED
        BY <1>1, <1>3, <3>1 DEF Traced
  <2> QED
      BY <2>4, <2>5, <2>8 DEF FolioInv
<1>8. Owns(t, f, Idle)
    BY <1>1, <1>3, <1>4, <1>6 DEF Owns, SameBut, FolioLabels, Labels, AddLabels, AccessLabels
<1>9. LeavesLocked(t, f, Idle)
    BY <1>1, <1>4, <1>6, OthersKeep
<1> QED
    BY <1>6, <1>7, <1>8, <1>9, OwnedStep DEF Kept

LEMMA FolioEvictedKept ==
    ASSUME IndInv, NEW t \in Threads, NEW f \in Folios, FolioEvicted(t, f)
    PROVE  Kept
<1>0. TypeOK
    BY DEF IndInv
<1>1. /\ th[t].pc = "idle" /\ cached' = cached \ {f} /\ main_list' = ListDel(main_list, f)
      /\ UNCHANGED <<policy, watched, tracked, owner, age, active_db_pid, session>>
      /\ late' = late \cup {u \in Threads : Accessing(u, f)}
    BY DEF FolioEvicted, At, metadata, traffic
<1>a. /\ causes' \in [Folios -> SUBSET Causes]
      /\ \A h \in Folios : causes[h] \subseteq causes'[h] /\ (h # f => causes'[h] = causes[h])
      /\ policy \in Evolved /\ ~watched /\ f \in tracked => "kept" \in causes'[f]
  <2>1. "kept" \in Causes
      BY DEF Causes
  <2>2. IF policy \in Evolved /\ ~watched /\ f \in tracked THEN Blame(f, "kept")
                                                           ELSE UNCHANGED causes
      BY DEF FolioEvicted, BlameIf
  <2> QED
      BY <1>0, <2>1, <2>2, Blamed
<1>2. PICK new \in {InHook("evicted", f), th[t]} :
          th' = [th EXCEPT ![t] = new] /\ (Handles => new = InHook("evicted", f))
  <2>1. th = [th EXCEPT ![t] = th[t]]
      BY <1>0 DEF TypeOK
  <2> QED
      BY <2>1 DEF FolioEvicted, Goto, InHook
<1>3. /\ new \in ThreadStates /\ new.pc \in {"evicted", "idle"}
      /\ new.pc = "evicted" => new.f = f
      /\ Handles => new.pc = "evicted"
    BY <1>0, <1>1, <1>2, NewStates DEF TypeOK, Labels, AccessLabels
<1>4. Listed \ {f} \subseteq cached'
    BY <1>0, <1>1 DEF TypeOK
<1>5. IsList(main_list', Listed \ {f})
    BY <1>0, <1>1, MainList, DeletedList
<1>6. Typed(new, main_list', Listed \ {f})
    BY <1>0, <1>1, <1>3, <1>4, <1>5, <1>a DEF Typed, TypeOK
<1>7. TypeOK' /\ Listed' = Listed \ {f}
    BY <1>0, <1>2, <1>6, TypedStep
<1>8. FolioInv(f)' /\ LeavesAccesses(t, f)
  <2>1. Handles => Removing(f)'
      BY <1>0, <1>2, <1>3, ThreadStep DEF Removing, Working
  <2>2. KeepsMetadata' = KeepsMetadata
      BY <1>1 DEF KeepsMetadata
  <2>3. KeepsMetadata /\ ~Handles => policy \in Evolved /\ ~watched
      BY DEF Handles
  <2>4. KeepsMetadata => Removing(f)' \/ f \notin tracked' \/ Gone(f)'
      BY <1>1, <1>a, <2>1, <2>3 DEF Gone
  <2>5. LeavesAccesses(t, f)
      BY <1>1 DEF LeavesAccesses, Accessing
  <2>6. f \notin cached' /\ f \notin Listed'
      BY <1>1, <1>7
  <2> QED
      BY <2>2, <2>4, <2>5, <2>6 DEF FolioInv, SamplingInv, Traced
<1>9. \A u \in Threads : th[u].pc \in Locked => th[u].f # f
    BY Unlocked DEF FolioEvicted
<1>10. Owns(t, f, new)
    BY <1>1, <1>2, <1>3, <1>7, <1>a
    DEF Owns, SameBut, FolioLabels, Labels, AddLabels, AccessLabels, Accessing
<1>11. LeavesLocked(t, f, new)
    BY <1>9 DEF LeavesLocked
<1> QED
    BY <1>7, <1>8, <1>10, <1>11, OwnedStep DEF Kept

LEMMA FolioEvictedMetaKept ==
    ASSUME IndInv, NEW t \in Threads, NEW f, f = th[t].f, FolioEvictedMeta(t)
    PROVE  Kept
<1>0. TypeOK
    BY DEF IndInv
<1>1. /\ th[t].pc = "evicted" /\ f \in Folios /\ f \notin cached
      /\ UNCHANGED <<policy, cached, watched, active_db_pid, session, main_list, late>>
      /\ tracked' = tracked \ {f} /\ causes' = [causes EXCEPT ![f] = {}]
      /\ th' = [th EXCEPT ![t] = Idle]
    BY DEF FolioEvictedMeta, At, kernel, traffic, Return, IndInv, Relations, HookInv,
           FolioLabels, Labels, AccessLabels
<1>2. /\ owner' \in [Folios -> Servers \cup {NoServer}]
      /\ age' \in [Folios -> {"recent", "working", "old"}]
    BY <1>0 DEF FolioEvictedMeta, TypeOK
<1>3. Idle \in ThreadStates /\ Idle.pc = "idle"
    BY NewStates
<1>4. Typed(Idle, main_list', Listed)
    BY <1>0, <1>1, <1>2, <1>3, MainList DEF Typed, TypeOK
<1>5. TypeOK' /\ Listed' = Listed
    BY <1>0, <1>1, <1>4, TypedStep
<1>6. f \notin Listed
    BY <1>0, <1>1 DEF TypeOK
<1>7. FolioInv(f)' /\ LeavesAccesses(t, f)
  <2>1. LeavesAccesses(t, f)
      BY <1>1 DEF LeavesAccesses, IndInv, Relations, AccessInv
  <2> QED
      BY <1>1, <1>5, <1>6, <2>1 DEF FolioInv, SamplingInv, Traced
<1>a. \A h \in Folios \ {f} : causes'[h] = causes[h]
    BY <1>0, <1>1 DEF TypeOK
<1>8. Owns(t, f, Idle)
    BY <1>1, <1>3, <1>5, <1>a DEF Owns, SameBut, FolioLabels, Labels, AddLabels, AccessLabels
<1>9. LeavesLocked(t, f, Idle)
  <2>1. \A u \in Threads : u # t /\ th[u].pc \in Locked => th[u].f # f
      BY <1>1, HoldsLock DEF Locked
  <2> QED
      BY <2>1 DEF LeavesLocked
<1> QED
    BY <1>5, <1>7, <1>8, <1>9, OwnedStep DEF Kept

-----------------------------------------------------------------------------
(* The invariant *)

LEMMA InitInv == Init => IndInv
<1> SUFFICES ASSUME Init PROVE IndInv
    OBVIOUS
<1>1. Listed = {} /\ main_list \in Seq(Folios) /\ IsInjective(main_list)
    BY DEF Init, Listed, ToSet, IsInjective
<1>2. TypeOK
    BY <1>1, NewStates DEF Init, TypeOK
<1>3. \A t \in Threads : th[t].pc = "idle"
    BY NewStates DEF Init
<1>4. HookInv /\ Exclusive
    BY <1>3 DEF HookInv, Exclusive, Locked, AddLabels, FolioLabels
<1>5. \A f \in Folios : FolioInv(f)
    BY <1>1 DEF Init, FolioInv, SamplingInv, Traced
<1>6. \A t \in Threads : AccessInv(t)
    BY <1>3 DEF AccessInv, AccessLabels
<1> QED
    BY <1>2, <1>4, <1>5, <1>6 DEF IndInv, Relations

LEMMA HookKept ==
    ASSUME IndInv, NEW t \in Threads, Hook(t)
    PROVE  Kept
<1>1. ASSUME NEW f \in Folios, FolioAdded(t, f) \/ FolioEvicted(t, f) PROVE Kept
    BY <1>1, FolioAddedKept, FolioEvictedKept
<1>2. CASE FolioAddedList(t) \/ FolioAddedMeta(t) \/ FolioEvictedMeta(t)
    BY <1>2, FolioAddedListKept, FolioAddedMetaKept, FolioEvictedMetaKept
<1>3. ASSUME NEW f \in Folios,
             FolioAccessedMove(t, f) \/ FolioAccessedAgain(t, f) \/ FolioAccessedNew(t, f)
      PROVE  Kept
    BY <1>3, FolioAccessedMoveKept, FolioAccessedKept
<1>4. CASE FolioAccessedLink(t) \/ FolioAccessedMoved(t) \/ FolioAccessedStore(t)
    BY <1>4, FolioAccessedLinkKept, FolioAccessedMovedKept, FolioAccessedStoreKept
<1>5. CASE (\E s \in Servers : Recvmsg(t, s)) \/ RecvmsgActive(t)
    BY <1>5, RecvmsgKept
<1> QED
    BY <1>1, <1>2, <1>3, <1>4, <1>5 DEF Hook

LEMMA StepInv == IndInv /\ [Next]_vars => IndInv'
<1> SUFFICES ASSUME IndInv, [Next]_vars PROVE IndInv'
    OBVIOUS
<1>1. CASE UNCHANGED vars
  <2>1. Typed(Idle, main_list', Listed)
      BY <1>1, NewStates, MainList DEF IndInv, TypeOK, Typed, vars
  <2> QED
      BY <1>1, <2>1, QuietStep DEF vars, Kept, IndInv
<1>2. CASE Next
    BY <1>2, EnvironmentKept, HookKept DEF Next, Kept, IndInv
<1> QED
    BY <1>1, <1>2

LEMMA Inductive == Spec => []IndInv
BY InitInv, StepInv, PTL DEF Spec

\* Types; the list of any of the six policies holds cached folios, each once, although
\* accesses link folios without the folio lock (net_folio_accessed,
\* evolved_folio_accessed).
THEOREM TypeCorrect == Spec => []TypeOK
<1>1. IndInv => TypeOK
    BY DEF IndInv
<1> QED
    BY <1>1, Inductive, PTL

\* However hooks overlap, a folio of a list without metadata had an update of the map
\* that failed, and metadata of a folio on no list is left by an insertion that failed
\* or was never tried, a late store or a removal that returned early
\* (sampling_folio_accessed, net_folio_accessed, evolved_folio_accessed and
\* evolved_folio_evicted).
THEOREM ListedIsTrackedHolds == Spec => []ListedIsTracked
<1>1. IndInv => ListedIsTracked
  <2> SUFFICES ASSUME IndInv, KeepsMetadata, NEW f \in Folios, ~InTransit(f)
               PROVE  /\ f \in Listed \ tracked => "unstored" \in causes[f]
                      /\ f \in tracked \ Listed => Gone(f)
      BY DEF ListedIsTracked, Gone
  <2>1. Traced(f)
      BY DEF IndInv, Relations, FolioInv
  <2>2. Removing(f) => InTransit(f)
      BY DEF Removing, InTransit, Working
  <2>3. Working(f, {"add_meta", "store"}) \/ Working(f, {"add_list"}) => InTransit(f)
      BY DEF InTransit, Working, AddLabels
  <2> QED
      BY <2>1, <2>2, <2>3 DEF Traced
<1> QED
    BY <1>1, Inductive, PTL

-----------------------------------------------------------------------------
(* FIFO, MRU and sampling implement PagePolicy *)

\* The refinement mapping of OnePolicy!Abstract.
addingFolios == {f \in Folios : Adding(f)}
cachedM == IF IsStrict THEN cached ELSE {}
addingM == IF IsStrict THEN addingFolios ELSE {}
listedM == IF IsStrict THEN Listed ELSE {}

Stutter == UNCHANGED <<cachedM, addingM, listedM>>
AbstractStep == Abstract!Next \/ Stutter

\* What a step of one thread does to the folios being added.
LEMMA AddingStep ==
    ASSUME IndInv, NEW t \in Threads, NEW new, th' = [th EXCEPT ![t] = new]
    PROVE  /\ th[t].pc \notin AddLabels /\ new.pc \notin AddLabels
                => addingFolios' = addingFolios
           /\ th[t].pc \in AddLabels /\ new.pc \in AddLabels /\ new.f = th[t].f
                => addingFolios' = addingFolios
           /\ th[t].pc \notin AddLabels /\ new.pc \in AddLabels /\ new.f \in Folios
                => addingFolios' = addingFolios \cup {new.f}
           /\ th[t].pc \in AddLabels /\ new.pc \notin AddLabels
                => addingFolios' = addingFolios \ {th[t].f}
<1>1. th'[t] = new /\ \A u \in Threads : u # t => th'[u] = th[u]
    BY ThreadStep DEF IndInv
<1>2. \A u \in Threads :
         u # t /\ th[u].pc \in AddLabels /\ th[t].pc \in AddLabels => th[u].f # th[t].f
    BY DEF IndInv, Relations, Exclusive, Locked
<1>3. \A f : Adding(f) <=> \E u \in Threads : th[u].f = f /\ th[u].pc \in AddLabels
    BY DEF Adding, Working
<1>4. \A f : Adding(f)' <=> \E u \in Threads : th'[u].f = f /\ th'[u].pc \in AddLabels
    BY DEF Adding, Working, AddLabels
<1> HIDE DEF AddLabels
<1>5. addingFolios = {f \in Folios : Adding(f)} /\ addingFolios' = {f \in Folios : Adding(f)'}
    BY DEF addingFolios
<1>6. th[t].pc \notin AddLabels /\ new.pc \notin AddLabels => \A f : Adding(f)' <=> Adding(f)
    BY <1>1, <1>3, <1>4
<1>7. th[t].pc \in AddLabels /\ new.pc \in AddLabels /\ new.f = th[t].f
        => \A f : Adding(f)' <=> Adding(f)
    BY <1>1, <1>3, <1>4
<1>8. th[t].pc \notin AddLabels /\ new.pc \in AddLabels
        => \A f : Adding(f)' <=> Adding(f) \/ f = new.f
    BY <1>1, <1>3, <1>4
<1>9. th[t].pc \in AddLabels /\ new.pc \notin AddLabels
        => \A f : Adding(f)' <=> Adding(f) /\ f # th[t].f
    BY <1>1, <1>2, <1>3, <1>4
<1> QED
    BY <1>5, <1>6, <1>7, <1>8, <1>9

\* A step of a policy that is not strict, or that moves no folio in or out.
LEMMA StutterStep ==
    ASSUME policy' = policy,
           ~IsStrict \/ UNCHANGED <<cached, addingFolios, Listed>>
    PROVE  AbstractStep
<1>1. IsStrict' = IsStrict
    BY DEF IsStrict
<1> QED
    BY <1>1 DEF AbstractStep, Stutter, cachedM, addingM, listedM

LEMMA FolioAddedEnters ==
    ASSUME IndInv, IsStrict, NEW t \in Threads, NEW f \in Folios, FolioAdded(t, f)
    PROVE  AbstractStep
<1>1. /\ f \notin cached /\ cached' = cached \cup {f} /\ th[t].pc = "idle"
      /\ UNCHANGED <<policy, main_list>>
    BY DEF FolioAdded, At
<1>2. addingFolios' \in {addingFolios, addingFolios \cup {f}}
  <2>1. CASE UNCHANGED th
      BY <2>1 DEF addingFolios, Adding, Working
  <2>2. CASE th' = [th EXCEPT ![t] = InHook("add_list", f)]
    <3>1. /\ InHook("add_list", f).pc \in AddLabels /\ InHook("add_list", f).f = f
          /\ th[t].pc \notin AddLabels
        BY <1>1 DEF AddLabels, InHook
    <3> QED
        BY <2>2, <3>1, AddingStep
  <2> QED
      BY <2>1, <2>2 DEF FolioAdded, Goto, InHook
<1>3. Listed' = Listed /\ IsStrict'
    BY <1>1 DEF Listed, IsStrict
<1>4. Abstract!Enter(f)
    BY <1>1, <1>2, <1>3 DEF Abstract!Enter, addingFolios
<1> QED
    BY <1>4 DEF AbstractStep, Abstract!Next

LEMMA FolioAddedListLinks ==
    ASSUME IndInv, IsStrict, NEW t \in Threads, NEW f, f = th[t].f, FolioAddedList(t)
    PROVE  AbstractStep
<1>1. /\ th[t].pc = "add_list" /\ f \in Folios /\ UNCHANGED <<policy, cached>>
      /\ th[t].pc \in AddLabels
    BY DEF FolioAddedList, At, kernel, IndInv, Relations, HookInv, FolioLabels, Labels, AccessLabels, AddLabels
<1>2. f \in addingFolios /\ IsStrict'
    BY <1>1 DEF addingFolios, Adding, Working, IsStrict
<1>3. CASE /\ f \notin Listed /\ main_list' = Linked(f)
           /\ IF KeepsMetadata THEN Goto(t, "add_meta", f) ELSE Return(t)
  <2>1. Listed' = Listed \cup {f}
      BY <1>1, <1>3, LinkedList DEF IndInv, IsList, Listed
  <2>2. addingFolios' \in {addingFolios, addingFolios \ {f}}
    <3>1. CASE th' = [th EXCEPT ![t] = InHook("add_meta", f)]
      <4>1. InHook("add_meta", f).pc \in AddLabels /\ InHook("add_meta", f).f = f
          BY DEF AddLabels, InHook
      <4> QED
          BY <1>1, <3>1, <4>1, AddingStep
    <3>2. CASE th' = [th EXCEPT ![t] = Idle]
      <4>1. Idle.pc \notin AddLabels
          BY NewStates DEF AddLabels
      <4> QED
          BY <1>1, <3>2, <4>1, AddingStep
    <3> QED
        BY <1>3, <3>1, <3>2 DEF Goto, Return, InHook
  <2>3. Abstract!Link(f)
      BY <1>1, <1>2, <1>3, <2>1, <2>2 DEF Abstract!Link, addingFolios
  <2> QED
      BY <1>1, <2>3 DEF AbstractStep, Abstract!Next
<1>4. CASE Return(t) /\ UNCHANGED main_list
  <2>1. Idle.pc \notin AddLabels /\ th' = [th EXCEPT ![t] = Idle]
      BY <1>4, NewStates DEF AddLabels, Return
  <2>2. addingFolios' = addingFolios \ {f}
      BY <1>1, <2>1, AddingStep
  <2>3. Listed' = Listed
      BY <1>4 DEF Listed
  <2>4. Abstract!Settle(f)
      BY <1>1, <1>2, <2>2, <2>3 DEF Abstract!Settle, addingFolios
  <2> QED
      BY <1>1, <2>4 DEF AbstractStep, Abstract!Next
<1> QED
    BY <1>3, <1>4 DEF FolioAddedList

LEMMA FolioAddedMetaSettles ==
    ASSUME IndInv, IsStrict, NEW t \in Threads, NEW f, f = th[t].f, FolioAddedMeta(t)
    PROVE  AbstractStep
<1>1. /\ f \in Folios /\ UNCHANGED <<policy, cached, main_list>> /\ th[t].pc \in AddLabels
    BY DEF FolioAddedMeta, At, kernel, IndInv, Relations, HookInv, FolioLabels, Labels, AccessLabels, AddLabels
<1>2. f \in addingFolios /\ IsStrict'
    BY <1>1 DEF addingFolios, Adding, Working, IsStrict
<1>3. Idle.pc \notin AddLabels /\ th' = [th EXCEPT ![t] = Idle]
    BY NewStates DEF AddLabels, Return, FolioAddedMeta
<1>4. addingFolios' = addingFolios \ {f} /\ Listed' = Listed
    BY <1>1, <1>3, AddingStep DEF Listed
<1>5. Abstract!Settle(f)
    BY <1>1, <1>2, <1>4 DEF Abstract!Settle, addingFolios
<1> QED
    BY <1>1, <1>5 DEF AbstractStep, Abstract!Next

LEMMA FolioEvictedLeaves ==
    ASSUME IndInv, IsStrict, NEW t \in Threads, NEW f \in Folios, FolioEvicted(t, f)
    PROVE  AbstractStep
<1>1. /\ f \in cached /\ cached' = cached \ {f} /\ main_list' = ListDel(main_list, f)
      /\ policy' = policy /\ ~Adding(f) /\ th[t].pc \notin AddLabels
    BY DEF FolioEvicted, At, AddLabels
<1>2. Listed' = Listed \ {f} /\ IsStrict'
    BY <1>1, MainList, DeletedList DEF IndInv, IsList, Listed, IsStrict
<1>3. addingFolios' = addingFolios
  <2>1. CASE UNCHANGED th
      BY <2>1 DEF addingFolios, Adding, Working
  <2>2. CASE th' = [th EXCEPT ![t] = InHook("evicted", f)]
    <3>1. InHook("evicted", f).pc \notin AddLabels
        BY DEF AddLabels, InHook
    <3> QED
        BY <1>1, <2>2, <3>1, AddingStep
  <2> QED
      BY <2>1, <2>2 DEF FolioEvicted, Goto, InHook
<1>4. f \notin addingFolios
    BY <1>1 DEF addingFolios
<1>5. Abstract!Leave(f)
    BY <1>1, <1>2, <1>3, <1>4 DEF Abstract!Leave, addingFolios
<1> QED
    BY <1>5 DEF AbstractStep, Abstract!Next

\* Accesses and the other hooks: a move keeps the folios of the list, and no strict
\* policy links a folio that is accessed.
LEMMA OtherHooksStutter ==
    ASSUME IndInv, NEW t \in Threads, NEW f,
           \/ f \in Folios /\ FolioAccessedMove(t, f)
           \/ FolioAccessedAgain(t, f) \/ FolioAccessedNew(t, f)
           \/ FolioAccessedLink(t) \/ FolioAccessedMoved(t) \/ FolioAccessedStore(t)
           \/ FolioEvictedMeta(t)
           \/ (\E s \in Servers : Recvmsg(t, s)) \/ RecvmsgActive(t)
    PROVE  AbstractStep
<1>1. UNCHANGED <<policy, cached>>
    BY DEF FolioAccessedMove, FolioAccessedAgain, FolioAccessedNew, FolioAccessedLink,
           FolioAccessedMoved, FolioAccessedStore, FolioEvictedMeta, Recvmsg, RecvmsgActive, kernel
<1>2. addingFolios' = addingFolios
  <2>1. CASE UNCHANGED th
      BY <2>1 DEF addingFolios, Adding, Working
  <2>2. ASSUME NEW new, new.pc \notin AddLabels, th' = [th EXCEPT ![t] = new],
               th[t].pc \notin AddLabels
        PROVE  addingFolios' = addingFolios
      BY <2>2, AddingStep
  <2>3. \A l, g : InHook(l, g).pc = l
      BY DEF InHook
  <2>4. Idle.pc \notin AddLabels /\ \A s : Receiving(s).pc \notin AddLabels
      BY DEF Idle, Receiving, AddLabels
  <2>5. th[t].pc \notin AddLabels
      BY DEF FolioAccessedMove, FolioAccessedAgain, FolioAccessedNew, FolioAccessedLink,
             FolioAccessedMoved, FolioAccessedStore, FolioEvictedMeta, Recvmsg, RecvmsgActive,
             Accessible, At, AddLabels
  <2>6. \/ UNCHANGED th \/ th' = [th EXCEPT ![t] = Idle]
        \/ \E s : th' = [th EXCEPT ![t] = Receiving(s)]
        \/ \E l \in {"move", "create", "link", "move_store", "store"} :
              \E g : th' = [th EXCEPT ![t] = InHook(l, g)]
      BY DEF FolioAccessedMove, FolioAccessedAgain, FolioAccessedNew, FolioAccessedLink,
             FolioAccessedMoved, FolioAccessedStore, FolioEvictedMeta, Recvmsg, RecvmsgActive,
             Goto, Return, InHook, Receiving
  <2>7. \A l \in {"move", "create", "link", "move_store", "store"} : l \notin AddLabels
      BY DEF AddLabels
  <2> QED
      BY <2>1, <2>2, <2>3, <2>4, <2>5, <2>6, <2>7
<1>3. ~IsStrict \/ Listed' = Listed
  <2>1. CASE f \in Folios /\ FolioAccessedMove(t, f)
      BY <2>1, MovedList DEF FolioAccessedMove, IndInv, IsList, Listed
  <2>2. CASE FolioAccessedMoved(t)
    <3>1. th[t].f \in Folios
        BY <2>2 DEF FolioAccessedMoved, IndInv, Relations, HookInv, FolioLabels, Labels, AccessLabels
    <3> QED
        BY <2>2, <3>1, MovedList DEF FolioAccessedMoved, IndInv, IsList, Listed
  <2>3. CASE FolioAccessedLink(t)
      BY <2>3 DEF FolioAccessedLink, At, IndInv, Relations, HookInv, IsStrict
  <2>4. CASE \/ FolioAccessedAgain(t, f) \/ FolioAccessedNew(t, f) \/ FolioAccessedStore(t)
             \/ FolioEvictedMeta(t)
             \/ (\E s \in Servers : Recvmsg(t, s)) \/ RecvmsgActive(t)
      BY <2>4 DEF FolioAccessedAgain, FolioAccessedNew, FolioAccessedStore,
                  FolioEvictedMeta, Recvmsg, RecvmsgActive, Listed
  <2> QED
      BY <2>1, <2>2, <2>3, <2>4
<1> QED
    BY <1>1, <1>2, <1>3, StutterStep

LEMMA InitRefines == Init => Abstract!Init
<1> SUFFICES ASSUME Init PROVE Abstract!Init
    OBVIOUS
<1>1. Listed = {}
    BY DEF Init, Listed, ToSet
<1>2. {f \in Folios : Adding(f)} = {}
    BY NewStates DEF Init, Adding, Working, AddLabels
<1> QED
    BY <1>1, <1>2 DEF Init, Abstract!Init

LEMMA StepRefines == IndInv /\ [Next]_vars => [Abstract!Next]_(Abstract!vars)
<1> SUFFICES ASSUME IndInv, [Next]_vars PROVE AbstractStep
    BY DEF AbstractStep, Stutter, Abstract!vars, cachedM, addingM, listedM, addingFolios
<1>1. CASE \/ ChangeWatchlist \/ PeriodElapses \/ WorkingSetElapses \/ SessionElapses
           \/ UNCHANGED vars
  <2>1. UNCHANGED <<policy, cached, main_list, th>>
      BY <1>1 DEF ChangeWatchlist, PeriodElapses, WorkingSetElapses, SessionElapses, Elapses,
                  kernel, vars
  <2> QED
      BY <2>1, StutterStep DEF addingFolios, Adding, Working, Listed
<1>2. ASSUME NEW t \in Threads, Hook(t) PROVE AbstractStep
  <2>1. CASE ~IsStrict
    <3>1. policy' = policy
        BY <1>2 DEF Hook, FolioAdded, FolioEvicted, FolioAddedList, FolioAddedMeta,
                    FolioEvictedMeta, FolioAccessedMove, FolioAccessedAgain, FolioAccessedNew,
                    FolioAccessedLink, FolioAccessedMoved, FolioAccessedStore, Recvmsg,
                    RecvmsgActive, kernel
    <3> QED
        BY <2>1, <3>1, StutterStep
  <2>2. ASSUME IsStrict, NEW f \in Folios, FolioAdded(t, f) \/ FolioEvicted(t, f)
        PROVE  AbstractStep
      BY <2>2, FolioAddedEnters, FolioEvictedLeaves
  <2>3. CASE IsStrict /\ (FolioAddedList(t) \/ FolioAddedMeta(t))
      BY <2>3, FolioAddedListLinks, FolioAddedMetaSettles
  <2>4. ASSUME NEW f \in Folios,
               FolioAccessedMove(t, f) \/ FolioAccessedAgain(t, f) \/ FolioAccessedNew(t, f)
        PROVE  AbstractStep
      BY <2>4, OtherHooksStutter
  <2>5. CASE \/ FolioAccessedLink(t) \/ FolioAccessedMoved(t) \/ FolioAccessedStore(t)
             \/ FolioEvictedMeta(t)
             \/ (\E s \in Servers : Recvmsg(t, s)) \/ RecvmsgActive(t)
      BY <2>5, OtherHooksStutter
  <2> QED
      BY <1>2, <2>1, <2>2, <2>3, <2>4, <2>5 DEF Hook
<1> QED
    BY <1>1, <1>2 DEF Next

\* FIFO, MRU and sampling keep the promise of the abstract policy: only their added
\* hooks link folios, and the moves of mru_folio_accessed lose and invent none.
THEOREM OnePolicyImplementsPagePolicy == Spec => ImplementsPagePolicy
<1>1. Init => Abstract!Init
    BY InitRefines
<1>2. IndInv /\ [Next]_vars => [Abstract!Next]_(Abstract!vars)
    BY StepRefines
<1> QED
    BY <1>1, <1>2, Inductive, PTL DEF Spec, ImplementsPagePolicy, Abstract!Spec

-----------------------------------------------------------------------------
(* Division and remainder *)

LEMMA ModSmall ==
    ASSUME NEW M \in Nat \ {0}, NEW a \in Nat
    PROVE  /\ a % M \in 0 .. M - 1
           /\ a < M => a % M = a
           /\ a >= M /\ a < 2 * M => a % M = a - M
OBVIOUS

LEMMA DivBounds ==
    ASSUME NEW a \in Nat, NEW b \in Nat \ {0}
    PROVE  a \div b \in Nat /\ (a \div b) * b <= a /\ a < (a \div b + 1) * b
OBVIOUS

LEMMA Scaled ==
    ASSUME NEW x \in Int, NEW y \in Int, NEW b \in Nat \ {0}
    PROVE  /\ x * b <= y * b => x <= y
           /\ x * b < y * b => x < y
           /\ x <= y => x * b <= y * b
OBVIOUS

\* A quotient towards zero stays between the integers its dividend is between.
LEMMA QuotientWithin ==
    ASSUME NEW a \in Int, NEW b \in Nat \ {0}, NEW lo \in Int, NEW hi \in Int,
           lo * b <= a, a <= hi * b
    PROVE  /\ vulcan_sdiv(a, b) \in Int
           /\ lo <= vulcan_sdiv(a, b) /\ vulcan_sdiv(a, b) <= hi
<1>1. CASE a >= 0
  <2> DEFINE q == a \div b
  <2>1. q \in Nat /\ q * b <= a /\ a < (q + 1) * b
      BY <1>1, DivBounds
  <2>2. vulcan_sdiv(a, b) = q
      BY <1>1 DEF vulcan_sdiv, AbsOf
  <2> HIDE DEF q
  <2>3. q * b \in Int /\ (q + 1) * b \in Int /\ lo * b \in Int /\ hi * b \in Int
      BY <2>1
  <2>4. q * b <= hi * b /\ lo * b < (q + 1) * b
      BY <2>1, <2>3
  <2>5. q <= hi
      BY <2>1, <2>4, Scaled
  <2>6. q + 1 \in Int
      BY <2>1
  <2>7. lo < q + 1
      BY <2>4, <2>6, Scaled
  <2> QED
      BY <2>1, <2>2, <2>5, <2>7
<1>2. CASE a < 0
  <2> DEFINE q == (-a) \div b
  <2>1. -a \in Nat
      BY <1>2
  <2>2. q \in Nat /\ q * b <= -a /\ -a < (q + 1) * b
      BY <2>1, DivBounds
  <2>3. vulcan_sdiv(a, b) = -q
      BY <1>2 DEF vulcan_sdiv, AbsOf
  <2> HIDE DEF q
  <2> DEFINE nlo == -lo
             nhi == -hi
  <2>4. nlo * b = -(lo * b) /\ nhi * b = -(hi * b) /\ nlo \in Int /\ nhi \in Int
      OBVIOUS
  <2>5. q * b \in Int /\ (q + 1) * b \in Int /\ lo * b \in Int /\ hi * b \in Int
      BY <2>2
  <2> HIDE DEF nlo, nhi
  <2>6. q * b <= nlo * b /\ nhi * b < (q + 1) * b
      BY <2>2, <2>4, <2>5
  <2>7. q <= nlo
      BY <2>2, <2>4, <2>6, Scaled
  <2>8. q + 1 \in Int
      BY <2>2
  <2>9. nhi < q + 1
      BY <2>4, <2>6, <2>8, Scaled
  <2> QED
      BY <2>2, <2>3, <2>7, <2>9 DEF nlo, nhi
<1> QED
    BY <1>1, <1>2

\* A blend of two values is between any bounds of both.
LEMMA BlendWithin ==
    ASSUME NEW alpha \in 0 .. VULCAN_FP_SCALE, NEW val \in Int, NEW old \in Int,
           NEW lo \in Int, NEW hi \in Int,
           lo <= val, lo <= old, val <= hi, old <= hi
    PROVE  /\ Blend(val, old, alpha) \in Int
           /\ lo <= Blend(val, old, alpha) /\ Blend(val, old, alpha) <= hi
<1> DEFINE S == VULCAN_FP_SCALE
           beta == S - alpha
           sum == alpha * val + beta * old
<1>1. S \in Nat \ {0} /\ alpha \in Nat /\ beta \in Nat
    BY VulcanAssumption
<1>2. Blend(val, old, alpha) = vulcan_sdiv(sum, S)
    BY DEF Blend
<1>3. lo * S = alpha * lo + beta * lo /\ hi * S = alpha * hi + beta * hi
  <2>1. \A x \in Int : x * S = alpha * x + (S - alpha) * x
      BY <1>1
  <2> QED
      BY <2>1
<1> HIDE DEF beta, S
<1>4. alpha * lo <= alpha * val /\ alpha * val <= alpha * hi
    BY <1>1
<1>5. beta * lo <= beta * old /\ beta * old <= beta * hi
    BY <1>1
<1>6. alpha * val \in Int /\ beta * old \in Int /\ alpha * lo \in Int /\ beta * lo \in Int
      /\ alpha * hi \in Int /\ beta * hi \in Int
    BY <1>1
<1>7. sum \in Int /\ lo * S <= sum /\ sum <= hi * S
    BY <1>3, <1>4, <1>5, <1>6
<1> HIDE DEF sum
<1> QED
    BY <1>1, <1>2, <1>7, QuotientWithin

-----------------------------------------------------------------------------
(* What holds of the statistics and the history of the stream *)

\* The sums are those of the stream.
TotalsInv ==
    /\ Len(totals) = Len(samples) + 1 /\ totals[1] = 0
    /\ \A j \in 1 .. Len(samples) : totals[j + 1] = totals[j] + samples[j]

\* Until the counter wraps, the bounds are samples, and no sample is outside.
BoundsInv ==
    Len(samples) < CountModulus =>
        /\ minmax.count = Len(samples)
        /\ \A j \in 1 .. Len(samples) :
              minmax.min_val <= samples[j] /\ samples[j] <= minmax.max_val
        /\ samples # <<>> =>
              /\ \E j \in 1 .. Len(samples) : samples[j] = minmax.min_val
              /\ \E j \in 1 .. Len(samples) : samples[j] = minmax.max_val

\* The averages are within the bounds, the sum of avg scaled by its count.
AveragesInv ==
    /\ ewma.initialized <=> samples # <<>>
    /\ avg.count = Len(samples)
    /\ Len(samples) < CountModulus =>
        /\ samples # <<>> => minmax.min_val <= ewma.value /\ ewma.value <= minmax.max_val
        /\ minmax.min_val * Len(samples) <= avg.sum
        /\ avg.sum <= minmax.max_val * Len(samples)

\* The ring holds the last samples, however small the window.
RingInv ==
    cfg.rw_size # 0 =>
        /\ rw.count = SmallerOf(Len(samples), Window(cfg.rw_size))
        /\ \A k \in 0 .. SmallerOf(Len(samples), VULCAN_MAX_WINDOW) - 1 :
              rw.values[KthIndex(rw, k)] = samples[Len(samples) - k]

WindowSumInv ==
    cfg.rw_size >= VULCAN_MAX_WINDOW =>
        rw.sum = SumOfLast(SmallerOf(Len(samples), VULCAN_MAX_WINDOW))

VulcanIndInv ==
    VulcanTypeOK /\ TotalsInv /\ BoundsInv /\ AveragesInv /\ RingInv /\ WindowSumInv

\* The window is at most the ring, and is the ring when it is full.
LEMMA WindowBounds ==
    ASSUME NEW size \in Nat
    PROVE  /\ Window(size) \in 0 .. VULCAN_MAX_WINDOW
           /\ Window(size) = 0 <=> size = 0
           /\ size >= VULCAN_MAX_WINDOW => Window(size) = VULCAN_MAX_WINDOW
BY VulcanAssumption DEF Window

\* The indices of the ring, without the remainder.
LEMMA RingIndices ==
    ASSUME NEW h \in 0 .. VULCAN_MAX_WINDOW - 1
    PROVE  /\ NextHead(h) \in 0 .. VULCAN_MAX_WINDOW - 1
           /\ NextHead(h) = IF h = VULCAN_MAX_WINDOW - 1 THEN 0 ELSE h + 1
           /\ \A k \in 0 .. VULCAN_MAX_WINDOW - 1 :
                (h + VULCAN_MAX_WINDOW - 1 - k) % VULCAN_MAX_WINDOW
                    = IF k < h THEN h - 1 - k ELSE h - 1 - k + VULCAN_MAX_WINDOW
<1> DEFINE W == VULCAN_MAX_WINDOW
<1>1. W \in Nat \ {0}
    BY VulcanAssumption
<1> HIDE DEF W
<1>0. h \in 0 .. W - 1
    BY DEF W
<1> DEFINE g == h + 1
<1>2. g \in Nat /\ (g < W => g % W = g) /\ (g >= W /\ g < 2 * W => g % W = g - W)
  <2>1. g \in Nat
      BY <1>0, <1>1
  <2> HIDE DEF g
  <2> QED
      BY <1>1, <2>1, ModSmall
<1>3. NextHead(h) = IF h = W - 1 THEN 0 ELSE h + 1
  <2>1. NextHead(h) = (h + 1) % W
      BY DEF NextHead, W
  <2> QED
      BY <1>0, <1>1, <1>2, <2>1
<1>4. ASSUME NEW k \in 0 .. W - 1
      PROVE  (h + W - 1 - k) % W = IF k < h THEN h - 1 - k ELSE h - 1 - k + W
  <2> DEFINE a == h + W - 1 - k
  <2>1. a \in Nat /\ a < 2 * W /\ h \in 0 .. W - 1
      BY <1>1 DEF W
  <2>2. a < W => a % W = a
      BY <1>1, <2>1, ModSmall
  <2>3. a >= W => a % W = a - W
      BY <1>1, <2>1, ModSmall
  <2> QED
      BY <1>1, <2>1, <2>2, <2>3
<1>5. NextHead(h) \in 0 .. W - 1
    BY <1>0, <1>1, <1>3
<1> QED
    BY <1>3, <1>4, <1>5 DEF W

LEMMA VulcanInitIndInv == VulcanInit => VulcanIndInv
<1> SUFFICES ASSUME VulcanInit PROVE VulcanIndInv
    OBVIOUS
<1> USE DEF VulcanInit
<1>1. Len(samples) = 0 /\ Len(totals) = 1 /\ totals[1] = 0
    OBVIOUS
<1>2. cfg.rw_size \in Nat
    BY VulcanAssumption
<1>3. VulcanTypeOK
    BY <1>2, WindowBounds, VulcanAssumption DEF VulcanTypeOK
<1>4. TotalsInv
    BY <1>1 DEF TotalsInv
<1>5. BoundsInv
    BY <1>1 DEF BoundsInv
<1>6. AveragesInv
    BY <1>1 DEF AveragesInv
<1>7. RingInv
    BY <1>1, <1>2, WindowBounds, VulcanAssumption DEF RingInv, SmallerOf
<1>8. WindowSumInv
    BY <1>1, <1>2, VulcanAssumption DEF WindowSumInv, SmallerOf, SumOfLast
<1> QED
    BY <1>3, <1>4, <1>5, <1>6, <1>7, <1>8 DEF VulcanIndInv

\* The history after a sample.
LEMMA HistoryStep ==
    ASSUME VulcanIndInv, NEW val \in Values, UpdateFeature(val)
    PROVE  /\ val \in Int
           /\ samples' \in Seq(Int) /\ samples' # <<>> /\ Len(samples') = Len(samples) + 1
           /\ samples'[Len(samples) + 1] = val
           /\ \A j \in 1 .. Len(samples) : samples'[j] = samples[j]
           /\ totals' \in Seq(Int) /\ Len(totals') = Len(samples) + 2
           /\ totals'[Len(samples) + 2] = totals[Len(samples) + 1] + val
           /\ \A j \in 1 .. Len(samples) + 1 : totals'[j] = totals[j]
<1>1. val \in Int /\ samples \in Seq(Int) /\ totals \in Seq(Int)
      /\ Len(totals) = Len(samples) + 1
    BY VulcanAssumption DEF VulcanIndInv, VulcanTypeOK, TotalsInv
<1>2. Len(samples) \in Nat
    BY <1>1
<1>3. samples' = Append(samples, val)
    BY DEF UpdateFeature
<1>4. totals' = Append(totals, totals[Len(samples) + 1] + val)
    BY <1>1 DEF UpdateFeature
<1>5. totals[Len(samples) + 1] + val \in Int
    BY <1>1, <1>2
<1> QED
    BY <1>1, <1>2, <1>3, <1>4, <1>5

LEMMA StatisticsType ==
    ASSUME VulcanIndInv, NEW val \in Values, UpdateFeature(val)
    PROVE  VulcanTypeOK'
<1>0. /\ minmax.min_val \in Int /\ minmax.max_val \in Int /\ minmax.count \in Nat
      /\ ewma.value \in Int /\ ewma.initialized \in BOOLEAN
      /\ avg.sum \in Int /\ avg.count \in Nat
      /\ rw.head \in 0 .. VULCAN_MAX_WINDOW - 1 /\ rw.count \in 0 .. Window(cfg.rw_size)
      /\ rw.sum \in Int /\ rw.values \in [0 .. VULCAN_MAX_WINDOW - 1 -> Int]
    BY DEF VulcanIndInv, VulcanTypeOK
<1>2a. rw \in [values : [0 .. VULCAN_MAX_WINDOW - 1 -> Int],
              head : 0 .. VULCAN_MAX_WINDOW - 1,
              count : 0 .. Window(cfg.rw_size), sum : Int]
    BY DEF VulcanIndInv, VulcanTypeOK
<1>1. /\ val \in Int /\ samples' \in Seq(Int) /\ totals' \in Seq(Int)
      /\ cfg' = cfg /\ cfg.rw_size \in Nat /\ cfg.ewma_alpha \in 0 .. VULCAN_FP_SCALE
    BY HistoryStep, VulcanAssumption DEF UpdateFeature, VulcanIndInv, VulcanTypeOK
<1>2. minmax' \in [min_val : Int, max_val : Int, count : 0 .. CountModulus - 1]
  <2> DEFINE more == minmax.count + 1
  <2>1. more % CountModulus \in 0 .. CountModulus - 1
    <3>1. CountModulus \in Nat \ {0} /\ more \in Nat
        BY <1>0, VulcanAssumption
    <3> HIDE DEF more
    <3> QED
        BY <3>1, ModSmall
  <2> QED
      BY <1>0, <1>1, <2>1 DEF UpdateFeature, MinMaxUpdate
<1>3. ewma' \in [value : Int, initialized : BOOLEAN]
  <2> DEFINE lo == IF val < ewma.value THEN val ELSE ewma.value
             hi == IF val < ewma.value THEN ewma.value ELSE val
  <2>1. lo \in Int /\ hi \in Int /\ ewma.value \in Int
        /\ lo <= val /\ lo <= ewma.value /\ val <= hi /\ ewma.value <= hi
      BY <1>0, <1>1
  <2>2. Blend(val, ewma.value, cfg.ewma_alpha) \in Int
      BY <1>1, <2>1, BlendWithin
  <2> QED
      BY <1>0, <1>1, <2>2 DEF UpdateFeature, EwmaUpdate
<1>4. avg' \in [sum : Int, count : Nat]
  <2>1. avg.sum + val \in Int /\ avg.count + 1 \in Nat
      BY <1>0, <1>1
  <2> QED
      BY <2>1 DEF UpdateFeature, AvgUpdate
<1>5. rw' \in [values : [0 .. VULCAN_MAX_WINDOW - 1 -> Int],
               head : 0 .. VULCAN_MAX_WINDOW - 1,
               count : 0 .. Window(cfg.rw_size), sum : Int]
  <2>1. NextHead(rw.head) \in 0 .. VULCAN_MAX_WINDOW - 1
      BY <1>0, RingIndices
  <2>2. Window(cfg.rw_size) \in Nat
    <3>1. Window(cfg.rw_size) \in 0 .. VULCAN_MAX_WINDOW
        BY <1>1, WindowBounds
    <3> QED
        BY <3>1, VulcanAssumption
  <2> DEFINE old == IF DropsOldest(rw, cfg.rw_size) THEN rw.values[rw.head] ELSE 0
             kept == [rw.values EXCEPT ![rw.head] = val]
             more == IF rw.count < Window(cfg.rw_size) THEN rw.count + 1 ELSE rw.count
  <2>3. old \in Int
    <3>1. rw.values[rw.head] \in Int
        BY <1>0
    <3> QED
        BY <3>1
  <2>4. kept \in [0 .. VULCAN_MAX_WINDOW - 1 -> Int]
      BY <1>1, <1>0
  <2>5. more \in 0 .. Window(cfg.rw_size)
      BY <1>0, <2>2
  <2>6. rw' = IF cfg.rw_size = 0 THEN rw
              ELSE [values |-> kept, head |-> NextHead(rw.head), count |-> more,
                    sum |-> rw.sum + val - old]
      BY DEF UpdateFeature, RwUpdate
  <2> HIDE DEF old, kept, more
  <2>7. rw.sum + val - old \in Int
      BY <1>1, <1>0, <2>3
  <2> QED
      BY <1>2a, <2>1, <2>4, <2>5, <2>6, <2>7
<1>6. cfg' \in [ewma_alpha : Alphas, rw_size : WindowSizes]
    BY <1>1 DEF VulcanIndInv, VulcanTypeOK
<1>7. Window(cfg.rw_size)' = Window(cfg.rw_size)
    BY <1>1 DEF Window
<1> QED
    BY <1>1, <1>2, <1>3, <1>4, <1>5, <1>6, <1>7 DEF VulcanTypeOK

LEMMA TotalsStep ==
    ASSUME VulcanIndInv, NEW val \in Values, UpdateFeature(val)
    PROVE  TotalsInv'
<1> DEFINE n == Len(samples)
<1>1. /\ n \in Nat /\ totals[1] = 0
      /\ \A j \in 1 .. n : totals[j + 1] = totals[j] + samples[j]
    BY DEF VulcanIndInv, VulcanTypeOK, TotalsInv
<1>2. /\ Len(samples') = n + 1 /\ Len(totals') = n + 2
      /\ samples'[n + 1] = val /\ totals'[n + 2] = totals[n + 1] + val
      /\ \A j \in 1 .. n : samples'[j] = samples[j]
      /\ \A j \in 1 .. n + 1 : totals'[j] = totals[j]
    BY HistoryStep
<1> HIDE DEF n
<1>3. ASSUME NEW j \in 1 .. n + 1
      PROVE  totals'[j + 1] = totals'[j] + samples'[j]
  <2>1. CASE j = n + 1
      BY <1>1, <1>2, <2>1
  <2>2. CASE j \in 1 .. n
      BY <1>1, <1>2, <2>2
  <2> QED
      BY <1>1, <2>1, <2>2
<1>4. totals'[1] = 0
    BY <1>1, <1>2
<1> QED
    BY <1>1, <1>2, <1>3, <1>4 DEF TotalsInv

\* The new bounds are the old ones widened to the sample.
LEMMA WidenedBounds ==
    ASSUME VulcanIndInv, NEW val \in Values, UpdateFeature(val),
           Len(samples) + 1 < CountModulus
    PROVE  /\ minmax'.count = Len(samples) + 1
           /\ minmax'.min_val \in Int /\ minmax'.max_val \in Int
           /\ minmax'.min_val <= val /\ val <= minmax'.max_val
           /\ samples = <<>> => minmax'.min_val = val /\ minmax'.max_val = val
           /\ samples # <<>> =>
                /\ minmax'.min_val <= minmax.min_val /\ minmax.max_val <= minmax'.max_val
                /\ minmax'.min_val \in {val, minmax.min_val}
                /\ minmax'.max_val \in {val, minmax.max_val}
<1>1. /\ minmax.min_val \in Int /\ minmax.max_val \in Int /\ val \in Int
      /\ Len(samples) \in Nat /\ (samples = <<>> <=> Len(samples) = 0)
    BY HistoryStep DEF VulcanIndInv, VulcanTypeOK
<1>2. minmax.count = Len(samples)
    BY <1>1, VulcanAssumption DEF VulcanIndInv, BoundsInv
<1>3. (Len(samples) + 1) % CountModulus = Len(samples) + 1
  <2> DEFINE n == Len(samples) + 1
  <2>1. n \in Nat /\ CountModulus \in Nat \ {0} /\ n < CountModulus
      BY <1>1, VulcanAssumption
  <2> HIDE DEF n
  <2>2. n % CountModulus = n
      BY <2>1, ModSmall
  <2> QED
      BY <2>2 DEF n
<1>4. /\ minmax'.count = Len(samples) + 1
      /\ minmax'.min_val = IF Len(samples) = 0 \/ val < minmax.min_val THEN val ELSE minmax.min_val
      /\ minmax'.max_val = IF Len(samples) = 0 \/ val > minmax.max_val THEN val ELSE minmax.max_val
    BY <1>2, <1>3 DEF UpdateFeature, MinMaxUpdate
<1> QED
    BY <1>1, <1>4

LEMMA BoundsStep ==
    ASSUME VulcanIndInv, NEW val \in Values, UpdateFeature(val)
    PROVE  BoundsInv'
<1> SUFFICES ASSUME Len(samples') < CountModulus
             PROVE  /\ minmax'.count = Len(samples')
                    /\ \A j \in 1 .. Len(samples') :
                          minmax'.min_val <= samples'[j] /\ samples'[j] <= minmax'.max_val
                    /\ \E j \in 1 .. Len(samples') : samples'[j] = minmax'.min_val
                    /\ \E j \in 1 .. Len(samples') : samples'[j] = minmax'.max_val
    BY DEF BoundsInv
<1> DEFINE n == Len(samples)
<1>1. /\ n \in Nat /\ (samples = <<>> <=> n = 0) /\ val \in Int
      /\ \A j \in 1 .. n : samples[j] \in Int
  <2>1. samples \in Seq(Int) /\ val \in Int
      BY HistoryStep DEF VulcanIndInv, VulcanTypeOK
  <2> QED
      BY <2>1
<1>2. /\ Len(samples') = n + 1 /\ samples'[n + 1] = val
      /\ \A j \in 1 .. n : samples'[j] = samples[j]
    BY HistoryStep
<1>3. n + 1 < CountModulus /\ n < CountModulus
    BY <1>1, <1>2, VulcanAssumption
<1>4. /\ minmax'.count = n + 1
      /\ minmax'.min_val \in Int /\ minmax'.max_val \in Int
      /\ minmax'.min_val <= val /\ val <= minmax'.max_val
      /\ n = 0 => minmax'.min_val = val /\ minmax'.max_val = val
      /\ n # 0 =>
           /\ minmax'.min_val <= minmax.min_val /\ minmax.max_val <= minmax'.max_val
           /\ minmax'.min_val \in {val, minmax.min_val}
           /\ minmax'.max_val \in {val, minmax.max_val}
    BY <1>1, <1>3, WidenedBounds
<1>5. /\ \A j \in 1 .. n : minmax.min_val <= samples[j] /\ samples[j] <= minmax.max_val
      /\ n # 0 => /\ \E j \in 1 .. n : samples[j] = minmax.min_val
                  /\ \E j \in 1 .. n : samples[j] = minmax.max_val
    BY <1>1, <1>3 DEF VulcanIndInv, BoundsInv
<1>6. minmax.min_val \in Int /\ minmax.max_val \in Int
    BY DEF VulcanIndInv, VulcanTypeOK
<1> HIDE DEF n
<1>7. ASSUME NEW j \in 1 .. n + 1
      PROVE  minmax'.min_val <= samples'[j] /\ samples'[j] <= minmax'.max_val
  <2>1. CASE j = n + 1
      BY <1>2, <1>4, <2>1
  <2>2. CASE j \in 1 .. n
    <3>1. n # 0 /\ samples'[j] = samples[j] /\ samples[j] \in Int
        BY <1>1, <1>2, <2>2
    <3>2. minmax.min_val <= samples[j] /\ samples[j] <= minmax.max_val
        BY <1>5, <2>2
    <3> QED
        BY <1>4, <1>6, <3>1, <3>2
  <2> QED
      BY <1>1, <2>1, <2>2
<1>8. n + 1 \in 1 .. n + 1 /\ \A j \in 1 .. n : j \in 1 .. n + 1
    BY <1>1
<1>9. \E j \in 1 .. n + 1 : samples'[j] = minmax'.min_val
    BY <1>2, <1>4, <1>5, <1>8
<1>10. \E j \in 1 .. n + 1 : samples'[j] = minmax'.max_val
    BY <1>2, <1>4, <1>5, <1>8
<1> QED
    BY <1>2, <1>4, <1>7, <1>9, <1>10

\* A product grows with its first factor.
LEMMA ProductBounds ==
    ASSUME NEW lo \in Int, NEW new \in Int, NEW n \in Nat, NEW sum \in Int, NEW val \in Int
    PROVE  /\ new <= lo /\ lo * n <= sum /\ new <= val => new * (n + 1) <= sum + val
           /\ lo <= new /\ sum <= lo * n /\ val <= new => sum + val <= new * (n + 1)
<1>1. lo * n \in Int /\ new * n \in Int /\ new * (n + 1) = new * n + new
    OBVIOUS
<1>2. /\ new <= lo => new * n <= lo * n
      /\ lo <= new => lo * n <= new * n
    OBVIOUS
<1> QED
    BY <1>1, <1>2

LEMMA AveragesStep ==
    ASSUME VulcanIndInv, NEW val \in Values, UpdateFeature(val)
    PROVE  AveragesInv'
<1> DEFINE n == Len(samples)
           lo == minmax'.min_val
           hi == minmax'.max_val
<1>1. /\ n \in Nat /\ (samples = <<>> <=> n = 0) /\ val \in Int
      /\ samples' # <<>> /\ Len(samples') = n + 1
    BY HistoryStep DEF VulcanIndInv, VulcanTypeOK
<1>2. /\ minmax.min_val \in Int /\ minmax.max_val \in Int
      /\ ewma.value \in Int /\ avg.sum \in Int /\ cfg.ewma_alpha \in 0 .. VULCAN_FP_SCALE
    BY VulcanAssumption DEF VulcanIndInv, VulcanTypeOK
<1>3. /\ ewma.initialized <=> n # 0
      /\ avg.count = n
      /\ n < CountModulus =>
          /\ n # 0 => minmax.min_val <= ewma.value /\ ewma.value <= minmax.max_val
          /\ minmax.min_val * n <= avg.sum
          /\ avg.sum <= minmax.max_val * n
    BY <1>1 DEF VulcanIndInv, AveragesInv
<1>4. /\ avg'.count = n + 1 /\ avg'.sum = avg.sum + val
      /\ ewma'.initialized = TRUE
      /\ ewma'.value = IF n # 0 THEN Blend(val, ewma.value, cfg.ewma_alpha) ELSE val
    BY <1>3 DEF UpdateFeature, AvgUpdate, EwmaUpdate
<1>5. ASSUME n + 1 < CountModulus
      PROVE  /\ lo <= ewma'.value /\ ewma'.value <= hi
             /\ lo * (n + 1) <= avg'.sum
             /\ avg'.sum <= hi * (n + 1)
  <2>1. /\ lo \in Int /\ hi \in Int /\ lo <= val /\ val <= hi
        /\ n = 0 => lo = val /\ hi = val
        /\ n # 0 => lo <= minmax.min_val /\ minmax.max_val <= hi
      BY <1>1, <1>5, WidenedBounds
  <2>2. n < CountModulus
      BY <1>1, <1>5, VulcanAssumption
  <2> HIDE DEF n, lo, hi
  <2>3. CASE n = 0
    <3>1. avg.sum = 0
        BY <1>2, <1>3, <2>2, <2>3
    <3>2. lo * 1 = lo /\ hi * 1 = hi
        BY <2>1
    <3> QED
        BY <1>1, <1>4, <2>1, <2>3, <3>1, <3>2
  <2>4. CASE n # 0
    <3>1. lo <= ewma.value /\ ewma.value <= hi
        BY <1>2, <1>3, <2>1, <2>2, <2>4
    <3>2. lo <= Blend(val, ewma.value, cfg.ewma_alpha)
          /\ Blend(val, ewma.value, cfg.ewma_alpha) <= hi
        BY <1>1, <1>2, <2>1, <3>1, BlendWithin
    <3>3. lo * (n + 1) <= avg.sum + val
        BY <1>1, <1>2, <1>3, <2>1, <2>2, <2>4, ProductBounds
    <3>4. avg.sum + val <= hi * (n + 1)
        BY <1>1, <1>2, <1>3, <2>1, <2>2, <2>4, ProductBounds
    <3> QED
        BY <1>4, <2>4, <3>2, <3>3, <3>4
  <2> QED
      BY <2>3, <2>4
<1> QED
    BY <1>1, <1>4, <1>5 DEF AveragesInv

\* The ring after a sample: its head is overwritten, and every other index is that
\* of one sample more recent.
LEMMA RingMoves ==
    ASSUME NEW h \in 0 .. VULCAN_MAX_WINDOW - 1, NEW w, NEW u,
           w.head = h, u.head = NextHead(h)
    PROVE  /\ KthIndex(w, VULCAN_MAX_WINDOW - 1) = h
           /\ KthIndex(u, 0) = h
           /\ \A k \in 1 .. VULCAN_MAX_WINDOW - 1 :
                /\ KthIndex(u, k) = KthIndex(w, k - 1)
                /\ KthIndex(u, k) \in 0 .. VULCAN_MAX_WINDOW - 1
                /\ KthIndex(u, k) # h
<1> DEFINE W == VULCAN_MAX_WINDOW
           g == NextHead(h)
           Index(head, k) == IF k < head THEN head - 1 - k ELSE head - 1 - k + W
<1>1. W \in Nat \ {0}
    BY VulcanAssumption
<1>2. /\ g = IF h = W - 1 THEN 0 ELSE h + 1
      /\ g \in 0 .. W - 1 /\ h \in 0 .. W - 1
    BY RingIndices
<1>3. \A k \in 0 .. W - 1 : KthIndex(w, k) = Index(h, k)
    BY RingIndices DEF KthIndex
<1>4. \A k \in 0 .. W - 1 : KthIndex(u, k) = Index(g, k)
    BY <1>2, RingIndices DEF KthIndex
<1> HIDE DEF W, g
<1>5. KthIndex(w, W - 1) = h
    BY <1>1, <1>2, <1>3
<1>6. KthIndex(u, 0) = h
    BY <1>1, <1>2, <1>4
<1>7. ASSUME NEW k \in 1 .. W - 1
      PROVE  /\ KthIndex(u, k) = KthIndex(w, k - 1)
             /\ KthIndex(u, k) \in 0 .. W - 1
             /\ KthIndex(u, k) # h
  <2>1. KthIndex(u, k) = Index(g, k) /\ KthIndex(w, k - 1) = Index(h, k - 1)
      BY <1>1, <1>3, <1>4
  <2> QED
      BY <1>1, <1>2, <2>1
<1> QED
    BY <1>5, <1>6, <1>7 DEF W

LEMMA RingTypes ==
    ASSUME VulcanIndInv
    PROVE  /\ samples \in Seq(Int) /\ totals \in Seq(Int) /\ Len(samples) \in Nat
           /\ cfg.rw_size \in Nat /\ VULCAN_MAX_WINDOW \in Nat \ {0}
           /\ rw.head \in 0 .. VULCAN_MAX_WINDOW - 1 /\ rw.sum \in Int
           /\ rw.values \in [0 .. VULCAN_MAX_WINDOW - 1 -> Int]
<1>1. samples \in Seq(Int) /\ totals \in Seq(Int) /\ cfg.rw_size \in WindowSizes
    BY DEF VulcanIndInv, VulcanTypeOK
<1>2. /\ rw.head \in 0 .. VULCAN_MAX_WINDOW - 1 /\ rw.sum \in Int
      /\ rw.values \in [0 .. VULCAN_MAX_WINDOW - 1 -> Int]
    BY DEF VulcanIndInv, VulcanTypeOK
<1>3. Len(samples) \in Nat
    BY <1>1
<1>4. cfg.rw_size \in Nat /\ VULCAN_MAX_WINDOW \in Nat \ {0}
    BY <1>1, VulcanAssumption
<1> QED
    BY <1>1, <1>2, <1>3, <1>4

LEMMA RingStep ==
    ASSUME VulcanIndInv, NEW val \in Values, UpdateFeature(val)
    PROVE  RingInv'
<1> DEFINE n == Len(samples)
           W == VULCAN_MAX_WINDOW
           size == cfg.rw_size
<1>1. cfg' = cfg /\ size \in Nat /\ n \in Nat /\ W \in Nat \ {0}
    BY RingTypes DEF UpdateFeature
<1>2. SUFFICES ASSUME size # 0
               PROVE  /\ rw'.count = SmallerOf(Len(samples'), Window(size))
                      /\ \A k \in 0 .. SmallerOf(Len(samples'), W) - 1 :
                            rw'.values[KthIndex(rw', k)] = samples'[Len(samples') - k]
  <2>1. Window(cfg.rw_size)' = Window(size)
      BY <1>1 DEF Window
  <2> QED
      BY <1>1, <2>1 DEF RingInv, KthIndex
<1>3. /\ Len(samples') = n + 1 /\ samples'[n + 1] = val
      /\ \A j \in 1 .. n : samples'[j] = samples[j]
    BY HistoryStep
<1>4. rw.head \in 0 .. W - 1 /\ rw.values \in [0 .. W - 1 -> Int]
    BY DEF VulcanIndInv, VulcanTypeOK
<1>5. /\ rw.count = SmallerOf(n, Window(size))
      /\ \A k \in 0 .. SmallerOf(n, W) - 1 :
            rw.values[KthIndex(rw, k)] = samples[n - k]
    BY <1>2 DEF VulcanIndInv, RingInv
<1>6. /\ rw'.values = [rw.values EXCEPT ![rw.head] = val]
      /\ rw'.head = NextHead(rw.head)
      /\ rw'.count = IF rw.count < Window(size) THEN rw.count + 1 ELSE rw.count
    BY <1>2 DEF UpdateFeature, RwUpdate
<1> HIDE DEF n, W, size
<1>7. rw'.count = SmallerOf(n + 1, Window(size))
  <2>1. Window(size) \in Nat
    <3>1. Window(size) \in 0 .. W
        BY <1>1, WindowBounds DEF W
    <3> QED
        BY <1>1, <3>1
  <2> QED
      BY <1>1, <1>5, <1>6, <2>1 DEF SmallerOf
<1>8. ASSUME NEW k \in 0 .. SmallerOf(n + 1, W) - 1
      PROVE  rw'.values[KthIndex(rw', k)] = samples'[n + 1 - k]
  <2>1. k \in 0 .. W - 1 /\ k \in 0 .. n
      BY <1>1 DEF SmallerOf
  <2>2. CASE k = 0
    <3>1. KthIndex(rw', k) = rw.head
        BY <1>4, <1>6, <2>2, RingMoves DEF W
    <3> QED
        BY <1>1, <1>3, <1>4, <1>6, <2>2, <3>1
  <2>3. CASE k # 0
    <3>1. k \in 1 .. W - 1 /\ k - 1 \in 0 .. SmallerOf(n, W) - 1
        BY <1>1, <2>1, <2>3 DEF SmallerOf
    <3>2. /\ KthIndex(rw', k) = KthIndex(rw, k - 1)
          /\ KthIndex(rw', k) \in 0 .. W - 1
          /\ KthIndex(rw', k) # rw.head
        BY <1>4, <1>6, <3>1, RingMoves DEF W
    <3>3. rw'.values[KthIndex(rw', k)] = rw.values[KthIndex(rw, k - 1)]
        BY <1>4, <1>6, <3>2
    <3>4. rw.values[KthIndex(rw, k - 1)] = samples[n - (k - 1)]
        BY <1>5, <3>1
    <3>5. n - (k - 1) = n + 1 - k /\ n + 1 - k \in 1 .. n
        BY <1>1, <2>1, <2>3
    <3> QED
        BY <1>3, <3>3, <3>4, <3>5
  <2> QED
      BY <2>2, <2>3
<1>9. \A k \in 0 .. SmallerOf(n + 1, W) - 1 : rw'.values[KthIndex(rw', k)] = samples'[n + 1 - k]
    BY <1>8
<1>10. Len(samples') = n + 1
    BY <1>3
<1> QED
    BY <1>7, <1>9, <1>10 DEF n, W, size

\* What leaves the sum of a full window is its oldest sample.
LEMMA WindowSumStep ==
    ASSUME VulcanIndInv, NEW val \in Values, UpdateFeature(val)
    PROVE  WindowSumInv'
<1> DEFINE n == Len(samples)
           W == VULCAN_MAX_WINDOW
           size == cfg.rw_size
<1>1. /\ cfg' = cfg /\ size \in Nat /\ n \in Nat /\ W \in Nat \ {0}
      /\ samples \in Seq(Int) /\ totals \in Seq(Int) /\ rw.sum \in Int
      /\ rw.head \in 0 .. W - 1
    BY RingTypes DEF UpdateFeature
<1>2. /\ Len(samples') = n + 1 /\ Len(totals') = n + 2 /\ val \in Int
      /\ totals'[n + 2] = totals[n + 1] + val
      /\ \A j \in 1 .. n + 1 : totals'[j] = totals[j]
    BY HistoryStep
<1>3. SUFFICES ASSUME size >= W
               PROVE  rw'.sum = totals'[n + 2] - totals'[n + 2 - SmallerOf(n + 1, W)]
  <2>1. SumOfLast(SmallerOf(Len(samples), W))'
            = totals'[Len(totals')] - totals'[Len(totals') - SmallerOf(Len(samples'), W)]
      BY DEF SumOfLast, SmallerOf
  <2>2. WindowSumInv' <=>
            (cfg'.rw_size >= W => rw'.sum = SumOfLast(SmallerOf(Len(samples), W))')
      BY DEF WindowSumInv
  <2>3. totals'[Len(totals')] - totals'[Len(totals') - SmallerOf(Len(samples'), W)]
            = totals'[n + 2] - totals'[n + 2 - SmallerOf(n + 1, W)]
    <3>1. Len(totals') = n + 2 /\ Len(samples') = n + 1
        BY <1>2
    <3>2. SmallerOf(n + 1, W) \in Nat
        BY <1>1 DEF SmallerOf
    <3> HIDE DEF n, W
    <3> QED
        BY <1>1, <3>1, <3>2
  <2> QED
      BY <1>1, <2>1, <2>2, <2>3
<1>4. /\ Len(totals) = n + 1
      /\ \A j \in 1 .. n : totals[j + 1] = totals[j] + samples[j]
    BY DEF VulcanIndInv, TotalsInv
<1>5. rw.sum = totals[n + 1] - totals[n + 1 - SmallerOf(n, W)]
  <2>1. rw.sum = SumOfLast(SmallerOf(n, W))
      BY <1>3 DEF VulcanIndInv, WindowSumInv
  <2>2. rw.sum = totals[Len(totals)] - totals[Len(totals) - SmallerOf(n, W)]
      BY <2>1 DEF SumOfLast
  <2>3. Len(totals) = n + 1
      BY <1>4
  <2>4. SmallerOf(n, W) \in Nat
      BY <1>1 DEF SmallerOf
  <2>5. n \in Nat
      BY <1>1
  <2> HIDE DEF n, W, size
  <2> QED
      BY <2>2, <2>3, <2>4, <2>5
<1>6. size # 0 /\ Window(size) = W
    BY <1>1, <1>3, WindowBounds
<1>7. /\ rw.count = SmallerOf(n, W)
      /\ \A k \in 0 .. SmallerOf(n, W) - 1 :
            rw.values[KthIndex(rw, k)] = samples[n - k]
    BY <1>6 DEF VulcanIndInv, RingInv
<1>8. rw'.sum = rw.sum + val - (IF rw.count >= W THEN rw.values[rw.head] ELSE 0)
    BY <1>6 DEF UpdateFeature, RwUpdate, DropsOldest
<1>9. \A j \in 1 .. n + 1 : totals[j] \in Int
    BY <1>1, <1>4
<1>10. KthIndex(rw, W - 1) = rw.head
  <2>1. KthIndex(rw, W - 1) = (rw.head + W - 1 - (W - 1)) % W
      BY DEF KthIndex
  <2>2. W - 1 \in 0 .. W - 1
      BY <1>1
  <2>3. (rw.head + W - 1 - (W - 1)) % W
            = IF W - 1 < rw.head THEN rw.head - 1 - (W - 1) ELSE rw.head - 1 - (W - 1) + W
      BY <1>1, <2>2, RingIndices
  <2> QED
      BY <1>1, <2>1, <2>3
<1> HIDE DEF n, W, size
<1>11. CASE n < W
  <2>1. SmallerOf(n, W) = n /\ SmallerOf(n + 1, W) = n + 1
      BY <1>1, <1>11 DEF SmallerOf
  <2>2. rw.count < W /\ n + 1 - n = 1 /\ n + 2 - (n + 1) = 1
      BY <1>1, <1>7, <1>11, <2>1
  <2>3. totals'[1] = totals[1] /\ totals[1] \in Int /\ totals[n + 1] \in Int
      BY <1>1, <1>2, <1>9
  <2>4. rw.sum = totals[n + 1] - totals[1]
      BY <1>5, <2>1, <2>2
  <2>5. rw'.sum = rw.sum + val
    <3>1. rw.count \in Int
        BY <1>1, <1>7, <2>1
    <3>2. ~(rw.count >= W)
        BY <1>1, <2>2, <3>1
    <3>3. rw'.sum = rw.sum + val - 0
        BY <1>8, <3>2
    <3>4. rw.sum \in Int /\ val \in Int
        BY <1>1, <1>2
    <3> QED
        BY <3>3, <3>4
  <2> QED
      BY <1>2, <2>1, <2>2, <2>3, <2>4, <2>5
<1>12. CASE n >= W
  <2>1. SmallerOf(n, W) = W /\ SmallerOf(n + 1, W) = W
      BY <1>1, <1>12 DEF SmallerOf
  <2>2. rw.values[rw.head] = samples[n + 1 - W]
    <3>1. W - 1 \in 0 .. SmallerOf(n, W) - 1 /\ n - (W - 1) = n + 1 - W
        BY <1>1, <2>1
    <3> QED
        BY <1>1, <1>7, <1>10, <3>1
  <2> DEFINE i == n + 1 - W
  <2>3. i \in 1 .. n /\ n + 2 - W = i + 1
      BY <1>1, <1>12
  <2>4. totals[i + 1] = totals[i] + samples[i]
      BY <1>4, <2>3
  <2>5. totals'[i + 1] = totals[i + 1] /\ i + 1 \in 1 .. n + 1
      BY <1>1, <1>2, <2>3
  <2>6. rw'.sum = rw.sum + val - samples[i] /\ rw.sum = totals[n + 1] - totals[i]
      BY <1>1, <1>5, <1>7, <1>8, <2>1, <2>2
  <2>7. totals[n + 1] \in Int /\ totals[i] \in Int /\ samples[i] \in Int
    <3>1. n + 1 \in 1 .. n + 1 /\ i \in 1 .. n + 1
        BY <1>1, <2>3
    <3>2. samples[i] \in Int
        BY <1>1, <2>3 DEF n
    <3> QED
        BY <1>9, <3>1, <3>2
  <2>8. n + 2 - SmallerOf(n + 1, W) = i + 1
      BY <2>1, <2>3
  <2> HIDE DEF i
  <2>9. totals'[n + 2 - SmallerOf(n + 1, W)] = totals[i] + samples[i]
      BY <2>4, <2>5, <2>8
  <2> QED
      BY <1>2, <2>6, <2>7, <2>9
<1> QED
    BY <1>1, <1>11, <1>12

LEMMA VulcanNextIndInv == VulcanIndInv /\ [VulcanNext]_vulcan_vars => VulcanIndInv'
<1> SUFFICES ASSUME VulcanIndInv, [VulcanNext]_vulcan_vars PROVE VulcanIndInv'
    OBVIOUS
<1>1. CASE UNCHANGED vulcan_vars
    BY <1>1 DEF vulcan_vars, VulcanIndInv, VulcanTypeOK, TotalsInv, BoundsInv, AveragesInv,
                RingInv, WindowSumInv, SumOfLast, KthIndex
<1>2. ASSUME NEW val \in Values, UpdateFeature(val) PROVE VulcanIndInv'
    BY <1>2, StatisticsType, TotalsStep, BoundsStep, AveragesStep, RingStep, WindowSumStep
       DEF VulcanIndInv
<1> QED
    BY <1>1, <1>2 DEF VulcanNext

LEMMA VulcanInductive == VulcanSpec => []VulcanIndInv
BY VulcanInitIndInv, VulcanNextIndInv, PTL DEF VulcanSpec

-----------------------------------------------------------------------------
(* The theorems about the listeners *)

\* Types; the head of the ring is one of its indices after every vulcan_rw_update, and
\* the count is at most the window.
THEOREM VulcanTypeCorrect == VulcanSpec => []VulcanTypeOK
<1>1. VulcanIndInv => VulcanTypeOK
    BY DEF VulcanIndInv
<1> QED
    BY <1>1, VulcanInductive, PTL

\* What is least, or greatest, in a set of integers is its minimum, or maximum.
LEMMA LeastIsMin ==
    ASSUME NEW S \in SUBSET Int, NEW x \in S
    PROVE  /\ (\A y \in S : x <= y) => Min(S) = x
           /\ (\A y \in S : y <= x) => Max(S) = x
<1>1. ASSUME \A y \in S : x <= y PROVE Min(S) = x
  <2>1. Min(S) \in S /\ \A y \in S : Min(S) <= y
    <3>1. \E z \in S : \A y \in S : z <= y
        BY <1>1
    <3> QED
        BY <3>1 DEF Min
  <2>2. Min(S) \in Int /\ x \in Int /\ x <= Min(S) /\ Min(S) <= x
      BY <1>1, <2>1
  <2> QED
      BY <2>2
<1>2. ASSUME \A y \in S : y <= x PROVE Max(S) = x
  <2>1. Max(S) \in S /\ \A y \in S : Max(S) >= y
    <3>1. \E z \in S : \A y \in S : z >= y
        BY <1>2
    <3> QED
        BY <3>1 DEF Max
  <2>2. Max(S) \in Int /\ x \in Int /\ x <= Max(S) /\ Max(S) <= x
      BY <1>2, <2>1
  <2> QED
      BY <2>2
<1> QED
    BY <1>1, <1>2

\* For samples of any sign and any alpha, the divisions of vulcan_ewma_update and
\* vulcan_avg_get never take an average out of the range of the stream.
THEOREM EstimatesWithinRangeHolds == VulcanSpec => []EstimatesWithinRange
<1>1. VulcanIndInv => EstimatesWithinRange
  <2> SUFFICES ASSUME VulcanIndInv, samples # <<>>, Len(samples) < CountModulus
               PROVE  /\ MinOf(minmax) = Min(ToSet(samples))
                      /\ MaxOf(minmax) = Max(ToSet(samples))
                      /\ MinOf(minmax) <= ewma.value /\ ewma.value <= MaxOf(minmax)
                      /\ MinOf(minmax) <= AvgGet(avg) /\ AvgGet(avg) <= MaxOf(minmax)
      BY DEF EstimatesWithinRange
  <2> DEFINE n == Len(samples)
             lo == minmax.min_val
             hi == minmax.max_val
  <2>1. samples \in Seq(Int) /\ lo \in Int /\ hi \in Int /\ avg.sum \in Int
      BY DEF VulcanIndInv, VulcanTypeOK
  <2>2. n \in Nat \ {0}
      BY <2>1
  <2>3. /\ minmax.count = n /\ avg.count = n
        /\ lo <= ewma.value /\ ewma.value <= hi
        /\ lo * n <= avg.sum /\ avg.sum <= hi * n
        /\ \A j \in 1 .. n : lo <= samples[j] /\ samples[j] <= hi
        /\ \E j \in 1 .. n : samples[j] = lo
        /\ \E j \in 1 .. n : samples[j] = hi
      BY DEF VulcanIndInv, BoundsInv, AveragesInv
  <2>4. MinOf(minmax) = lo /\ MaxOf(minmax) = hi
      BY <2>2, <2>3 DEF MinOf, MaxOf
  <2>5. ToSet(samples) = {samples[j] : j \in 1 .. n}
      BY <2>1 DEF ToSet
  <2>6. ToSet(samples) \in SUBSET Int
      BY <2>1, <2>5
  <2>7. lo \in ToSet(samples) /\ hi \in ToSet(samples)
      BY <2>3, <2>5
  <2>8. \A y \in ToSet(samples) : lo <= y /\ y <= hi
      BY <2>3, <2>5
  <2> HIDE DEF n, lo, hi
  <2>9. lo = Min(ToSet(samples)) /\ hi = Max(ToSet(samples))
      BY <2>6, <2>7, <2>8, LeastIsMin
  <2>10. lo <= AvgGet(avg) /\ AvgGet(avg) <= hi
    <3>1. AvgGet(avg) = vulcan_sdiv(avg.sum, n)
        BY <2>2, <2>3 DEF AvgGet
    <3> QED
        BY <2>1, <2>2, <2>3, <3>1, QuotientWithin
  <2> QED
      BY <2>3, <2>4, <2>9, <2>10
<1> QED
    BY <1>1, VulcanInductive, PTL

\* vulcan_rw_get_kth_recent finds the k-th sample from the end for any window and any
\* number of wraps of the ring.
THEOREM KthRecentIsKthHolds == VulcanSpec => []KthRecentIsKth
<1>1. VulcanIndInv => KthRecentIsKth
  <2> SUFFICES ASSUME VulcanIndInv, NEW k \in 0 .. rw.count - 1
               PROVE  RwKthRecent(rw, k) = samples[Len(samples) - k]
      BY DEF KthRecentIsKth
  <2>1. /\ Len(samples) \in Nat /\ cfg.rw_size \in Nat /\ VULCAN_MAX_WINDOW \in Nat
        /\ Window(cfg.rw_size) \in 0 .. VULCAN_MAX_WINDOW
        /\ Window(cfg.rw_size) = 0 <=> cfg.rw_size = 0
      BY RingTypes, WindowBounds
  <2>2. rw.count \in 0 .. Window(cfg.rw_size)
      BY DEF VulcanIndInv, VulcanTypeOK
  <2>3. cfg.rw_size # 0
      BY <2>1, <2>2
  <2>4. /\ rw.count = SmallerOf(Len(samples), Window(cfg.rw_size))
        /\ \A i \in 0 .. SmallerOf(Len(samples), VULCAN_MAX_WINDOW) - 1 :
              rw.values[KthIndex(rw, i)] = samples[Len(samples) - i]
      BY <2>3 DEF VulcanIndInv, RingInv
  <2>5. /\ k \in 0 .. SmallerOf(Len(samples), VULCAN_MAX_WINDOW) - 1
        /\ ~(k >= rw.count) /\ ~(k >= VULCAN_MAX_WINDOW)
      BY <2>1, <2>2, <2>4 DEF SmallerOf
  <2> QED
      BY <2>4, <2>5 DEF RwKthRecent
<1> QED
    BY <1>1, VulcanInductive, PTL

\* With the largest window, vulcan_rw_get_avg is the average of the samples it holds.
THEOREM FullWindowAverageHolds == VulcanSpec => []FullWindowAverage
<1>1. VulcanIndInv => FullWindowAverage
  <2> DEFINE n == SmallerOf(Len(samples), VULCAN_MAX_WINDOW)
  <2> SUFFICES ASSUME VulcanIndInv, cfg.rw_size >= VULCAN_MAX_WINDOW, samples # <<>>
               PROVE  RwGetAvg(rw) = vulcan_sdiv(SumOfLast(n), n)
      BY DEF FullWindowAverage
  <2>1. /\ Len(samples) \in Nat \ {0} /\ cfg.rw_size \in Nat
        /\ VULCAN_MAX_WINDOW \in Nat \ {0}
      BY RingTypes
  <2>2. cfg.rw_size # 0 /\ Window(cfg.rw_size) = VULCAN_MAX_WINDOW
      BY <2>1, WindowBounds
  <2>3. rw.count = n
      BY <2>2 DEF VulcanIndInv, RingInv
  <2>4. rw.sum = SumOfLast(n)
      BY DEF VulcanIndInv, WindowSumInv
  <2>5. n # 0
      BY <2>1 DEF SmallerOf
  <2> QED
      BY <2>3, <2>4, <2>5 DEF RwGetAvg
<1> QED
    BY <1>1, VulcanInductive, PTL

=============================================================================
