------------------------------ MODULE LHDProofs ------------------------------
(***************************************************************************)
(* Theorems about the request accounting of LHD, for any folios, threads    *)
(* and round length: types and ages, the object count, the countdown.       *)
(***************************************************************************)
EXTENDS LHD, FiniteSetTheorems, TLAPS

Locked == AddLabels \cup EvictedLabels

\* What is known of the folio of a thread in the middle of a hook.
HookInv ==
    \A t \in Threads :
        /\ th[t].pc \in Locked \cup {"accessed"} => th[t].f \in Folios
        /\ th[t].pc = "add_meta" => th[t].f \in lhd_list /\ th[t].f \notin tracked
        /\ th[t].pc \in EvictedLabels => th[t].f \in tracked

\* The folio lock.
Exclusive ==
    \A t, u \in Threads :
        t # u /\ th[t].pc \in Locked /\ th[u].pc \in Locked => th[t].f # th[u].f

\* The record whose handling is under way is still in the ring buffer.
LoaderInv == loader # "poll" => events > 0

Relations == HookInv /\ Exclusive /\ TrackedIsListed

IndInv == TypeOK /\ LoaderInv /\ Relations /\ NumObjectsConserved /\ CountdownAlive

-----------------------------------------------------------------------------
\* The states a hook gives its thread.
LEMMA NewStates ==
    /\ Idle \in ThreadStates /\ Idle.pc = "idle"
    /\ \A l \in Labels :
          LET new == [Idle EXCEPT !.pc = l]
          IN  new \in ThreadStates /\ new.pc = l
    /\ \A l \in Labels, f \in Folios :
          LET new == [Idle EXCEPT !.pc = l, !.f = f]
          IN  new \in ThreadStates /\ new.pc = l /\ new.f = f
    /\ \A l \in Labels, f \in Folios, ts \in Nat :
          LET new == [Idle EXCEPT !.pc = l, !.f = f, !.ts = ts]
          IN  new \in ThreadStates /\ new.pc = l /\ new.f = f
    /\ \A l \in Labels, n \in Nat :
          LET new == [Idle EXCEPT !.pc = l, !.n = n]
          IN  new \in ThreadStates /\ new.pc = l /\ new.n = n
    /\ \A l \in Labels, f \in Folios, n \in Nat :
          LET new == [Idle EXCEPT !.pc = l, !.f = f, !.n = n]
          IN  new \in ThreadStates /\ new.pc = l /\ new.f = f /\ new.n = n
<1>1. Idle = [pc |-> "idle", f |-> NoFolio, ts |-> 0, n |-> 0] /\ "idle" \in Labels
    BY DEF Idle, Labels
<1> HIDE DEF Labels
<1>2. Idle \in ThreadStates /\ Idle.pc = "idle"
    BY <1>1 DEF ThreadStates
<1>3. \A l \in Labels :
         LET new == [Idle EXCEPT !.pc = l]
         IN  new \in ThreadStates /\ new.pc = l
    BY <1>1 DEF ThreadStates
<1>4. \A l \in Labels, f \in Folios :
         LET new == [Idle EXCEPT !.pc = l, !.f = f]
         IN  new \in ThreadStates /\ new.pc = l /\ new.f = f
    BY <1>1 DEF ThreadStates
<1>5. \A l \in Labels, f \in Folios, ts \in Nat :
         LET new == [Idle EXCEPT !.pc = l, !.f = f, !.ts = ts]
         IN  new \in ThreadStates /\ new.pc = l /\ new.f = f
    BY <1>1 DEF ThreadStates
<1>6. \A l \in Labels, n \in Nat :
         LET new == [Idle EXCEPT !.pc = l, !.n = n]
         IN  new \in ThreadStates /\ new.pc = l /\ new.n = n
    BY <1>1 DEF ThreadStates
<1>7. \A l \in Labels, f \in Folios, n \in Nat :
         LET new == [Idle EXCEPT !.pc = l, !.f = f, !.n = n]
         IN  new \in ThreadStates /\ new.pc = l /\ new.f = f /\ new.n = n
    BY <1>1 DEF ThreadStates
<1> QED
    BY <1>2, <1>3, <1>4, <1>5, <1>6, <1>7

\* get_age stays below MAX_AGE, also when the clock it read is older than the
\* access it is compared with.
LEMMA AgeRange ==
    ASSUME TypeOK, NEW ts \in Nat, NEW f \in Folios
    PROVE  Age(ts, f) \in Nat /\ Age(ts, f) < MAX_AGE
<1> DEFINE elapsed == ts - last_access_time[f]
<1>1. /\ MAX_AGE \in Nat \ {0} /\ elapsed \in Int
      /\ coarsening \in Nat \ {0}
    BY LHDAssumption DEF TypeOK
<1>2. Age(ts, f) = IF elapsed < 0 \/ elapsed \div coarsening >= MAX_AGE
                   THEN MAX_AGE - 1 ELSE elapsed \div coarsening
    BY DEF Age
<1> HIDE DEF elapsed
<1>3. elapsed >= 0 => elapsed \div coarsening \in Nat
    BY <1>1
<1> QED
    BY <1>1, <1>2, <1>3

\* A step of one thread changes the state of no other.
LEMMA ThreadStep ==
    ASSUME TypeOK, NEW t \in Threads, NEW new, th' = [th EXCEPT ![t] = new]
    PROVE  th'[t] = new /\ \A u \in Threads : u # t => th'[u] = th[u]
BY DEF TypeOK

LEMMA ThreadsAtFinite ==
    ASSUME NEW L
    PROVE  IsFiniteSet(ThreadsAt(L)) /\ Cardinality(ThreadsAt(L)) \in Nat
<1>1. ThreadsAt(L) \subseteq Threads /\ IsFiniteSet(Threads)
    BY LHDAssumption DEF ThreadsAt
<1> QED
    BY <1>1, FS_Subset, FS_CardinalityType

LEMMA TrackedFinite ==
    ASSUME TypeOK
    PROVE  IsFiniteSet(tracked) /\ Cardinality(tracked) \in Nat
<1>1. tracked \subseteq Folios /\ IsFiniteSet(Folios)
    BY LHDAssumption DEF TypeOK
<1> QED
    BY <1>1, FS_Subset, FS_CardinalityType

-----------------------------------------------------------------------------
(* The relations *)

\* The step of t that makes th[t] new takes, holds or releases the lock of folio
\* g, nobody else holds it, and the step leaves the other folios alone.
Owns(t, g, new) ==
    /\ th' = [th EXCEPT ![t] = new]
    /\ \A u \in Threads : u # t /\ th[u].pc \in Locked => th[u].f # g
    /\ th[t].pc \in Locked => th[t].f = g
    /\ tracked' \ {g} = tracked \ {g} /\ lhd_list' \ {g} = lhd_list \ {g}
    /\ new.pc \in Locked => new.f = g
    /\ new.pc \in Locked \cup {"accessed"} => new.f \in Folios
    /\ new.pc = "add_meta" => g \in lhd_list' /\ g \notin tracked'
    /\ new.pc \in EvictedLabels => g \in tracked'
    /\ g \in tracked' => g \in lhd_list' \/ new.pc \in EvictedLabels

\* Such a step disturbs the relations of no other folio.
LEMMA LockedStep ==
    ASSUME TypeOK, Relations, NEW t \in Threads, NEW g, NEW new, Owns(t, g, new)
    PROVE  Relations'
<1> USE DEF Owns
<1>1. th'[t] = new /\ \A u \in Threads : u # t => th'[u] = th[u]
    BY DEF TypeOK
<1>2. HookInv'
  <2> SUFFICES ASSUME NEW u \in Threads PROVE HookInv!(u)'
      BY DEF HookInv
  <2>1. CASE u = t
      BY <1>1, <2>1 DEF Locked, AddLabels, EvictedLabels
  <2>2. CASE u # t
    <3>1. HookInv!(u) /\ th'[u] = th[u]
        BY <1>1, <2>2 DEF Relations, HookInv
    <3>2. th[u].pc \in Locked => th[u].f # g
        BY <2>2
    <3> QED
        BY <3>1, <3>2 DEF Locked, AddLabels, EvictedLabels
  <2> QED
      BY <2>1, <2>2
<1>3. Exclusive'
  <2> SUFFICES ASSUME NEW u \in Threads, NEW v \in Threads, u # v,
                      th'[u].pc \in Locked, th'[v].pc \in Locked
               PROVE  th'[u].f # th'[v].f
      BY DEF Exclusive, Locked, AddLabels, EvictedLabels
  <2>1. CASE u # t /\ v # t
      BY <1>1, <2>1 DEF Relations, Exclusive
  <2>2. CASE u = t
      BY <1>1, <2>2
  <2>3. CASE v = t
      BY <1>1, <2>3
  <2> QED
      BY <2>1, <2>2, <2>3
<1>4. TrackedIsListed'
  <2> SUFFICES ASSUME NEW f \in tracked', f \notin lhd_list'
               PROVE  \E u \in Threads : th'[u].pc \in EvictedLabels /\ th'[u].f = f
      BY DEF TrackedIsListed, ThreadsAt, EvictedLabels
  <2>1. CASE f = g
    <3>1. new.pc \in EvictedLabels /\ new.f = g
        BY <2>1 DEF Locked
    <3> QED
        BY <1>1, <2>1, <3>1
  <2>2. CASE f # g
    <3>1. f \in tracked /\ f \notin lhd_list
        BY <2>2
    <3>2. PICK u \in Threads : th[u].pc \in EvictedLabels /\ th[u].f = f
        BY <3>1 DEF Relations, TrackedIsListed, ThreadsAt
    <3>3. u # t
        BY <2>2, <3>2 DEF Locked
    <3> QED
        BY <1>1, <3>2, <3>3
  <2> QED
      BY <2>1, <2>2
<1> QED
    BY <1>2, <1>3, <1>4 DEF Relations

\* A step outside the folio lock.
LEMMA UnlockedStep ==
    ASSUME TypeOK, Relations, NEW t \in Threads, NEW new,
           th' = [th EXCEPT ![t] = new], UNCHANGED <<tracked, lhd_list>>,
           th[t].pc \notin Locked, new.pc \notin Locked,
           new.pc = "accessed" => new.f \in Folios
    PROVE  Relations'
<1>1. \A u \in Threads : th[u].pc \in Locked => th[u].f # NoFolio
    BY LHDAssumption DEF Relations, HookInv
<1>2. NoFolio \notin tracked
    BY LHDAssumption DEF TypeOK
<1>3. new.pc # "add_meta" /\ new.pc \notin EvictedLabels
    BY DEF Locked, AddLabels
<1>4. Owns(t, NoFolio, new)
    BY <1>1, <1>2, <1>3 DEF Owns
<1> QED
    BY <1>4, LockedStep

\* The folio lock is free: nobody else is in a hook with this folio.
LEMMA NotLocking ==
    ASSUME TypeOK, Relations, NEW f \in Folios, ~Locking(f)
    PROVE  /\ \A u \in Threads : th[u].pc \in Locked => th[u].f # f
           /\ f \in tracked => f \in lhd_list
<1>1. \A u \in Threads : th[u].pc \in Locked => th[u].f # f
    BY DEF Locking, Locked
<1>2. f \in tracked /\ f \notin lhd_list =>
         \E u \in Threads : th[u].pc \in EvictedLabels /\ th[u].f = f
    BY DEF Relations, TrackedIsListed, ThreadsAt
<1> QED
    BY <1>1, <1>2 DEF Locked

LEMMA HoldsLock ==
    ASSUME Relations, NEW t \in Threads, th[t].pc \in Locked
    PROVE  /\ th[t].f \in Folios
           /\ \A u \in Threads : u # t /\ th[u].pc \in Locked => th[u].f # th[t].f
BY DEF Relations, HookInv, Exclusive

\* A step of a thread that holds the lock.
LEMMA HoldingStep ==
    ASSUME TypeOK, Relations, NEW t \in Threads, NEW new,
           th' = [th EXCEPT ![t] = new], th[t].pc \in Locked,
           tracked' \ {th[t].f} = tracked \ {th[t].f},
           lhd_list' \ {th[t].f} = lhd_list \ {th[t].f},
           new.pc \notin {"accessed", "add_meta"},
           new.pc \in Locked => new.f = th[t].f,
           new.pc \in EvictedLabels => th[t].f \in tracked',
           th[t].f \in tracked' => th[t].f \in lhd_list' \/ new.pc \in EvictedLabels
    PROVE  Relations'
<1>1. /\ th[t].f \in Folios
      /\ \A u \in Threads : u # t /\ th[u].pc \in Locked => th[u].f # th[t].f
    BY HoldsLock
<1>2. new.pc \in Locked \cup {"accessed"} => new.f \in Folios
    BY <1>1
<1>3. Owns(t, th[t].f, new)
    BY <1>1, <1>2 DEF Owns
<1> QED
    BY <1>3, LockedStep

-----------------------------------------------------------------------------
(* The object count and the countdown *)

Uncounted == {"add_clock", "add_count", "forget"}

\* A step that neither enters nor leaves an update of the count.
LEMMA CountKept ==
    ASSUME TypeOK, NumObjectsConserved, NEW t \in Threads, NEW new,
           th' = [th EXCEPT ![t] = new], UNCHANGED <<tracked, num_objects>>,
           th[t].pc \in Uncounted <=> new.pc \in Uncounted
    PROVE  NumObjectsConserved'
<1>1. ThreadsAt(Uncounted)' = ThreadsAt(Uncounted)
  <2>1. t \in ThreadsAt(Uncounted) <=> th[t].pc \in Uncounted
      BY DEF ThreadsAt
  <2>2. th'[t] = new /\ \A u \in Threads : u # t => th'[u] = th[u]
      BY ThreadStep
  <2> QED
      BY <2>1, <2>2 DEF ThreadsAt, Uncounted
<1> QED
    BY <1>1 DEF NumObjectsConserved, Uncounted

\* A step that enters or leaves one, with the change of count or entries that
\* belongs to it.
LEMMA CountMoved ==
    ASSUME TypeOK, NumObjectsConserved, NEW t \in Threads, NEW new,
           th' = [th EXCEPT ![t] = new],
           \/ /\ th[t].pc \notin Uncounted /\ new.pc \in Uncounted
              /\ num_objects' - Cardinality(tracked') =
                    num_objects - Cardinality(tracked) - 1
           \/ /\ th[t].pc \in Uncounted /\ new.pc \notin Uncounted
              /\ num_objects' - Cardinality(tracked') =
                    num_objects - Cardinality(tracked) + 1,
           num_objects' \in Int, Cardinality(tracked') \in Nat
    PROVE  NumObjectsConserved'
<1> DEFINE U == ThreadsAt(Uncounted)
<1>1. IsFiniteSet(U) /\ Cardinality(U) \in Nat
    BY ThreadsAtFinite
<1>2. t \in U <=> th[t].pc \in Uncounted
    BY DEF ThreadsAt
<1>3. /\ new.pc \in Uncounted => U' = U \cup {t}
      /\ new.pc \notin Uncounted => U' = U \ {t}
  <2>1. th'[t] = new /\ \A u \in Threads : u # t => th'[u] = th[u]
      BY ThreadStep
  <2>2. U = {u \in Threads : th[u].pc \in Uncounted}
      BY DEF ThreadsAt
  <2>3. U' = {u \in Threads : th'[u].pc \in Uncounted}
      BY DEF ThreadsAt, Uncounted
  <2> HIDE DEF U
  <2>4. new.pc \in Uncounted => U' = U \cup {t}
      BY <2>1, <2>2, <2>3
  <2>5. new.pc \notin Uncounted => U' = U \ {t}
      BY <2>1, <2>2, <2>3
  <2> QED
      BY <2>4, <2>5, Zenon
<1>4. Cardinality(tracked) \in Nat /\ num_objects \in Int
    BY TrackedFinite DEF TypeOK
<1>5. num_objects = Cardinality(tracked) - Cardinality(U)
    BY DEF NumObjectsConserved, Uncounted
<1> HIDE DEF U
<1>6. t \notin U => Cardinality(U \cup {t}) = Cardinality(U) + 1
    BY <1>1, FS_AddElement
<1>7. t \in U => Cardinality(U \ {t}) = Cardinality(U) - 1
    BY <1>1, FS_RemoveElement
<1>8. num_objects' = Cardinality(tracked') - Cardinality(U')
  <2>1. CASE th[t].pc \notin Uncounted /\ new.pc \in Uncounted
      BY <1>1, <1>2, <1>3, <1>4, <1>5, <1>6, <2>1
  <2>2. CASE th[t].pc \in Uncounted /\ new.pc \notin Uncounted
    <3>1. U' = U \ {t} /\ Cardinality(U \ {t}) = Cardinality(U) - 1
        BY <1>2, <1>3, <1>7, <2>2
    <3>2. num_objects' - Cardinality(tracked') = num_objects - Cardinality(tracked) + 1
        BY <2>2
    <3>3. Cardinality(U') = Cardinality(U) - 1
        BY <3>1
    <3> QED
        BY <1>1, <1>4, <1>5, <3>2, <3>3
  <2> QED
      BY <2>1, <2>2
<1> QED
    BY <1>8 DEF U, NumObjectsConserved, Uncounted

\* A step that is not about the countdown.
LEMMA CountdownKept ==
    ASSUME TypeOK, CountdownAlive, NEW t \in Threads, NEW new,
           th' = [th EXCEPT ![t] = new], UNCHANGED next_reconfiguration,
           th[t].pc # "reset", new.pc # "reset"
    PROVE  CountdownAlive'
<1>1. ThreadsAt({"reset"})' = ThreadsAt({"reset"})
  <2>1. t \notin ThreadsAt({"reset"})
      BY DEF ThreadsAt
  <2>2. th'[t] = new /\ \A u \in Threads : u # t => th'[u] = th[u]
      BY ThreadStep
  <2> QED
      BY <2>1, <2>2 DEF ThreadsAt
<1> QED
    BY <1>1 DEF CountdownAlive

\* The decrement that reaches zero starts from one, and then nobody is at the
\* reset; while somebody is, the countdown is not positive and goes past zero.
LEMMA CountDownAliveStep ==
    ASSUME TypeOK, CountdownAlive, NEW t \in Threads, CountDown(t)
    PROVE  CountdownAlive'
<1> DEFINE R == ThreadsAt({"reset"})
           reset == [Idle EXCEPT !.pc = "reset"]
<1>1. /\ next_reconfiguration' = next_reconfiguration - 1
      /\ next_reconfiguration' = 0 => th' = [th EXCEPT ![t] = reset]
      /\ next_reconfiguration' # 0 => th' = [th EXCEPT ![t] = Idle]
      /\ th[t].pc = "count_down"
    BY DEF CountDown, EndsRound, Goto, Return, At
<1>2. reset.pc = "reset" /\ Idle.pc = "idle"
    BY DEF Idle
<1>3. t \notin R
    BY <1>1 DEF ThreadsAt
<1>4. next_reconfiguration \in Int /\ REQS_PER_RECONFIG \in Nat
    BY LHDAssumption DEF TypeOK
<1> HIDE DEF reset
<1>5. /\ next_reconfiguration' = 0 => R' = R \cup {t}
      /\ next_reconfiguration' # 0 => R' = R
  <2>1. CASE next_reconfiguration' = 0
    <3>1. th'[t] = reset /\ \A u \in Threads : u # t => th'[u] = th[u]
        BY <1>1, <2>1, ThreadStep
    <3> QED
        BY <1>2, <2>1, <3>1 DEF ThreadsAt
  <2>2. CASE next_reconfiguration' # 0
    <3>1. th'[t] = Idle /\ \A u \in Threads : u # t => th'[u] = th[u]
        BY <1>1, <2>2, ThreadStep
    <3> QED
        BY <1>2, <1>3, <2>2, <3>1 DEF ThreadsAt
  <2> QED
      BY <2>1, <2>2
<1>6. CASE R = {}
  <2>1. next_reconfiguration \in 1 .. REQS_PER_RECONFIG
      BY <1>6 DEF CountdownAlive
  <2>2. CASE next_reconfiguration' = 0
      BY <1>5, <1>6, <2>2 DEF CountdownAlive
  <2>3. CASE next_reconfiguration' # 0
    <3>1. R' = {} /\ next_reconfiguration' \in 1 .. REQS_PER_RECONFIG
        BY <1>1, <1>4, <1>5, <1>6, <2>1, <2>3
    <3> QED
        BY <3>1 DEF CountdownAlive
  <2> QED
      BY <2>2, <2>3
<1>7. CASE R # {}
  <2>1. next_reconfiguration <= 0 /\ \A u, v \in R : u = v
      BY <1>7 DEF CountdownAlive
  <2>2. next_reconfiguration' <= 0 /\ next_reconfiguration' # 0
      BY <1>1, <1>4, <2>1
  <2> QED
      BY <1>5, <1>7, <2>1, <2>2 DEF CountdownAlive
<1> QED
    BY <1>6, <1>7

LEMMA ResetAliveStep ==
    ASSUME TypeOK, CountdownAlive, NEW t \in Threads, Reset(t)
    PROVE  CountdownAlive'
<1> DEFINE R == ThreadsAt({"reset"})
           new == [Idle EXCEPT !.pc = "round_read"]
<1>1. /\ next_reconfiguration' = REQS_PER_RECONFIG
      /\ th' = [th EXCEPT ![t] = new] /\ th[t].pc = "reset"
    BY DEF Reset, Goto, At
<1>2. new.pc = "round_read"
    BY DEF Idle
<1> HIDE DEF new
<1>3. R' = R \ {t} /\ t \in R
  <2>1. th'[t] = new /\ \A u \in Threads : u # t => th'[u] = th[u]
      BY <1>1, ThreadStep
  <2> QED
      BY <1>1, <1>2, <2>1 DEF ThreadsAt
<1>4. \A u, v \in R : u = v
    BY <1>3 DEF CountdownAlive
<1>5. R' = {} /\ next_reconfiguration' \in 1 .. REQS_PER_RECONFIG
    BY <1>1, <1>3, <1>4, LHDAssumption
<1> QED
    BY <1>5 DEF CountdownAlive

-----------------------------------------------------------------------------
(* Steps *)

LEMMA InitIndInv == Init => IndInv
<1> SUFFICES ASSUME Init PROVE IndInv
    OBVIOUS
<1>1. \A t \in Threads : th[t] = Idle /\ th[t].pc = "idle"
    BY NewStates DEF Init
<1>2. /\ MAX_AGE \in Nat \ {0} /\ REQS_PER_RECONFIG \in Nat \ {0} /\ RingSize \in Nat
      /\ Initial \in Coarsenings
    BY LHDAssumption
<1>3. TypeOK
  <2>1. /\ cached = {} /\ watched = TRUE /\ lhd_list = {} /\ tracked = {}
        /\ last_access_time \in [Folios -> Nat] /\ timestamp = 0 /\ num_objects = 0
        /\ next_reconfiguration = REQS_PER_RECONFIG /\ num_reconfigurations = 0
        /\ coarsening = Initial /\ events = 0 /\ loader = "poll" /\ lost = 0 /\ due = FALSE
      BY DEF Init
  <2>2. th \in [Threads -> ThreadStates]
      BY NewStates DEF Init
  <2>3. watched \in BOOLEAN /\ due \in BOOLEAN
      BY <2>1
  <2>4. /\ cached \subseteq Folios /\ lhd_list \subseteq cached /\ tracked \subseteq Folios
        /\ coarsening \in Coarsenings /\ loader \in {"poll", "adapt", "model"}
      BY <1>2, <2>1
  <2>5. /\ timestamp \in Nat /\ num_objects \in Int /\ next_reconfiguration \in Int
        /\ num_reconfigurations \in Nat /\ events \in 0 .. RingSize /\ lost \in Nat
      BY <1>2, <2>1
  <2>6. \A t \in Threads : th[t].pc \in {"hit", "uncount"} => th[t].n < MAX_AGE
      BY <1>1
  <2> QED
      BY <2>1, <2>2, <2>3, <2>4, <2>5, <2>6, Zenon DEF TypeOK
<1>4. LoaderInv
    BY DEF Init, LoaderInv
<1>5. Relations
    BY <1>1 DEF Init, Relations, HookInv, Exclusive, TrackedIsListed, Locked, AddLabels,
                EvictedLabels
<1>6. NumObjectsConserved
  <2>1. ThreadsAt({"add_clock", "add_count", "forget"}) = {} /\ tracked = {} /\ num_objects = 0
      BY <1>1 DEF ThreadsAt, Init
  <2>2. Cardinality({}) = 0
      BY FS_EmptySet
  <2> QED
      BY <2>1, <2>2 DEF NumObjectsConserved
<1>7. CountdownAlive
    BY <1>1, <1>2 DEF Init, CountdownAlive, ThreadsAt
<1> QED
    BY <1>3, <1>4, <1>5, <1>6, <1>7 DEF IndInv

\* Steps that change nothing a hook's relations speak of.
LEMMA SameThreads ==
    ASSUME IndInv, UNCHANGED <<lhd_list, tracked, num_objects, next_reconfiguration, th>>
    PROVE  Relations' /\ NumObjectsConserved' /\ CountdownAlive'
BY DEF IndInv, Relations, HookInv, Exclusive, TrackedIsListed, NumObjectsConserved,
       CountdownAlive, ThreadsAt, Locked, AddLabels, EvictedLabels

LEMMA EnvironmentStep ==
    ASSUME IndInv, ChangeWatchlist \/ Loader \/ UNCHANGED vars
    PROVE  IndInv'
<1>1. /\ UNCHANGED <<cached, lhd_list, tracked, last_access_time, timestamp, num_objects,
                     next_reconfiguration, num_reconfigurations, th, lost>>
      /\ watched' \in BOOLEAN
    BY DEF ChangeWatchlist, Loader, Reconfigure, AdaptAgeCoarsening, ModelHitDensity, vars,
           kernel, metadata, rounds, IndInv, TypeOK
<1>2. /\ events \in 0 .. RingSize /\ loader \in {"poll", "adapt", "model"}
      /\ loader # "poll" => events > 0
      /\ coarsening \in Coarsenings /\ due \in BOOLEAN /\ RingSize \in Nat
    BY LHDAssumption DEF IndInv, TypeOK, LoaderInv
<1>3. /\ events' \in 0 .. RingSize /\ loader' \in {"poll", "adapt", "model"}
      /\ loader' # "poll" => events' > 0
      /\ coarsening' \in Coarsenings /\ due' \in BOOLEAN
  <2>1. CASE ChangeWatchlist \/ UNCHANGED vars
      BY <1>2, <2>1 DEF ChangeWatchlist, vars, rounds, reconfiguring
  <2>2. CASE Reconfigure
      BY <1>2, <2>2 DEF Reconfigure
  <2>3. CASE AdaptAgeCoarsening
      BY <1>2, <2>3 DEF AdaptAgeCoarsening, rounds
  <2>4. CASE ModelHitDensity
      BY <1>2, <2>4 DEF ModelHitDensity, rounds
  <2> QED
      BY <2>1, <2>2, <2>3, <2>4 DEF Loader
<1>4. TypeOK' /\ LoaderInv'
    BY <1>1, <1>3 DEF IndInv, TypeOK, LoaderInv
<1> QED
    BY <1>1, <1>4, SameThreads DEF IndInv

-----------------------------------------------------------------------------
(* The steps of hooks *)

LEMMA ThreadType ==
    ASSUME TypeOK, NEW t \in Threads, NEW new \in ThreadStates,
           th' = [th EXCEPT ![t] = new],
           new.pc \in {"hit", "uncount"} => new.n < MAX_AGE
    PROVE  /\ th' \in [Threads -> ThreadStates]
           /\ \A u \in Threads : th'[u].pc \in {"hit", "uncount"} => th'[u].n < MAX_AGE
<1>1. th \in [Threads -> ThreadStates]
    BY DEF TypeOK
<1>2. th'[t] = new /\ \A u \in Threads : u # t => th'[u] = th[u]
    BY ThreadStep
<1>3. \A u \in Threads : th[u].pc \in {"hit", "uncount"} => th[u].n < MAX_AGE
    BY DEF TypeOK
<1> QED
    BY <1>1, <1>2, <1>3

\* A step outside the folio lock that changes no list, entry or count.
LEMMA OutsideStep ==
    ASSUME IndInv, NEW t \in Threads, NEW new, th' = [th EXCEPT ![t] = new],
           UNCHANGED <<tracked, lhd_list, num_objects>>,
           th[t].pc \notin Locked, new.pc \notin Locked,
           new.pc = "accessed" => new.f \in Folios
    PROVE  Relations' /\ NumObjectsConserved'
<1>1. th[t].pc \notin Uncounted /\ new.pc \notin Uncounted
    BY DEF Uncounted, Locked, AddLabels, EvictedLabels
<1> QED
    BY <1>1, UnlockedStep, CountKept DEF IndInv

LEMMA CountDownStep ==
    ASSUME IndInv, NEW t \in Threads, CountDown(t)
    PROVE  IndInv'
<1>1. PICK new \in {Idle, [Idle EXCEPT !.pc = "reset"]} : th' = [th EXCEPT ![t] = new]
    BY DEF CountDown, Goto, Return
<1>2. new \in ThreadStates /\ new.pc \in {"idle", "reset"}
    BY DEF Idle, ThreadStates, Labels
<1>3. th[t].pc = "count_down" /\ next_reconfiguration' = next_reconfiguration - 1
    BY DEF CountDown, At
<1>4. UNCHANGED <<cached, watched, lhd_list, tracked, last_access_time, timestamp,
                  num_objects, num_reconfigurations, due, coarsening, events, loader, lost>>
    BY DEF CountDown, kernel, metadata, reconfiguring
<1>5. TypeOK' /\ LoaderInv'
    BY <1>1, <1>2, <1>3, <1>4, ThreadType DEF IndInv, TypeOK, LoaderInv
<1>6. Relations' /\ NumObjectsConserved'
    BY <1>1, <1>2, <1>3, <1>4, OutsideStep DEF Locked, AddLabels, EvictedLabels
<1>7. CountdownAlive'
    BY CountDownAliveStep DEF IndInv
<1> QED
    BY <1>5, <1>6, <1>7 DEF IndInv

LEMMA ResetStep ==
    ASSUME IndInv, NEW t \in Threads, Reset(t)
    PROVE  IndInv'
<1> DEFINE new == [Idle EXCEPT !.pc = "round_read"]
<1>1. th' = [th EXCEPT ![t] = new] /\ th[t].pc = "reset"
    BY DEF Reset, Goto, At
<1>2. new \in ThreadStates /\ new.pc = "round_read"
    BY DEF Idle, ThreadStates, Labels
<1>3. next_reconfiguration' \in Int /\ due' \in BOOLEAN
    BY LHDAssumption DEF Reset
<1>4. UNCHANGED <<cached, watched, lhd_list, tracked, last_access_time, timestamp,
                  num_objects, num_reconfigurations, coarsening, events, loader, lost>>
    BY DEF Reset, kernel, metadata, reconfiguring
<1> HIDE DEF new
<1>5. TypeOK' /\ LoaderInv'
    BY <1>1, <1>2, <1>3, <1>4, ThreadType DEF IndInv, TypeOK, LoaderInv
<1>6. Relations' /\ NumObjectsConserved'
    BY <1>1, <1>2, <1>4, OutsideStep DEF Locked, AddLabels, EvictedLabels
<1>7. CountdownAlive'
    BY ResetAliveStep DEF IndInv
<1> QED
    BY <1>5, <1>6, <1>7 DEF IndInv

LEMMA RoundReadStep ==
    ASSUME IndInv, NEW t \in Threads, RoundRead(t)
    PROVE  IndInv'
<1> DEFINE new == [Idle EXCEPT !.pc = "round_write", !.n = num_reconfigurations]
<1>1. th' = [th EXCEPT ![t] = new] /\ th[t].pc = "round_read"
    BY DEF RoundRead, Goto, At
<1>2. new \in ThreadStates /\ new.pc = "round_write"
    BY DEF Idle, ThreadStates, Labels, IndInv, TypeOK
<1>3. UNCHANGED <<cached, watched, lhd_list, tracked, last_access_time, timestamp,
                  num_objects, next_reconfiguration, num_reconfigurations, due, coarsening,
                  events, loader, lost>>
    BY DEF RoundRead, kernel, metadata, rounds, reconfiguring
<1> HIDE DEF new
<1>4. TypeOK' /\ LoaderInv'
    BY <1>1, <1>2, <1>3, ThreadType DEF IndInv, TypeOK, LoaderInv
<1>5. Relations' /\ NumObjectsConserved'
    BY <1>1, <1>2, <1>3, OutsideStep DEF Locked, AddLabels, EvictedLabels
<1>6. CountdownAlive'
    BY <1>1, <1>2, <1>3, CountdownKept DEF IndInv
<1> QED
    BY <1>4, <1>5, <1>6 DEF IndInv

LEMMA RoundWriteStep ==
    ASSUME IndInv, NEW t \in Threads, RoundWrite(t)
    PROVE  IndInv'
<1> DEFINE new == [Idle EXCEPT !.pc = "submit"]
<1>1. th' = [th EXCEPT ![t] = new] /\ th[t].pc = "round_write"
    BY DEF RoundWrite, Goto, At
<1>2. new \in ThreadStates /\ new.pc = "submit"
    BY DEF Idle, ThreadStates, Labels
<1>3. num_reconfigurations' \in Nat
    BY DEF RoundWrite, IndInv, TypeOK, ThreadStates
<1>4. UNCHANGED <<cached, watched, lhd_list, tracked, last_access_time, timestamp,
                  num_objects, next_reconfiguration, due, coarsening, events, loader, lost>>
    BY DEF RoundWrite, kernel, metadata, reconfiguring
<1> HIDE DEF new
<1>5. TypeOK' /\ LoaderInv'
    BY <1>1, <1>2, <1>3, <1>4, ThreadType DEF IndInv, TypeOK, LoaderInv
<1>6. Relations' /\ NumObjectsConserved'
    BY <1>1, <1>2, <1>4, OutsideStep DEF Locked, AddLabels, EvictedLabels
<1>7. CountdownAlive'
    BY <1>1, <1>2, <1>4, CountdownKept DEF IndInv
<1> QED
    BY <1>5, <1>6, <1>7 DEF IndInv

LEMMA SubmitStep ==
    ASSUME IndInv, NEW t \in Threads, Submit(t)
    PROVE  IndInv'
<1>1. th' = [th EXCEPT ![t] = Idle] /\ th[t].pc = "submit"
    BY DEF Submit, Return, At
<1>2. Idle \in ThreadStates /\ Idle.pc = "idle"
    BY NewStates
<1>3. events' \in 0 .. RingSize /\ events' >= events
    BY LHDAssumption DEF Submit, EventsAfterSubmit, IndInv, TypeOK
<1>4. UNCHANGED <<cached, watched, lhd_list, tracked, last_access_time, timestamp,
                  num_objects, next_reconfiguration, num_reconfigurations, due, coarsening,
                  loader, lost>>
    BY DEF Submit, kernel, metadata, rounds
<1>5. TypeOK'
    BY <1>1, <1>2, <1>3, <1>4, ThreadType DEF IndInv, TypeOK
<1>6. LoaderInv'
    BY <1>3, <1>4, LHDAssumption DEF IndInv, TypeOK, LoaderInv
<1>7. Relations' /\ NumObjectsConserved'
    BY <1>1, <1>2, <1>4, OutsideStep DEF Locked, AddLabels, EvictedLabels
<1>8. CountdownAlive'
    BY <1>1, <1>2, <1>4, CountdownKept DEF IndInv
<1> QED
    BY <1>5, <1>6, <1>7, <1>8 DEF IndInv

LEMMA FolioAccessedStep ==
    ASSUME IndInv, NEW t \in Threads, NEW f \in Folios, FolioAccessed(t, f)
    PROVE  IndInv'
<1> DEFINE new == [Idle EXCEPT !.pc = "accessed", !.f = f, !.ts = timestamp]
<1>1. th' = [th EXCEPT ![t] = new] /\ th[t].pc = "idle"
    BY DEF FolioAccessed, Goto, At
<1>2. new \in ThreadStates /\ new.pc = "accessed" /\ new.f = f
    BY DEF Idle, ThreadStates, Labels, IndInv, TypeOK
<1>3. UNCHANGED <<cached, watched, lhd_list, tracked, last_access_time, timestamp,
                  num_objects, next_reconfiguration, num_reconfigurations, due, coarsening,
                  events, loader, lost>>
    BY DEF FolioAccessed, kernel, metadata, rounds, reconfiguring
<1> HIDE DEF new
<1>4. TypeOK' /\ LoaderInv'
    BY <1>1, <1>2, <1>3, ThreadType DEF IndInv, TypeOK, LoaderInv
<1>5. Relations' /\ NumObjectsConserved'
    BY <1>1, <1>2, <1>3, OutsideStep DEF Locked, AddLabels, EvictedLabels
<1>6. CountdownAlive'
    BY <1>1, <1>2, <1>3, CountdownKept DEF IndInv
<1> QED
    BY <1>4, <1>5, <1>6 DEF IndInv

LEMMA AccessedMetaStep ==
    ASSUME IndInv, NEW t \in Threads, AccessedMeta(t)
    PROVE  IndInv'
<1>1. /\ th[t].pc = "accessed"
      /\ UNCHANGED <<cached, watched, lhd_list, tracked, timestamp, num_objects,
                     next_reconfiguration, num_reconfigurations, due, coarsening, events,
                     loader, lost>>
    BY DEF AccessedMeta, At, kernel, rounds, reconfiguring
<1>2. PICK g \in Folios \cup {NoFolio} :
         /\ last_access_time' = [f \in Folios |-> IF f = g THEN timestamp
                                                          ELSE last_access_time[f]]
         /\ \E age \in IF g = NoFolio THEN 0 .. MAX_AGE - 1 ELSE {Age(th[t].ts, g)} :
                th' = [th EXCEPT ![t] = [Idle EXCEPT !.pc = "hit", !.n = age]]
  <2>1. th[t].f \in Folios /\ tracked \subseteq Folios
      BY <1>1 DEF IndInv, Relations, HookInv, TypeOK
  <2> QED
      BY <2>1 DEF AccessedMeta, Goto
<1>3. last_access_time' \in [Folios -> Nat]
    BY <1>2 DEF IndInv, TypeOK
<1>4. PICK age \in Nat : /\ age < MAX_AGE
                         /\ th' = [th EXCEPT ![t] = [Idle EXCEPT !.pc = "hit", !.n = age]]
  <2>1. CASE g = NoFolio
    <3>1. \E age \in 0 .. MAX_AGE - 1 :
             th' = [th EXCEPT ![t] = [Idle EXCEPT !.pc = "hit", !.n = age]]
        BY <1>2, <2>1
    <3>2. \A age \in 0 .. MAX_AGE - 1 : age \in Nat /\ age < MAX_AGE
        BY LHDAssumption
    <3> QED
        BY <3>1, <3>2
  <2>2. CASE g # NoFolio
    <3>1. g \in Folios /\ th[t].ts \in Nat
        BY <2>2 DEF IndInv, TypeOK, ThreadStates
    <3>2. Age(th[t].ts, g) \in Nat /\ Age(th[t].ts, g) < MAX_AGE
        BY <3>1, AgeRange DEF IndInv
    <3> QED
        BY <1>2, <2>2, <3>2
  <2> QED
      BY <2>1, <2>2
<1> DEFINE new == [Idle EXCEPT !.pc = "hit", !.n = age]
<1>5. new \in ThreadStates /\ new.pc = "hit" /\ new.n = age
    BY DEF Idle, ThreadStates, Labels
<1> HIDE DEF new
<1>6. th' = [th EXCEPT ![t] = new]
    BY <1>4 DEF new
<1>7. TypeOK' /\ LoaderInv'
    BY <1>1, <1>3, <1>4, <1>5, <1>6, ThreadType DEF IndInv, TypeOK, LoaderInv
<1>8. Relations' /\ NumObjectsConserved'
    BY <1>1, <1>5, <1>6, OutsideStep DEF Locked, AddLabels, EvictedLabels
<1>9. CountdownAlive'
    BY <1>1, <1>5, <1>6, CountdownKept DEF IndInv
<1> QED
    BY <1>7, <1>8, <1>9 DEF IndInv

LEMMA AccessedClockStep ==
    ASSUME IndInv, NEW t \in Threads, AccessedClock(t)
    PROVE  IndInv'
<1> DEFINE new == [Idle EXCEPT !.pc = "count_down"]
<1>1. /\ th' = [th EXCEPT ![t] = new] /\ th[t].pc = "hit"
      /\ timestamp' = timestamp + 1
    BY DEF AccessedClock, Goto, At
<1>2. new \in ThreadStates /\ new.pc = "count_down"
    BY DEF Idle, ThreadStates, Labels
<1>3. UNCHANGED <<cached, watched, lhd_list, tracked, last_access_time, num_objects,
                  next_reconfiguration, num_reconfigurations, due, coarsening, events,
                  loader, lost>>
    BY DEF AccessedClock, kernel, metadata, rounds, reconfiguring
<1> HIDE DEF new
<1>4. TypeOK' /\ LoaderInv'
    BY <1>1, <1>2, <1>3, ThreadType DEF IndInv, TypeOK, LoaderInv
<1>5. Relations' /\ NumObjectsConserved'
    BY <1>1, <1>2, <1>3, OutsideStep DEF Locked, AddLabels, EvictedLabels
<1>6. CountdownAlive'
    BY <1>1, <1>2, <1>3, CountdownKept DEF IndInv
<1> QED
    BY <1>4, <1>5, <1>6 DEF IndInv

\* The folio a thread is adding is listed once it has metadata, because nobody
\* else holds its lock.
LEMMA AddedIsListed ==
    ASSUME Relations, NEW t \in Threads, th[t].pc \in AddLabels, th[t].f \in tracked
    PROVE  th[t].f \in lhd_list
<1>1. ASSUME NEW u \in ThreadsAt(EvictedLabels), th[u].f = th[t].f PROVE FALSE
  <2>1. u \in Threads /\ th[u].pc \in EvictedLabels
      BY <1>1 DEF ThreadsAt
  <2>2. u # t
      BY <2>1 DEF AddLabels, EvictedLabels
  <2> QED
      BY <1>1, <2>1, <2>2 DEF Relations, Exclusive, Locked
<1> QED
    BY <1>1 DEF Relations, TrackedIsListed

LEMMA FolioAddedStep ==
    ASSUME IndInv, NEW t \in Threads, NEW f \in Folios, FolioAdded(t, f)
    PROVE  IndInv'
<1>1. /\ th[t].pc = "idle" /\ ~Locking(f) /\ f \notin cached
      /\ cached' = cached \cup {f}
      /\ UNCHANGED <<watched, tracked, last_access_time, timestamp, num_objects,
                     next_reconfiguration, num_reconfigurations, due, coarsening, events,
                     loader>>
    BY DEF FolioAdded, At, metadata, rounds, reconfiguring
<1>2. CASE UNCHANGED <<lhd_list, th>> /\ lost' \in Nat
  <2>1. TypeOK' /\ LoaderInv'
      BY <1>1, <1>2 DEF IndInv, TypeOK, LoaderInv
  <2> QED
      BY <1>1, <1>2, <2>1, SameThreads DEF IndInv
<1> DEFINE new == [Idle EXCEPT !.pc = "add_meta", !.f = f, !.ts = timestamp]
<1>3. CASE /\ lhd_list' = lhd_list \cup {f} /\ lost' = lost
           /\ th' = [th EXCEPT ![t] = new]
  <2>1. new \in ThreadStates /\ new.pc = "add_meta" /\ new.f = f
      BY DEF Idle, ThreadStates, Labels, IndInv, TypeOK
  <2> HIDE DEF new
  <2>2. TypeOK' /\ LoaderInv'
      BY <1>1, <1>3, <2>1, ThreadType DEF IndInv, TypeOK, LoaderInv
  <2>3. /\ \A u \in Threads : th[u].pc \in Locked => th[u].f # f
        /\ f \notin tracked
      BY <1>1, NotLocking DEF IndInv, TypeOK
  <2>4. /\ th[t].pc \notin Locked /\ new.pc \in Locked /\ new.pc \notin EvictedLabels
        /\ th[t].pc \notin Uncounted /\ new.pc \notin Uncounted
      BY <1>1, <2>1 DEF Locked, AddLabels, EvictedLabels, Uncounted
  <2>5. Relations'
    <3>1. tracked' \ {f} = tracked \ {f} /\ lhd_list' \ {f} = lhd_list \ {f}
        BY <1>1, <1>3
    <3>2. f \in lhd_list' /\ f \notin tracked'
        BY <1>1, <1>3, <2>3
    <3>3. /\ new.pc \in Locked \cup {"accessed"} => new.f \in Folios
          /\ th[t].pc \in Locked => th[t].f = f
          /\ new.pc \in EvictedLabels => f \in tracked'
        BY <2>1, <2>4
    <3>4. Owns(t, f, new)
        BY <1>3, <2>1, <2>3, <3>1, <3>2, <3>3 DEF Owns
    <3> QED
        BY <3>4, LockedStep DEF IndInv
  <2>6. NumObjectsConserved' /\ CountdownAlive'
      BY <1>1, <1>3, <2>1, <2>4, CountKept, CountdownKept DEF IndInv
  <2> QED
      BY <2>2, <2>5, <2>6 DEF IndInv
<1>4. lost \in Nat
    BY DEF IndInv, TypeOK
<1> QED
    BY <1>2, <1>3, <1>4 DEF FolioAdded, Goto

LEMMA FolioAddedMetaStep ==
    ASSUME IndInv, NEW t \in Threads, FolioAddedMeta(t)
    PROVE  IndInv'
<1> DEFINE f == th[t].f
<1>1. /\ th[t].pc = "add_meta"
      /\ UNCHANGED <<cached, watched, timestamp, num_objects, next_reconfiguration,
                     num_reconfigurations, due, coarsening, events, loader>>
    BY DEF FolioAddedMeta, At, kernel, rounds, reconfiguring
<1>2. /\ f \in Folios /\ f \in lhd_list /\ f \notin tracked /\ th[t].ts \in Nat
      /\ \A u \in Threads : u # t /\ th[u].pc \in Locked => th[u].f # f
    BY <1>1, HoldsLock DEF IndInv, Relations, HookInv, Locked, AddLabels, TypeOK, ThreadStates
<1> DEFINE new == [Idle EXCEPT !.pc = "add_clock", !.f = f]
<1>3. CASE /\ tracked' = tracked \cup {f}
           /\ last_access_time' = [last_access_time EXCEPT ![f] = th[t].ts]
           /\ th' = [th EXCEPT ![t] = new]
           /\ UNCHANGED <<lhd_list, lost>>
  <2>1. new \in ThreadStates /\ new.pc = "add_clock" /\ new.f = f
      BY <1>2 DEF Idle, ThreadStates, Labels
  <2> HIDE DEF new, f
  <2>2. TypeOK' /\ LoaderInv'
      BY <1>1, <1>2, <1>3, <2>1, ThreadType DEF IndInv, TypeOK, LoaderInv
  <2>3. /\ new.pc \in Locked /\ new.pc \notin EvictedLabels
        /\ th[t].pc \notin Uncounted /\ new.pc \in Uncounted
      BY <1>1, <2>1 DEF Locked, AddLabels, EvictedLabels, Uncounted
  <2>4. Relations'
    <3>1. tracked' \ {f} = tracked \ {f} /\ lhd_list' \ {f} = lhd_list \ {f}
        BY <1>3
    <3>2. f \in lhd_list'
        BY <1>2, <1>3
    <3>3. th[t].f = f
        BY DEF f
    <3> QED
        BY <1>1, <1>2, <1>3, <2>1, <2>3, <3>1, <3>2, <3>3, HoldingStep
           DEF IndInv, Locked, AddLabels
  <2>5. NumObjectsConserved'
    <3>1. /\ Cardinality(tracked) \in Nat /\ Cardinality(tracked') = Cardinality(tracked) + 1
        BY <1>2, <1>3, TrackedFinite, FS_AddElement DEF IndInv
    <3>2. num_objects \in Int /\ num_objects' = num_objects
        BY <1>1 DEF IndInv, TypeOK
    <3>3. /\ num_objects' - Cardinality(tracked') = num_objects - Cardinality(tracked) - 1
          /\ num_objects' \in Int /\ Cardinality(tracked') \in Nat
        BY <3>1, <3>2
    <3> QED
        BY <1>3, <2>3, <3>1, <3>2, <3>3, CountMoved DEF IndInv
  <2>6. CountdownAlive'
      BY <1>1, <1>3, <2>1, CountdownKept DEF IndInv
  <2> QED
      BY <2>2, <2>4, <2>5, <2>6 DEF IndInv
<1>4. CASE /\ lost' = lost + 1 /\ lhd_list' = lhd_list \ {f}
           /\ th' = [th EXCEPT ![t] = Idle]
           /\ UNCHANGED <<tracked, last_access_time>>
  <2>1. Idle \in ThreadStates /\ Idle.pc = "idle"
      BY NewStates
  <2> HIDE DEF f
  <2>2. TypeOK' /\ LoaderInv'
      BY <1>1, <1>4, <2>1, ThreadType DEF IndInv, TypeOK, LoaderInv
  <2>3. /\ Idle.pc \notin Locked /\ Idle.pc \notin EvictedLabels
        /\ th[t].pc \notin Uncounted /\ Idle.pc \notin Uncounted
      BY <1>1, <2>1 DEF Locked, AddLabels, EvictedLabels, Uncounted
  <2>4. Relations'
    <3>1. tracked' \ {f} = tracked \ {f} /\ lhd_list' \ {f} = lhd_list \ {f}
        BY <1>4
    <3>2. f \notin tracked' /\ th[t].f = f
        BY <1>2, <1>4 DEF f
    <3> QED
        BY <1>1, <1>2, <1>4, <2>1, <2>3, <3>1, <3>2, HoldingStep
           DEF IndInv, Locked, AddLabels
  <2>5. NumObjectsConserved' /\ CountdownAlive'
      BY <1>1, <1>4, <2>1, <2>3, CountKept, CountdownKept DEF IndInv
  <2> QED
      BY <2>2, <2>4, <2>5 DEF IndInv
<1> QED
    BY <1>3, <1>4 DEF FolioAddedMeta, Goto, Return, metadata

LEMMA FolioAddedClockStep ==
    ASSUME IndInv, NEW t \in Threads, FolioAddedClock(t)
    PROVE  IndInv'
<1> DEFINE f == th[t].f
           new == [Idle EXCEPT !.pc = "add_count", !.f = f]
<1>1. /\ th[t].pc = "add_clock" /\ timestamp' = timestamp + 1
      /\ th' = [th EXCEPT ![t] = new]
      /\ UNCHANGED <<cached, watched, lhd_list, tracked, last_access_time, num_objects,
                     next_reconfiguration, num_reconfigurations, due, coarsening, events,
                     loader, lost>>
    BY DEF FolioAddedClock, At, Goto, kernel, metadata, rounds, reconfiguring
<1>2. /\ f \in Folios
      /\ f \in tracked => f \in lhd_list
      /\ \A u \in Threads : u # t /\ th[u].pc \in Locked => th[u].f # f
    BY <1>1, HoldsLock, AddedIsListed DEF IndInv, Locked, AddLabels
<1>4. th[t].f = f
    OBVIOUS
<1> HIDE DEF f
<1>3. new \in ThreadStates /\ new.pc = "add_count" /\ new.f = f
    BY <1>2 DEF Idle, ThreadStates, Labels
<1> HIDE DEF new
<1>5. /\ new.pc \in Locked /\ new.pc \notin EvictedLabels
      /\ th[t].pc \in Uncounted /\ new.pc \in Uncounted
    BY <1>1, <1>3 DEF Locked, AddLabels, EvictedLabels, Uncounted
<1>6. TypeOK' /\ LoaderInv'
    BY <1>1, <1>3, ThreadType DEF IndInv, TypeOK, LoaderInv
<1>7. Relations'
    BY <1>1, <1>2, <1>3, <1>4, <1>5, HoldingStep DEF IndInv, Locked, AddLabels, EvictedLabels
<1>8. NumObjectsConserved' /\ CountdownAlive'
    BY <1>1, <1>3, <1>5, CountKept, CountdownKept DEF IndInv
<1> QED
    BY <1>6, <1>7, <1>8 DEF IndInv

LEMMA FolioAddedCountStep ==
    ASSUME IndInv, NEW t \in Threads, FolioAddedCount(t)
    PROVE  IndInv'
<1> DEFINE f == th[t].f
           new == [Idle EXCEPT !.pc = "count_down"]
<1>1. /\ th[t].pc = "add_count" /\ num_objects' = num_objects + 1
      /\ th' = [th EXCEPT ![t] = new]
      /\ UNCHANGED <<cached, watched, lhd_list, tracked, last_access_time, timestamp,
                     next_reconfiguration, num_reconfigurations, due, coarsening, events,
                     loader, lost>>
    BY DEF FolioAddedCount, At, Goto, kernel, metadata, rounds, reconfiguring
<1>2. /\ f \in tracked => f \in lhd_list
      /\ \A u \in Threads : u # t /\ th[u].pc \in Locked => th[u].f # f
    BY <1>1, HoldsLock, AddedIsListed DEF IndInv, Locked, AddLabels
<1>3. new \in ThreadStates /\ new.pc = "count_down"
    BY DEF Idle, ThreadStates, Labels
<1>4. th[t].f = f
    OBVIOUS
<1> HIDE DEF new, f
<1>5. /\ new.pc \notin Locked \cup {"accessed"} /\ new.pc \notin EvictedLabels
      /\ th[t].pc \in Uncounted /\ new.pc \notin Uncounted
    BY <1>1, <1>3 DEF Locked, AddLabels, EvictedLabels, Uncounted
<1>6. TypeOK' /\ LoaderInv'
    BY <1>1, <1>3, ThreadType DEF IndInv, TypeOK, LoaderInv
<1>7. Relations'
    BY <1>1, <1>2, <1>3, <1>4, <1>5, HoldingStep DEF IndInv, Locked, AddLabels, EvictedLabels
<1>8. NumObjectsConserved'
  <2>1. num_objects \in Int /\ Cardinality(tracked) \in Nat /\ tracked' = tracked
      BY <1>1, TrackedFinite DEF IndInv, TypeOK
  <2>2. /\ num_objects' - Cardinality(tracked') = num_objects - Cardinality(tracked) + 1
        /\ num_objects' \in Int /\ Cardinality(tracked') \in Nat
      BY <1>1, <2>1
  <2> QED
      BY <1>1, <1>5, <2>2, CountMoved DEF IndInv
<1>9. CountdownAlive'
    BY <1>1, <1>3, CountdownKept DEF IndInv
<1> QED
    BY <1>6, <1>7, <1>8, <1>9 DEF IndInv

LEMMA FolioEvictedStep ==
    ASSUME IndInv, NEW t \in Threads, NEW f \in Folios, FolioEvicted(t, f)
    PROVE  IndInv'
<1>1. /\ th[t].pc = "idle" /\ ~Locking(f)
      /\ cached' = cached \ {f} /\ lhd_list' = lhd_list \ {f}
      /\ UNCHANGED <<watched, tracked, last_access_time, timestamp, num_objects,
                     next_reconfiguration, num_reconfigurations, due, coarsening, events,
                     loader, lost>>
    BY DEF FolioEvicted, At, metadata, rounds, reconfiguring
<1>2. \A u \in Threads : th[u].pc \in Locked => th[u].f # f
    BY <1>1, NotLocking DEF IndInv
<1>3. PICK new \in ThreadStates :
         /\ th' = [th EXCEPT ![t] = new]
         /\ \/ f \in tracked /\ new.pc = "evicted" /\ new.f = f
            \/ f \notin tracked /\ new.pc = "idle"
  <2>1. CASE f \in tracked
    <3> DEFINE new == [Idle EXCEPT !.pc = "evicted", !.f = f, !.ts = timestamp]
    <3>1. th' = [th EXCEPT ![t] = new]
        BY <2>1 DEF FolioEvicted, HasMetadata, Goto
    <3>2. new \in ThreadStates /\ new.pc = "evicted" /\ new.f = f
        BY DEF Idle, ThreadStates, Labels, IndInv, TypeOK
    <3> HIDE DEF new
    <3> QED
        BY <2>1, <3>1, <3>2
  <2>2. CASE f \notin tracked
    <3>1. th' = th
        BY <2>2 DEF FolioEvicted, HasMetadata
    <3>2. th[t] \in ThreadStates /\ th' = [th EXCEPT ![t] = th[t]]
        BY <3>1 DEF IndInv, TypeOK
    <3> QED
        BY <1>1, <2>2, <3>2
  <2> QED
      BY <2>1, <2>2
<1>4. /\ th[t].pc \notin Locked
      /\ th[t].pc \notin Uncounted /\ new.pc \notin Uncounted
      /\ new.pc # "add_meta" /\ new.pc # "reset" /\ new.pc \notin {"hit", "uncount"}
      /\ new.pc \in Locked \cup {"accessed"} => f \in tracked /\ new.f = f
      /\ new.pc \in EvictedLabels <=> f \in tracked
    BY <1>1, <1>3 DEF Locked, AddLabels, EvictedLabels, Uncounted
<1>5. TypeOK' /\ LoaderInv'
    BY <1>1, <1>3, <1>4, ThreadType DEF IndInv, TypeOK, LoaderInv
<1>6. Relations'
  <2>1. tracked' \ {f} = tracked \ {f} /\ lhd_list' \ {f} = lhd_list \ {f}
      BY <1>1
  <2>2. f \in tracked' <=> f \in tracked
      BY <1>1
  <2>3. Owns(t, f, new)
      BY <1>2, <1>3, <1>4, <2>1, <2>2 DEF Owns
  <2> QED
      BY <2>3, LockedStep DEF IndInv
<1>7. NumObjectsConserved' /\ CountdownAlive'
    BY <1>1, <1>3, <1>4, CountKept, CountdownKept DEF IndInv
<1> QED
    BY <1>5, <1>6, <1>7 DEF IndInv

LEMMA EvictedAgeStep ==
    ASSUME IndInv, NEW t \in Threads, EvictedAge(t)
    PROVE  IndInv'
<1> DEFINE f == th[t].f
           age == Age(th[t].ts, f)
           new == [Idle EXCEPT !.pc = "uncount", !.f = f, !.n = age]
<1>1. /\ th[t].pc = "evicted" /\ th' = [th EXCEPT ![t] = new]
      /\ UNCHANGED <<cached, watched, lhd_list, tracked, last_access_time, timestamp,
                     num_objects, next_reconfiguration, num_reconfigurations, due,
                     coarsening, events, loader, lost>>
    BY DEF EvictedAge, At, Goto, kernel, metadata, rounds, reconfiguring
<1>2. /\ f \in Folios /\ f \in tracked /\ th[t].ts \in Nat
      /\ \A u \in Threads : u # t /\ th[u].pc \in Locked => th[u].f # f
    BY <1>1, HoldsLock DEF IndInv, Relations, HookInv, Locked, EvictedLabels, TypeOK,
                           ThreadStates
<1>3. age \in Nat /\ age < MAX_AGE
    BY <1>2, AgeRange DEF IndInv
<1> HIDE DEF age
<1>4. new \in ThreadStates /\ new.pc = "uncount" /\ new.f = f /\ new.n = age
    BY <1>2, <1>3 DEF Idle, ThreadStates, Labels
<1>5. th[t].f = f
    OBVIOUS
<1> HIDE DEF new, f
<1>6. /\ new.pc \in Locked /\ new.pc \in EvictedLabels
      /\ th[t].pc \notin Uncounted /\ new.pc \notin Uncounted
    BY <1>1, <1>4 DEF Locked, EvictedLabels, Uncounted
<1>7. TypeOK' /\ LoaderInv'
    BY <1>1, <1>3, <1>4, ThreadType DEF IndInv, TypeOK, LoaderInv
<1>8. Relations'
    BY <1>1, <1>2, <1>4, <1>5, <1>6, HoldingStep DEF IndInv, Locked, EvictedLabels
<1>9. NumObjectsConserved' /\ CountdownAlive'
    BY <1>1, <1>4, <1>6, CountKept, CountdownKept DEF IndInv
<1> QED
    BY <1>7, <1>8, <1>9 DEF IndInv

LEMMA EvictedCountStep ==
    ASSUME IndInv, NEW t \in Threads, EvictedCount(t)
    PROVE  IndInv'
<1> DEFINE f == th[t].f
           new == [Idle EXCEPT !.pc = "forget", !.f = f]
<1>1. /\ th[t].pc = "uncount" /\ th' = [th EXCEPT ![t] = new]
      /\ num_objects' = num_objects - 1
      /\ UNCHANGED <<cached, watched, lhd_list, tracked, last_access_time, timestamp,
                     next_reconfiguration, num_reconfigurations, due, coarsening, events,
                     loader, lost>>
    BY DEF EvictedCount, At, Goto, kernel, metadata, rounds, reconfiguring
<1>2. /\ f \in Folios /\ f \in tracked
      /\ \A u \in Threads : u # t /\ th[u].pc \in Locked => th[u].f # f
    BY <1>1, HoldsLock DEF IndInv, Relations, HookInv, Locked, EvictedLabels
<1>3. new \in ThreadStates /\ new.pc = "forget" /\ new.f = f
    BY <1>2 DEF Idle, ThreadStates, Labels
<1>4. th[t].f = f
    OBVIOUS
<1> HIDE DEF new, f
<1>5. /\ new.pc \in Locked /\ new.pc \in EvictedLabels
      /\ th[t].pc \notin Uncounted /\ new.pc \in Uncounted
    BY <1>1, <1>3 DEF Locked, EvictedLabels, Uncounted
<1>6. TypeOK' /\ LoaderInv'
    BY <1>1, <1>3, ThreadType DEF IndInv, TypeOK, LoaderInv
<1>7. Relations'
    BY <1>1, <1>2, <1>3, <1>4, <1>5, HoldingStep DEF IndInv, Locked, AddLabels, EvictedLabels
<1>8. NumObjectsConserved'
  <2>1. num_objects \in Int /\ Cardinality(tracked) \in Nat /\ tracked' = tracked
      BY <1>1, TrackedFinite DEF IndInv, TypeOK
  <2>2. /\ num_objects' - Cardinality(tracked') = num_objects - Cardinality(tracked) - 1
        /\ num_objects' \in Int /\ Cardinality(tracked') \in Nat
      BY <1>1, <2>1
  <2> QED
      BY <1>1, <1>5, <2>2, CountMoved DEF IndInv
<1>9. CountdownAlive'
    BY <1>1, <1>3, CountdownKept DEF IndInv
<1> QED
    BY <1>6, <1>7, <1>8, <1>9 DEF IndInv

LEMMA EvictedForgetStep ==
    ASSUME IndInv, NEW t \in Threads, EvictedForget(t)
    PROVE  IndInv'
<1> DEFINE f == th[t].f
<1>1. /\ th[t].pc = "forget" /\ th' = [th EXCEPT ![t] = Idle]
      /\ tracked' = tracked \ {f}
      /\ last_access_time' = [last_access_time EXCEPT ![f] = 0]
      /\ UNCHANGED <<cached, watched, lhd_list, timestamp, num_objects,
                     next_reconfiguration, num_reconfigurations, due, coarsening, events,
                     loader, lost>>
    BY DEF EvictedForget, At, Return, kernel, rounds, reconfiguring
<1>2. /\ f \in tracked
      /\ \A u \in Threads : u # t /\ th[u].pc \in Locked => th[u].f # f
    BY <1>1, HoldsLock DEF IndInv, Relations, HookInv, Locked, EvictedLabels
<1>3. Idle \in ThreadStates /\ Idle.pc = "idle"
    BY NewStates
<1>4. th[t].f = f
    OBVIOUS
<1> HIDE DEF f
<1>5. /\ Idle.pc \notin Locked \cup {"accessed"} /\ Idle.pc \notin EvictedLabels
      /\ th[t].pc \in Uncounted /\ Idle.pc \notin Uncounted
    BY <1>1, <1>3 DEF Locked, AddLabels, EvictedLabels, Uncounted
<1>6. TypeOK' /\ LoaderInv'
    BY <1>1, <1>3, ThreadType DEF IndInv, TypeOK, LoaderInv
<1>7. Relations'
  <2>1. f \notin tracked' /\ tracked' \ {f} = tracked \ {f} /\ lhd_list' \ {f} = lhd_list \ {f}
      BY <1>1
  <2> QED
      BY <1>1, <1>2, <1>3, <1>4, <1>5, <2>1, HoldingStep DEF IndInv, Locked, EvictedLabels
<1>8. NumObjectsConserved'
  <2>1. /\ num_objects \in Int /\ num_objects' = num_objects
        /\ Cardinality(tracked) \in Nat
        /\ Cardinality(tracked') = Cardinality(tracked) - 1
      BY <1>1, <1>2, TrackedFinite, FS_RemoveElement DEF IndInv, TypeOK
  <2>2. Cardinality(tracked') \in Nat
      BY <1>6, TrackedFinite, FS_RemoveElement, <1>1, FS_CardinalityType DEF IndInv
  <2>3. num_objects' - Cardinality(tracked') = num_objects - Cardinality(tracked) + 1
      BY <2>1
  <2> QED
      BY <1>1, <1>5, <2>1, <2>2, <2>3, CountMoved DEF IndInv
<1>9. CountdownAlive'
    BY <1>1, <1>3, CountdownKept DEF IndInv
<1> QED
    BY <1>6, <1>7, <1>8, <1>9 DEF IndInv

LEMMA NextIndInv == IndInv /\ [Next]_vars => IndInv'
<1> SUFFICES ASSUME IndInv, [Next]_vars PROVE IndInv'
    OBVIOUS
<1>1. CASE ChangeWatchlist \/ Loader \/ UNCHANGED vars
    BY <1>1, EnvironmentStep
<1>2. ASSUME NEW t \in Threads, Start(t) PROVE IndInv'
    BY <1>2, FolioAddedStep, FolioAccessedStep, FolioEvictedStep DEF Start
<1>3. ASSUME NEW t \in Threads, Continue(t) PROVE IndInv'
    BY <1>3, CountDownStep, ResetStep, RoundReadStep, RoundWriteStep, SubmitStep,
       FolioAddedMetaStep, FolioAddedClockStep, FolioAddedCountStep, AccessedMetaStep,
       AccessedClockStep, EvictedAgeStep, EvictedCountStep, EvictedForgetStep DEF Continue
<1> QED
    BY <1>1, <1>2, <1>3 DEF Next

LEMMA Inductive == Spec => []IndInv
BY InitIndInv, NextIndInv, PTL DEF Spec

-----------------------------------------------------------------------------
(* Theorems *)

\* Types, and get_age: the index into the distributions stays below MAX_AGE
\* whatever lhd_folio_accessed and the reconfiguration do between its loads.
THEOREM TypeCorrect == Spec => []TypeOK
<1>1. IndInv => TypeOK
    BY DEF IndInv
<1> QED
    BY <1>1, Inductive, PTL

\* num_objects of lhd_folio_added and lhd_folio_evicted counts the metadata
\* entries, up to the updates that are under way.
THEOREM NumObjectsConservedHolds == Spec => []NumObjectsConserved
<1>1. IndInv => NumObjectsConserved
    BY DEF IndInv
<1> QED
    BY <1>1, Inductive, PTL

\* The countdown of hooks that run side by side never stays below zero: exactly
\* one of them gets zero from __sync_sub_and_fetch, and that one resets it.
THEOREM CountdownAliveHolds == Spec => []CountdownAlive
<1>1. IndInv => CountdownAlive
    BY DEF IndInv
<1> QED
    BY <1>1, Inductive, PTL

\* Every folio with metadata is on the list lhd_evict_folios samples.
THEOREM TrackedIsListedHolds == Spec => []TrackedIsListed
<1>1. IndInv => TrackedIsListed
    BY DEF IndInv, Relations
<1> QED
    BY <1>1, Inductive, PTL

=============================================================================
