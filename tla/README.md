# cache_ext: a TLA+ development of its eviction policies

The repository runs page-cache eviction policies as BPF programs in a modified Linux kernel, and
measures them under LevelDB. The policies are small programs with hard surroundings: their hooks run
on many threads at once, every counter, map and list operation is atomic but no hook is, an
insertion may fail half-way, and the kernel adds and removes folios whether or not the policy
agrees. This directory models these programs, checks them with TLC on small instances, and proves
the central invariants with TLAPS for every number of folios and threads.

## The system

| component | state | operations | what makes it hard |
|---|---|---|---|
| modified kernel (submodule, not in the tree; its types in `vmlinux.h`) | page cache, eviction lists | calls the policy's hooks `folio_added`, `folio_accessed`, `folio_evicted`, `evict_folios`; offers list kfuncs | several threads; the kernel's fallback evicts folios the policy did not propose |
| `policies/cache_ext_s3fifo.bpf.c` | small and main list, two counters, metadata map, ghost map | the four hooks | counters approximate lists that move in other steps; metadata and ghost entries of one folio follow each other |
| `policies/cache_ext_mglru.bpf.c` | four lists as a ring of generations, `min_seq`, `max_seq`, page counts, refault statistics, PID controller | the four hooks | the lock covers aging and retirement only; additions and iterations use numbers that may be old |
| `policies/cache_ext_get_scan.bpf.c` | two lists, `scan_pages`, metadata map | the four hooks; the loader fills `scan_pids` | counter, flag and list of a folio change in separate steps, an access may rewrite the metadata |
| `policies/dir_watcher.bpf.h`, `dir_watcher.h`, `cache_ext_policy_watch.h`, loaders | `inode_watchlist` | scan of the watch roots, attachment, `vfs_open_enter` | delete and re-insert on overlapping opens; files move during the scan; the map may be full |
| `policies/vulcan_bpf.h` | min/max, EWMA, average, rolling window per feature | updates and getters | ring arithmetic, integer blending, wrap-around |
| `policies/cache_ext_lhd.bpf.c`, its loader | metadata, request clock, object count, countdown, age distributions and densities per class | four hooks, `reconfigure` run by the loader on an event | every request of every thread counts down to the event, the event may be lost, reconfiguration runs beside the hooks |
| `policies/cache_ext_net.bpf.c` | one list, metadata with owner and time of access, active process set by a kprobe | four hooks, `tcp_recvmsg` | an access links a folio and stores metadata without the folio lock; what is protected depends on traffic and time |
| `policies/cache_ext_fifo`, `_mru`, `_sampling` | one list each, metadata for sampling | four hooks | a list and a map that a failed call leaves different |
| `eviction_evo/*.c` | evolved policies: two templates of hooks and many generated score functions, features | hooks, kprobes | accesses link folios too; feature updates race |
| `eviction_evo/tcp_delay_proxy.py` | two coroutines, two token buckets per connection | connect, pipe, close | delays, limits and ends of the connection that either side starts |
| `eviction_evo/*.py` | files, child processes | the harness that builds and measures evolved policies | process handling |
| `net_leveldb_server.cc`, `net_leveldb.cc`, `client.py` | connections, statistics | requests, resets | statistics across threads |
| `bench/`, `eval/`, `run_redis_mem/`, plots, scripts | files, child processes | sequential drivers | none shared |

Interaction: the loader scans the watch roots into `inode_watchlist`, then attaches the policy, then
`vfs_open_enter`. From then on every hook asks the watch list whether the folio's file is relevant.
`evict_folios` proposes candidates by iterating or sampling the lists; the kernel removes those it
can, unlinks them and calls `folio_evicted`. The evolved policies feed what the hooks see to the
Vulcan listeners and score by the statistics.

## Modules

| module | models | what stands for what |
|---|---|---|
| `CacheExtLists` | the list kfuncs as the policies use them (external) | a list is a sequence; an iteration is given by the verdict of the callback on each node, and splits the list into visited and unvisited, evicted and continued nodes |
| `S3Fifo` | the S3-FIFO policy, whole | one action per step of a hook between two effects that other threads can see: `FolioAdded`, `FolioAddedList`, `FolioAddedMeta`; `FolioAccessed`, `FolioAccessedCap`; `FolioEvicted`, `FolioEvictedCount`, `FolioEvictedMeta`; `EvictFolios`, `EvictSmall`, `SmallSub`, `SmallZero`, `MainAdd`, `MainSet`, `EvictMain`, `IterationFails` |
| `PagePolicy` | what a policy promises, without its lists' number and order | abstract specification: `Enter`, `Link`, `Settle`, `Leave` of a folio; everything else a policy does is a stutter. `S3Fifo`, `MGLRU`, `GetScan` and `OnePolicy` instantiate it |
| `MGLRU` | the generations of MGLRU | `FolioAdded`, `FolioAddedMeta`, `FolioAddedCount`, `FolioAddedList` (no lock); `FolioEvicted`, `FolioEvictedCount`, `FolioEvictedForget`; `Age` and `Retire` (the locked section, split where `max_seq` and `min_seq` move); `FirstPass`, `SecondPass`, and the callback's two updates of the page counts, `CountDown` and `CountUp` |
| `MGLRUTiers` | its refault statistics and controller | `FolioAdded`, `FolioAddedMeta`, `GhostLookup`, `GhostDelete`, `Refault` are the added hook, with the pointer into the ghost map; `FolioEvicted`, `GhostInsert`, `CountEvicted` the evicted one; `ResetBegin`, `Carry*`, `Zero*` the steps of `reset_ctrl_pos`; `SelectTier`, `Protect`, `EvictEnd` the use of the threshold |
| `OnePolicy` | FIFO, MRU, sampling, the network-aware policy, the two templates of evolved policies | `policy` says which one is attached. `FolioAdded*` and `FolioEvicted*` as in `S3Fifo`; `FolioAccessedMove`, `FolioAccessedAgain`, `FolioAccessedNew` begin an access of a folio with or without metadata, `FolioAccessedLink`, `FolioAccessedMoved`, `FolioAccessedStore` end it; `Recvmsg` and `RecvmsgActive` are the two stores of the kprobe; `PeriodElapses`, `WorkingSetElapses`, `SessionElapses` its three time constants. The strict ones (`Strict`) implement `PagePolicy` |
| `GetScan` | the GET/SCAN policy's lists, flag and counter | as in `S3Fifo`; `FolioAccessedCreate` is the zeroed metadata of an access that found none |
| `DirWatcher` | the loader's scan, the attachment, and `vfs_open_enter` | `ScanEntry` is one readdir/stat/insert, `SkipDirectory` a subdirectory that opendir refuses, `Open`/`Lookup`/`Delete`/`Update` the steps of the hook; `Move` is any rename, removal, creation or reuse of an inode |
| `LHD` | LHD's accounting of requests and objects, and the loader's event loop | `FolioAdded`, `FolioAddedMeta`, `FolioAddedClock`, `FolioAddedCount`; `FolioAccessed`, `AccessedMeta`, `AccessedClock`; `FolioEvicted`, `EvictedAge`, `EvictedCount`, `EvictedForget`; both kinds of request end in `CountDown`, and the one that reaches zero goes on to `Reset`, `RoundRead`, `RoundWrite`, `Submit`; `Reconfigure`, `AdaptAgeCoarsening`, `ModelHitDensity` are one call of `handle_event` |
| `RateLimit` | what a token bucket promises | abstract specification: a bucket that is filled at every tick, and a chunk that passes only when it holds its bytes |
| `TcpDelayProxy` | one connection of the proxy, in bytes and ticks | `Connect`, `ConnectFails`: `handle_connection`. `Read`, `ReadEnd`, `ConsumeNow`, `ConsumeLater`, `Write`, `Fails`: a coroutine between two awaits. `Send`, `Receive`, `ClientCloses`, `Serve`, `ServerCloses`, `Tick` are the environment. `Limit` instantiates `RateLimit` |
| `Vulcan` | the listeners and their dispatch | `UpdateFeature` feeds one sample to all listeners (`VULCAN_LISTENER_ALL`); the getters are operators. `samples` and `totals` are history variables: the stream, and the sums of its prefixes, to which the listeners are compared |

`MC<module>` names TLC's constants and, where it is used, symmetry; each `.cfg` belongs to one run.
The `...Proofs` modules hold the theorems: one per component, except that `OnePolicyProofs` also
holds those of `Vulcan`, whose estimates the evolved policies score by, and `UserSpaceProofs` those
of both user-space programs, `DirWatcher` and `TcpDelayProxy`. Operators marked "mutant" in the
modules are plausible wrong versions of the operator beside them; no action uses them.

### Decisions shared by the policies

* A folio value stands for a page of the one watched file and for its `struct folio`: the same value
  is added again after it was evicted. Folios have one page.
* The kernel is not in this tree. From the way the policies use it: a list kfunc is one atomic step;
  an iteration holds the list lock and visits each node once; the folio is unlinked before
  `folio_evicted` runs; the folio lock keeps the added and the evicted hook of one folio apart,
  while accesses overlap with both. What the callbacks skip (not uptodate, off the LRU, dirty, under
  writeback, locked) is the set `busy`, changed at will by `SetFlags`.
* The file may be in or out of the watch list at any time: between delete and update in
  `vfs_open_enter` every hook sees it unwatched (`DirWatcher` models that step by step). `GetScan`
  and `OnePolicy` have an action for it, `ChangeWatchlist`; in `S3Fifo`, `MGLRU` and `MGLRUTiers`
  each test of the watch list may go either way, which is the same.
* Any cached folio may be evicted at any time: reclaim of a candidate, the kernel's own choice, or
  truncation.
* An iteration may fail; the hook then returns, and the list is taken to be as it was
  (`IterationFails`).
* Insertions into a list or a map may fail, at most `MaxLost` times where a failure leaves a trace.
  An LRU map (the ghost map) may drop any entries to make room.
* `bpf_map_delete_elem` of an entry that is there is taken to succeed where the code ignores its
  result or only logs it (cache_ext_s3fifo.bpf.c:328, cache_ext_mglru.bpf.c:93 and 912,
  cache_ext_lhd.bpf.c:442, and the evicted hooks of GET/SCAN, sampling, network-aware and evolved
  policies). If it failed, the metadata would outlive its folio, and the properties on metadata and
  counts would not hold: LHD's `num_objects` would be too small from then on, and a ghost entry of
  MGLRU that stayed (the TODO at cache_ext_mglru.bpf.c:92) could be counted as a second refault
  after a removal that returned early. Where the code acts on the result, both results are modelled:
  any failure in S3-FIFO's `folio_in_ghost`, and that of a missing entry in `vfs_open_enter` (an
  entry that is there and cannot be deleted would keep its tag, old or not).
* A metadata element that was deleted while a hook holds its pointer may have been reused: the store
  of the cap in `s3fifo_folio_accessed` may hit another folio.

### Decisions of single modules

* S3-FIFO: `small_list_size >= cache_size / 15` compares a signed with an unsigned number, so a
  negative counter selects the small list (`ChooseSmall`). `__sync_fetch_and_sub` and `_add` return
  the value *before* the operation, which is what the tests for a negative counter see. `evict_main`
  and `bpf_s3fifo_score_main_fn` are not called by anything and are left out. `folio_in_ghost`
  deletes the entry to find it, and takes every result but `-ENOENT` for a find ("TODO: handle
  non-ENOENT errors", line 78): a delete that fails otherwise sends the folio to the main list and
  leaves the entry if there was one (`FolioInGhost`). The history variable `leftover` has the folios
  whose entry stayed this way, until it is deleted or dropped, or inserted anew.
* MGLRU: the refault statistics and the PID controller decide only the tier threshold of an
  eviction, which is free in `MGLRU` (`Thresholds`). An addition stores its metadata, counts its
  page and links the folio in three steps; the evicted hook discounts the page and deletes the
  metadata in two. An iteration changes the lists and each `.gen` at once, since both are read under
  the lock of the lists or for a folio on no list, and then moves the page counts one by one, each
  in two steps, as anyone may read them. That the kernel runs one iteration, insertion or unlinking
  of these lists at a time (`ListsLocked`) is an assumption on the kernel. `eviction_metadata` is
  per CPU in the code and per thread here: a hook stays on its CPU. The branch of
  `try_to_inc_max_seq` for a full ring is kept, though no state reaches it: aging asks for fewer
  than four generations first.
* MGLRUTiers: the two modules of MGLRU meet in the threshold alone. `MGLRU` takes any threshold, and
  `MGLRUTiers` any generation and any page an iteration may meet (`Protect`), so that neither
  restricts the other. A reader of the ghost map whose entry is gone (`Dangling`) sees the tier of
  the entry that took its place. The controller reads its six counts in one step. Kernel counts are
  decayed by halves, in integers. Counts are never negative here and u64 in the code.
* OnePolicy: `evict_folios` of these policies iterates or samples the list and moves no node;
  eviction is any removal, so it has no action. `NetVerdict` is the verdict of the network-aware
  callback, evaluated in one step. Times are three classes of age, which is what the callback tells
  apart. Two history variables record what went wrong, by the step that failed and not by its
  outcome: `late` has the threads inside an access that a removal of the folio overtook, `causes`
  for each folio what failed since list and metadata last agreed. The evolved policies differ in
  their score function, which evolution replaces; the hooks around it are those of two templates.
* TcpDelayProxy: the client is My-YCSB, which has one request under way per connection. Sleeps take
  at least the time asked for. The two coroutines run on one event loop, so a step between two
  awaits is atomic. A delay of 0 or a rate of 0, which switch a step off, are left out. The instance
  has chunks that fit the bucket: see "What the checks need to know".
* GET/SCAN: access counts order candidates and are left out. Whether the thread that adds a folio is
  one of `scan_pids` is free for each addition.
* LHD: eviction samples the one list and changes nothing else, so the sampled folios are any cached
  ones, and the densities that rank them are left out with the distributions they come from. What
  indexes a distribution, the age, is kept. Both loads of `get_age` are separate from each other and
  from the hooks of other threads; the subtraction is unsigned, so a negative difference counts as
  an overflow. `next_reconfiguration` is a u64; below zero the model has negative numbers where the
  code has huge ones. The value that `adapt_age_coarsening` computes is free, the round at which it
  does so is not.
* DirWatcher: paths are places, `client_tag_from_watch_roots` is the tag of the place; its limit of
  64 levels is not modelled. The scan skips names that begin with a dot, at every depth
  (dir_watcher.h:36); `vfs_open_enter` does not. Such files are at the places `Hidden`, which `Open`
  watches and the scan never comes to. A subdirectory's inode is inserted like a file's (line 68)
  and takes room: it is a member of `Files`. `CHECK_DEADLOCK FALSE` because the loader may give up
  and files may stop moving.
* Vulcan: sums and products are integers without bound here, and `s64` in the code, where they can
  wrap. The samples of a stream arrive one after the other. Two CPUs that update one feature race in
  the code; that interleaving is not modelled yet. `CountModulus` is 2^32 in the code. The stream
  may end, hence `CHECK_DEADLOCK FALSE`.

## What is checked

| run | instance | shows |
|---|---|---|
| `s3fifo` | 2 folios, 2 threads, ghost map of 1, one failed insertion; 3.6 million states | metadata never outlives its folio, `in_main` agrees with the list, no tracked folio has a ghost entry unless the delete of it failed, `small_list_size` never exceeds and `main_list_size` never falls below its list apart from updates under way; S3-FIFO implements `PagePolicy`: passes of eviction move folios between and within the lists and lose none, additions and removals are the only other changes of the lists |
| `mglru` | 2 folios, 2 threads, up to 5 as `max_seq`, one leftover entry; 2.4 million states | three or four generations at all times; the page counts sum to the metadata entries but for updates under way; per slot they agree with the metadata, again but for updates under way, and the metadata with the lists, unless a second pass used old `eviction_metadata`; a cached folio is at most once on one list, and MGLRU implements `PagePolicy`, also after such a pass |
| `mglru_promotion` | same | "promote to next gen" stores another generation when a second pass overlaps a retirement |
| `mglru_tiers` | 2 pages, 2 threads, 2 tiers, 3 evictions, one protection per tier, batch of 2; 2.7 million states | a tier is not blamed for more refaults than it had evictions, but for ghosts whose element was reused; what the controller reads without the lock is at most one and a half times the refaults there were; a tier read through a stale pointer is still an index |
| `one_policy` | 6 policies, 2 folios, 2 threads, 2 servers, fair; 1.1 million states | a folio is on the list at most once, list and metadata agree but for the recorded causes, the strict policies implement `PagePolicy`, the network-aware policy shields no idle folio for ever |
| `tcp_delay_proxy` | requests of 5 bytes, responses of 7, reads of 4, a bucket of 4 filled by 1 a tick, delay of 2 ticks, fair; 60 thousand states | a connection holds exactly the message under way, each direction keeps its rate, a client that waits gets an answer or the end of its connection, both coroutines end after either end has closed |
| `watch` | 2 roots, one with a hidden part, 2 files, 2 openers, room for 1 inode, 2 moves, fair; 426 thousand states | files that stay under a root and below no hidden name are watched with its tag after the scan, overlapping opens never leave an opened file unwatched or wrongly tagged, and an opened file without an entry gets one, unless the map refused it |
| `get_scan` | 3 folios, 3 threads, threshold 2, one lost flag; 164 thousand states | flag and list agree, `scan_pages` is exactly the flagged folios plus the updates under way plus the flags lost, the scan list is sampled only when it is long |
| `get_scan_no_pages` | 2 threads | "No pages to evict" is said while the general list holds folios |
| `lhd` | 2 folios, 2 threads, rounds of 2 requests, room for 2 events, 4 requests, one failed insertion, fair; 325 thousand states | the countdown is positive or exactly one thread is about to reset it, a round that ended is followed by a reconfiguration even when its event was lost, ages stay below `MAX_AGE`, `num_objects` is the number of metadata entries apart from updates under way, a folio with metadata is on the sampled list |
| `vulcan` | ring of 4, windows 0 to 5, streams of 6 samples; 22 thousand states | the observed bounds are those of the stream, EWMA and average stay within them, the k-th recent sample is the k-th recent, the average of a full window is that of its samples |
| `vulcan_window` | same | with a window smaller than the ring the average drifts from that of the window |

`mglru_promotion`, `get_scan_no_pages` and `vulcan_window` end in a violation and are the findings
of `PROJECT.json`: each states what a comment of the code says and shows that the code does
otherwise.

### Bounds, and why they are enough

* Two folios and two threads give every pair of overlapping hooks on one folio, and one hook on each
  of two folios; the properties relate one folio's list, flag and metadata or add up over folios.
  GET/SCAN has three of each, so that the threshold of 2 can be reached while a third folio is being
  added or removed. Two openers of one file give the late delete of an entry that was inserted anew
  (found, deleted and inserted by one, deleted by the other), which `vfs_open_enter` has to survive;
  the theorems of `UserSpaceProofs` hold for any number of openers. A pass over two folios can
  propose one and move or leave the other; what passes over longer lists do to the lists is proved
  (`S3FifoImplementsPagePolicy`, `MGLRUImplementsPagePolicy`).
* `MaxDrift`, `MaxDebt`, `FreqFloor`, `SeqBound`, `AccessBound`, `MaxMoves`, `MaxRequests`,
  `MaxSamples`, `EvictBound` and `ProtectBound` are guards on counters that grow without end in the
  code. S3-FIFO's hooks begin to raise a counter only below `MaxDrift = 2` and to lower it only
  above minus `MaxDebt = 1`, which allows both signs of each counter and both clamps; `SeqBound = 5`
  lets the ring of four slots wrap; four requests in rounds of two end two rounds, which can
  overlap; `AccessBound = 2` reaches the test for an active folio and tier 1; six samples fill a
  ring of four and go round. Three evictions of two pages give two ghost entries, a refault, and the
  eviction whose entry takes the element that a reader still points at.
* Two tiers stand for the four of the code: the first one, which is never protected and sets the
  controller's target, and one above it. `MIN_LRU_BATCH = 2` instead of 64 lets both outcomes of
  `positive_ctrl_err` happen.
* The proxy's messages take two reads each, of up to a full bucket; a second chunk finds it partly
  filled and waits, since the bucket takes longer to fill than the delay. A delay of two ticks lets
  either end close during a sleep. `OnePolicy` and `TcpDelayProxy` need no bound on a counter: their
  state is finite.
* `CacheSize = 15` makes the threshold `cache_size / 15` equal to 1, so that every branch of
  `ChooseSmall` is taken. `AlmostEmpty = 1` and `ScanThreshold = 2` scale the code's 4 and 5000 to
  the number of folios.
* Symmetry of folios and threads is used for safety only, never in the runs with a liveness
  property.

### Fairness

`DirWatcher!FairSpec` has weak fairness of each opener's steps and `LHD!FairSpec` of each hook's: a
BPF program has no unbounded loop and cannot sleep here, so once called it runs to its end.
`LHD!FairSpec` has weak fairness of the loader as well: it polls the ring buffer in a loop without a
timeout until it is told to exit (`ring_buffer__poll` failing, which ends it, is left out). Nothing
is assumed of the loader that scans, of files, or of anyone opening a file or using the page cache.

`OnePolicy!FairSpec` assumes that time passes (`WorkingSetElapses`) and nothing else: no hook has to
go on, no packet has to arrive. `TcpDelayProxy!ProxyFairSpec` assumes that time passes, that the
event loop runs each coroutine that is ready, that an accepted connection is connected on or
refused, and that the server and a client that waits read what has come, the end of the connection
included. It does not assume that anyone sends or closes.

The specifications of the other policies are for safety only: nothing in the code makes an eviction
succeed.

### What the checks need to know

* `MainNeverUndercounted` excludes executions of the clamp at the end of `evict_small` (`clamped`):
  its plain store overwrites increments that other threads made after the fetch-and-add, and the
  counter is too small from then on. The history variable is there to state exactly this.
* `SmallNeverOvercounted` and `ScanPagesConserved` count the failed insertions (`lost`): neither the
  hook of an addition nor any later hook takes its increment back.
* `SmallNeverOvercounted` therefore does not exclude that a surplus of `lost` selects the small list
  for ever, even when it is empty (cache_ext_s3fifo.bpf.c:278). That the main list is evicted at all
  is no property here.
* `RoundIsReconfigured` holds because the record being handled stays in the ring buffer until
  `handle_event` returns and the buffer holds more than one: an event that finds it full leaves
  another that is handled later. With `RingSize = 1` the only record can be the one being handled,
  and TLC finds the round that is not followed by anything; the code's 4096 bytes hold over two
  hundred.
* `SeenRefaultsBounded` has a factor of one and a half because `reset_ctrl_pos` adds a count to the
  average before it clears the count, and the controller may read between the two. The lock around
  it ("Needs the LRU lock. Why???", cache_ext_mglru.bpf.c:296) is what keeps two resets from
  carrying the same count twice.
* `TrackedIsNotGhost` excludes the entries that a failed delete left behind (`leftover`).
* `PagesConserved` and `PagesMatchGens` have a term for each update under way: an addition between
  its metadata and its count, a removal between its count and its delete, and the pages a callback
  has yet to take from one slot (`Leaving`) or add to the next (`Coming`, `Uncounted`). Between
  these steps the plain equations are false in the code.
* `ScannedIsWatched` speaks of files below no hidden name. The others are watched from their first
  open on, by `TagFollowsLastOpen`.
* `ListedIsTracked` demands a cause for every folio whose list and metadata differ while no hook is
  on the way to store or to delete. A listed folio has no metadata only after an update of the map
  failed. An unlisted one has metadata only for one of three causes. No hook linked it: the added
  hook of sampling saw it unwatched, or failed to insert it, and a later access created metadata for
  it (cache_ext_sampling.bpf.c:157-160); or an access of an evolved policy failed to insert it and
  stored all the same. Or an access stored after a removal that overtook it. Or an evolved policy
  returned early from the removal because the file was not watched. Metadata that is left behind by
  the network-aware policy keeps the next folio at that address off the list.
* `NetOffersIdleFolios` starts from the first packet a server receives: before it, every folio with
  metadata is passed over (`active_db_pid` is 0).
* `ConnectionsProgress` holds because a chunk fits the bucket, which holds one second of the rate.
  With 65536 bytes per read that is a rate of 524 kbps or more. Below it, a full chunk never finds
  enough tokens, `consume` sleeps for ever, and with `ReadSize = 5` in the cfg TLC finds the client
  that waits for ever. The documentation of the proxy (line 10) promises a slower data flow.
* `EstimatesWithinRange` speaks of streams shorter than the modulus of the u32 counter of `struct
  vulcan_minmax`: after 2^32 samples it is zero again, which is also the test for the first sample,
  and both bounds start anew.
* `PagesMatchGens` and `GenMatchesList` exclude a stale second pass (`stale`), which is the finding
  of `mglru_promotion`.

## What is proved

For any set of threads (a finite one in `GetScan`, `LHD`, `OnePolicy` and `MGLRUTiers`), any finite
set of folios or files, any stream of samples and any values of the bounds. Every invariant and
every action property that a run checks and finds to hold is a theorem; so is each refinement.

| module | theorems | argument |
|---|---|---|
| `CacheExtListsProofs` | `IterationProperties`, `IterationInjective` and lemmas | what the selection of positions, deletion and iteration return: the nodes, without repetition, that the two halves of an iteration partition the list |
| `S3FifoProofs`: relations | `TypeCorrect`, `MetadataReleasedHolds`, `TrackedIsNotGhostHolds`, `InMainIsOnMainListHolds`, `S3FifoImplementsPagePolicy` | the three relations are inductive only together with what a thread inside a hook knows of its folio (`HookInv`: cached and on the list it added to, or removed and with metadata) and with the folio lock (`Exclusive`). The refinement: under `IndInv` each step of a hook is a step of `PagePolicy` or leaves `cached`, the folios being added and the folios on the lists as they are. The iterations are the interesting case: what leaves one list is on the other or back on its own, by `IterationProperties` |
| `S3FifoProofs`: counters | `SmallNeverOvercountedHolds`, `MainNeverUndercountedHolds` | `CountInv` adds that a listed folio has metadata unless its hook is about to store it (`ListedHasMetadata`), so that the counter an evicted hook lowers is the one of the list the folio was on; that finitely many threads are inside hooks; and `MainBalance`, the second property with the increments of folios not linked yet and the decrements of folios already gone counted as well. Each step changes the credit or debit of one thread (`ThreadCounts`), the length of a list by what `IterationLen` says, and a counter: `KeptByAccount` adds the three up. The clamp at zero can only help the first property and needs `clamped` for the second |
| `MGLRUProofs` | `SeqWindowHolds`, `GenMatchesListHolds`, `PagesMatchGensHolds`, `PagesConservedHolds` | `IndInv`: the types, `LockInv` and what a thread inside a hook knows (`HookInv`). `LockInv`: exactly the holder is between aging and retirement, and the numbers it read before aging are off by at most the generation that aging added, which it adds only at the smallest window. `MatchInv`, as long as no second pass was stale: the metadata of a listed folio names its list (`Placed`), and each slot's count balances with the updates under way (`Balanced`). It rests on `PlaceInv`, below. A step that moves one update or one folio from one side to the other is `BalanceStep`; a pass owes as many counts as `IterationProperties` says it moves nodes, because a list without duplicates is as long as it has members (`PassMatch`). The sum of the counts needs no such condition: whatever two slots a promotion names, the half that is done and the half to come are one page (`AccountStep`) |
| `MGLRUProofs`: refinement | `TypeCorrect`, `MGLRUImplementsPagePolicy` | `PlaceInv`, which a stale second pass cannot break either: each folio being added or removed has one thread at it (`Exclusive`), which knows where the folio is (`Knows`), the lists hold cached folios once each, and finitely many threads are inside hooks. `IterateKeepsListed`: the list of a slot and the following one have the same folios after a pass as before, without repetition, so that a pass is a stutter of `PagePolicy`. Here it matters that the ring has more than one slot |
| `MGLRUTiersProofs` | `TypeCorrect`, `RefaultsFollowEvictionsHolds`, `SeenRefaultsBoundedHolds` | an account for each tier (`Owed`): refaults counted, readers that hold an entry and entries nobody is about to delete are covered by evictions and misread entries, which a step moves from one side to the next. `Folded`: average and count together are at most the refaults, and between the carry and the clearing twice the average and the count are separately; only one thread can be there, by the lock |
| `GetScanProofs` | `TypeCorrect`, `TouchedIsOnScanListHolds`, `ScanPagesConservedHolds`, `SampledScanListIsLongHolds`, `GetScanImplementsPagePolicy` | the same strengthening as for S3-FIFO, and an account of cardinalities: each step moves one unit between the flagged folios, the pending threads, the lost flags and the counter. For the fourth, each unit of the counter is mapped to a folio of the scan list or a removal under way, no two to the same (`PagesAreListed`). The refinement needs only where folios are: flag and counter do not appear in it |
| `LHDProofs` | `TypeCorrect`, `NumObjectsConservedHolds`, `CountdownAliveHolds`, `TrackedIsListedHolds` | the count is an account of cardinalities, as in `GetScan`. For the countdown, the thread that reaches zero is alone: the value it leaves is not positive, so that nobody reaches zero again before its reset. Ages need no relation between the two loads, only the test for an overflow |
| `OnePolicyProofs`: policies | `TypeCorrect`, `ListedIsTrackedHolds`, `OnePolicyImplementsPagePolicy` | `ListedIsTracked` is inductive only with what each thread inside a hook knows (an added folio that waits for its metadata is cached and listed, a folio being removed is not cached, the folio of an access that no removal overtook is still cached), with what sampling links (`SamplingInv`) and with the folio lock; a second access of one folio falls out because linking a listed folio fails. In the refinement every access of a strict policy leaves the set of listed folios alone |
| `OnePolicyProofs`: `Vulcan` | `VulcanTypeCorrect`, `EstimatesWithinRangeHolds`, `KthRecentIsKthHolds`, `FullWindowAverageHolds` | `BoundsInv` and `AveragesInv`: the bounds are samples, no sample is outside, and the sum of the average lies between the bounds times the count. Both divisions truncate towards zero, which keeps a quotient between two integers it lies between (`QuotientWithin`), and one step of the EWMA between its two operands (`BlendWithin`), for operands of either sign. `RingInv`: the k-th recent index holds the k-th sample from the end, for any window; `WindowSumInv`, for the full window: the sum is a difference of two prefix sums (`TotalsInv`), since the slot about to be written holds the sample that leaves |
| `UserSpaceProofs`: `TcpDelayProxy` | `ProxyTypeCorrect`, `OneMessageInFlightHolds`, `ProxyImplementsRateLimit` | each step moves the bytes of the message from one place of the connection to the next; the writer of a direction is closed only by its own coroutine, and `OpenInv` says that between two open ends no direction has seen an end, closed its writer or finished. The refinement maps the abstract allowance to what the lazy bucket would hold if it were filled now: bringing it up to date is then a stutter, and a late wake-up cannot gain more than the cap |
| `UserSpaceProofs`: `DirWatcher` | `TypeCorrect`, `ScannedIsWatchedHolds`, `TagFollowsLastOpenHolds` | a file whose entry was deleted is `Missing`: it has no entry and some opener is about to insert it. An opener that found an entry knows that the entry is there or the file is missing, so returning after a failed delete leaves the insertion to somebody. `ScanInv` says the same of the files the loader has passed outside the hidden parts |

Assumptions are those named `...Assumption` in the modules: the folios are finitely many and differ
from the null value, thresholds and sizes are natural numbers, roots and tags fit together. TLC
evaluates them in each run. In `S3Fifo` and `MGLRU` the threads need not be finitely many: that
those inside a hook are is part of the invariant.

The type invariant of `Vulcan` and the refinement of `PagePolicy` by `GetScan` are proved and not
among the runs' properties.

Model-checked only: the four liveness properties (`OpenLeadsToWatched`, `RoundIsReconfigured`,
`NetOffersIdleFolios`, `ConnectionsProgress`). Liveness under fairness and `ENABLED` are out of the
prover's reach, and so is induction over data. For this reason sums in the invariants are
cardinalities (the moves of S3-FIFO's evictions) or histories that grow with the step (`totals` of
Vulcan), never folds: what a step does to them is a lemma about one element.

## Not modelled

* The kernel itself, LevelDB, RocksDB, My-YCSB and libvulcan: submodules, not in the tree.
* LHD's classes, distributions and densities: they rank the sampled folios, and any of them may be
  evicted here. `stretch_distribution` looks wrong in its last age (line 161), and the search for
  the coarsening stops at 2^11, where its shift overflows an int; no comment or test says what
  either should yield.
* The 135 generated `main.c` and other generated score functions under `eviction_evo/`: they are
  data of the evolution, many variants of one template, and only what they compute for a folio
  differs; `OnePolicy` models the template's hooks and lets eviction remove any folio.
* `vmlinux.h`, the kernel's types as the BPF compiler needs them: 137 thousand generated lines
  without behaviour. It and the generated policies are nearly all lines of the tree, so that the
  mapped lines are a small share of it.
* Vulcan updates from two CPUs at once, and the LevelDB server's statistics: planned below.
* The loaders of FIFO, MRU and sampling: the steps of the loader that `DirWatcher` models.
* Path resolution, option parsing, BPF skeleton handling, logs.
* The harness, benchmarks, plots and load generators: sequential drivers of other programs, without
  state that two actors share.

## Plan

Done, in this order: lists, S3-FIFO and its refinement of `PagePolicy`, MGLRU generations, watch
list, GET/SCAN, LHD's accounting, Vulcan listeners, the one-list policies and their refinement,
MGLRU's tiers, the delay proxy and its refinement of `RateLimit`, the refinements of `PagePolicy` by
MGLRU and GET/SCAN, and the proofs above. Next:

1. `LHDModel`: decay, stretching and compression of the distributions and the hit densities as
   operators against reference definitions, and their update beside the hooks.
2. Vulcan updates from two CPUs, where a ring loses or repeats a sample.
3. The insertion into LHD's list as a step of its own, and with it the refinement of `PagePolicy`.
4. The statistics of the LevelDB server.
5. Proofs: that a window of k ticks lets at most `Capacity + k * Fill` bytes through a bucket of
   `RateLimit`; the drift of the Vulcan average for a window smaller than the ring, as a bound.
