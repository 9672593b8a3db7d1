-------------------------------- MODULE Vulcan --------------------------------
(***************************************************************************)
(* The listeners of policies/vulcan_bpf.h: running statistics over one      *)
(* stream of integer samples, and the dispatch that feeds a sample to all   *)
(* of them (VULCAN_LISTENER_ALL in eviction_evo/initial_vulcan_split.c).    *)
(*                                                                         *)
(* The history of the stream is kept beside the statistics: it is what the  *)
(* statistics are about.                                                    *)
(***************************************************************************)
EXTENDS Integers, Sequences, FiniteSetsExt, SequencesExt

CONSTANTS
    Values,               \* samples
    Alphas,               \* .ewma_alpha of a configuration
    WindowSizes,          \* .rw_size of a configuration
    VULCAN_FP_SCALE,      \* 1000
    VULCAN_MAX_WINDOW,    \* 16
    CountModulus,         \* 2^32: a u32 counter wraps
    MaxSamples            \* bound on the length of the stream

ASSUME VulcanAssumption ==
    /\ Values \subseteq Int /\ WindowSizes \subseteq Nat
    /\ VULCAN_FP_SCALE \in Nat \ {0} /\ Alphas \subseteq 0 .. VULCAN_FP_SCALE
    /\ VULCAN_MAX_WINDOW \in Nat \ {0} /\ CountModulus \in Nat \ {0}
    /\ MaxSamples \in Nat

VARIABLES
    minmax,      \* struct vulcan_minmax
    ewma,        \* struct vulcan_ewma
    avg,         \* struct vulcan_avg
    rw,          \* struct vulcan_rolling_window
    cfg,         \* struct vulcan_feature_config, const
    samples,     \* history: the stream so far
    totals       \* history: the sums of its first 0, 1, 2, ... samples

vulcan_vars == <<minmax, ewma, avg, rw, cfg, samples, totals>>

-----------------------------------------------------------------------------
(* Arithmetic *)

AbsOf(a) == IF a < 0 THEN -a ELSE a

\* The quotient towards zero, from a division of unsigned numbers.
vulcan_sdiv(a, b) ==
    IF b = 0 THEN 0
    ELSE LET q == AbsOf(a) \div AbsOf(b)
         IN  IF (a < 0) # (b < 0) THEN -q ELSE q

-----------------------------------------------------------------------------
(* The updates *)

MinMaxUpdate(mm, val) ==
    LET first == mm.count = 0
    IN  [min_val |-> IF first \/ val < mm.min_val THEN val ELSE mm.min_val,
         max_val |-> IF first \/ val > mm.max_val THEN val ELSE mm.max_val,
         count   |-> (mm.count + 1) % CountModulus]

MinOf(mm) == IF mm.count # 0 THEN mm.min_val ELSE 0
MaxOf(mm) == IF mm.count # 0 THEN mm.max_val ELSE 0

Blend(val, old, alpha) ==
    vulcan_sdiv(alpha * val + (VULCAN_FP_SCALE - alpha) * old, VULCAN_FP_SCALE)

\* Mutant: the first sample is blended with the zero of a new element.
EwmaUpdateBlended(e, val, alpha) ==
    [value |-> Blend(val, e.value, alpha), initialized |-> TRUE]
EwmaUpdate(e, val, alpha) ==
    [value |-> IF e.initialized THEN Blend(val, e.value, alpha) ELSE val,
     initialized |-> TRUE]

AvgUpdate(a, val) == [sum |-> a.sum + val, count |-> a.count + 1]
AvgGet(a) == IF a.count # 0 THEN vulcan_sdiv(a.sum, a.count) ELSE 0

\* The window that counts: at most the buffer.
Window(size) == IF size > VULCAN_MAX_WINDOW THEN VULCAN_MAX_WINDOW ELSE size

\* Mutant: the oldest sample leaves the sum one sample late.
DropsOldestLate(w, size) == w.count > Window(size)
DropsOldest(w, size) == w.count >= Window(size)

NextHead(head) == (head + 1) % VULCAN_MAX_WINDOW

\* The head runs through the whole buffer, whatever the window.
RwUpdate(w, val, size) ==
    IF size = 0 THEN w
    ELSE [values |-> [w.values EXCEPT ![w.head] = val],
          head   |-> NextHead(w.head),
          count  |-> IF w.count < Window(size) THEN w.count + 1 ELSE w.count,
          sum    |-> w.sum + val - (IF DropsOldest(w, size) THEN w.values[w.head] ELSE 0)]

\* Mutant: the index of the next sample, not of the latest.
KthIndexOff(w, k) == (w.head + VULCAN_MAX_WINDOW - k) % VULCAN_MAX_WINDOW
KthIndex(w, k) == (w.head + VULCAN_MAX_WINDOW - 1 - k) % VULCAN_MAX_WINDOW

RwKthRecent(w, k) ==
    IF k >= w.count \/ k >= VULCAN_MAX_WINDOW THEN 0 ELSE w.values[KthIndex(w, k)]
RwGetAvg(w) == IF w.count = 0 THEN 0 ELSE vulcan_sdiv(w.sum, w.count)

-----------------------------------------------------------------------------
(* Specification *)

\* The elements are created zeroed by the first update of their key.
VulcanInit ==
    /\ minmax = [min_val |-> 0, max_val |-> 0, count |-> 0]
    /\ ewma = [value |-> 0, initialized |-> FALSE]
    /\ avg = [sum |-> 0, count |-> 0]
    /\ rw = [values |-> [i \in 0 .. VULCAN_MAX_WINDOW - 1 |-> 0],
             head |-> 0, count |-> 0, sum |-> 0]
    /\ cfg \in [ewma_alpha : Alphas, rw_size : WindowSizes]
    /\ samples = <<>> /\ totals = <<0>>

\* vulcan_tag_update_feature.
UpdateFeature(val) ==
    /\ Len(samples) < MaxSamples
    /\ minmax' = MinMaxUpdate(minmax, val)
    /\ ewma' = EwmaUpdate(ewma, val, cfg.ewma_alpha)
    /\ avg' = AvgUpdate(avg, val)
    /\ rw' = RwUpdate(rw, val, cfg.rw_size)
    /\ samples' = Append(samples, val)
    /\ totals' = Append(totals, totals[Len(totals)] + val)
    /\ UNCHANGED cfg

VulcanNext == \E val \in Values : UpdateFeature(val)

VulcanSpec == VulcanInit /\ [][VulcanNext]_vulcan_vars

-----------------------------------------------------------------------------
(* Properties *)

\* Types; the index of the ring is in it.
VulcanTypeOK ==
    /\ minmax \in [min_val : Int, max_val : Int, count : 0 .. CountModulus - 1]
    /\ ewma \in [value : Int, initialized : BOOLEAN]
    /\ avg \in [sum : Int, count : Nat]
    /\ rw \in [values : [0 .. VULCAN_MAX_WINDOW - 1 -> Int],
               head : 0 .. VULCAN_MAX_WINDOW - 1,
               count : 0 .. Window(cfg.rw_size), sum : Int]
    /\ cfg \in [ewma_alpha : Alphas, rw_size : WindowSizes]
    /\ samples \in Seq(Int) /\ totals \in Seq(Int)

\* The sum of the last n samples.
SumOfLast(n) == totals[Len(totals)] - totals[Len(totals) - n]
SmallerOf(a, b) == IF a < b THEN a ELSE b

\* Until the u32 counter wraps and forgets them, the observed bounds are those of the
\* stream ("tracks observed min and max", policies/vulcan_bpf.h:7), and the averages
\* are within them, for every sign of the samples and whatever alpha: the divisions
\* towards zero never take them out.
EstimatesWithinRange ==
    samples # <<>> /\ Len(samples) < CountModulus =>
        LET lowest == MinOf(minmax)
            highest == MaxOf(minmax)
        IN  /\ lowest = Min(ToSet(samples)) /\ highest = Max(ToSet(samples))
            /\ lowest <= ewma.value /\ ewma.value <= highest
            /\ lowest <= AvgGet(avg) /\ AvgGet(avg) <= highest

\* The k-th recent value is the k-th sample from the end, through every wrap of the
\* ring and for windows that are smaller than the ring.
KthRecentIsKth ==
    \A k \in 0 .. rw.count - 1 : RwKthRecent(rw, k) = samples[Len(samples) - k]

\* With the largest window, the average is that of the last VULCAN_MAX_WINDOW
\* samples, or of all as long as there are fewer.
FullWindowAverage ==
    cfg.rw_size >= VULCAN_MAX_WINDOW /\ samples # <<>> =>
        LET n == SmallerOf(Len(samples), VULCAN_MAX_WINDOW)
        IN  RwGetAvg(rw) = vulcan_sdiv(SumOfLast(n), n)

\* "rolling window of last N samples (needs .rw_size 1..16; ... window_avg ...)"
\* (eviction_evo/LLM.h:23).
WindowAverage ==
    cfg.rw_size \in 1 .. VULCAN_MAX_WINDOW /\ samples # <<>> =>
        LET n == SmallerOf(Len(samples), cfg.rw_size)
        IN  RwGetAvg(rw) = vulcan_sdiv(SumOfLast(n), n)

=============================================================================
