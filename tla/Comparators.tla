------------------------------ MODULE Comparators ------------------------------
(***************************************************************************)
(* compare/{exact,tol,set,presence,hash,dist,span,state}.cpp: what a pair  *)
(* of measurements of one check comes to.  A value is                      *)
(*   [kind |-> "absent"], [kind |-> "int64", num, den |-> 1],              *)
(*   [kind |-> "rational", num, den], [kind |-> "string", text, size],     *)
(*   [kind |-> "string_set", elements], [kind |-> "histogram", bins],      *)
(*   [kind |-> "span_list", spans], [kind |-> "hash_chain", digest, blocks]*)
(* where size is <<width, height>> for a text that parses as dimensions    *)
(* and <<>> otherwise, bins a function from numbers that stand for the     *)
(* names in their order, a span <<start, end>> and blocks the block        *)
(* digests.  Spans are in one timebase, as every analyzer emits them, and  *)
(* their starts and ends are 64-bit ticks of it.  A measurement is         *)
(*   [check, scope, value, skip, estimated, adjusted, end_delta, ceiling,  *)
(*    precondition]                                                        *)
(* the last four what comparators read of its evidence.  Arithmetic is on  *)
(* -MaxInt..MaxInt where the code checks for overflow, and exact where it  *)
(* uses its 256-bit integers.  A definition introduced by "Fault:" is a    *)
(* seeded bug of the one after it.                                         *)
(***************************************************************************)
EXTENDS PolicyRules, FiniteSets

CONSTANTS MaxInt,               \* INT64_MAX
          EndDeltaEpsilon,      \* kDriftEpsilonMs
          CeilingDeadband,      \* <<kCeilingCrossingDeadbandNum, ...Den>>
          EstimatedFactor,      \* kEstimatedToleranceFactor
          SpanTimebase          \* the [num, den] of the ticks of spans

\* What a comparator returns: an error that ends the comparison, or a status.
Judged(status) == [error |-> "none", status |-> status, skip |-> "none", divergence |-> <<>>]
Skips(reason) == [Judged("skipped") EXCEPT !.skip = reason]
Aborts(error) == [Judged("error") EXCEPT !.error = error]

Escalate(severity) ==
  CASE severity = Fail -> "fail" [] severity = Warn -> "warn" [] OTHER -> "info"

Is(value, kind) == value.kind = kind
Magnitude(n) == IF n < 0 THEN -n ELSE n
Representable(n) == n \in -MaxInt..MaxInt

-------------------------------------------------------------------------------
(* exact, with the expectation of the transform profile: a size, or a      *)
(* factor [num, den] of the baseline's.                                    *)
Scaled(size, factor) == [i \in DOMAIN size |-> (size[i] * factor.num) \div factor.den]
ScalesExactly(size, factor) == \A i \in DOMAIN size : (size[i] * factor.num) % factor.den = 0
SizeOf(value) == IF Is(value, "string") THEN value.size ELSE <<>>

CompareToExpectation(expected, b, c, severity) ==
  LET size == SizeOf(b.value)
      target == IF expected.is_scale_factor THEN Scaled(size, expected.factor)
                ELSE expected.absolute
  IN  CASE expected.is_scale_factor /\ size = <<>> -> Aborts("internal")
        [] expected.is_scale_factor /\ size # <<>> /\ ~ScalesExactly(size, expected.factor) ->
             Aborts("usage")
        [] OTHER -> IF SizeOf(c.value) = target THEN Judged("pass")
                    ELSE Judged(Escalate(severity))

CompareExact(check, b, c, severity, profile, expectation) ==
  IF profile = "transform" /\ check.transform_affected /\ expectation # <<>>
    THEN CompareToExpectation(expectation[1], b, c, severity)
  ELSE IF b.value = c.value THEN Judged("pass")
  ELSE Judged(Escalate(severity))

-------------------------------------------------------------------------------
(* set, presence, state: an operand of another kind counts as empty.       *)
Elements(value) == IF Is(value, "string_set") THEN value.elements ELSE {}

CompareSet(b, c, severity) ==
  IF Elements(b.value) = Elements(c.value) THEN Judged("pass") ELSE Judged(Escalate(severity))

ComparePresence(b, c, severity) ==
  IF Is(b.value, "absent") = Is(c.value, "absent") THEN Judged("pass")
  ELSE Judged(Escalate(severity))

IsFlagged(check, value) == Is(value, "string") /\ value.text \in check.flagged_values

\* Fault: a flag that was already there is taken for no change.
CompareStateNewOnly(check, b, c, severity) ==
  IF IsFlagged(check, c.value) /\ ~IsFlagged(check, b.value)
    THEN Judged(Escalate(severity)) ELSE Judged("pass")

CompareState(check, b, c, severity) ==
  IF IsFlagged(check, b.value) \/ IsFlagged(check, c.value)
    THEN Judged(Escalate(severity)) ELSE Judged("pass")

-------------------------------------------------------------------------------
(* hash.  A precondition is [path, sampling, normalization], "none" where  *)
(* the evidence has no such key.                                           *)
Truncated(m) == m.precondition.sampling = "truncated"

\* One walk over the common prefix of two chains; run is where the divergent run
\* that is open began.  Blocks are counted from zero, a range ends before end.
CloseRun(walk, end) ==
  IF walk.run = <<>> THEN walk
  ELSE [run |-> <<>>, ranges |-> Append(walk.ranges, <<walk.run[1], end>>)]

WalkBlock(b, c, walk, i) ==
  IF b[i] = c[i] THEN CloseRun(walk, i - 1)
  ELSE IF walk.run = <<>> THEN [walk EXCEPT !.run = <<i - 1>>]
  ELSE walk

WalkBlocks(b, c, common) ==
  FoldLeft(LAMBDA walk, i : WalkBlock(b, c, walk, i),
           [run |-> <<>>, ranges |-> <<>>],
           [i \in 1..common |-> i])

\* Fault: a run that reaches the end of the common prefix is never closed.
DivergentRangesOpen(b, c) ==
  LET common == Min({Len(b), Len(c)})
      total == Max({Len(b), Len(c)})
      walk == WalkBlocks(b, c, common)
  IN  IF b = <<>> \/ c = <<>> THEN <<>>
      ELSE walk.ranges \o IF common < total THEN <<<<common, total>>>> ELSE <<>>

\* What only the longer chain has is a range of its own; none without blocks.
DivergentRanges(b, c) ==
  LET common == Min({Len(b), Len(c)})
      total == Max({Len(b), Len(c)})
      walk == CloseRun(WalkBlocks(b, c, common), common)
  IN  IF b = <<>> \/ c = <<>> THEN <<>>
      ELSE walk.ranges \o IF common < total THEN <<<<common, total>>>> ELSE <<>>

CompareHash(b, c, severity) ==
  IF Truncated(b) \/ Truncated(c) \/ b.precondition # c.precondition
    THEN Skips("hash_incomparable")
  ELSE IF ~Is(b.value, "hash_chain") \/ ~Is(c.value, "hash_chain")
    THEN Judged(Escalate(severity))
  ELSE IF b.value.digest = c.value.digest THEN Judged("pass")
  ELSE [Judged(Escalate(severity))
          EXCEPT !.divergence = DivergentRanges(b.value.blocks, c.value.blocks)]

-------------------------------------------------------------------------------
(* dist: the largest difference of the two normalised histograms, whose    *)
(* counts are not negative.                                                *)
Bins(value) == IF Is(value, "histogram") THEN value.bins ELSE <<>>
BinCount(bins, name) == IF name \in DOMAIN bins THEN bins[name] ELSE 0
TotalOf(bins) == FoldFunction(+, 0, bins)

\* A histogram without counts has proportions over 1.
ProportionTotal(bins) == IF TotalOf(bins) > 0 THEN TotalOf(bins) ELSE 1

\* One bin's |a/A - b/B| as num / (A * B).
BinDifference(a, a_total, b, b_total) ==
  LET num == Magnitude(a * b_total - b * a_total)
      den == a_total * b_total
  IN  [num |-> num, den |-> den,
       fits |-> \A n \in {a * b_total, b * a_total, num, den} : Representable(n)]

\* Fault: both sides are normalised by the baseline's total.
DifferencesByBaseline(b, c) ==
  [name \in DOMAIN b \cup DOMAIN c |->
     BinDifference(BinCount(b, name), ProportionTotal(b), BinCount(c, name), ProportionTotal(b))]

Differences(b, c) ==
  [name \in DOMAIN b \cup DOMAIN c |->
     BinDifference(BinCount(b, name), ProportionTotal(b), BinCount(c, name), ProportionTotal(c))]

\* A bin against the worst before it.
AgainstWorst(bin, worst) ==
  IF \/ worst.overflowed \/ ~bin.fits
     \/ ~Representable(bin.num * worst.den) \/ ~Representable(worst.num * bin.den)
    THEN [worst EXCEPT !.overflowed = TRUE]
  ELSE IF worst.any /\ bin.num * worst.den <= worst.num * bin.den THEN worst
  ELSE [any |-> TRUE, overflowed |-> FALSE, num |-> bin.num, den |-> bin.den]

\* The order of the bins makes no difference: all have one denominator.
WorstOf(bins) ==
  FoldFunction(AgainstWorst, [any |-> FALSE, overflowed |-> FALSE, num |-> 0, den |-> 1], bins)

\* The tolerance is a percentage of a proportion; its warn threshold is not read.
CompareDist(b, c, severity, tolerance) ==
  LET worst == WorstOf(Differences(Bins(b.value), Bins(c.value)))
      scaled == worst.num * tolerance.den
  IN  IF ~Representable(TotalOf(Bins(b.value))) \/ ~Representable(TotalOf(Bins(c.value)))
        THEN Judged("error")
      ELSE IF worst.overflowed THEN Judged("error")
      ELSE IF ~worst.any THEN Judged("pass")
      ELSE IF ~Representable(scaled) \/ ~Representable(scaled * 100)
                \/ ~Representable(tolerance.num * worst.den)
        THEN Judged("error")
      ELSE IF scaled * 100 <= tolerance.num * worst.den THEN Judged("pass")
      ELSE Judged(Escalate(severity))

-------------------------------------------------------------------------------
(* span: intervals introduced and removed.                                 *)
StartOf(span) == span[1]
EndOf(span) == span[2]

ByStart(spans) ==
  LET place == Ascending([i \in DOMAIN spans |-> StartOf(spans[i])])
  IN  [i \in DOMAIN spans |-> spans[place[i]]]

\* Two spans at most a tick apart are one.
Absorb(merged, span) ==
  IF merged # <<>> /\ StartOf(span) <= EndOf(Last(merged)) + 1
    THEN [merged EXCEPT ![Len(merged)] =
            <<StartOf(@), Max({EndOf(@), EndOf(span)})>>]
    ELSE Append(merged, span)

\* Fault: the spans are merged in the order in which they come.
MergeUnsorted(spans) == FoldLeft(Absorb, <<>>, spans)

MergeSpans(spans) == FoldLeft(Absorb, <<>>, ByStart(spans))

Overlaps(x, y) == StartOf(x) < EndOf(y) /\ StartOf(y) < EndOf(x)

\* What of the first list meets nothing of the second.
Unmatched(merged, others) ==
  {x \in Range(merged) : \A y \in Range(others) : ~Overlaps(x, y)}

SpansOf(value) == IF Is(value, "span_list") THEN value.spans ELSE <<>>

\* compare_ticks_checked multiplies each tick by the timebases of both.
TickFits(t) == Representable(t * SpanTimebase.num * SpanTimebase.den)

\* The tick after the last end, or the two ends where the spans are joined.
AbsorbOverflows(last, span) ==
  \/ ~Representable(EndOf(last) + 1)
  \/ StartOf(span) <= EndOf(last) + 1 /\ ~(TickFits(EndOf(last)) /\ TickFits(EndOf(span)))

\* Sorting two spans or more compares every start with another.
MergeOverflows(spans) ==
  LET sorted == ByStart(spans)
      MergedBefore(i) == FoldLeft(Absorb, <<>>, SubSeq(sorted, 1, i - 1))
  IN  \/ Len(spans) > 1 /\ \E i \in DOMAIN spans : ~TickFits(StartOf(spans[i]))
      \/ \E i \in 2..Len(spans) : AbsorbOverflows(Last(MergedBefore(i)), sorted[i])

OverlapOverflows(x, y) ==
  \/ ~(TickFits(StartOf(x)) /\ TickFits(EndOf(y)))
  \/ StartOf(x) < EndOf(y) /\ ~(TickFits(StartOf(y)) /\ TickFits(EndOf(x)))

\* A span is held against the others up to the first that it overlaps.
MatchOverflows(merged, others) ==
  \E i \in DOMAIN merged, k \in DOMAIN others :
    /\ \A j \in 1..(k - 1) : ~Overlaps(merged[i], others[j])
    /\ OverlapOverflows(merged[i], others[k])

\* No verdict rests on a comparison that overflowed.
CompareSpan(b, c, severity) ==
  LET before == MergeSpans(SpansOf(b.value))
      after == MergeSpans(SpansOf(c.value))
  IN  IF \/ MergeOverflows(SpansOf(b.value)) \/ MergeOverflows(SpansOf(c.value))
         \/ MatchOverflows(after, before) \/ MatchOverflows(before, after)
        THEN Judged("error")
      ELSE IF Unmatched(after, before) # {} THEN Judged(Escalate(severity))
      ELSE IF Unmatched(before, after) # {} THEN Judged("info")
      ELSE Judged("pass")

-------------------------------------------------------------------------------
(* tol: exact cross-multiplication, so that nothing here can overflow but  *)
(* the end delta.                                                          *)
HasMagnitude(value) == value.kind \in {"int64", "rational"}

\* The adjusted basis holds only if both sides prefer it; adjusted is <<num>>
\* or <<num, den>>.
Basis(m, other) ==
  IF m.adjusted = <<>> \/ other.adjusted = <<>> THEN [num |-> m.value.num, den |-> m.value.den]
  ELSE [num |-> m.adjusted[1],
        den |-> IF Len(m.adjusted) = 2 THEN m.adjusted[2] ELSE m.value.den]

\* Fault: a delta that equals the threshold is beyond it.
WithinStrictly(threshold, b, c, tolerance, widening) ==
  LET delta == Magnitude(c.num * b.den - b.num * c.den)
  IN  IF tolerance.is_relative
        THEN delta * tolerance.den * 100 < threshold * widening * Magnitude(b.num) * c.den
        ELSE delta * tolerance.den < threshold * widening * b.den * c.den

\* Fault: the factor of an estimate is put on the wrong side.
WithinTightened(threshold, b, c, tolerance, widening) ==
  LET delta == Magnitude(c.num * b.den - b.num * c.den) * widening
  IN  IF tolerance.is_relative
        THEN delta * tolerance.den * 100 <= threshold * Magnitude(b.num) * c.den
        ELSE delta * tolerance.den <= threshold * b.den * c.den

Within(threshold, b, c, tolerance, widening) ==
  LET delta == Magnitude(c.num * b.den - b.num * c.den)
  IN  IF tolerance.is_relative
        THEN delta * tolerance.den * 100 <= threshold * widening * Magnitude(b.num) * c.den
        ELSE delta * tolerance.den <= threshold * widening * b.den * c.den

\* With two thresholds the zone alone decides, whatever the severity.
ZoneStatus(b, c, severity, tolerance, widening) ==
  IF tolerance.warn = <<>>
    THEN IF Within(tolerance.num, b, c, tolerance, widening) THEN "pass" ELSE Escalate(severity)
  ELSE IF Within(tolerance.warn[1], b, c, tolerance, widening) THEN "pass"
  ELSE IF Within(tolerance.num, b, c, tolerance, widening) THEN "warn"
  ELSE "fail"

\* The end delta, where both sides have one, may have barely moved.
EndDeltaMoved(b, c) == c.end_delta[1] - b.end_delta[1]
GatedByEndDelta(b, c) == b.end_delta # <<>> /\ c.end_delta # <<>>

\* A material rise from under the ceiling to above it.
CrossesCeiling(b, c, x, y) ==
  /\ b.ceiling = "under" /\ c.ceiling = "above"
  /\ (y.num * x.den - x.num * y.den) * CeilingDeadband[2] >= CeilingDeadband[1] * x.den * y.den

CompareTol(b, c, severity, tolerance) ==
  IF ~HasMagnitude(b.value) \/ ~HasMagnitude(c.value) THEN Aborts("internal")
  ELSE IF GatedByEndDelta(b, c) /\ ~Representable(EndDeltaMoved(b, c)) THEN Judged("error")
  ELSE LET x == Basis(b, c)
           y == Basis(c, b)
           widening == IF b.estimated \/ c.estimated THEN EstimatedFactor ELSE 1
       IN  IF CrossesCeiling(b, c, x, y) THEN Judged("fail")
           ELSE IF GatedByEndDelta(b, c) /\ Magnitude(EndDeltaMoved(b, c)) < EndDeltaEpsilon
             THEN Judged("pass")
           ELSE Judged(ZoneStatus(x, y, severity, tolerance, widening))

-------------------------------------------------------------------------------
(* comparator_for.  The two comparators with a tolerance take the one the  *)
(* registry declares for the profile; the policy's is not consulted.       *)
Compare(c, b, m, severity, profile, expectation) ==
  LET check == Registry[c]
      tolerance == ToleranceFor(check, profile)
  IN  CASE check.semantic = "exact" -> CompareExact(check, b, m, severity, profile, expectation)
        [] check.semantic = "tol" -> CompareTol(b, m, severity, tolerance)
        [] check.semantic = "set" -> CompareSet(b, m, severity)
        [] check.semantic = "presence" -> ComparePresence(b, m, severity)
        [] check.semantic = "hash" -> CompareHash(b, m, severity)
        [] check.semantic = "dist" -> CompareDist(b, m, severity, tolerance)
        [] check.semantic = "span" -> CompareSpan(b, m, severity)
        [] check.semantic = "state" -> CompareState(check, b, m, severity)
===============================================================================
