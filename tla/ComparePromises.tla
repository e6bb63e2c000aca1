---------------------------- MODULE ComparePromises ----------------------------
(***************************************************************************)
(* What the comparators and the resolution of policies promise, stated of  *)
(* the findings of a comparison that has come to its end.                  *)
(***************************************************************************)
EXTENDS CompareEngine

\* A measurement that tol can judge has exact numbers with positive denominators, a
\* histogram counts, no span is empty, and a chain is a sequence of blocks.
Measurable(m) ==
  /\ {"value", "estimated", "adjusted", "end_delta", "ceiling"} \subseteq DOMAIN m
  /\ "kind" \in DOMAIN m.value
  /\ HasMagnitude(m.value) => /\ {"num", "den"} \subseteq DOMAIN m.value
                              /\ m.value.num \in Int /\ m.value.den \in Nat \ {0}
  /\ Is(m.value, "histogram") => "bins" \in DOMAIN m.value
  /\ m.estimated \in BOOLEAN
  /\ m.adjusted \in Seq(Int)
  /\ Len(m.adjusted) = 2 => m.adjusted[2] > 0
  /\ m.end_delta \in Seq(Int)
  /\ LET bins == Bins(m.value)
     IN  IsFiniteSet(DOMAIN bins) /\ \A name \in DOMAIN bins : bins[name] \in Nat
  /\ SpansOf(m.value) \in Seq({span \in Int \X Int : StartOf(span) < EndOf(span)})
  /\ Is(m.value, "hash_chain") => m.value.blocks \in Seq(Range(m.value.blocks))

\* The tolerances are not negative (parse_tolerance), severities are of the four
\* words, and what the fingerprints, the configuration and the command line hold
\* is well formed (options.cpp and config/toml_load.cpp reject anything else).  The
\* one check of the hash semantic measures a chain or says why it does not
\* (sample_hash.cpp:36, 161).
ASSUME PromisesAssumption ==
  /\ EstimatedFactor \in Nat \ {0}
  /\ MaxInt \in Nat
  /\ SpanTimebase \in [num : Nat \ {0}, den : Nat \ {0}]
  /\ CeilingDeadband \in Nat \X (Nat \ {0})
  /\ \A c \in Checks, p \in Profiles :
       /\ Registry[c].default_severity \in Severities
       /\ SeverityFor(Registry[c], p) \in Severities
       /\ ToleranceFor(Registry[c], p) \in Tolerances
  /\ \A w \in Worlds :
       /\ w.profile \in Profiles
       /\ w.config \in ConfigFiles
       /\ w.cli \in CommandLines
       /\ \A fingerprint \in {w.baseline, w.candidate} :
            \A key \in KeysOf(fingerprint) :
              LET m == Measured(fingerprint, key)
              IN  /\ Measurable(m)
                  /\ Registry[key[1]].semantic = "hash" /\ m.skip = "none" =>
                       Is(m.value, "hash_chain")

Ended == stage = "done" /\ error = "none"

Baseline(f) == Measured(world.baseline, f.key)
Candidate(f) == Measured(world.candidate, f.key)
CheckOf(f) == Registry[f.key[1]]

\* The findings that a comparator has made.
JudgedFindings ==
  {f \in {findings[i] : i \in DOMAIN findings} :
     /\ Comparable(f.key)
     /\ OfKind(Baseline(f), f.key) /\ OfKind(Candidate(f), f.key)}

Expecting(f) ==
  world.profile = "transform" /\ CheckOf(f).transform_affected /\ world.expectation # <<>>

Rejudged(f, b, c) == Compare(f.key[1], b, c, f.severity, world.profile, world.expectation)

Strictness(status) == CASE status = "pass" -> 0 [] status = "info" -> 1
                        [] status = "warn" -> 2 [] OTHER -> 3

-------------------------------------------------------------------------------
\* The counts of a histogram can be multiplied in 64 bits (dist.cpp:132, 154, 181).
CountsFit(f) ==
  LET total == ProportionTotal(Bins(Baseline(f).value))
  IN  total * total * Larger(1, ToleranceFor(CheckOf(f), world.profile).num) <= MaxInt

\* The starts and ends of a file's spans can be compared in 64 bits (rational.h:644,
\* span.cpp:87).
EndsFit(m) == \A span \in Range(SpansOf(m.value)) :
                /\ TickFits(StartOf(span)) /\ TickFits(EndOf(span))
                /\ Representable(EndOf(span) + 1)

\* A file compared with itself gives no difference, unless what it holds is flagged
\* or is not what the transform was to make of it, or its counts are beyond the
\* arithmetic of dist; and where the times of its spans are beyond the arithmetic
\* of span, nothing but an error (01-core-concepts.md:71, span.cpp:165).
SelfComparisonIsClean ==
  Ended /\ world.baseline = world.candidate =>
    \A f \in JudgedFindings :
      \/ CheckOf(f).semantic = "state" \/ Expecting(f)
      \/ CheckOf(f).semantic = "dist" /\ ~CountsFit(f)
      \/ CheckOf(f).semantic = "span" /\ ~EndsFit(Baseline(f)) /\ f.status = "error"
      \/ f.status \in {"pass", "skipped"}

\* Where a semantic speaks of a difference and not of a direction, the two files
\* can change places; the exceptions are the relative tolerance, the ceiling, spans
\* and the expectation (span.cpp:121, tol.cpp:281, tol.cpp:456, exact.cpp:71).
Undirected(f) ==
  \/ CheckOf(f).semantic \in {"set", "presence", "state", "hash", "dist"}
  \/ CheckOf(f).semantic = "exact" /\ ~Expecting(f)
  \/ /\ CheckOf(f).semantic = "tol"
     /\ ~ToleranceFor(CheckOf(f), world.profile).is_relative
     /\ Candidate(f).ceiling = "none"

DifferencesHaveNoDirection ==
  Ended => \A f \in JudgedFindings :
             Undirected(f) => Rejudged(f, Candidate(f), Baseline(f)).status = f.status

\* A measurement that is only an estimate is judged more leniently, never more
\* strictly (tol.cpp:432), unless a ceiling is crossed.
EstimatesAreJudgedLeniently ==
  Ended => \A f \in JudgedFindings :
             CheckOf(f).semantic = "tol" =>
               Strictness(Rejudged(f, [Baseline(f) EXCEPT !.estimated = TRUE], Candidate(f)).status)
                 <= Strictness(f.status)

\* Proportions over one denominator can be compared with one another and with a
\* tolerance in 64 bits (dist.cpp:154, 181).
ProductsFit(den, tolerance) ==
  den * Larger(den, Larger(100 * tolerance.den, tolerance.num)) <= MaxInt

\* The denominator of the proportions of two histograms.
CommonTotal(f) ==
  ProportionTotal(Bins(Baseline(f).value)) * ProportionTotal(Bins(Candidate(f).value))

\* A verdict on numbers is one on their ratio: fractions that are not in lowest
\* terms and histograms of a file twice as long are judged alike, the latter where
\* their products fit (tol.cpp:456, dist.cpp:101).
Doubled(m) ==
  CASE Is(m.value, "rational") ->
         [m EXCEPT !.value.num = 2 * @, !.value.den = 2 * @,
                   !.adjusted = [i \in DOMAIN @ |-> 2 * @[i]]]
    [] Is(m.value, "histogram") -> [m EXCEPT !.value.bins = [n \in DOMAIN @ |-> 2 * @[n]]]
    [] OTHER -> m

OnlyRatiosMatter ==
  Ended => \A f \in JudgedFindings :
             \/ CheckOf(f).semantic = "tol"
             \/ /\ CheckOf(f).semantic = "dist"
                /\ ProductsFit(2 * CommonTotal(f), ToleranceFor(CheckOf(f), world.profile))
             => /\ Rejudged(f, Doubled(Baseline(f)), Candidate(f)).status = f.status
                /\ Rejudged(f, Baseline(f), Doubled(Candidate(f))).status = f.status

\* Spans are judged by the time they cover: one is introduced where a stretch of
\* candidate time, gaps of a tick included, shares no tick with such a stretch of
\* the baseline (span.cpp:60, 121).  A tick is the stretch from it to the next.  Times
\* that cannot be compared in 64 bits may give an error, and never another verdict
\* (span.cpp:165).
Ticks(spans) == UNION {StartOf(spans[i])..(EndOf(spans[i]) - 1) : i \in DOMAIN spans}
Covered(spans) == LET ticks == Ticks(spans)
                  IN  ticks \cup {t \in {u + 1 : u \in ticks} : t + 1 \in ticks}
Stretch(t, covered) == {u \in covered : (Min({t, u})..Max({t, u})) \subseteq covered}
Meets(covered, others) == \A t \in covered : Stretch(t, covered) \cap others # {}

SpansAreJudgedByTheirTime ==
  Ended => \A f \in JudgedFindings :
             CheckOf(f).semantic = "span" =>
               LET before == Covered(SpansOf(Baseline(f).value))
                   after == Covered(SpansOf(Candidate(f).value))
               IN  \/ f.status = IF ~Meets(after, before) THEN Escalate(f.severity)
                                 ELSE IF Meets(before, after) THEN "pass" ELSE "info"
                   \/ f.status = "error" /\ ~(EndsFit(Baseline(f)) /\ EndsFit(Candidate(f)))

\* The divergent ranges are the blocks that differ, each once and in order, the
\* blocks that only the longer chain has among them (hash.cpp:82, 114).
BlocksOf(f, side) == IF Is(side.value, "hash_chain") THEN side.value.blocks ELSE <<>>
Differ(b, c) == {i \in 0..Max({Len(b), Len(c)}) - 1 :
                   i >= Len(b) \/ i >= Len(c) \/ b[i + 1] # c[i + 1]}

DivergenceIsExact ==
  Ended => \A f \in JudgedFindings :
             LET b == BlocksOf(f, Baseline(f))
                 c == BlocksOf(f, Candidate(f))
                 ranges == f.divergence
             IN  /\ CheckOf(f).semantic = "hash" /\ f.status \notin {"pass", "skipped"}
                      /\ b # <<>> /\ c # <<>> =>
                    Differ(b, c) = UNION {r[1]..(r[2] - 1) : r \in Range(ranges)}
                 /\ \A i, j \in DOMAIN ranges : i < j => ranges[i][2] <= ranges[j][1]

\* Stretches of time and of blocks are told exactly.
StretchesAreExact == SpansAreJudgedByTheirTime /\ DivergenceIsExact

\* A tolerance that was set by configuration or on the command line is the one a
\* difference is judged by (policy.h:12).
PolicyToleranceJudges ==
  Ended => \A f \in JudgedFindings :
             CheckOf(f).semantic = "tol" =>
               f.status = CompareTol(Baseline(f), Candidate(f), f.severity,
                                     policy[f.key[1]].tolerance).status

\* Histograms pass when none of their proportions is off by more than the tolerance,
\* and only then, where their products fit (01-core-concepts.md:37).
WithinProportion(b, c, tolerance) ==
  LET b_total == ProportionTotal(b)
      c_total == ProportionTotal(c)
  IN  \A name \in DOMAIN b \cup DOMAIN c :
        Magnitude(BinCount(b, name) * c_total - BinCount(c, name) * b_total) * tolerance.den * 100
          <= tolerance.num * b_total * c_total

ProportionsDecide ==
  Ended => \A f \in JudgedFindings :
             LET tolerance == ToleranceFor(CheckOf(f), world.profile)
             IN  CheckOf(f).semantic = "dist" /\ ProductsFit(CommonTotal(f), tolerance) =>
                   f.status = IF WithinProportion(Bins(Baseline(f).value), Bins(Candidate(f).value), tolerance)
                                THEN "pass" ELSE Escalate(f.severity)

\* A verdict on numbers is one on their ratios, and a small difference of ratios
\* passes.
RatiosDecide == OnlyRatiosMatter /\ ProportionsDecide

-------------------------------------------------------------------------------
\* dir judges a file as compare would, had the configuration only the blocks whose
\* path matches the file's (policy.h, dir.cpp:252).
ForThePath(config) ==
  [config EXCEPT !.overrides = Matching(@, world.path)]

FilePolicyIsComparePolicy ==
  world.command = "dir" /\ stage = "pair" =>
    policy = ResolvePolicy(world.profile, ForThePath(world.config), world.cli).per_check

\* The chain of a check ends in the severity that holds, and its layers are in the
\* order in which they may overrule one another (policy.h, 01-core-concepts.md:42).
Layers == <<"builtin", "profile", "config", "cli">>

ChainExplainsSeverity ==
  \A c \in DOMAIN policy :
    LET chain == policy[c].chain
    IN  /\ chain[1].layer = "builtin"
        /\ Last(chain).value = policy[c].severity
        /\ \A i, j \in DOMAIN chain :
             i < j => \E l, m \in 1..4 : l <= m /\ chain[i].layer = Layers[l] /\ chain[j].layer = Layers[m]

\* One policy for a file, on either command, and a chain that says where it is from.
PolicyIsExplained == FilePolicyIsComparePolicy /\ ChainExplainsSeverity
===============================================================================
