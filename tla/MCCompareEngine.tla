---------------------------- MODULE MCCompareEngine ----------------------------
(***************************************************************************)
(* Instances of CompareEngine: a registry with a check of every semantic,  *)
(* the worlds that are tried, and what comparators and policies promise.   *)
(***************************************************************************)
EXTENDS ComparePromises

-------------------------------------------------------------------------------
(* The registry.                                                           *)
Tol(unit, num, den, is_relative, warn) ==
  [unit |-> unit, num |-> num, den |-> den, is_relative |-> is_relative, warn |-> warn]
NoTolerance == Tol("none", 0, 1, FALSE, <<>>)
Percent(num, warn) == Tol("percent", num, 1, TRUE, warn)

Check(id, semantic, kind, tolerance) ==
  [id |-> id, semantic |-> semantic, kind |-> kind, unit |-> tolerance.unit,
   is_volatile |-> FALSE, default_severity |-> Fail, severity_overrides |-> <<>>,
   default_tolerance |-> tolerance, tolerance_overrides |-> <<>>,
   transform_affected |-> FALSE, flagged_values |-> {}]

MCRegistry == <<
  Check(<<"container", "format">>, "exact", "string", NoTolerance),
  Check(<<"container", "mp4", "faststart">>, "exact", "string", NoTolerance),
  Check(<<"container", "mkv", "cues">>, "presence", "string", NoTolerance),
  Check(<<"container", "ts", "pids">>, "set", "string_set", NoTolerance),
  [Check(<<"size", "file">>, "tol", "int64", Percent(5, <<2>>))
     EXCEPT !.default_severity = Warn, !.severity_overrides = "remux" :> Fail],
  Check(<<"timeline", "av_offset">>, "tol", "rational", Tol("ms", 5, 1, FALSE, <<>>)),
  Check(<<"timeline", "av_drift">>, "tol", "rational", Tol("ms_per_min", 1, 5, FALSE, <<>>)),
  Check(<<"audio", "true_peak">>, "tol", "rational", Tol("db", 3, 10, FALSE, <<>>)),
  [Check(<<"video", "resolution">>, "exact", "string", NoTolerance)
     EXCEPT !.transform_affected = TRUE],
  [Check(<<"video", "frame_types">>, "dist", "histogram", Percent(5, <<>>))
     EXCEPT !.default_severity = Warn, !.tolerance_overrides = "hw_encoder" :> Percent(10, <<>>)],
  Check(<<"timeline", "gaps">>, "span", "span_list", NoTolerance),
  Check(<<"content", "sample_hash">>, "hash", "hash_chain", NoTolerance),
  [Check(<<"video", "range_coherence">>, "state", "string", NoTolerance)
     EXCEPT !.flagged_values = {"bad"}],
  [Check(<<"meta", "tool_version">>, "exact", "string", NoTolerance)
     EXCEPT !.is_volatile = TRUE, !.severity_overrides = "remux" :> Fail] >>

MCProfiles == {"default", "remux", "hw_encoder", "transform"}

MCCeilingDeadband == <<10, 1000>>

CheckNamed(id) == CHOOSE c \in DOMAIN MCRegistry : MCRegistry[c].id = id

-------------------------------------------------------------------------------
(* Values, measurements and worlds.                                        *)
Absent == [kind |-> "absent"]
Count(n) == [kind |-> "int64", num |-> n, den |-> 1]
Rational(n, d) == [kind |-> "rational", num |-> n, den |-> d]
Text(text) == [kind |-> "string", text |-> text, size |-> <<>>]
Dimensions(w, h) == [kind |-> "string", text |-> "size", size |-> <<w, h>>]
StringSet(elements) == [kind |-> "string_set", elements |-> elements]
Histogram(bins) == [kind |-> "histogram", bins |-> bins]
SpanList(spans) == [kind |-> "span_list", spans |-> spans]
\* The digest of a chain is a digest of its blocks; older chains have no blocks.
Chain(blocks) == [kind |-> "hash_chain", digest |-> blocks, blocks |-> blocks]
OldChain(digest) == [kind |-> "hash_chain", digest |-> <<"old", digest>>, blocks |-> <<>>]

NoPrecondition == [path |-> "none", sampling |-> "none", normalization |-> "none"]

MeasuredAt(check, kind, index, value) ==
  [check |-> check, scope |-> [kind |-> kind, index |-> index], value |-> value,
   skip |-> "none", estimated |-> FALSE, adjusted |-> <<>>, end_delta |-> <<>>,
   ceiling |-> "none", precondition |-> NoPrecondition]

Of(id, value) == MeasuredAt(CheckNamed(id), Global, 0, value)

NoConfig == [severity |-> <<>>, tolerance |-> <<>>, overrides |-> <<>>]

World(baseline, candidate) ==
  [command |-> "compare", profile |-> "default", config |-> NoConfig, cli |-> <<>>,
   path |-> <<"a.mp4">>, expectation |-> <<>>, baseline |-> baseline, candidate |-> candidate]

PairsOf(measurements) == {World(<<b>>, <<c>>) : b, c \in measurements}

-------------------------------------------------------------------------------
(* One check at a time: every pair of its measurements.                    *)
Sizes == {[Of(<<"size", "file">>, Count(n)) EXCEPT !.estimated = e] :
            n \in {0, 100, 102, 103, 105, 106, 110}, e \in BOOLEAN}

Offsets == {[Of(<<"timeline", "av_offset">>, Rational(r[1], r[2])) EXCEPT !.adjusted = a] :
              r \in {<<0, 1>>, <<5, 1>>, <<11, 2>>, <<-15, 3>>}, a \in {<<>>, <<4>>, <<21, 2>>}}

Drifts == {[Of(<<"timeline", "av_drift">>, Rational(r[1], r[2]))
              EXCEPT !.end_delta = d, !.estimated = e] :
             r \in {<<0, 1>>, <<1, 5>>, <<3, 10>>, <<1, 1>>},
             d \in {<<>>, <<0>>, <<1>>, <<2>>, <<MaxInt>>, <<-MaxInt>>}, e \in BOOLEAN}

Peaks == {[Of(<<"audio", "true_peak">>, Rational(n, 1000))
             EXCEPT !.ceiling = IF n > -1000 THEN "above" ELSE "under"] :
            n \in {-1400, -1100, -1005, -1000, -995, -990, -700}}

Resolutions == {Of(<<"video", "resolution">>, v) :
                  v \in {Dimensions(4, 2), Dimensions(2, 1), Dimensions(3, 2), Text("none"), Absent}}
Expectations == {<<>>,
                 <<[is_scale_factor |-> FALSE, absolute |-> <<2, 1>>,
                    factor |-> [num |-> 1, den |-> 1]]>>,
                 <<[is_scale_factor |-> TRUE, absolute |-> <<>>,
                    factor |-> [num |-> 1, den |-> 2]]>>}
Transforms == {[w EXCEPT !.profile = p, !.expectation = e] :
                 w \in PairsOf(Resolutions), p \in {"default", "transform"}, e \in Expectations}

FrameTypes == {Of(<<"video", "frame_types">>, Histogram(bins)) :
                 bins \in [1..2 -> {0, 1, 19, 20}] \cup {<<>>, <<18, 1, 1>>, <<9, 0, 1>>}}
Distributions == {[w EXCEPT !.profile = p] :
                    w \in PairsOf(FrameTypes), p \in {"default", "hw_encoder"}}

MCSpanTimebase == [num |-> 1, den |-> 2]

\* The last tick that fits is MaxInt \div 2, the last tick of 64 bits MaxInt.
LastFit == MaxInt \div 2
Intervals == {<<0, 2>>, <<2, 3>>, <<1, 5>>, <<4, 6>>, <<7, 9>>}
LateIntervals == {<<0, 2>>, <<LastFit - 3, LastFit - 2>>, <<LastFit - 1, LastFit>>, <<LastFit, LastFit + 2>>,
                  <<MaxInt - 1, MaxInt>>}
Gaps == {Of(<<"timeline", "gaps">>, SpanList(spans)) : spans \in SeqOf(Intervals, 2)}
LateGaps == {Of(<<"timeline", "gaps">>, SpanList(spans)) : spans \in SeqOf(LateIntervals, 2)}

Blocks == SeqOf({"x", "y"}, 3)
Chains == {Of(<<"content", "sample_hash">>, value) :
             value \in {Chain(blocks) : blocks \in Blocks} \cup {OldChain("x"), OldChain("y")}}
Hashes == {[Of(<<"content", "sample_hash">>, Chain(blocks))
              EXCEPT !.precondition = [path |-> p, sampling |-> s, normalization |-> "s16"]] :
             blocks \in {<<"x">>, <<"y">>}, p \in {"class1", "class2"}, s \in {"full", "truncated"}}

States == {Of(<<"video", "range_coherence">>, v) : v \in {Text("ok"), Text("bad"), Text("odd"), Absent}}
PidSets == {Of(<<"container", "ts", "pids">>, v) :
              v \in {StringSet(s) : s \in SUBSET {"a", "b"}} \cup {Absent}}
Presences == {Of(<<"container", "mkv", "cues">>, v) : v \in {Text("first"), Text("last"), Absent}}

OneCheck ==
  UNION {PairsOf(Sizes), PairsOf(Offsets), PairsOf(Drifts), PairsOf(Peaks), Transforms,
         Distributions, PairsOf(Gaps), PairsOf(LateGaps), PairsOf(Chains), PairsOf(Hashes), PairsOf(States),
         PairsOf(PidSets), PairsOf(Presences)}

-------------------------------------------------------------------------------
(* Several checks at a time: what two files of one or two families have    *)
(* measured, in the order of the registry or the other way round.          *)
At(id, kind, index, text) == MeasuredAt(CheckNamed(id), kind, index, Text(text))
Video == 1

Pool == <<
  At(<<"container", "mp4", "faststart">>, Global, 0, "yes"),
  [At(<<"container", "mkv", "cues">>, Global, 0, "no") EXCEPT !.value = Absent, !.skip = "not_applicable_container"],
  At(<<"container", "mkv", "cues">>, Video, 0, "first"),
  [MeasuredAt(CheckNamed(<<"container", "ts", "pids">>), Program, 1, StringSet({"a"}))
     EXCEPT !.skip = "requires_media"],
  MeasuredAt(CheckNamed(<<"container", "ts", "pids">>), Program, 2, StringSet({"b"})),
  MeasuredAt(CheckNamed(<<"video", "resolution">>), Video, 1, Count(7)) >>

Formats == {<<At(<<"container", "format">>, Global, 0, text)>> : text \in {"mov", "matroska", "wav"}}
           \cup {<<Of(<<"container", "format">>, Absent)>>, <<>>}

\* What one file has of the pool, in the order of the pool.
Some(part) == FoldLeft(LAMBDA ms, i : IF i \in part THEN Append(ms, Pool[i]) ELSE ms,
                       <<>>, <<1, 2, 3, 4, 5, 6>>)
Twice == <<At(<<"video", "resolution">>, Video, 0, "early"), At(<<"video", "resolution">>, Video, 0, "late")>>

\* The second file was read in the opposite order and has one measurement twice.
Corpora ==
  {World(f \o Some(b), Reverse(Some(c)) \o Twice \o g) :
     f, g \in Formats, b, c \in {{}, {1, 3, 5}, {2, 4, 6}, {3, 4}, {1, 5, 6}, DOMAIN Pool}}

-------------------------------------------------------------------------------
(* Policies: one pair of files that differ, under every configuration.     *)
SeverityRule(glob, severity) == [glob |-> glob, severity |-> severity]
ToleranceRule(glob, tolerance) == [glob |-> glob, tolerance |-> tolerance]

Block(path_glob, file_order, severity, tolerance) ==
  [path_glob |-> path_glob, file_order |-> file_order, severity |-> severity, tolerance |-> tolerance]

Blocks2 == <<Block(<<"clips", "*">>, 2, <<SeverityRule(<<"size", "**">>, Ignore)>>, <<>>),
             Block(<<"**">>, 1, <<SeverityRule(<<"*", "file">>, Warn), SeverityRule(<<"meta", "*">>, Info)>>,
                   <<ToleranceRule(<<"size", "file">>, Percent(50, <<>>))>>)>>

Configs ==
  [severity : {<<>>, <<SeverityRule(<<"**">>, Info), SeverityRule(<<"video", "*">>, Warn)>>,
               <<SeverityRule(<<"**", "file">>, Info)>>},
   tolerance : {<<>>, <<ToleranceRule(<<"size", "*">>, Percent(50, <<10>>))>>},
   overrides : {<<>>, SubSeq(Blocks2, 1, 1), Blocks2}]

MCCommandLines ==
  {<<>>,
   <<SeverityRule(<<"size", "file">>, Fail)>>,
   <<ToleranceRule(<<"size", "file">>, Percent(20, <<>>)), SeverityRule(<<"**">>, Warn), SeverityRule(<<"size", "*">>, Info)>>,
   <<ToleranceRule(<<"**">>, Percent(20, <<>>))>>}

Differing ==
  World(<<Of(<<"size", "file">>, Count(100)), Of(<<"meta", "tool_version">>, Text("1"))>>,
        <<Of(<<"size", "file">>, Count(110)), Of(<<"meta", "tool_version">>, Text("2"))>>)

Policies ==
  {[Differing EXCEPT !.command = command, !.profile = profile, !.config = config,
                     !.cli = cli, !.path = path] :
     command \in {"compare", "dir"}, profile \in {"default", "remux"}, config \in Configs,
     cli \in MCCommandLines, path \in {<<"clips", "a.mp4">>, <<"a.mp4">>}}

MCWorlds == UNION {OneCheck, Corpora, Policies}
===============================================================================
