----------------------------- MODULE GlobMatch -----------------------------
(***************************************************************************)
(* Globs of the configuration against repository paths: the matcher, and   *)
(* what a match is.  A path is a sequence of segments, a segment one of    *)
(* characters; a pattern's segments may hold "*" and "?", or be "**".      *)
(***************************************************************************)
EXTENDS Integers, Sequences

CONSTANTS
  Star, One,     \* "*" and "?" in a segment
  Deep           \* the segment "**"

-----------------------------------------------------------------------------
(* lib/gate-guard-core.mjs.                                                *)

\* After the first i characters of the pattern: the places in the segment from
\* which its worklist reaches the end of both.
matchSegment(pattern, segment) ==
  LET end == Len(segment)
      accepts[i \in 0 .. Len(pattern)] ==
        IF i = Len(pattern) THEN {end}
        ELSE IF pattern[i + 1] = Star
             THEN { j \in 0 .. end : \E k \in j .. end : k \in accepts[i + 1] }
             ELSE { j \in 0 .. end - 1 : /\ pattern[i + 1] \in {One, segment[j + 1]}
                                         /\ j + 1 \in accepts[i + 1] }
  IN  0 \in accepts[0]

\* Of the recursion over both: the places in the path that pattern's rest matches.
matchGlob(pattern, path) ==
  LET end == Len(path)
      matches[i \in 0 .. Len(pattern)] ==
        IF i = Len(pattern) THEN {end}
        ELSE IF pattern[i + 1] = Deep
             THEN { j \in 0 .. end : \E k \in j .. end : k \in matches[i + 1] }
             ELSE { j \in 0 .. end - 1 : /\ matchSegment(pattern[i + 1], path[j + 1])
                                         /\ j + 1 \in matches[i + 1] }
  IN  0 \in matches[0]

-----------------------------------------------------------------------------
(***************************************************************************)
(* What a match is, whoever computes it: the path is cut into as many      *)
(* stretches as the pattern has segments, each covered by its own, a "**"  *)
(* by any stretch and another by one segment; and a segment likewise by    *)
(* characters.                                                             *)
(***************************************************************************)
Cuts(n, m) == { cut \in [0 .. n -> 0 .. m] :
                  cut[0] = 0 /\ cut[n] = m /\ \A i \in 1 .. n : cut[i - 1] <= cut[i] }

SegmentCovered(pattern, segment) ==
  \E cut \in Cuts(Len(pattern), Len(segment)) : \A i \in 1 .. Len(pattern) :
    pattern[i] # Star =>
      cut[i] = cut[i - 1] + 1 /\ pattern[i] \in {One, segment[cut[i]]}

PathCovered(pattern, path) ==
  \E cut \in Cuts(Len(pattern), Len(path)) : \A i \in 1 .. Len(pattern) :
    pattern[i] # Deep => cut[i] = cut[i - 1] + 1 /\ SegmentCovered(pattern[i], path[cut[i]])
=============================================================================
