--------------------------- MODULE DiscoveryScan ---------------------------
(***************************************************************************)
(* The discovery scan: a fan-out of search strategies, each raced against  *)
(* its timeout, whose candidates are merged, ranked, capped and split into *)
(* partitions for the discovery workers.                                   *)
(*                                                                         *)
(* Abstracted: how a strategy tells a match, and what a candidate's reason *)
(* says; hits are one per match; a directory the walk cannot read and a    *)
(* git grep that fails are files that do not match.  The proximity bonus   *)
(* is given or not per file.  Each worker's telemetry line is left out.    *)
(***************************************************************************)
EXTENDS Integers, FiniteSets, FiniteSetsExt, SequencesExt, Ranking

CONSTANTS
  Strategies,        \* the strategies, each one worker
  ScanFiles,         \* how many files there are, numbered in path order
  Escaping,          \* those outside the repository
  NearSeed,          \* those in the directory of a seed file
  MaxSources,        \* how many candidates the budget keeps
  ScanWorkers,       \* how many partitions are wanted
  NoScan             \* nothing stored; no report yet

ASSUME ScanAssumption ==
  /\ IsFiniteSet(Strategies) /\ Strategies # {}
  /\ ScanFiles \in Nat /\ MaxSources \in Nat /\ ScanWorkers \in Nat \ {0}
  /\ Escaping \subseteq 1..ScanFiles /\ NearSeed \subseteq 1..ScanFiles

Candidates == 1..ScanFiles

VARIABLES
  worker,      \* of each strategy: where it is and what it has matched
  race,        \* of each strategy: how its race against the timeout ended
  store,       \* what each strategy has left of its matches
  report,      \* discovery-scan.json
  partial      \* history: the strategies told to stop while still searching

scanVars == <<worker, race, store, report, partial>>

ScanInit ==
  /\ worker = [s \in Strategies |-> [at |-> 1, hits |-> {}]]
  /\ race = [s \in Strategies |-> "open"]
  /\ store = [s \in Strategies |-> NoScan]
  /\ report = NoScan
  /\ partial = {}

aborted(s) == race[s] = "timeout"
Searching(s) == worker[s].at \in 1..(ScanFiles + 1)

\* One file: a match or not.
SearchFile(s) ==
  /\ worker[s].at \in Candidates /\ ~aborted(s)
  /\ \E hits \in {worker[s].hits, worker[s].hits \cup {worker[s].at}} :
       worker' = [worker EXCEPT ![s] = [at |-> @.at + 1, hits |-> hits]]
  /\ UNCHANGED <<race, store, report, partial>>

\* All files searched, or told to stop: the matches are stored either way.
StoreMatches(s) ==
  /\ worker[s].at = ScanFiles + 1 \/ (Searching(s) /\ aborted(s))
  /\ store' = [store EXCEPT ![s] = worker[s].hits]
  /\ worker' = [worker EXCEPT ![s].at = ScanFiles + 2]
  /\ UNCHANGED <<race, report, partial>>

\* Mutant: a return that comes after the timeout still counts.
LateReturnCounts(s) ==
  /\ worker[s].at = ScanFiles + 2 /\ race[s] \in {"open", "timeout"}
  /\ race' = [race EXCEPT ![s] = "valid"]
  /\ UNCHANGED <<worker, store, report, partial>>

\* The return is validated against the worker contract; a worker may throw.
WorkerReturns(s) ==
  /\ worker[s].at = ScanFiles + 2 /\ race[s] = "open"
  /\ race' = [race EXCEPT ![s] = "valid"]
  /\ UNCHANGED <<worker, store, report, partial>>

WorkerThrows(s) ==
  /\ race[s] = "open"
  /\ race' = [race EXCEPT ![s] = "failed"]
  /\ worker' = [worker EXCEPT ![s].at = ScanFiles + 3]
  /\ UNCHANGED <<store, report, partial>>

\* withTimeout: the race is lost first, then the worker is told to stop; it
\* is not waited for.
withTimeout(s) ==
  /\ race[s] = "open"
  /\ race' = [race EXCEPT ![s] = "timeout"]
  /\ partial' = IF Searching(s) THEN partial \cup {s} ELSE partial
  /\ UNCHANGED <<worker, store, report>>

---------------------------------------------------------------------------
ValidReturns == {s \in Strategies : race[s] = "valid"}

\* mergeCandidates: by path, those outside the repository dropped and counted.
FoundBy(f) == {s \in ValidReturns : f \in store[s]}
Merged == {f \in Candidates \ Escaping : FoundBy(f) # {}}
EscapingHits == Cardinality({hit \in ValidReturns \X Escaping : hit[2] \in store[hit[1]]})

\* Ten for a strategy, one for a hit, five near a seed; ties by path.
CandidateScore(f) == 11 * Cardinality(FoundBy(f)) + (IF f \in NearSeed THEN 5 ELSE 0)
Ranks(f, g) == CandidateScore(f) > CandidateScore(g) \/ (CandidateScore(f) = CandidateScore(g) /\ f < g)
RankedCandidates == InOrder(Merged, Ranks)

\* partitionCandidates, all candidates in one directory: pieces of at most
\* one and a half shares when they are more than that, each piece, the longest
\* first, put into the smallest partition.
Share(n) == (n + ScanWorkers - 1) \div ScanWorkers
Pieces(cs) ==
  LET stride == Max({1, (3 * Share(Len(cs))) \div 2})
  IN  IF 2 * Len(cs) > 3 * Share(Len(cs))
      THEN [i \in 1..((Len(cs) + stride - 1) \div stride) |->
              SubSeq(cs, (i - 1) * stride + 1, Min({i * stride, Len(cs)}))]
      ELSE IF cs = <<>> THEN <<>> ELSE <<cs>>

Smallest(parts) ==
  CHOOSE p \in 1..ScanWorkers :
    \A q \in 1..ScanWorkers : Len(parts[p]) < Len(parts[q]) \/ (Len(parts[p]) = Len(parts[q]) /\ p <= q)

Deal(parts, piece) == [parts EXCEPT ![Smallest(parts)] = @ \o piece]

partitionCandidates(cs) == FoldLeft(Deal, [p \in 1..ScanWorkers |-> <<>>], Pieces(cs))

\* fanout has settled when no race is open; half of the strategies must have
\* come through.
runDiscoveryScan ==
  /\ report = NoScan /\ \A s \in Strategies : race[s] # "open"
  /\ LET kept == SubSeq(RankedCandidates, 1, Min({MaxSources, Cardinality(Merged)}))
     IN  report' =
           [candidates |-> kept,
            strategies |-> [f \in Range(kept) |-> FoundBy(f)],
            dropped |-> (Cardinality(Merged) - Len(kept)) + EscapingHits,
            violations |-> Strategies \ ValidReturns,
            insufficient |-> 2 * Cardinality(ValidReturns) < Cardinality(Strategies),
            partitions |-> partitionCandidates(kept)]
  /\ UNCHANGED <<worker, race, store, partial>>

ScanNext ==
  \/ runDiscoveryScan
  \/ \E s \in Strategies :
       \/ SearchFile(s) \/ StoreMatches(s) \/ WorkerReturns(s) \/ WorkerThrows(s)
       \/ withTimeout(s)

ScanSpec == ScanInit /\ [][ScanNext]_scanVars

---------------------------------------------------------------------------
ScanTypeOK ==
  /\ \A s \in Strategies :
       /\ worker[s].at \in 1..(ScanFiles + 3) /\ worker[s].hits \subseteq Candidates
       /\ race[s] \in {"open", "valid", "failed", "timeout"}
       /\ store[s] # NoScan => store[s] \subseteq Candidates
  /\ partial \subseteq Strategies

(***************************************************************************)
(* A report rests on whole searches only: what a strategy left behind when *)
(* it was told to stop, before or after the report, is in no candidate.    *)
(* Each strategy is counted or named a violation; a match that is not a    *)
(* candidate is counted as dropped; and each candidate is once in the part *)
(* of one discovery worker, and nothing else is.                           *)
(***************************************************************************)
ReportCountsWholeSearches ==
  report # NoScan =>
    LET counted == Strategies \ report.violations
        kept == Range(report.candidates)
    IN  /\ partial \subseteq report.violations
        /\ \A f \in kept : report.strategies[f] = {s \in counted : f \in worker[s].hits}
        /\ Cardinality(UNION {worker[s].hits \ Escaping : s \in counted})
             + Cardinality({hit \in counted \X Escaping : hit[2] \in worker[hit[1]].hits})
             = Len(report.candidates) + report.dropped
        /\ \A p \in 1..ScanWorkers : Range(report.partitions[p]) \subseteq kept
        /\ \A f \in kept :
             \E p \in 1..ScanWorkers : \E i \in DOMAIN report.partitions[p] :
               \A q \in 1..ScanWorkers : \A j \in DOMAIN report.partitions[q] :
                 report.partitions[q][j] = f <=> q = p /\ j = i

=============================================================================
