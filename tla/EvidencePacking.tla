-------------------------- MODULE EvidencePacking --------------------------
(***************************************************************************)
(* lib/context/evidence-pack.mjs: which evidence pointers are loaded, and  *)
(* in which form, under a budget of tokens and of sources.                 *)
(*                                                                         *)
(* Abstracted: a pointer's summary is its length in tokens; a path and an  *)
(* epoch are numbers, a confidence 0 or 1; a budget that is no number is   *)
(* one below zero.  The scores are doubled to stay whole.                  *)
(***************************************************************************)
EXTENDS Integers, SequencesExt, FiniteSetsExt, Ranking

CONSTANTS
  EvidencePointers,   \* [confidence, freshness, reason, path, lines, summary]
  MaxPointers,        \* BOUND: pointers to be packed
  Budgets,            \* [maxTokens, maxSources, mode]
  TokensPerLine, DefaultFullTokens,
  WholeFile,          \* a null lineRange
  NoPlan              \* nothing packed yet

ASSUME PackingAssumption ==
  /\ TokensPerLine \in Nat \ {0} /\ DefaultFullTokens \in Nat \ {0}
  /\ \A p \in EvidencePointers :
       /\ p.confidence \in {0, 1} /\ p.freshness \in 0 .. 2 /\ p.reason \in BOOLEAN
       /\ p.path \in Nat /\ p.summary \in Nat \ {0}
       /\ p.lines = WholeFile \/ p.lines \in Int
  /\ MaxPointers \in Nat
  /\ \A b \in Budgets : b.maxTokens \in Int /\ b.maxSources \in Int

VARIABLE plan      \* what was packed, and the plan of it

PackingInit == plan = NoPlan

-----------------------------------------------------------------------------

Plus(a, b) == IF a < b THEN b ELSE a

\* The newest of the set 1, the oldest 0; all of an age 1.
freshnessScorer(pointers, p) ==
  LET epochs == { pointers[i].freshness : i \in DOMAIN pointers }
      span == Max(epochs) - Min(epochs)
  IN  IF span = 0 THEN 2 ELSE (2 * (p.freshness - Min(epochs))) \div span

Value(pointers, p) ==
  2 * p.confidence + freshnessScorer(pointers, p) + (IF p.reason THEN 2 ELSE 0)

\* By value, then path, then place.
RanksBefore(pointers, i, j) ==
  LET p == pointers[i]
      q == pointers[j]
  IN  \/ Value(pointers, p) > Value(pointers, q)
      \/ Value(pointers, p) = Value(pointers, q) /\ p.path < q.path
      \/ Value(pointers, p) = Value(pointers, q) /\ p.path = q.path /\ i <= j

rankByValue(pointers) ==
  LET order == InOrder(DOMAIN pointers, LAMBDA i, j : i # j /\ RanksBefore(pointers, i, j))
  IN  [k \in DOMAIN order |-> pointers[order[k]]]

\* A range that is empty or reversed counts a line.
fullTokens(p) ==
  IF p.lines = WholeFile THEN DefaultFullTokens ELSE Plus(1, p.lines) * TokensPerLine

Nothing == [admitted |-> << >>, used |-> 0]
Load(pack, p, form, cost) ==
  [admitted |-> Append(pack.admitted, [pointer |-> p, form |-> form]), used |-> pack.used + cost]

\* Mutant: a summary is admitted whether or not it fits.
OfferOverdraws(pack, p, maxTokens, maxSources) ==
  LET remaining == maxTokens - pack.used
      full == 5 * remaining > maxTokens /\ fullTokens(p) <= remaining
  IN  IF Len(pack.admitted) >= maxSources \/ remaining <= 0 THEN pack
      ELSE IF full THEN Load(pack, p, "full", fullTokens(p))
      ELSE Load(pack, p, "summary", p.summary)

\* In full while more than a fifth of the tokens is left and it fits, else as a
\* summary, else not.
Offer(pack, p, maxTokens, maxSources) ==
  LET remaining == maxTokens - pack.used
      full == 5 * remaining > maxTokens /\ fullTokens(p) <= remaining
  IN  IF Len(pack.admitted) >= maxSources \/ remaining <= 0 THEN pack
      ELSE IF full THEN Load(pack, p, "full", fullTokens(p))
      ELSE IF p.summary <= remaining THEN Load(pack, p, "summary", p.summary)
      ELSE pack

\* By falling value.
packAdditive(ranked, maxTokens, maxSources) ==
  FoldLeft(LAMBDA pack, p : Offer(pack, p, maxTokens, maxSources), Nothing, ranked)

InAll(costs) == FoldLeft(LAMBDA sum, cost : sum + cost, 0, costs)

\* The best in full, the least of them dropped until they fit.
packSubtractive(ranked, maxTokens, maxSources) ==
  LET Total(k) == InAll([i \in 1 .. k |-> fullTokens(ranked[i])])
      fitting == { k \in 0 .. Len(ranked) : k <= maxSources /\ Total(k) <= maxTokens }
      kept == Max(fitting)
  IN  [admitted |-> [k \in 1 .. kept |-> [pointer |-> ranked[k], form |-> "full"]],
       used |-> Total(kept)]

packEvidence(pointers, budget) ==
  LET maxTokens == Plus(0, budget.maxTokens)
      maxSources == Plus(0, budget.maxSources)
      ranked == rankByValue(pointers)
  IN  IF budget.mode = "subtractive"
      THEN packSubtractive(ranked, maxTokens, maxSources)
      ELSE packAdditive(ranked, maxTokens, maxSources)

PackEvidence ==
  /\ plan = NoPlan
  /\ \E n \in 0 .. MaxPointers : \E pointers \in [1 .. n -> EvidencePointers], budget \in Budgets :
       plan' = [pointers |-> pointers, budget |-> budget, result |-> packEvidence(pointers, budget)]

PackingTypeOK ==
  plan # NoPlan =>
    /\ plan.budget \in Budgets
    /\ plan.result.used \in Nat
    /\ \A k \in DOMAIN plan.result.admitted :
         /\ plan.result.admitted[k].pointer \in EvidencePointers
         /\ plan.result.admitted[k].form \in {"summary", "full"}

PackingSpec == PackingInit /\ [][PackEvidence]_plan

-----------------------------------------------------------------------------

Admitted == plan.result.admitted
Cost(a) == IF a.form = "full" THEN fullTokens(a.pointer) ELSE a.pointer.summary
Spent == InAll([k \in DOMAIN Admitted |-> Cost(Admitted[k])])
Left == Plus(0, plan.budget.maxTokens) - Spent

\* As often as it was given.
TimesIn(seq, p) == Cardinality({ k \in DOMAIN seq : seq[k] = p })
Loaded == [k \in DOMAIN Admitted |-> Admitted[k].pointer]
Dropped == { p \in EvidencePointers : TimesIn(Loaded, p) < TimesIn(plan.pointers, p) }

(***************************************************************************)
(* The plan of packEvidence: what is admitted was given, in the order of   *)
(* its value, costs what the plan says and stays within both budgets.  If  *)
(* a pointer is dropped the sources are used up or, adding, not even its   *)
(* summary fits what is left; taking away, the best that is dropped did    *)
(* not fit beside what was kept, which is worth as much or more.           *)
(***************************************************************************)
PackKeepsBudget ==
  plan # NoPlan =>
    /\ \A p \in EvidencePointers : TimesIn(Loaded, p) <= TimesIn(plan.pointers, p)
    /\ \A k \in 1 .. Len(Admitted) - 1 :
         Value(plan.pointers, Loaded[k]) >= Value(plan.pointers, Loaded[k + 1])
    /\ plan.result.used = Spent /\ Left >= 0
    /\ Len(Admitted) <= Plus(0, plan.budget.maxSources)
    /\ Dropped # {} /\ Len(Admitted) < plan.budget.maxSources =>
         IF plan.budget.mode = "subtractive"
         THEN \E p \in Dropped :
                /\ fullTokens(p) > Left
                /\ \A q \in Dropped : Value(plan.pointers, q) <= Value(plan.pointers, p)
         ELSE Left = 0 \/ \A p \in Dropped : p.summary > Left
=============================================================================
