----------------------------- MODULE MCEditGuard -----------------------------
EXTENDS EditGuard, TLC
CONSTANTS e1, e2

CallSymmetry == Permutations({e1, e2})

\* A test, production code and a document in scope, a test outside the workspace,
\* a session artifact, a terminal edit.
MCTargets ==
  { [kind |-> k, place |-> "inScope"] : k \in {"test", "source"} }
  \cup { [kind |-> "test", place |-> "outside"],
         [kind |-> "other", place |-> "inScope"],
         [kind |-> "other", place |-> "artifact"],
         [kind |-> "source", place |-> "terminal"] }

\* One of them; a test and a document have production code behind them.
MCNamed ==
  LET code == [kind |-> "source", place |-> "inScope"]
      Ahead(t) == t.place = "inScope" /\ t.kind # "source"
  IN  {IF Ahead(t) THEN <<t, code>> ELSE <<t>> : t \in MCTargets}
=============================================================================
