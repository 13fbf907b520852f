------------------------- MODULE OrchestrationProofs ------------------------
(***************************************************************************)
(* What the orchestrator sends out, gets back and answers for: statuses    *)
(* are not lost, isolated work is kept, a reset can be undone, no          *)
(* specialist starts before its checks, what is found is joined and        *)
(* counted whole, no text is past the drafts but an approved one, a task   *)
(* told ready has a reviewed commit, and workers edit what they said they  *)
(* would; for any setters, runs, dispatches, workers, artifacts, files,    *)
(* tasks and criteria.                                                     *)
(***************************************************************************)
EXTENDS MCOrchestration, FoldLemmas, SequenceTheorems

-----------------------------------------------------------------------------
(***************************************************************************)
(* The dependency gates: no status a setter was told is set is lost.       *)
(***************************************************************************)

SetterStates ==
  [at : {"idle", "read", "write", "over"}, gate : DEP_GATES, status : VALID_STATUSES,
   force : BOOLEAN, read : [DEP_GATES -> VALID_STATUSES], readable : BOOLEAN]

\* DepTypeOK speaks of the parts the runs need; here is the rest.
SettersTyped ==
  /\ answered \in [DEP_GATES -> VALID_STATUSES] /\ forgotten \subseteq DEP_GATES
  /\ setter \in [Setters -> SetterStates]

\* A setter between its read and its write holds the lock, and what it has read
\* is what is on disk, or nothing.
HolderIsFresh ==
  \A s \in Setters :
    setter[s].at \in {"read", "write"} =>
      /\ depLock = s
      /\ setter[s].read = IF setter[s].readable THEN gates ELSE Untouched

\* A pass about to be written had its prerequisites, or is forced and on record.
OrderWasChecked ==
  \A s \in Setters :
    setter[s].at = "write" /\ setter[s].status = "pass"
      => \/ setter[s].force /\ setter[s].gate \in violations
         \/ \A p \in DEP_GATE_PREREQUISITES[setter[s].gate] : setter[s].read[p] = "pass"

\* What gates.json holds was reported, but for what a setter left out.
FileKept ==
  \A g \in DEP_GATES : gates[g] = IF g \in forgotten THEN "pending" ELSE answered[g]

OrderKept == \A a \in ahead : a.forced /\ a.gate \in violations

DepInv ==
  /\ DepTypeOK /\ SettersTyped
  /\ HolderIsFresh /\ OrderWasChecked
  /\ FileKept /\ OrderKept

LEMMA Prerequisites ==
  ASSUME NEW g \in DEP_GATES
  PROVE  DEP_GATE_PREREQUISITES[g] \subseteq DEP_GATES \ {g}
BY DEF DEP_GATE_PREREQUISITES, DEP_GATES

LEMMA OverIsState == Setter("over") \in SetterStates /\ Setter("over").at = "over"
BY DEF Setter, SetterStates, Untouched, VALID_STATUSES, DEP_GATES

LEMMA InitDepInv == DepInit => DepInv
BY SettersAssumption
   DEF DepInit, DepInv, DepTypeOK, SettersTyped, HolderIsFresh, OrderWasChecked, FileKept,
       OrderKept, Untouched, Setter, SetterStates, VALID_STATUSES, DEP_GATES

LEMMA StepDepInv == DepInv /\ [DepNext]_depVars => DepInv'
<1> SUFFICES ASSUME DepInv, [DepNext]_depVars
             PROVE  DepInv'
  OBVIOUS
<1> USE SettersAssumption
<1>1. /\ gates \in [DEP_GATES -> VALID_STATUSES] /\ answered \in [DEP_GATES -> VALID_STATUSES]
      /\ forgotten \subseteq DEP_GATES
      /\ violations \subseteq DEP_GATES /\ depLock \in Setters \cup {Nobody}
      /\ setter \in [Setters -> SetterStates]
  BY DEF DepInv, DepTypeOK, SettersTyped
<1>2. ASSUME NEW s \in Setters, NEW g \in DEP_GATES, NEW status \in VALID_STATUSES,
             NEW force \in BOOLEAN, NEW found \in BOOLEAN,
             AcquireLock(s, g, status, force, found)
      PROVE  DepInv'
  <2> DEFINE seen == IF found THEN gates ELSE Untouched
             n == [at |-> "read", gate |-> g, status |-> status, force |-> force,
                   read |-> seen, readable |-> found]
  <2>1. /\ setter' = [setter EXCEPT ![s] = n]
        /\ depLock = Nobody /\ depLock' = s
        /\ UNCHANGED <<gates, violations, answered, forgotten, ahead>>
    BY <1>2 DEF AcquireLock
  <2>2. seen \in [DEP_GATES -> VALID_STATUSES]
    BY <1>1 DEF Untouched, VALID_STATUSES
  <2>3. /\ n \in SetterStates /\ n.at = "read" /\ n.read = IF n.readable THEN gates ELSE Untouched
    BY <2>2 DEF SetterStates
  <2> HIDE DEF n
  <2>4. \A q \in Setters : setter[q].at \notin {"read", "write"}
    BY <2>1 DEF DepInv, HolderIsFresh
  <2>5. \A q \in Setters : (q = s => setter'[q] = n) /\ (q # s => setter'[q] = setter[q])
    BY <1>1, <2>1
  <2>6. setter' \in [Setters -> SetterStates]
    BY <1>1, <2>1, <2>3
  <2>7. DepTypeOK' /\ SettersTyped'
    BY <1>1, <2>1, <2>6 DEF DepTypeOK, SettersTyped, SetterStates
  <2>8. HolderIsFresh' /\ OrderWasChecked'
    BY <2>1, <2>3, <2>4, <2>5 DEF HolderIsFresh, OrderWasChecked
  <2>9. QED
    BY <2>1, <2>7, <2>8 DEF DepInv, FileKept, OrderKept
<1>3. ASSUME NEW s \in Setters, appendViolation(s)
      PROVE  DepInv'
  <2> DEFINE n == [setter[s] EXCEPT !.at = "write"]
  <2>1. /\ setter[s].at = "read" /\ setter' = [setter EXCEPT ![s] = n]
        /\ violations \subseteq violations' /\ violations' \subseteq DEP_GATES
        /\ UNCHANGED <<gates, depLock, answered, forgotten, ahead>>
    BY <1>1, <1>3 DEF appendViolation, SetterStates
  <2>2. /\ n \in SetterStates /\ n.at = "write" /\ n.gate = setter[s].gate
        /\ n.status = setter[s].status /\ n.force = setter[s].force /\ n.read = setter[s].read
        /\ n.readable = setter[s].readable
    BY <1>1 DEF SetterStates
  <2> HIDE DEF n
  <2>3. \A q \in Setters : (q = s => setter'[q] = n) /\ (q # s => setter'[q] = setter[q])
    BY <1>1, <2>1
  <2>4. setter' \in [Setters -> SetterStates]
    BY <1>1, <2>1, <2>2
  <2>5. DepTypeOK' /\ SettersTyped'
    BY <1>1, <2>1, <2>4 DEF DepTypeOK, SettersTyped, SetterStates
  <2>6. HolderIsFresh'
    BY <2>1, <2>2, <2>3 DEF DepInv, HolderIsFresh
  <2>7. setter[s].status = "pass"
          => \/ setter[s].force /\ setter[s].gate \in violations'
             \/ \A p \in DEP_GATE_PREREQUISITES[setter[s].gate] : setter[s].read[p] = "pass"
    BY <1>3 DEF appendViolation, Missing, checkPrerequisites
  <2>8. OrderWasChecked'
    BY <2>1, <2>2, <2>3, <2>7 DEF DepInv, OrderWasChecked
  <2>9. QED
    BY <2>1, <2>5, <2>6, <2>8 DEF DepInv, FileKept, OrderKept
<1>4. ASSUME NEW s \in Setters, writeGates(s)
      PROVE  DepInv'
  <2> DEFINE x == setter[s].gate
             status == setter[s].status
             left == IF setter[s].readable THEN forgotten ELSE DEP_GATES
             a == [gate |-> x, forced |-> setter[s].force]
  <2>1. /\ setter[s].at = "write" /\ setter' = [setter EXCEPT ![s] = Setter("over")]
        /\ depLock = s /\ depLock' = Nobody /\ violations' = violations
        /\ x \in DEP_GATES /\ status \in VALID_STATUSES
    BY <1>1, <1>4 DEF writeGates, DepInv, HolderIsFresh, SetterStates
  <2>2. /\ gates' = [setter[s].read EXCEPT ![x] = status]
        /\ answered' = [answered EXCEPT ![x] = status]
        /\ forgotten' = left \ {x}
        /\ ahead' = IF status = "pass" /\ checkPrerequisites(x, answered) # {}
                    THEN ahead \cup {a} ELSE ahead
    BY <1>4 DEF writeGates
  <2>3. /\ setter[s].read \in [DEP_GATES -> VALID_STATUSES]
        /\ \A g \in DEP_GATES : setter[s].read[g] = IF g \in left THEN "pending" ELSE answered[g]
    BY <1>1, <2>1 DEF DepInv, HolderIsFresh, FileKept, Untouched, SetterStates
  <2>4. \A q \in Setters : (q = s => setter'[q] = Setter("over")) /\ (q # s => setter'[q] = setter[q])
    BY <1>1, <2>1
  <2>5. \A q \in Setters : setter'[q].at \notin {"read", "write"}
    BY <2>1, <2>4, OverIsState DEF DepInv, HolderIsFresh
  <2>6. DepTypeOK' /\ SettersTyped'
    <3>1. setter' \in [Setters -> SetterStates]
      BY <1>1, <2>1, OverIsState
    <3>2. /\ gates' \in [DEP_GATES -> VALID_STATUSES] /\ answered' \in [DEP_GATES -> VALID_STATUSES]
          /\ forgotten' \subseteq DEP_GATES
      BY <1>1, <2>1, <2>2, <2>3
    <3>3. QED
      BY <1>1, <2>1, <3>1, <3>2 DEF DepTypeOK, SettersTyped, SetterStates
  <2>7. FileKept'
    BY <1>1, <2>1, <2>2, <2>3 DEF FileKept
  <2>8. OrderKept'
    <3>1. SUFFICES ASSUME status = "pass", checkPrerequisites(x, answered) # {}
                   PROVE  a.forced /\ a.gate \in violations
      BY <2>1, <2>2 DEF DepInv, OrderKept
    <3>2. PICK p \in DEP_GATE_PREREQUISITES[x] : answered[p] # "pass"
      BY <3>1 DEF checkPrerequisites
    <3>3. setter[s].read[p] # "pass"
      BY <2>1, <2>3, <3>2, Prerequisites
    <3>4. QED
      BY <2>1, <3>1, <3>2, <3>3 DEF DepInv, OrderWasChecked
  <2>9. QED
    BY <2>5, <2>6, <2>7, <2>8 DEF DepInv, HolderIsFresh, OrderWasChecked
<1>5. ASSUME NEW s \in Setters, LockFails(s) \/ RefuseOrder(s) \/ SetterDies(s)
      PROVE  DepInv'
  <2>1. /\ setter' = [setter EXCEPT ![s] = Setter("over")]
        /\ depLock' \in {depLock, Nobody} /\ (depLock' = depLock \/ depLock = s)
        /\ UNCHANGED <<gates, violations, answered, forgotten, ahead>>
    BY <1>1, <1>5 DEF LockFails, RefuseOrder, SetterDies, DepInv, HolderIsFresh
  <2>2. \A q \in Setters : (q = s => setter'[q] = Setter("over")) /\ (q # s => setter'[q] = setter[q])
    BY <1>1, <2>1
  <2>3. setter' \in [Setters -> SetterStates]
    BY <1>1, <2>1, OverIsState
  <2>4. DepTypeOK' /\ SettersTyped'
    BY <1>1, <2>1, <2>3 DEF DepTypeOK, SettersTyped, SetterStates
  <2>5. HolderIsFresh' /\ OrderWasChecked'
    BY <2>1, <2>2, OverIsState DEF DepInv, HolderIsFresh, OrderWasChecked
  <2>6. QED
    BY <2>1, <2>4, <2>5 DEF DepInv, FileKept, OrderKept
<1>6. CASE UNCHANGED depVars
  BY <1>6 DEF depVars, DepInv, DepTypeOK, SettersTyped, HolderIsFresh, OrderWasChecked, FileKept,
              OrderKept
<1>7. QED
  BY <1>2, <1>3, <1>4, <1>5, <1>6 DEF DepNext

\* What gatectl reported set stands, or is left out by a setter that could not
\* read; the join is told only for what was reported; and no gate is passed ahead
\* of its prerequisites but forced and on record: under any number of setters
\* that wait, give up and die.
THEOREM NoStatusLostHolds == DepSpec => []NoStatusLost
<1>1. DepInv => NoStatusLost
  BY DEF DepInv, NoStatusLost, FileKept, OrderKept, JoinMet, DEP_GATES
<1>2. QED
  BY <1>1, InitDepInv, StepDepInv, PTL DEF DepSpec

-----------------------------------------------------------------------------
(***************************************************************************)
(* Isolated runs: what a worker that ran alone left is in the diff that is *)
(* taken.                                                                  *)
(***************************************************************************)

ExecStates ==
  [at : {"idle", "create", "wait", "diff", "remove", "delete", "done"},
   branch : Branches \cup {NoTree}, path : Paths \cup {NoTree}, code : {0, 1, 2}]
TreeStates == [branch : Branches, owner : Execs, dirty : SUBSET Work, sentinel : BOOLEAN]

\* TreesTypeOK speaks of the parts the runs need; here is the rest.
TreesTyped ==
  /\ trees \in [Paths -> TreeStates \cup {NoTree}]
  /\ branches \in [Branches -> (SUBSET Work) \cup {NoTree}]
  /\ diffs \in [Branches -> (SUBSET Work) \cup {NoTree}]
  /\ exec \in [Execs -> ExecStates]
  /\ promised \in [Execs -> (SUBSET Work) \cup {NoTree}]
  /\ mishap \in SUBSET Execs

\* A run that has started has its arguments, and a worktree is where and on the
\* branch its owner asked for.
TreesHaveOwners ==
  /\ \A x \in Execs : exec[x].at # "idle" => exec[x].branch \in Branches /\ exec[x].path \in Paths
  /\ \A x \in Execs : exec[x].at = "idle" => exec[x].branch = NoTree /\ exec[x].path = NoTree
  /\ \A x \in Execs : exec[x].at \in {"idle", "create"} => promised[x] = {}
  /\ \A p \in Paths : trees[p] # NoTree =>
       LET x == trees[p].owner
       IN  exec[x].at \notin {"idle", "create"} /\ exec[x].path = p /\ exec[x].branch = trees[p].branch

\* What a run that is alone has promised is on its branch until the diff is taken,
\* and in the diff after.  A run that is to exit 0 has seen the sentinel, so its
\* worker promises nothing more.
KeptSoFar(x) ==
  LET b == exec[x].branch
      p == exec[x].path
  IN  /\ exec[x].at \in {"wait", "diff"} => promised[x] \subseteq branches[b]
      /\ exec[x].at \in {"diff", "remove", "delete", "done"} /\ exec[x].code = 0 /\ trees[p] # NoTree
           => trees[p].sentinel
      /\ exec[x].at \in {"remove", "delete", "done"} /\ exec[x].code = 0
           => diffs[b] # NoTree /\ promised[x] \subseteq diffs[b]
      /\ exec[x].at \in {"delete", "done"} /\ x \notin mishap => trees[p] = NoTree
      /\ exec[x].at = "done" /\ x \notin mishap => branches[b] = NoTree

TreesInv ==
  /\ TreesTyped /\ TreesHaveOwners
  /\ \A x \in Execs : exec[x].at # "idle" /\ Alone(x) => KeptSoFar(x)

LEMMA InitTreesInv == TreesInit => TreesInv
BY DEF TreesInit, TreesInv, TreesTyped, TreesHaveOwners, KeptSoFar, NewExec, ExecStates, TreeStates

\* A step of the run y, or of its worker.
TreesStep(y) ==
  \/ \E b \in Branches, p \in Paths : StartExec(y, b, p)
  \/ createIsolatedWorktree(y) \/ CreateFails(y)
  \/ \E w \in Work : EditFile(y, w)
  \/ Commit(y) \/ Signal(y)
  \/ waitForCompletionSignal(y) \/ extractDiff(y) \/ DiffFails(y)
  \/ RemoveTree(y) \/ DeleteBranch(y)

\* It touches nothing but its own path and branch.
Apart(y) ==
  /\ \A q \in Execs \ {y} : exec'[q] = exec[q] /\ promised'[q] = promised[q]
  /\ exec[y].at # "idle" => exec'[y].path = exec[y].path /\ exec'[y].branch = exec[y].branch
  /\ \A p \in Paths \ {exec[y].path} : trees'[p] = trees[p]
  /\ \A b \in Branches \ {exec[y].branch} : branches'[b] = branches[b] /\ diffs'[b] = diffs[b]
  /\ mishap \subseteq mishap' /\ mishap' \subseteq mishap \cup {y}

LEMMA TreeUpdates ==
  ASSUME NEW t \in TreeStates, NEW d \in SUBSET Work
  PROVE  /\ [t EXCEPT !.dirty = d] \in TreeStates
         /\ [t EXCEPT !.dirty = d].branch = t.branch /\ [t EXCEPT !.dirty = d].owner = t.owner
         /\ [t EXCEPT !.sentinel = TRUE] \in TreeStates
         /\ [t EXCEPT !.sentinel = TRUE].branch = t.branch
         /\ [t EXCEPT !.sentinel = TRUE].owner = t.owner
BY DEF TreeStates

LEMMA MoveUpdates ==
  ASSUME NEW e \in ExecStates, NEW at \in {"diff", "remove", "delete", "done"}
  PROVE  /\ [e EXCEPT !.at = at] \in ExecStates /\ [e EXCEPT !.at = at].at = at
         /\ [e EXCEPT !.at = at].branch = e.branch /\ [e EXCEPT !.at = at].path = e.path
BY DEF ExecStates

LEMMA CodeUpdates ==
  ASSUME NEW e \in ExecStates, NEW code \in {0, 1, 2}
  PROVE  /\ [e EXCEPT !.code = code] \in ExecStates /\ [e EXCEPT !.code = code].at = e.at
         /\ [e EXCEPT !.code = code].branch = e.branch /\ [e EXCEPT !.code = code].path = e.path
BY DEF ExecStates

LEMMA StepIsApart ==
  ASSUME TreesInv, NEW y \in Execs, TreesStep(y)
  PROVE  TreesTyped' /\ TreesHaveOwners' /\ Apart(y)
<1> USE TreesAssumption
<1>1. TreesTyped /\ TreesHaveOwners
  BY DEF TreesInv
<1>2. ASSUME NEW b \in Branches, NEW p \in Paths, StartExec(y, b, p)
      PROVE  TreesTyped' /\ TreesHaveOwners' /\ Apart(y)
  <2> DEFINE e == [at |-> "create", branch |-> b, path |-> p, code |-> 0]
  <2>1. exec[y].at = "idle" /\ exec' = [exec EXCEPT ![y] = e] /\ e \in ExecStates
        /\ UNCHANGED <<trees, branches, diffs, promised, mishap>>
    BY <1>2 DEF StartExec, ExecStates
  <2>2. \A q \in Execs : exec'[q] = IF q = y THEN e ELSE exec[q]
    BY <1>1, <2>1 DEF TreesTyped
  <2>3. TreesTyped'
    BY <1>1, <2>1 DEF TreesTyped
  <2>4. TreesHaveOwners'
    BY <1>1, <2>1, <2>2 DEF TreesTyped, TreesHaveOwners, TreeStates
  <2>5. QED
    BY <2>1, <2>2, <2>3, <2>4 DEF Apart
<1>3. CASE createIsolatedWorktree(y)
  <2> DEFINE t == NewTree(y)
             p == exec[y].path
             b == exec[y].branch
  <2>1. /\ exec[y].at = "create" /\ p \in Paths /\ b \in Branches
        /\ exec' = [exec EXCEPT ![y].at = "wait"]
        /\ trees' = [trees EXCEPT ![p] = t] /\ branches' = [branches EXCEPT ![b] = {}]
        /\ UNCHANGED <<diffs, promised, mishap>>
        /\ promised[y] = {}
    BY <1>1, <1>3 DEF createIsolatedWorktree, TreesHaveOwners, To
  <2>2. t \in TreeStates /\ t.branch = b /\ t.owner = y
    BY <2>1 DEF NewTree, TreeStates
  <2>3. \A q \in Execs : /\ q # y => exec'[q] = exec[q]
                         /\ q = y => exec'[q] = [exec[y] EXCEPT !.at = "wait"]
    BY <1>1, <2>1 DEF TreesTyped
  <2>4. exec'[y] \in ExecStates /\ exec'[y].at = "wait" /\ exec'[y].path = p /\ exec'[y].branch = b
    BY <1>1, <2>3 DEF TreesTyped, ExecStates
  <2>5. \A r \in Paths : trees'[r] = IF r = p THEN t ELSE trees[r]
    BY <1>1, <2>1 DEF TreesTyped
  <2>6. TreesTyped'
    BY <1>1, <2>1, <2>2, <2>3, <2>4 DEF TreesTyped
  <2>7. TreesHaveOwners'
    BY <1>1, <2>1, <2>2, <2>3, <2>4, <2>5 DEF TreesTyped, TreesHaveOwners, TreeStates
  <2>8. Apart(y)
    BY <1>1, <2>1, <2>3, <2>4, <2>5 DEF Apart, TreesTyped
  <2>9. QED
    BY <2>6, <2>7, <2>8
<1>4. CASE (\E w \in Work : EditFile(y, w)) \/ Signal(y) \/ Commit(y)
  <2> DEFINE p == exec[y].path
             b == exec[y].branch
  <2>1. /\ AtWork(y) /\ p \in Paths /\ b \in Branches /\ exec[y].at \notin {"idle", "create"}
        /\ trees[p] \in TreeStates /\ trees[p].owner = y /\ trees[p].branch = b
    <3>1. AtWork(y)
      BY <1>4 DEF EditFile, Signal, Commit
    <3>2. p \in Paths /\ b \in Branches /\ exec[y].at # "idle"
      BY <1>1, <3>1 DEF AtWork, TreesHaveOwners, TreesTyped, ExecStates
    <3>3. QED
      BY <1>1, <3>1, <3>2 DEF AtWork, TreesHaveOwners, TreesTyped
  <2>2. /\ exec' = exec /\ diffs' = diffs /\ mishap' = mishap
        /\ \A q \in Execs \ {y} : promised'[q] = promised[q]
        /\ promised' \in [Execs -> (SUBSET Work) \cup {NoTree}]
    BY <1>1, <1>4, <2>1 DEF EditFile, Signal, Commit, TreesTyped
  <2>3. /\ branches' \in [Branches -> (SUBSET Work) \cup {NoTree}]
        /\ \A c \in Branches \ {b} : branches'[c] = branches[c]
    <3>1. CASE Commit(y)
      <4>1. branches[b] # NoTree /\ branches' = [branches EXCEPT ![b] = @ \cup trees[p].dirty]
        BY <2>1, <3>1 DEF Commit
      <4>2. branches[b] \cup trees[p].dirty \in SUBSET Work
        BY <1>1, <2>1, <4>1 DEF TreesTyped, TreeStates
      <4>3. QED
        BY <1>1, <2>1, <4>1, <4>2 DEF TreesTyped
    <3>2. CASE ~Commit(y)
      BY <1>1, <1>4, <3>2 DEF EditFile, Signal, TreesTyped
    <3>3. QED
      BY <3>1, <3>2
  <2>4. PICK t \in TreeStates : /\ t.branch = b /\ t.owner = y
                                /\ trees' = [trees EXCEPT ![p] = t]
    <3>1. ASSUME NEW w \in Work, EditFile(y, w)
          PROVE  \E t \in TreeStates : t.branch = b /\ t.owner = y /\ trees' = [trees EXCEPT ![p] = t]
      <4>1. trees' = [trees EXCEPT ![p] = [trees[p] EXCEPT !.dirty = trees[p].dirty \cup {w}]]
        BY <3>1 DEF EditFile
      <4>2. trees[p].dirty \cup {w} \in SUBSET Work
        BY <2>1 DEF TreeStates
      <4>3. QED
        BY <2>1, <4>1, <4>2, TreeUpdates
    <3>2. ASSUME Signal(y)
          PROVE  \E t \in TreeStates : t.branch = b /\ t.owner = y /\ trees' = [trees EXCEPT ![p] = t]
      <4>1. trees' = [trees EXCEPT ![p] = [trees[p] EXCEPT !.sentinel = TRUE]]
        BY <3>2 DEF Signal
      <4>2. QED
        BY <2>1, <4>1, TreeUpdates
    <3>3. ASSUME Commit(y)
          PROVE  \E t \in TreeStates : t.branch = b /\ t.owner = y /\ trees' = [trees EXCEPT ![p] = t]
      <4>1. trees' = [trees EXCEPT ![p] = [trees[p] EXCEPT !.dirty = {}]]
        BY <3>3 DEF Commit
      <4>2. QED
        BY <2>1, <4>1, TreeUpdates
    <3>4. QED
      BY <1>4, <3>1, <3>2, <3>3
  <2>5. \A r \in Paths : trees'[r] = IF r = p THEN t ELSE trees[r]
    BY <1>1, <2>1, <2>4 DEF TreesTyped
  <2>6. TreesTyped'
    BY <1>1, <2>1, <2>2, <2>3, <2>4 DEF TreesTyped
  <2>7. TreesHaveOwners'
    BY <1>1, <2>1, <2>2, <2>4, <2>5 DEF TreesTyped, TreesHaveOwners, TreeStates
  <2>8. QED
    BY <1>1, <2>1, <2>2, <2>3, <2>5, <2>6, <2>7 DEF Apart
<1>5. CASE \/ CreateFails(y) \/ waitForCompletionSignal(y) \/ extractDiff(y) \/ DiffFails(y)
           \/ RemoveTree(y) \/ DeleteBranch(y)
  <2> DEFINE p == exec[y].path
             b == exec[y].branch
  <2>1. exec[y] \in ExecStates /\ exec[y].at \in {"create", "wait", "diff", "remove", "delete"}
        /\ p \in Paths /\ b \in Branches
    BY <1>1, <1>5 DEF CreateFails, waitForCompletionSignal, extractDiff, DiffFails, RemoveTree,
                      DeleteBranch, TreesHaveOwners, TreesTyped
  <2>2. PICK e \in ExecStates : /\ e.at \in {"diff", "remove", "delete", "done"}
                                 /\ e.branch = b /\ e.path = p
                                 /\ exec' = [exec EXCEPT ![y] = e]
    <3> DEFINE Moves(e) == /\ e.at \in {"diff", "remove", "delete", "done"}
                           /\ e.branch = b /\ e.path = p
                           /\ exec' = [exec EXCEPT ![y] = e]
    <3>1. ASSUME NEW at \in {"diff", "remove", "delete", "done"}, To(y, at)
          PROVE  \E e \in ExecStates : Moves(e)
      <4> DEFINE e == [exec[y] EXCEPT !.at = at]
      <4>1. exec' = [exec EXCEPT ![y] = e]
        BY <3>1 DEF To
      <4>2. e \in ExecStates /\ e.at = at /\ e.branch = b /\ e.path = p
        BY <2>1, MoveUpdates
      <4> HIDE DEF e
      <4>3. QED
        BY <4>1, <4>2
    <3>2. ASSUME NEW at \in {"diff", "remove", "delete", "done"}, NEW code \in {0, 1, 2},
                 Exit(y, at, code)
          PROVE  \E e \in ExecStates : Moves(e)
      <4> DEFINE d == [exec[y] EXCEPT !.at = at]
                 e == [d EXCEPT !.code = code]
      <4>1. exec' = [exec EXCEPT ![y] = e]
        BY <1>1, <3>2 DEF Exit, TreesTyped
      <4>2. d \in ExecStates /\ d.at = at /\ d.branch = b /\ d.path = p
        BY <2>1, MoveUpdates
      <4> HIDE DEF d
      <4>3. e \in ExecStates /\ e.at = at /\ e.branch = b /\ e.path = p
        BY <4>2, CodeUpdates
      <4> HIDE DEF e
      <4>4. QED
        BY <4>1, <4>3
    <3>3. \/ \E at \in {"diff", "remove", "delete", "done"} : To(y, at)
          \/ \E at \in {"diff", "remove", "delete", "done"}, code \in {0, 1, 2} : Exit(y, at, code)
      BY <1>5 DEF CreateFails, waitForCompletionSignal, extractDiff, DiffFails, RemoveTree, DeleteBranch
    <3>4. QED
      BY <3>1, <3>2, <3>3
  <2>3. /\ exec'[y] = e /\ exec' \in [Execs -> ExecStates]
        /\ \A q \in Execs \ {y} : exec'[q] = exec[q]
    BY <1>1, <2>1, <2>2 DEF TreesTyped
  <2>4. promised' = promised /\ mishap \subseteq mishap' /\ mishap' \subseteq mishap \cup {y}
    BY <1>5 DEF CreateFails, waitForCompletionSignal, extractDiff, DiffFails, RemoveTree, DeleteBranch
  <2>5. trees' \in {trees, [trees EXCEPT ![p] = NoTree]}
    BY <1>5 DEF CreateFails, waitForCompletionSignal, extractDiff, DiffFails, RemoveTree, DeleteBranch
  <2>6. branches' \in {branches, [branches EXCEPT ![b] = {}], [branches EXCEPT ![b] = NoTree]}
    BY <1>5 DEF CreateFails, waitForCompletionSignal, extractDiff, DiffFails, RemoveTree, DeleteBranch
  <2>7. diffs' \in {diffs, [diffs EXCEPT ![b] = branches[b]]}
    BY <1>5 DEF CreateFails, waitForCompletionSignal, extractDiff, DiffFails, RemoveTree, DeleteBranch
  <2>8. /\ trees' \in [Paths -> TreeStates \cup {NoTree}]
        /\ \A r \in Paths \ {p} : trees'[r] = trees[r]
        /\ trees'[p] \in {trees[p], NoTree}
    BY <1>1, <2>1, <2>5 DEF TreesTyped
  <2>9. branches' \in [Branches -> (SUBSET Work) \cup {NoTree}]
        /\ \A c \in Branches \ {b} : branches'[c] = branches[c]
    BY <1>1, <2>6 DEF TreesTyped
  <2>10. diffs' \in [Branches -> (SUBSET Work) \cup {NoTree}]
         /\ \A c \in Branches \ {b} : diffs'[c] = diffs[c]
    BY <1>1, <2>1, <2>7 DEF TreesTyped
  <2>11. TreesTyped'
    BY <1>1, <2>3, <2>4, <2>8, <2>9, <2>10 DEF TreesTyped
  <2>12. TreesHaveOwners'
    BY <1>1, <2>1, <2>2, <2>3, <2>4, <2>8 DEF TreesTyped, TreesHaveOwners, TreeStates
  <2>13. QED
    BY <2>1, <2>2, <2>3, <2>4, <2>8, <2>9, <2>10, <2>11, <2>12 DEF Apart
<1>6. QED
  BY <1>2, <1>3, <1>4, <1>5 DEF TreesStep

\* So a run that is alone is left as it was by the steps of the others.
LEMMA OthersKeepAway ==
  ASSUME TreesInv, NEW y \in Execs, TreesStep(y), NEW x \in Execs \ {y},
         exec'[x].at # "idle", Alone(x)'
  PROVE  KeptSoFar(x)'
<1> USE TreesAssumption
<1>1. Apart(y) /\ TreesTyped /\ TreesHaveOwners
  BY StepIsApart DEF TreesInv
<1>2. exec'[x] = exec[x] /\ promised'[x] = promised[x] /\ (x \in mishap' <=> x \in mishap)
  BY <1>1 DEF Apart
<1>3. exec[x].branch \in Branches /\ exec[x].path \in Paths
  BY <1>1, <1>2 DEF TreesHaveOwners
<1>4. \A z \in Execs \ {x} : exec[z].branch # exec[x].branch /\ exec[z].path # exec[x].path
  <2> SUFFICES ASSUME NEW z \in Execs \ {x}
               PROVE  exec[z].branch # exec[x].branch /\ exec[z].path # exec[x].path
    OBVIOUS
  <2>1. CASE exec[z].at = "idle"
    BY <1>1, <1>3, <2>1 DEF TreesHaveOwners
  <2>2. CASE exec[z].at # "idle"
    <3>1. exec'[z].branch = exec[z].branch /\ exec'[z].path = exec[z].path
      BY <1>1, <2>2 DEF Apart
    <3>2. QED
      BY <1>2, <3>1 DEF Alone
  <2>3. QED
    BY <2>1, <2>2
<1>5. KeptSoFar(x)
  BY <1>2, <1>4 DEF TreesInv, Alone
<1>6. /\ trees'[exec[x].path] = trees[exec[x].path]
      /\ branches'[exec[x].branch] = branches[exec[x].branch]
      /\ diffs'[exec[x].branch] = diffs[exec[x].branch]
  BY <1>1, <1>3, <1>4 DEF Apart
<1>7. QED
  BY <1>2, <1>5, <1>6 DEF KeptSoFar

\* And by its own it keeps what it has promised.
LEMMA OwnStepKeeps ==
  ASSUME TreesInv, NEW x \in Execs, TreesStep(x), exec'[x].at # "idle", Alone(x)'
  PROVE  KeptSoFar(x)'
<1> DEFINE p == exec[x].path
           b == exec[x].branch
<1>1. Apart(x) /\ TreesTyped /\ TreesHaveOwners /\ TreesTyped'
  BY StepIsApart DEF TreesInv
<1>2. ASSUME NEW c \in Branches, NEW q \in Paths, StartExec(x, c, q)
      PROVE  KeptSoFar(x)'
  <2>1. exec'[x].at = "create"
    BY <1>1, <1>2 DEF StartExec, TreesTyped
  <2>2. QED
    BY <2>1 DEF KeptSoFar
<1>3. SUFFICES ASSUME exec[x].at # "idle"
               PROVE  KeptSoFar(x)'
  BY <1>1, <1>2 DEF TreesStep, createIsolatedWorktree, CreateFails, EditFile, Commit, Signal, AtWork,
                    waitForCompletionSignal, extractDiff, DiffFails, RemoveTree, DeleteBranch, TreesHaveOwners,
                    TreesTyped
<1>4. /\ p \in Paths /\ b \in Branches /\ exec'[x].path = p /\ exec'[x].branch = b
      /\ exec[x] \in ExecStates
  BY <1>1, <1>3 DEF TreesHaveOwners, Apart, TreesTyped
<1>5. Alone(x)
  BY <1>1, <1>4 DEF Alone, Apart
<1>6. KeptSoFar(x)
  BY <1>3, <1>5 DEF TreesInv
<1>7. CASE createIsolatedWorktree(x)
  <2>1. exec'[x].at = "wait" /\ promised'[x] = {}
    BY <1>1, <1>7 DEF createIsolatedWorktree, To, TreesTyped, TreesHaveOwners
  <2>2. QED
    BY <2>1 DEF KeptSoFar
<1>8. CASE CreateFails(x)
  <2>1. exec'[x].at = "done" /\ exec'[x].code = 1 /\ x \in mishap'
    BY <1>1, <1>8 DEF CreateFails, Exit, TreesTyped, ExecStates
  <2>2. QED
    BY <2>1 DEF KeptSoFar
<1>9. ASSUME NEW w \in Work, EditFile(x, w)
      PROVE  KeptSoFar(x)'
  <2>1. /\ UNCHANGED <<branches, diffs, exec, promised, mishap>> /\ trees[p] # NoTree
        /\ trees' = [trees EXCEPT ![p] = [trees[p] EXCEPT !.dirty = trees[p].dirty \cup {w}]]
    BY <1>9 DEF EditFile, AtWork
  <2>2. trees'[p].sentinel = trees[p].sentinel
    BY <1>1, <1>4, <2>1 DEF TreesTyped, TreeStates
  <2>3. exec[x].at \in {"delete", "done"} => x \in mishap
    BY <1>6, <2>1 DEF KeptSoFar
  <2>4. QED
    BY <1>6, <2>1, <2>2, <2>3 DEF KeptSoFar
<1>10. CASE Commit(x)
  <2>1. /\ trees[p] # NoTree /\ trees[p].branch = b
        /\ branches[b] # NoTree /\ branches' = [branches EXCEPT ![b] = @ \cup trees[p].dirty]
        /\ trees' = [trees EXCEPT ![p] = [trees[p] EXCEPT !.dirty = {}]]
        /\ UNCHANGED <<diffs, exec, promised, mishap>>
    BY <1>1, <1>4, <1>10 DEF Commit, AtWork, TreesHaveOwners
  <2>2. trees'[p].sentinel = trees[p].sentinel
    BY <1>1, <1>4, <2>1 DEF TreesTyped, TreeStates
  <2>3. exec[x].at \in {"delete", "done"} => x \in mishap
    BY <1>6, <2>1 DEF KeptSoFar
  <2>4. branches[b] \subseteq branches'[b]
    BY <1>1, <1>4, <2>1 DEF TreesTyped
  <2>5. QED
    BY <1>6, <2>1, <2>2, <2>3, <2>4 DEF KeptSoFar
<1>11. CASE Signal(x)
  <2>1. /\ trees[p] # NoTree /\ ~trees[p].sentinel
        /\ trees' = [trees EXCEPT ![p] = [trees[p] EXCEPT !.sentinel = TRUE]]
        /\ UNCHANGED <<branches, diffs, exec, mishap>>
        /\ promised'[x] = branches[b]
    BY <1>1, <1>11 DEF Signal, AtWork, TreesTyped
  <2>2. trees'[p].sentinel
    BY <1>1, <1>4, <2>1 DEF TreesTyped, TreeStates
  <2>3. /\ exec[x].at \in {"delete", "done"} => x \in mishap
        /\ exec[x].at \in {"diff", "remove", "delete", "done"} => exec[x].code # 0
    BY <1>6, <2>1 DEF KeptSoFar
  <2>4. QED
    BY <2>1, <2>2, <2>3 DEF KeptSoFar
<1>12. CASE waitForCompletionSignal(x)
  <2>1. /\ exec[x].at = "wait" /\ exec'[x].at = "diff"
        /\ exec'[x].code = 0 => trees[p] # NoTree /\ trees[p].sentinel
        /\ UNCHANGED <<trees, branches, diffs, promised, mishap>>
    BY <1>1, <1>12 DEF waitForCompletionSignal, Exit, TreesTyped, ExecStates
  <2>2. QED
    BY <1>4, <1>6, <2>1 DEF KeptSoFar
<1>13. CASE extractDiff(x)
  <2>1. /\ exec[x].at = "diff" /\ exec'[x].at = "remove" /\ exec'[x].code = exec[x].code
        /\ branches[b] # NoTree /\ diffs'[b] = branches[b]
        /\ UNCHANGED <<trees, branches, promised, mishap>>
    BY <1>1, <1>4, <1>13 DEF extractDiff, To, TreesTyped, ExecStates
  <2>2. QED
    BY <1>4, <1>6, <2>1 DEF KeptSoFar
<1>14. CASE DiffFails(x)
  <2>1. /\ exec'[x].at = "remove" /\ exec'[x].code = 1
    BY <1>1, <1>14 DEF DiffFails, Exit, TreesTyped, ExecStates
  <2>2. QED
    BY <2>1 DEF KeptSoFar
<1>15. CASE RemoveTree(x)
  <2>1. /\ exec[x].at = "remove" /\ exec'[x].at = "delete" /\ exec'[x].code = exec[x].code
        /\ UNCHANGED <<branches, diffs, promised>>
        /\ \/ trees'[p] = NoTree
           \/ trees' = trees /\ x \in mishap'
    BY <1>1, <1>4, <1>15 DEF RemoveTree, To, TreesTyped, ExecStates
  <2>2. QED
    BY <1>4, <1>6, <2>1 DEF KeptSoFar
<1>16. CASE DeleteBranch(x)
  <2>1. /\ exec[x].at = "delete" /\ exec'[x].at = "done" /\ exec'[x].code = exec[x].code
        /\ UNCHANGED <<trees, diffs, promised>>
        /\ \/ branches'[b] = NoTree /\ mishap' = mishap
           \/ x \in mishap'
    BY <1>1, <1>4, <1>16 DEF DeleteBranch, To, TreesTyped, ExecStates
  <2>2. QED
    BY <1>4, <1>6, <2>1 DEF KeptSoFar
<1>17. QED
  BY <1>2, <1>7, <1>8, <1>9, <1>10, <1>11, <1>12, <1>13, <1>14, <1>15, <1>16 DEF TreesStep

LEMMA StepTreesInv == TreesInv /\ [TreesNext]_treeVars => TreesInv'
<1> SUFFICES ASSUME TreesInv, [TreesNext]_treeVars
             PROVE  TreesInv'
  OBVIOUS
<1>1. ASSUME NEW y \in Execs, TreesStep(y)
      PROVE  TreesInv'
  <2>1. TreesTyped' /\ TreesHaveOwners'
    BY <1>1, StepIsApart
  <2>2. ASSUME NEW x \in Execs, exec'[x].at # "idle", Alone(x)'
        PROVE  KeptSoFar(x)'
    BY <1>1, <2>2, OthersKeepAway, OwnStepKeeps
  <2>3. QED
    BY <2>1, <2>2 DEF TreesInv
<1>2. CASE UNCHANGED treeVars
  BY <1>2 DEF treeVars, TreesInv, TreesTyped, TreesHaveOwners, KeptSoFar, Alone
<1>3. QED
  BY <1>1, <1>2 DEF TreesNext, TreesStep

\* A run that is alone on its branch and path loses nothing its worker committed
\* before it signalled, and cleans up unless git failed it: for any number of
\* runs, arguments and pieces of work.
THEOREM IsolatedRunKeepsWorkHolds == TreesSpec => []IsolatedRunKeepsWork
<1>1. TreesInv => IsolatedRunKeepsWork
  BY DEF TreesInv, IsolatedRunKeepsWork, KeptSoFar
<1>2. QED
  BY <1>1, InitTreesInv, StepTreesInv, PTL DEF TreesSpec

-----------------------------------------------------------------------------
(***************************************************************************)
(* The rollback: a reset of the working tree is of a clean one, to the     *)
(* stash that was recorded.                                                *)
(***************************************************************************)

\* Until the script has popped it, and while the list of stashes is untouched, the
\* recorded stash is there, and a plan that has a target has its commit.
PlanIsOfTheStash ==
  /\ ~drifted /\ rollback.at \in {"idle", "planned", "reset"} => stash = <<Entry>>
  /\ ~drifted /\ rollback.at \in {"planned", "reset"} => rollback.target \in {Entry.base, NoTarget}

\* A tree is reset after it was seen clean.
ResetWasClean ==
  /\ rollback.at \in {"planned", "reset"} => rollback.dirty = kept
  /\ rollback.at = "reset" => kept = {}

ScriptStates == [at : {"idle", "planned", "reset", "pop", "done"}, target : Int,
                 dirty : SUBSET (Edits \cup {PreWork}), success : BOOLEAN]
StashEntries == [base : Int, work : SUBSET (Edits \cup {PreWork})]
ScriptTyped ==
  /\ rollback \in ScriptStates
  /\ tree \subseteq Edits \cup {PreWork} /\ head \in Int /\ stash \in Seq(StashEntries)

RollbackInv == ScriptTyped /\ PlanIsOfTheStash /\ ResetWasClean

LEMMA InitRollbackInv == RollbackInit => RollbackInv
<1>1. Entry \in StashEntries
  BY DEF Entry, StashEntries
<1>2. <<Entry>> \in Seq(StashEntries)
  BY <1>1
<1>3. RollbackInit => ScriptTyped
  BY <1>2 DEF RollbackInit, ScriptTyped, ScriptStates, NoTarget
<1>4. QED
  BY <1>3 DEF RollbackInit, RollbackInv, PlanIsOfTheStash, ResetWasClean

\* A script that moves on: its plan stays.
LEMMA ScriptMoves ==
  ASSUME ScriptTyped, NEW at \in {"reset", "pop", "done"},
         rollback' = [rollback EXCEPT !.at = at]
  PROVE  /\ rollback' \in ScriptStates /\ rollback'.at = at
         /\ rollback'.target = rollback.target /\ rollback'.dirty = rollback.dirty
BY DEF ScriptTyped, ScriptStates

LEMMA ScriptFinishes ==
  ASSUME ScriptTyped, NEW success \in BOOLEAN, Finish(success)
  PROVE  rollback' \in ScriptStates /\ rollback'.at = "done"
BY DEF ScriptTyped, ScriptStates, Finish

LEMMA StepRollbackInv == RollbackInv /\ [RollbackNext]_rollbackVars => RollbackInv'
<1> SUFFICES ASSUME RollbackInv, [RollbackNext]_rollbackVars
             PROVE  RollbackInv'
  OBVIOUS
<1>1. ScriptTyped /\ PlanIsOfTheStash /\ ResetWasClean
  BY DEF RollbackInv
<1>2. CASE CommitWork \/ StashPush \/ StashDrop \/ (\E w \in Edits : Edit(w))
  <2>1. rollback' = rollback /\ kept' = kept
    BY <1>2 DEF CommitWork, StashPush, StashDrop, Edit
  <2>2. drifted' \/ (drifted' = drifted /\ stash' = stash)
    BY <1>2 DEF CommitWork, StashPush, StashDrop, Edit
  <2>3. tree' \subseteq Edits \cup {PreWork} /\ head' \in Int
    BY <1>1, <1>2 DEF CommitWork, StashPush, StashDrop, Edit, ScriptTyped
  <2>4. stash' \in Seq(StashEntries)
    <3>1. CASE StashPush
      <4>1. [base |-> head, work |-> tree] \in StashEntries
        BY <1>1 DEF StashEntries, ScriptTyped
      <4>2. QED
        BY <1>1, <3>1, <4>1 DEF StashPush, ScriptTyped
    <3>2. CASE StashDrop
      BY <1>1, <3>2 DEF StashDrop, ScriptTyped
    <3>3. CASE stash' = stash
      BY <1>1, <3>3 DEF ScriptTyped
    <3>4. QED
      BY <1>2, <3>1, <3>2, <3>3 DEF CommitWork, Edit
  <2>5. QED
    BY <1>1, <2>1, <2>2, <2>3, <2>4 DEF RollbackInv, ScriptTyped, PlanIsOfTheStash, ResetWasClean
<1>3. ASSUME NEW statusOk \in BOOLEAN, NEW revOk \in BOOLEAN, buildRollbackPlan(statusOk, revOk)
      PROVE  RollbackInv'
  <2> DEFINE dirty == IF statusOk THEN tree ELSE {}
             target == IF revOk /\ exists THEN stash[preImplStash].base ELSE NoTarget
  <2>1. /\ rollback.at = "idle" /\ kept' = dirty
        /\ rollback' = [rollback EXCEPT !.at = "planned", !.dirty = dirty, !.target = target]
        /\ UNCHANGED <<head, stash, tree, drifted>>
    BY <1>3 DEF buildRollbackPlan
  <2>2. dirty \in SUBSET (Edits \cup {PreWork})
    BY <1>1 DEF ScriptTyped
  <2>3. target \in Int
    <3>1. exists => stash[preImplStash] \in StashEntries
      BY <1>1 DEF ScriptTyped, exists, preImplStash
    <3>2. exists => stash[preImplStash].base \in Int
      BY <3>1 DEF StashEntries
    <3>3. QED
      BY <3>2 DEF NoTarget
  <2>4. ~drifted => target \in {Entry.base, NoTarget}
    BY <1>1, <2>1 DEF PlanIsOfTheStash, preImplStash
  <2> HIDE DEF dirty, target
  <2>5. /\ rollback' \in ScriptStates /\ rollback'.at = "planned"
        /\ rollback'.dirty = dirty /\ rollback'.target = target
    BY <1>1, <2>1, <2>2, <2>3 DEF ScriptTyped, ScriptStates
  <2>6. QED
    BY <1>1, <2>1, <2>4, <2>5 DEF RollbackInv, ScriptTyped, PlanIsOfTheStash, ResetWasClean
<1>4. CASE ShowPlan \/ GitFails \/ StashPop \/ (Confirm /\ (rollback.dirty # {} \/ ~exists))
  <2>1. PICK success \in BOOLEAN : Finish(success)
    BY <1>4 DEF ShowPlan, GitFails, StashPop, Confirm
  <2>2. rollback' \in ScriptStates /\ rollback'.at = "done"
    BY <1>1, <2>1, ScriptFinishes
  <2>3. /\ head' = head /\ drifted' = drifted /\ tree' \subseteq Edits \cup {PreWork}
        /\ stash' \in Seq(StashEntries)
    <3>1. CASE StashPop
      <4>1. stash[preImplStash] \in StashEntries /\ Len(stash) \in Nat /\ preImplStash \in 1 .. Len(stash)
        BY <1>1, <3>1 DEF StashPop, exists, preImplStash, ScriptTyped
      <4>2. stash' = RemoveAt(stash, 1)
        BY <3>1 DEF StashPop, preImplStash
      <4>3. stash' \in Seq(StashEntries)
        BY <1>1, <4>1, <4>2 DEF ScriptTyped, RemoveAt, preImplStash
      <4>4. QED
        BY <1>1, <3>1, <4>1, <4>3 DEF StashPop, ScriptTyped, StashEntries
    <3>2. CASE ~StashPop
      BY <1>1, <1>4, <3>2 DEF ShowPlan, GitFails, Confirm, ScriptTyped
    <3>3. QED
      BY <3>1, <3>2
  <2>4. QED
    BY <1>1, <2>2, <2>3 DEF RollbackInv, ScriptTyped, PlanIsOfTheStash, ResetWasClean
<1>5. CASE Confirm /\ ~(rollback.dirty # {} \/ ~exists)
  <2>1. /\ rollback.at = "planned" /\ rollback.dirty = {}
        /\ rollback' = [rollback EXCEPT !.at = "reset"]
        /\ UNCHANGED <<head, stash, tree, kept, drifted>>
    BY <1>5 DEF Confirm
  <2>2. /\ rollback' \in ScriptStates /\ rollback'.at = "reset"
        /\ rollback'.target = rollback.target /\ rollback'.dirty = rollback.dirty
    BY <1>1, <2>1, ScriptMoves
  <2>3. QED
    BY <1>1, <2>1, <2>2 DEF RollbackInv, ScriptTyped, PlanIsOfTheStash, ResetWasClean
<1>6. CASE ResetHard
  <2>1. /\ rollback' = [rollback EXCEPT !.at = "pop"] /\ head' = rollback.target /\ tree' = {}
        /\ UNCHANGED <<stash, kept, drifted>>
    BY <1>6 DEF ResetHard
  <2>2. rollback' \in ScriptStates /\ rollback'.at = "pop"
    BY <1>1, <2>1, ScriptMoves
  <2>3. head' \in Int
    BY <1>1, <2>1 DEF ScriptTyped, ScriptStates
  <2>4. QED
    BY <1>1, <2>1, <2>2, <2>3 DEF RollbackInv, ScriptTyped, PlanIsOfTheStash, ResetWasClean
<1>7. CASE UNCHANGED rollbackVars
  BY <1>1, <1>7 DEF rollbackVars, RollbackInv, ScriptTyped, PlanIsOfTheStash, ResetWasClean
<1>8. QED
  BY <1>2, <1>3, <1>4, <1>5, <1>6, <1>7 DEF RollbackNext

\* A reset is recoverable, whatever the developer does meanwhile and whichever git
\* command fails, for any work, commits and stashes.
THEOREM ResetIsRecoverableHolds == RollbackSpec => ResetIsRecoverable
<1> DEFINE Recoverable ==
      rollback.at = "reset" /\ rollback'.at = "pop" =>
        /\ kept = {}
        /\ ~drifted => head' = Entry.base /\ Contains(stash', Entry)
<1>1. ASSUME RollbackInv, [RollbackNext]_rollbackVars
      PROVE  Recoverable
  <2> SUFFICES ASSUME rollback.at = "reset", rollback'.at = "pop"
               PROVE  /\ kept = {}
                      /\ ~drifted => head' = Entry.base /\ Contains(stash', Entry)
    OBVIOUS
  <2>1. ScriptTyped /\ PlanIsOfTheStash /\ ResetWasClean
    BY <1>1 DEF RollbackInv
  <2>2. ResetHard
    <3>1. ~UNCHANGED rollbackVars
      BY DEF rollbackVars
    <3>2. ~GitFails
      BY <2>1, ScriptFinishes DEF GitFails
    <3>3. QED
      BY <1>1, <3>1, <3>2 DEF RollbackNext, Edit, CommitWork, StashPush, StashDrop, buildRollbackPlan,
                              ShowPlan, Confirm, StashPop
  <2>3. kept = {}
    BY <2>1 DEF ResetWasClean
  <2>4. ASSUME ~drifted
        PROVE  head' = Entry.base /\ Contains(stash', Entry)
    <3>1. head' = Entry.base
      BY <2>1, <2>2, <2>4 DEF PlanIsOfTheStash, ResetHard
    <3>2. stash' = <<Entry>>
      BY <2>1, <2>2, <2>4 DEF PlanIsOfTheStash, ResetHard
    <3>3. QED
      BY <3>1, <3>2 DEF Contains
  <2>5. QED
    BY <2>3, <2>4
<1>2. QED
  BY <1>1, InitRollbackInv, StepRollbackInv, PTL DEF RollbackSpec, ResetIsRecoverable

-----------------------------------------------------------------------------
(* What the state is like, whatever happens.                               *)

StashBounds ==
  /\ head \in 0 .. MaxCommits
  /\ \A i \in 1 .. Len(stash) : stash[i].base \in 0 .. MaxCommits
  /\ Len(stash) <= MaxStash
  /\ rollback.target \in 0 .. MaxCommits \cup {NoTarget}

DriftTyped == drifted \in BOOLEAN

LEMMA RollbackTypes == RollbackSpec => []RollbackTypeOK
<1> DEFINE N == 0 .. MaxCommits
<1> USE RollbackAssumption
<1>1. RollbackInit => StashBounds /\ DriftTyped
  <2>1. RollbackInit => StashBounds
    BY DEF RollbackInit, StashBounds, Entry, NoTarget
  <2>2. RollbackInit => DriftTyped
    BY Zenon DEF RollbackInit, DriftTyped
  <2>3. QED
    BY <2>1, <2>2
<1>2. ASSUME ScriptTyped, StashBounds, RollbackNext
      PROVE  StashBounds'
  <2>1. stash \in Seq(StashEntries) /\ Len(stash) \in Nat /\ head \in N
    BY <1>2 DEF ScriptTyped, StashBounds
  <2>2. ASSUME NEW w \in Edits, Edit(w) PROVE StashBounds'
    BY <1>2, <2>2 DEF Edit, StashBounds
  <2>3. CASE CommitWork
    BY <1>2, <2>3 DEF CommitWork, StashBounds
  <2>4. CASE StashPush
    <3> DEFINE e == [base |-> head, work |-> tree]
    <3>1. e \in StashEntries /\ e.base = head
      BY <1>2 DEF StashEntries, ScriptTyped
    <3> HIDE DEF e
    <3>2. stash' = <<e>> \o stash /\ Len(stash) < MaxStash /\ UNCHANGED <<head, rollback>>
      BY <2>4 DEF StashPush, e
    <3>3. Len(stash') = 1 + Len(stash) /\ stash'[1] = e
          /\ \A i \in 2 .. Len(stash') : stash'[i] = stash[i - 1] /\ i - 1 \in 1 .. Len(stash)
      BY <2>1, <3>1, <3>2
    <3>4. \A i \in 1 .. Len(stash') : i = 1 \/ i \in 2 .. Len(stash')
      BY <2>1, <3>3
    <3>5. QED
      BY <1>2, <2>1, <3>1, <3>2, <3>3, <3>4 DEF StashBounds
  <2>5. CASE StashDrop
    <3>1. stash' = Tail(stash) /\ stash # <<>> /\ UNCHANGED <<head, rollback>>
      BY <2>5 DEF StashDrop
    <3>2. Len(stash') = Len(stash) - 1
          /\ \A i \in 1 .. Len(stash') : stash'[i] = stash[i + 1] /\ i + 1 \in 1 .. Len(stash)
      BY <2>1, <3>1
    <3>3. QED
      BY <1>2, <2>1, <3>1, <3>2 DEF StashBounds
  <2>6. ASSUME NEW statusOk \in BOOLEAN, NEW revOk \in BOOLEAN, buildRollbackPlan(statusOk, revOk)
        PROVE  StashBounds'
    <3>1. rollback'.target = (IF revOk /\ exists THEN stash[1].base ELSE NoTarget)
          /\ UNCHANGED <<head, stash>>
      BY <1>2, <2>6 DEF buildRollbackPlan, preImplStash, ScriptTyped, ScriptStates
    <3>2. exists => 1 \in 1 .. Len(stash)
      BY <2>1 DEF exists, preImplStash
    <3>3. QED
      BY <1>2, <3>1, <3>2 DEF StashBounds
  <2>7. CASE ShowPlan \/ Confirm \/ GitFails
    <3>1. rollback'.target = rollback.target /\ UNCHANGED <<head, stash>>
      BY <1>2, <2>7 DEF ShowPlan, Confirm, GitFails, Finish, ScriptTyped, ScriptStates
    <3>2. QED
      BY <1>2, <3>1 DEF StashBounds
  <2>8. CASE ResetHard
    <3>1. rollback'.target = rollback.target /\ head' = rollback.target /\ rollback.target # NoTarget
          /\ UNCHANGED stash
      BY <1>2, <2>8 DEF ResetHard, ScriptTyped, ScriptStates
    <3>2. QED
      BY <1>2, <3>1 DEF StashBounds
  <2>9. CASE StashPop
    <3>1. rollback'.target = rollback.target /\ UNCHANGED head /\ stash' = RemoveAt(stash, 1)
          /\ 1 \in 1 .. Len(stash)
      BY <1>2, <2>1, <2>9 DEF StashPop, Finish, ScriptTyped, ScriptStates, preImplStash, exists
    <3>2. Len(stash') = Len(stash) - 1
          /\ \A i \in 1 .. Len(stash') : stash'[i] = stash[i + 1] /\ i + 1 \in 1 .. Len(stash)
      BY <2>1, <3>1 DEF RemoveAt
    <3>3. QED
      BY <1>2, <2>1, <3>1, <3>2 DEF StashBounds
  <2>10. QED
    BY <1>2, <2>2, <2>3, <2>4, <2>5, <2>6, <2>7, <2>8, <2>9 DEF RollbackNext
<1>3. StashBounds /\ UNCHANGED rollbackVars => StashBounds'
  BY DEF StashBounds, rollbackVars
<1>4. [RollbackNext]_rollbackVars /\ DriftTyped => DriftTyped'
  BY Zenon DEF RollbackNext, rollbackVars, Edit, CommitWork, StashPush, StashDrop, buildRollbackPlan, ShowPlan,
     Confirm, ResetHard, GitFails, StashPop, DriftTyped
<1>5. ScriptTyped /\ StashBounds /\ DriftTyped => RollbackTypeOK
  <2>1. ScriptTyped => rollback.at \in {"idle", "planned", "reset", "pop", "done"}
    BY DEF ScriptTyped, ScriptStates
  <2>2. QED
    BY Zenon, <2>1 DEF ScriptTyped, StashBounds, DriftTyped, RollbackTypeOK
<1>6. RollbackInv => ScriptTyped
  BY DEF RollbackInv
<1>7. QED
  BY <1>1, <1>2, <1>3, <1>4, <1>5, <1>6, InitRollbackInv, StepRollbackInv, PTL DEF RollbackSpec

-----------------------------------------------------------------------------
(***************************************************************************)
(* The dispatch: the implementation starts only with its checks passed.    *)
(***************************************************************************)

\* The only way to a start of fullstack on the trace is through both checks.
StartsAreLicensed ==
  /\ "fullstack" \in started => licensed
  /\ dispatch.at = "tracing" /\ isImplementationDispatch(dispatch.name) => licensed

DispatchTyped ==
  /\ flow.lane \in Lanes /\ flow.gate \in VALID_GATES
  /\ dispatch \in [name : AgentNames \cup {NoDispatch}, at : {"idle", "starting", "tracing"}]

LEMMA InitDispatched == DispatchInit => DispatchTyped /\ StartsAreLicensed
BY DEF DispatchInit, DispatchTyped, StartsAreLicensed, NotDispatching, Lanes, VALID_GATES

LEMMA StepDispatched ==
  DispatchTyped /\ StartsAreLicensed /\ [DispatchNext]_dispatchVars
    => DispatchTyped' /\ StartsAreLicensed'
<1> SUFFICES ASSUME DispatchTyped, StartsAreLicensed, [DispatchNext]_dispatchVars
             PROVE  DispatchTyped' /\ StartsAreLicensed'
  OBVIOUS
<1>1. ASSUME NEW to \in VALID_GATES, MoveGate(to)
      PROVE  DispatchTyped' /\ StartsAreLicensed'
  <2>1. UNCHANGED <<started, dispatch, licensed>> /\ flow' = [flow EXCEPT !.gate = to]
    BY <1>1 DEF MoveGate
  <2>2. QED
    BY <2>1 DEF DispatchTyped, StartsAreLicensed
<1>2. ASSUME NEW lane \in Lanes, SetLane(lane)
      PROVE  DispatchTyped' /\ StartsAreLicensed'
  <2>1. UNCHANGED <<started, dispatch, licensed>> /\ flow' = [lane |-> lane, gate |-> "lane-set"]
    BY <1>2 DEF SetLane
  <2>2. QED
    BY <2>1 DEF DispatchTyped, StartsAreLicensed, VALID_GATES
<1>3. ASSUME NEW f \in {"scope", "diagnosis"}, FileChanges(f)
      PROVE  DispatchTyped' /\ StartsAreLicensed'
  BY <1>3 DEF FileChanges, DispatchTyped, StartsAreLicensed
<1>4. ASSUME NEW name \in AgentNames, PreToolUse(name)
      PROVE  DispatchTyped' /\ StartsAreLicensed'
  BY <1>4 DEF PreToolUse, DispatchTyped, StartsAreLicensed
<1>5. CASE SubagentStart
  <2> DEFINE impl == isImplementationDispatch(dispatch.name)
  <2>1. \/ dispatch' = NotDispatching /\ licensed' = licensed
        \/ dispatch' = [dispatch EXCEPT !.at = "tracing"] /\ licensed' = (licensed \/ impl)
    BY <1>5 DEF SubagentStart
  <2>2. UNCHANGED <<flow, started>>
    BY <1>5 DEF SubagentStart
  <2>3. CASE dispatch' = NotDispatching /\ licensed' = licensed
    BY <2>2, <2>3 DEF NotDispatching, DispatchTyped, StartsAreLicensed
  <2>4. CASE dispatch' = [dispatch EXCEPT !.at = "tracing"] /\ licensed' = (licensed \/ impl)
    <3>1. dispatch'.name = dispatch.name /\ DispatchTyped'
      BY <2>2, <2>4 DEF DispatchTyped
    <3>2. (isImplementationDispatch(dispatch.name))' = impl
      BY <3>1 DEF isImplementationDispatch, normalizeDispatchedAgent, resolvePersona
    <3>3. QED
      BY <2>2, <2>4, <3>1, <3>2 DEF StartsAreLicensed
  <2>5. QED
    BY <2>1, <2>3, <2>4
<1>6. CASE TraceStart
  <2>1. /\ dispatch.at = "tracing" /\ dispatch' = NotDispatching /\ UNCHANGED <<flow, licensed>>
        /\ \/ started' = started \cup {normalizeDispatchedAgent(dispatch.name)}
           \/ started' = started
    BY <1>6 DEF TraceStart
  <2>2. "fullstack" \in started' => licensed
    BY <2>1 DEF StartsAreLicensed, isImplementationDispatch
  <2>3. QED
    BY <2>1, <2>2 DEF NotDispatching, DispatchTyped, StartsAreLicensed
<1>7. CASE UNCHANGED dispatchVars
  BY <1>7 DEF dispatchVars, DispatchTyped, StartsAreLicensed
<1>8. QED
  BY <1>1, <1>2, <1>3, <1>4, <1>5, <1>6, <1>7 DEF DispatchNext

\* A name the result guard takes for fullstack's needs fullstack's start.
LEMMA LicensedResults == StartsAreLicensed => OkResultIsLicensed
<1> SUFFICES ASSUME StartsAreLicensed, ~licensed,
                    NEW name \in ImplementationNames, NEW r \in OkResults,
                    assertDispatchResultBacked(name, r)
             PROVE  FALSE
  BY DEF OkResultIsLicensed
<1>1. "fullstack" \notin started
  BY DEF StartsAreLicensed
<1>2. resolvePersona(name) \in Specialists \cup {"fullstack"} /\ r.status = "ok"
  BY DEF assertDispatchResultBacked, assertDispatchResult, OkResults
<1>3. resolvePersona(name) = "fullstack"
  BY <1>2 DEF ImplementationNames, AgentNames, isImplementationDispatch, normalizeDispatchedAgent,
              resolvePersona, PERSONAS, Specialists, IMPLEMENTATION_AGENTS
<1>4. QED
  BY <1>1, <1>2, <1>3 DEF assertDispatchResultBacked, isTraceBackedResultAgent

-----------------------------------------------------------------------------
(* The floors.                                                             *)

\* An analysis agent with no minimum gate, or past it, is let in.
LEMMA FreeAgents ==
  ASSUME NEW name \in {"discovery", "tech-design", "diagnose"}
  PROVE  ~Refused(name)
BY DEF Refused, isImplementationDispatch, normalizeDispatchedAgent, resolvePersona, PERSONAS,
       evaluateDispatchSequencing, ANALYSIS_MIN_GATE

LEMMA DuckAllowed ==
  ASSUME flow.lane = "feature" => gateAtLeast("feature", flow.gate, "discovery-done")
  PROVE  ~Refused("rubber-duck")
BY DEF Refused, isImplementationDispatch, normalizeDispatchedAgent, resolvePersona, PERSONAS,
       evaluateDispatchSequencing, ANALYSIS_MIN_GATE

LEMMA PlannerAllowed ==
  ASSUME flow.lane = "feature" => gateAtLeast("feature", flow.gate, "grill-done")
  PROVE  ~Refused("planner")
BY DEF Refused, isImplementationDispatch, normalizeDispatchedAgent, resolvePersona, PERSONAS,
       evaluateDispatchSequencing, ANALYSIS_MIN_GATE

\* Where the feature lane moves on from.
LEMMA LegalOrigins ==
  ASSUME DispatchTyped, flow.lane = "feature"
  PROVE  /\ Legal("grill-done") => flow.gate \in {"discovery-done", "spec-draft", "parked"}
         /\ Legal("plan-done") => flow.gate \in {"grill-done", "impl-started", "parked"}
         /\ Legal("impl-started") => flow.gate \in {"spec-approved", "parked"}
<1> DEFINE moves == TRANSITIONS["feature"] \cup STEERING
<1>1. \A e \in moves :
        /\ e.to = "grill-done" => e.from \in {"discovery-done", "spec-draft"}
        /\ e.to = "plan-done" => e.from \in {"grill-done", "impl-started"}
        /\ e.to = "impl-started" => e.from = "spec-approved"
  BY DEF TRANSITIONS, STEERING, Edge, PrTail
<1>2. \A m \in LegalMoves["feature"] :
        \/ \E e \in moves : m = <<e.from, e.to>>
        \/ m = <<"spec-draft", "spec-approved">>
        \/ m \in {"parked"} \X PARKABLE_GATES
  BY DEF LegalMoves, Lanes
<1>3. ASSUME NEW to, Legal(to)
      PROVE  \/ \E e \in moves : flow.gate = e.from /\ to = e.to
             \/ flow.gate = "spec-draft" /\ to = "spec-approved"
             \/ flow.gate = "parked"
  BY <1>2, <1>3 DEF Legal
<1> HIDE DEF moves
<1>4. QED
  BY <1>1, <1>3

LEMMA FeaturePositions ==
  /\ Positions("feature", "discovery-done") = {3} /\ Positions("feature", "grill-done") = {4}
  /\ Positions("feature", "spec-draft") = {6} /\ Positions("feature", "spec-approved") = {7}
  /\ Positions("feature", "impl-started") = {8} /\ Positions("feature", "parked") = {}
<1> DEFINE order == << "no-lane", "lane-set", "discovery-done", "grill-done", "plan-done", "spec-draft",
                       "spec-approved", "impl-started", "verification-passed", "pr-ready", "done" >>
<1>1. LANE_GATE_ORDER["feature"] = order
  BY DEF LANE_GATE_ORDER
<1>2. /\ DOMAIN order = 1 .. 11
      /\ order[1] = "no-lane" /\ order[2] = "lane-set" /\ order[3] = "discovery-done"
      /\ order[4] = "grill-done" /\ order[5] = "plan-done" /\ order[6] = "spec-draft"
      /\ order[7] = "spec-approved" /\ order[8] = "impl-started" /\ order[9] = "verification-passed"
      /\ order[10] = "pr-ready" /\ order[11] = "done"
  OBVIOUS
<1> HIDE DEF order
<1>3. \A gate : Positions("feature", gate) = { i \in 1 .. 11 : order[i] = gate }
  BY <1>1, <1>2 DEF Positions
<1>4. QED
  BY <1>2, <1>3

\* However the task came to where it is, a floor in its way can be cleared there.
LEMMA FloorsClear == DispatchTyped => FloorCanBeCleared
<1> SUFFICES ASSUME DispatchTyped PROVE FloorCanBeCleared
  OBVIOUS
<1>1. Legal("grill-done") => ~Refused("rubber-duck")
  BY LegalOrigins, FeaturePositions, DuckAllowed DEF gateAtLeast
<1>2. Legal("plan-done") => ~Refused("planner")
  BY LegalOrigins, FeaturePositions, PlannerAllowed DEF gateAtLeast
<1>3. Legal("impl-started") => ~Refused("rubber-duck")
  BY LegalOrigins, FeaturePositions, DuckAllowed DEF gateAtLeast
<1>4. Legal("impl-started") => ~Refused("planner")
  BY LegalOrigins, FeaturePositions, PlannerAllowed DEF gateAtLeast
<1>5. ASSUME NEW to \in DOMAIN GATE_DISPATCH_FLOOR \cup {"impl-started"}, Legal(to),
             ~assertDispatchFloor(to)
      PROVE  \E name \in GATE_DISPATCH_FLOOR[to] : ~Refused(name)
  BY <1>1, <1>2, <1>5, FreeAgents DEF assertDispatchFloor, GATE_DISPATCH_FLOOR
<1>6. ASSUME Legal("impl-started"), NEW g \in missingLaneDispatches
      PROVE  \E name \in g : ~Refused(name)
  <2>1. g \in {{"discovery", "tech-design"}, {"rubber-duck"}, {"planner"}, {"diagnose"}}
    BY <1>6 DEF missingLaneDispatches, LANE_DISPATCH_REQUIREMENTS, DispatchTyped, Lanes
  <2>2. QED
    BY <1>3, <1>4, <1>6, <2>1, FreeAgents
<1>7. QED
  BY <1>5, <1>6 DEF FloorCanBeCleared

\* An ok result of an implementation agent was licensed, and no floor locks a
\* task out, in every mode of the sequencing.
THEOREM DispatchChecksHoldAlways == DispatchSpec => []DispatchChecksHold
<1>1. DispatchTyped /\ StartsAreLicensed => DispatchChecksHold
  BY LicensedResults, FloorsClear DEF DispatchChecksHold
<1>2. QED
  BY <1>1, InitDispatched, StepDispatched, PTL DEF DispatchSpec

-----------------------------------------------------------------------------
(* What the state is like, whatever happens.                               *)

DispatchParts ==
  /\ flow \in [lane : Lanes, gate : VALID_GATES]
  /\ artifacts \subseteq {"spec", "scope", "diagnosis"}
  /\ started \subseteq Specialists \cup {"fullstack"}
  /\ dispatch \in [name : AgentNames, at : {"starting", "tracing"}] \cup {NotDispatching}

LicenceTyped == licensed \in BOOLEAN

LEMMA DispatchTypes == DispatchSpec => []DispatchTypeOK
<1>1. DispatchInit => DispatchParts /\ LicenceTyped
  <2>1. "feature" \in Lanes /\ "no-lane" \in VALID_GATES
    BY DEF Lanes, VALID_GATES
  <2>2. DispatchInit => DispatchParts
    BY <2>1 DEF DispatchInit, DispatchParts
  <2>3. DispatchInit => LicenceTyped
    BY Zenon DEF DispatchInit, LicenceTyped
  <2>4. QED
    BY <2>2, <2>3
<1>2. ASSUME DispatchParts, [DispatchNext]_dispatchVars
      PROVE  DispatchParts'
  <2>1. \A n \in AgentNames : normalizeDispatchedAgent(n) \in Specialists \cup {"fullstack"}
    BY DEF normalizeDispatchedAgent, resolvePersona, AgentNames, PERSONAS, IMPLEMENTATION_AGENTS,
           Specialists
  <2>2. NotDispatching.at = "idle"
    BY DEF NotDispatching
  <2>3. CASE UNCHANGED dispatchVars
    BY <1>2, <2>3 DEF dispatchVars, DispatchParts
  <2>4. ASSUME NEW to \in VALID_GATES, MoveGate(to)
        PROVE  DispatchParts'
    BY <1>2, <2>4 DEF MoveGate, DispatchParts
  <2>5. ASSUME NEW lane \in Lanes, SetLane(lane)
        PROVE  DispatchParts'
    <3>1. "lane-set" \in VALID_GATES
      BY DEF VALID_GATES
    <3>2. QED
      BY <1>2, <2>5, <3>1 DEF SetLane, DispatchParts
  <2>6. ASSUME NEW f \in {"scope", "diagnosis"}, FileChanges(f)
        PROVE  DispatchParts'
    BY <1>2, <2>6 DEF FileChanges, DispatchParts
  <2>7. ASSUME NEW name \in AgentNames, PreToolUse(name)
        PROVE  DispatchParts'
    BY <1>2, <2>7 DEF PreToolUse, DispatchParts
  <2>8. CASE SubagentStart
    BY <1>2, <2>2, <2>8 DEF SubagentStart, DispatchParts
  <2>9. CASE TraceStart
    <3>1. dispatch.name \in AgentNames
      BY <1>2, <2>2, <2>9 DEF TraceStart, DispatchParts
    <3>2. QED
      BY <1>2, <2>1, <2>9, <3>1 DEF TraceStart, DispatchParts
  <2>10. QED
    BY <1>2, <2>3, <2>4, <2>5, <2>6, <2>7, <2>8, <2>9 DEF DispatchNext
<1>3. ASSUME LicenceTyped, [DispatchNext]_dispatchVars
      PROVE  LicenceTyped'
  <2>1. CASE SubagentStart
    <3>1. UNCHANGED licensed \/ licensed' = (licensed \/ isImplementationDispatch(dispatch.name))
      BY <2>1 DEF SubagentStart
    <3>2. QED
      BY Zenon, <1>3, <3>1 DEF LicenceTyped
  <2>2. CASE ~SubagentStart
    <3>1. UNCHANGED licensed
      BY <1>3, <2>2 DEF DispatchNext, dispatchVars, MoveGate, SetLane, FileChanges, PreToolUse, TraceStart
    <3>2. QED
      BY Zenon, <1>3, <3>1 DEF LicenceTyped
  <2>3. QED
    BY <2>1, <2>2
<1>4. DispatchParts /\ LicenceTyped => DispatchTypeOK
  <2>1. DispatchParts => dispatch.at \in {"idle", "starting", "tracing"}
    BY DEF DispatchParts, NotDispatching
  <2>2. QED
    BY Zenon, <2>1 DEF DispatchTypeOK, DispatchParts, LicenceTyped
<1>5. QED
  BY <1>1, <1>2, <1>3, <1>4, PTL DEF DispatchSpec

-----------------------------------------------------------------------------
(***************************************************************************)
(* The discovery fan-out: the report counts the searches that were whole.  *)
(***************************************************************************)

\* The one place of f in the parts.
AtPlace(parts, f, p, i) ==
  \A q \in 1 .. ScanWorkers : \A j \in DOMAIN parts[q] : parts[q][j] = f <=> q = p /\ j = i

AtOnePlace(parts, f) ==
  \E p \in 1 .. ScanWorkers : \E i \in DOMAIN parts[p] : AtPlace(parts, f, p, i)

Parts == [1 .. ScanWorkers -> Seq(Candidates)]

Distinct(cs) == \A x, y \in DOMAIN cs : cs[x] = cs[y] => x = y

\* The first m of cs are in the parts, each once, and nothing else.
Spread(parts, cs, m) ==
  /\ \A p \in 1 .. ScanWorkers : \A j \in DOMAIN parts[p] : \E x \in 1 .. m : parts[p][j] = cs[x]
  /\ \A x \in 1 .. m : AtOnePlace(parts, cs[x])

LEMMA SmallestIsOne ==
  ASSUME ScanAssumption, NEW parts \in Parts
  PROVE  Smallest(parts) \in 1 .. ScanWorkers
<1> DEFINE T == { Len(parts[p]) : p \in 1 .. ScanWorkers }
           F == { p \in 1 .. ScanWorkers : \A q \in 1 .. ScanWorkers : Len(parts[p]) <= Len(parts[q]) }
<1>1. 1 \in 1 .. ScanWorkers /\ \A p \in 1 .. ScanWorkers : Len(parts[p]) \in Nat
  BY DEF ScanAssumption, Parts
<1>2. F # {}
  <2>1. T \in SUBSET Nat /\ Len(parts[1]) \in T
    BY <1>1
  <2>2. PICK x \in T : \A y \in T : x <= y
    <3> HIDE DEF T
    <3>1. QED
      BY <2>1, LeastNatural
  <2>3. PICK p \in 1 .. ScanWorkers : x = Len(parts[p])
    OBVIOUS
  <2>4. \A q \in 1 .. ScanWorkers : Len(parts[q]) \in T
    OBVIOUS
  <2>5. p \in F
    BY <2>2, <2>3, <2>4
  <2>6. QED
    BY <2>5
<1>3. PICK p \in F : \A q \in F : p <= q
  <2>1. F \in SUBSET Nat
    BY <1>1
  <2> HIDE DEF F
  <2>2. QED
    BY <1>2, <2>1, LeastNatural
<1>4. ASSUME NEW q \in 1 .. ScanWorkers
      PROVE  Len(parts[p]) < Len(parts[q]) \/ (Len(parts[p]) = Len(parts[q]) /\ p <= q)
  <2>1. Len(parts[p]) <= Len(parts[q]) /\ p \in 1 .. ScanWorkers
    OBVIOUS
  <2>2. CASE Len(parts[p]) = Len(parts[q])
    <3>1. q \in F
      BY <2>2
    <3>2. QED
      BY <1>3, <2>2, <3>1
  <2>3. QED
    BY <1>1, <2>1, <2>2
<1>5. p \in 1 .. ScanWorkers
  OBVIOUS
<1> HIDE DEF F
<1>6. \E r \in 1 .. ScanWorkers : \A q \in 1 .. ScanWorkers :
         Len(parts[r]) < Len(parts[q]) \/ (Len(parts[r]) = Len(parts[q]) /\ r <= q)
  BY <1>4, <1>5
<1>7. QED
  BY <1>6 DEF Smallest

\* The next piece of cs goes whole to one of the parts.
LEMMA SpreadStep ==
  ASSUME ScanAssumption, NEW cs \in Seq(Candidates), Distinct(cs),
         NEW parts \in Parts, NEW m \in 0 .. Len(cs), NEW n \in m .. Len(cs),
         Spread(parts, cs, m), NEW P \in 1 .. ScanWorkers,
         NEW new, new = [parts EXCEPT ![P] = @ \o SubSeq(cs, m + 1, n)]
  PROVE  new \in Parts /\ Spread(new, cs, n)
<1> DEFINE piece == SubSeq(cs, m + 1, n)
           l == Len(parts[P])
<1>1. m \in Nat /\ n \in Nat /\ Len(cs) \in Nat /\ m <= n /\ n <= Len(cs) /\ DOMAIN cs = 1 .. Len(cs)
  OBVIOUS
<1>2. piece \in Seq(Candidates) /\ Len(piece) = n - m /\ \A i \in 1 .. n - m : piece[i] = cs[m + i]
  <2>1. \A i \in m + 1 .. n : cs[i] \in Candidates
    BY <1>1
  <2>2. /\ piece \in Seq(Candidates)
        /\ Len(piece) = IF m + 1 <= n THEN n - (m + 1) + 1 ELSE 0
        /\ \A i \in 1 .. n - (m + 1) + 1 : piece[i] = cs[(m + 1) + i - 1]
    BY <1>1, <2>1, SubSeqProperties, m + 1 \in Int, n \in Int
  <2> HIDE DEF piece
  <2>3. n - (m + 1) + 1 = n - m /\ \A i \in 1 .. n - m : (m + 1) + i - 1 = m + i
    BY <1>1
  <2>4. QED
    BY <1>1, <2>2, <2>3
<1>3. \A p \in 1 .. ScanWorkers : parts[p] \in Seq(Candidates)
  BY DEF Parts
<1>4. l \in Nat /\ DOMAIN parts[P] = 1 .. l
  BY <1>3
<1>5. /\ new[P] \in Seq(Candidates) /\ DOMAIN new[P] = 1 .. l + (n - m)
      /\ \A j \in 1 .. l : new[P][j] = parts[P][j]
      /\ \A j \in 1 .. n - m : new[P][l + j] = cs[m + j]
  <2>1. new[P] = parts[P] \o piece
    BY DEF Parts
  <2> HIDE DEF piece
  <2>2. /\ parts[P] \o piece \in Seq(Candidates)
        /\ Len(parts[P] \o piece) = l + Len(piece)
        /\ \A j \in 1 .. l + Len(piece) :
             (parts[P] \o piece)[j] = IF j <= l THEN parts[P][j] ELSE piece[j - l]
    BY <1>2, <1>3, ConcatProperties
  <2>3. /\ Len(parts[P] \o piece) = l + (n - m)
        /\ \A j \in 1 .. l + (n - m) :
             (parts[P] \o piece)[j] = IF j <= l THEN parts[P][j] ELSE piece[j - l]
    BY <1>2, <2>2
  <2> HIDE DEF l
  <2>4. DOMAIN new[P] = 1 .. l + (n - m)
    BY <2>1, <2>2, <2>3
  <2>5. \A j \in 1 .. l : new[P][j] = parts[P][j]
    BY <1>1, <1>4, <2>1, <2>3
  <2>6. ASSUME NEW j \in 1 .. n - m PROVE new[P][l + j] = cs[m + j]
    <3> DEFINE k == l + j
    <3>1. k \in 1 .. l + (n - m) /\ ~(k <= l) /\ k - l = j
      BY <1>1, <1>4
    <3> HIDE DEF k
    <3>2. (parts[P] \o piece)[k] = piece[k - l]
      BY <2>3, <3>1
    <3>3. piece[j] = cs[m + j]
      BY <1>2
    <3>4. QED
      BY <2>1, <3>1, <3>2, <3>3 DEF k
  <2>7. QED
    BY <2>1, <2>2, <2>4, <2>5, <2>6
<1>6. \A p \in 1 .. ScanWorkers : p # P => new[p] = parts[p]
  BY DEF Parts
<1>7. new \in Parts
  <2>1. \A p \in 1 .. ScanWorkers : new[p] \in Seq(Candidates)
    BY <1>3, <1>5, <1>6
  <2>2. QED
    BY <2>1 DEF Parts
<1> HIDE DEF l, piece
\* What is at a place is from before, or is of the piece.
<1>8. ASSUME NEW q \in 1 .. ScanWorkers, NEW j \in DOMAIN new[q]
      PROVE  \/ j \in DOMAIN parts[q] /\ new[q][j] = parts[q][j]
             \/ q = P /\ j - l \in 1 .. n - m /\ new[q][j] = cs[m + (j - l)]
  <2>1. CASE q # P
    BY <1>6, <2>1
  <2>2. CASE q = P
    <3>1. j \in 1 .. l + (n - m)
      BY <1>5, <2>2
    <3>2. CASE j <= l
      BY <1>1, <1>4, <1>5, <2>2, <3>1, <3>2
    <3>3. CASE j > l
      <4>1. j - l \in 1 .. n - m /\ l + (j - l) = j
        BY <1>1, <1>4, <3>1, <3>3
      <4>2. new[P][l + (j - l)] = cs[m + (j - l)]
        BY <1>5, <4>1
      <4>3. QED
        BY <2>2, <4>1, <4>2
    <3>4. j <= l \/ j > l
      BY <1>1, <1>4, <3>1
    <3>5. QED
      BY Zenon, <3>2, <3>3, <3>4
  <2>3. QED
    BY <2>1, <2>2
<1>9. ASSUME NEW q \in 1 .. ScanWorkers, NEW j \in DOMAIN parts[q]
      PROVE  j \in DOMAIN new[q] /\ new[q][j] = parts[q][j]
             /\ ~(q = P /\ j - l \in 1 .. n - m)
  <2>1. CASE q # P
    BY <1>6, <2>1
  <2>2. CASE q = P
    <3>1. j \in 1 .. l
      BY <1>4, <2>2
    <3>2. j \in 1 .. l + (n - m) /\ ~(j - l \in 1 .. n - m)
      BY <1>1, <1>4, <3>1
    <3>3. QED
      BY <1>5, <2>2, <3>1, <3>2
  <2>3. QED
    BY <2>1, <2>2
<1>10. \A q \in 1 .. ScanWorkers : \A j \in DOMAIN parts[q] : \E x \in 1 .. m : parts[q][j] = cs[x]
  BY DEF Spread
<1>11. ASSUME NEW q \in 1 .. ScanWorkers, NEW j \in DOMAIN new[q]
       PROVE  \E x \in 1 .. n : new[q][j] = cs[x]
  <2>1. CASE j \in DOMAIN parts[q] /\ new[q][j] = parts[q][j]
    <3>1. PICK x \in 1 .. m : parts[q][j] = cs[x]
      BY <1>10, <2>1
    <3>2. x \in 1 .. n
      BY <1>1
    <3>3. QED
      BY <2>1, <3>1, <3>2
  <2>2. CASE j - l \in 1 .. n - m /\ new[q][j] = cs[m + (j - l)]
    <3> DEFINE x == m + (j - l)
    <3>1. x \in 1 .. n
      BY <1>1, <2>2
    <3> HIDE DEF x
    <3>2. QED
      BY <2>2, <3>1 DEF x
  <2>3. QED
    BY <1>8, <2>1, <2>2
<1>12. ASSUME NEW x \in 1 .. n
       PROVE  AtOnePlace(new, cs[x])
  <2>1. x \in DOMAIN cs
    BY <1>1
  <2>2. CASE x <= m
    <3>1. x \in 1 .. m
      BY <1>1, <2>2
    <3>2. PICK p \in 1 .. ScanWorkers : \E i \in DOMAIN parts[p] : AtPlace(parts, cs[x], p, i)
      BY <3>1 DEF Spread, AtOnePlace
    <3>3. PICK i \in DOMAIN parts[p] : AtPlace(parts, cs[x], p, i)
      BY <3>2
    <3>4. i \in DOMAIN new[p] /\ ~(p = P /\ i - l \in 1 .. n - m)
      BY <1>9
    <3>5. ASSUME NEW q \in 1 .. ScanWorkers, NEW j \in DOMAIN new[q]
          PROVE  new[q][j] = cs[x] <=> q = p /\ j = i
      <4>1. CASE j \in DOMAIN parts[q] /\ new[q][j] = parts[q][j]
        BY <3>3, <4>1 DEF AtPlace
      <4>2. CASE q = P /\ j - l \in 1 .. n - m /\ new[q][j] = cs[m + (j - l)]
        <5> DEFINE y == m + (j - l)
        <5>1. y \in DOMAIN cs /\ y # x
          BY <1>1, <2>2, <4>2
        <5>2. cs[y] # cs[x]
          <6> HIDE DEF y
          <6>1. QED
            BY <2>1, <5>1 DEF Distinct
        <5>3. ~(q = p /\ j = i)
          BY <3>4, <4>2
        <5>4. QED
          BY <4>2, <5>2, <5>3
      <4>3. QED
        BY <1>8, <4>1, <4>2
    <3>6. QED
      BY <3>4, <3>5 DEF AtPlace, AtOnePlace
  <2>3. CASE x > m
    <3> DEFINE i == l + (x - m)
    <3>1. x - m \in 1 .. n - m /\ m + (x - m) = x /\ i \in 1 .. l + (n - m) /\ i - l = x - m
      BY <1>1, <1>4, <2>3
    <3>2. i \in DOMAIN new[P] /\ new[P][i] = cs[x]
      <4>1. new[P][l + (x - m)] = cs[m + (x - m)]
        BY <1>5, <3>1
      <4>2. QED
        BY <1>5, <3>1, <4>1
    <3>3. ASSUME NEW q \in 1 .. ScanWorkers, NEW j \in DOMAIN new[q], new[q][j] = cs[x]
          PROVE  q = P /\ j = i
      <4>1. CASE j \in DOMAIN parts[q] /\ new[q][j] = parts[q][j]
        <5>1. PICK y \in 1 .. m : parts[q][j] = cs[y]
          BY <1>10, <4>1
        <5>2. y \in DOMAIN cs /\ y # x /\ cs[y] = cs[x]
          BY <1>1, <2>3, <3>3, <4>1, <5>1
        <5>3. QED
          BY <2>1, <5>2 DEF Distinct
      <4>2. CASE q = P /\ j - l \in 1 .. n - m /\ new[q][j] = cs[m + (j - l)]
        <5>1. j \in Nat
          BY <1>5, <4>2
        <5> DEFINE y == m + (j - l)
        <5>2. y \in DOMAIN cs
          <6>1. j - l >= 1 /\ j - l <= n - m
            BY <4>2
          <6>2. j - l \in Int
            BY <1>4, <5>1
          <6>3. y \in 1 .. n
            BY <1>1, <6>1, <6>2
          <6> HIDE DEF y
          <6>4. QED
            BY <1>1, <6>3
        <5>3. cs[y] = cs[x]
          BY <3>3, <4>2
        <5>4. y = x
          <6> HIDE DEF y
          <6>1. QED
            BY <2>1, <5>2, <5>3 DEF Distinct
        <5>5. j = l + (x - m)
          BY <1>1, <1>4, <5>1, <5>4
        <5>6. QED
          BY <4>2, <5>5
      <4>3. QED
        BY <1>8, <4>1, <4>2
    <3> HIDE DEF i
    <3>4. \A q \in 1 .. ScanWorkers : \A j \in DOMAIN new[q] : new[q][j] = cs[x] <=> q = P /\ j = i
      BY <3>2, <3>3
    <3>5. QED
      BY <3>2, <3>4 DEF AtPlace, AtOnePlace
  <2>4. QED
    BY <1>1, <2>2, <2>3
<1>13. QED
  BY <1>7, <1>11, <1>12 DEF Spread

\* The pieces of cs, one behind the other, up to the ends e, are all of cs.
Cut(cs, pieces, e) ==
  /\ pieces \in Seq(Seq(Candidates)) /\ e \in [0 .. Len(pieces) -> 0 .. Len(cs)]
  /\ e[0] = 0 /\ e[Len(pieces)] = Len(cs)
  /\ \A k \in 1 .. Len(pieces) :
       e[k - 1] <= e[k] /\ pieces[k] = SubSeq(cs, e[k - 1] + 1, e[k])

LEMMA Ceiling ==
  ASSUME NEW l \in Nat, NEW s \in Nat, s >= 1
  PROVE  (l + s - 1) \div s \in Nat /\ ((l + s - 1) \div s) * s >= l
<1> DEFINE q == (l + s - 1) \div s
<1>1. q \in Int /\ q * s <= l + s - 1 /\ l + s - 1 < q * s + s
  OBVIOUS
<1>2. q >= 0
  OBVIOUS
<1>3. q * s \in Int
  BY <1>1
<1> HIDE DEF q
<1>4. q * s >= l
  BY <1>1, <1>3
<1>5. QED
  BY <1>1, <1>2, <1>4 DEF q

LEMMA PiecesCut ==
  ASSUME ScanAssumption, NEW cs \in Seq(Candidates)
  PROVE  \E e : Cut(cs, Pieces(cs), e)
<1> DEFINE l == Len(cs)
           stride == Max({1, (3 * Share(l)) \div 2})
           n == (l + stride - 1) \div stride
<1>1. l \in Nat /\ DOMAIN cs = 1 .. l /\ \A i \in 1 .. l : cs[i] \in Candidates
  OBVIOUS
<1>2. Share(l) \in Int
  BY <1>1 DEF Share, ScanAssumption
<1>3. stride \in Nat /\ stride >= 1
  <2> DEFINE a == (3 * Share(l)) \div 2
  <2>1. a \in Int
    BY <1>2
  <2> HIDE DEF a
  <2>2. Max({1, a}) = IF 1 <= a THEN a ELSE 1
    BY <2>1, MaxOfTwo
  <2>3. QED
    BY <2>1, <2>2 DEF a
<1> HIDE DEF stride, l
<1>4. n \in Nat /\ n * stride >= l
  BY <1>1, <1>3, Ceiling
<1> HIDE DEF n
<1>5. CASE 2 * l > 3 * Share(l)
  <2> DEFINE end(k) == IF k * stride <= l THEN k * stride ELSE l
             e == [k \in 0 .. n |-> end(k)]
             pieces == [i \in 1 .. n |-> SubSeq(cs, (i - 1) * stride + 1, Min({i * stride, l}))]
  <2>1. Pieces(cs) = pieces
    BY <1>5 DEF Pieces, l, stride, n
  <2>2. ASSUME NEW k \in 0 .. n
        PROVE  k * stride \in Nat /\ end(k) \in 0 .. l /\ Min({k * stride, l}) = end(k)
    <3>1. k * stride \in Nat
      BY <1>3, <1>4
    <3> DEFINE a == k * stride
    <3> HIDE DEF a
    <3>2. a \in Nat
      BY <3>1 DEF a
    <3>3. Min({a, l}) = IF a <= l THEN a ELSE l
      BY <1>1, <3>2, MinOfTwo
    <3>4. QED
      BY <1>1, <3>2, <3>3 DEF a
  <2>3. ASSUME NEW k \in 1 .. n
        PROVE  /\ (k - 1) * stride \in Nat
               /\ k * stride = (k - 1) * stride + stride
               /\ k - 1 \in 0 .. n /\ k \in 0 .. n
    BY <1>3, <1>4, <2>2
  <2>4. ASSUME NEW k \in 1 .. n
        PROVE  /\ e[k - 1] <= e[k] /\ pieces[k] = SubSeq(cs, e[k - 1] + 1, e[k])
               /\ pieces[k] \in Seq(Candidates)
    <3> DEFINE a == (k - 1) * stride
               b == k * stride
    <3>1. a \in Nat /\ b \in Nat /\ b = a + stride /\ k - 1 \in 0 .. n /\ k \in 0 .. n
      BY <2>2, <2>3
    <3>2. e[k - 1] = (IF a <= l THEN a ELSE l) /\ e[k] = (IF b <= l THEN b ELSE l)
      BY <3>1
    <3>3. pieces[k] = SubSeq(cs, a + 1, e[k])
      BY <2>2, <3>1
    <3> HIDE DEF a, b, e, pieces
    <3>4. e[k - 1] \in 0 .. l /\ e[k] \in 0 .. l /\ e[k - 1] <= e[k]
      BY <1>1, <1>3, <3>1, <3>2
    <3>5. \A i \in e[k - 1] + 1 .. e[k] : cs[i] \in Candidates
      BY <1>1, <3>4
    <3>6. SubSeq(cs, e[k - 1] + 1, e[k]) \in Seq(Candidates)
      BY <1>1, <3>4, <3>5, SubSeqProperties, e[k - 1] + 1 \in Int, e[k] \in Int
    <3>7. SubSeq(cs, a + 1, e[k]) = SubSeq(cs, e[k - 1] + 1, e[k])
      <4>1. CASE a <= l
        <5>1. e[k - 1] = a
          BY <3>2, <4>1
        <5>2. QED
          BY <5>1
      <4>2. CASE a > l
        <5>1. e[k - 1] = l /\ e[k] = l
          <6>1. ~(a <= l) /\ ~(b <= l)
            BY <1>1, <1>3, <3>1, <4>2
          <6>2. QED
            BY <3>2, <6>1
        <5>2. SubSeq(cs, a + 1, l) = << >>
          BY <1>1, <3>1, <4>2, SubSeqEmpty, a + 1 \in Int, l \in Int
        <5>3. SubSeq(cs, l + 1, l) = << >>
          BY <1>1, SubSeqEmpty, l + 1 \in Int, l \in Int
        <5>4. SubSeq(cs, a + 1, e[k]) = << >> /\ SubSeq(cs, e[k - 1] + 1, e[k]) = << >>
          BY <5>1, <5>2, <5>3
        <5>5. QED
          BY <5>4
      <4>3. a <= l \/ a > l
        BY <1>1, <3>1
      <4>4. QED
        BY Zenon, <4>1, <4>2, <4>3
    <3>8. QED
      BY <3>3, <3>4, <3>6, <3>7
  <2>5. pieces \in Seq(Seq(Candidates)) /\ Len(pieces) = n
    <3>1. \A k \in 1 .. n : pieces[k] \in Seq(Candidates)
      BY <2>4
    <3>2. DOMAIN pieces = 1 .. n /\ pieces = [k \in 1 .. n |-> pieces[k]]
      OBVIOUS
    <3> HIDE DEF pieces
    <3>3. QED
      BY <1>4, <3>1, <3>2
  <2>6. e \in [0 .. n -> 0 .. l] /\ e[0] = 0 /\ e[n] = l
    <3>1. end(0) = 0 /\ end(n) = l
      BY <1>1, <1>3, <1>4, <2>2
    <3>2. \A k \in 0 .. n : end(k) \in 0 .. l
      BY <2>2
    <3> HIDE DEF end
    <3>3. QED
      BY <1>4, <3>1, <3>2
  <2> HIDE DEF e, pieces
  <2>7. Cut(cs, pieces, e)
    BY <2>4, <2>5, <2>6 DEF Cut, l
  <2>8. QED
    BY <2>1, <2>7
<1>6. CASE ~(2 * l > 3 * Share(l)) /\ cs = << >>
  <2> DEFINE e == [k \in 0 .. 0 |-> 0]
  <2>1. Pieces(cs) = << >> /\ l = 0
    BY <1>6 DEF Pieces, l
  <2>2. Len(<< >>) = 0 /\ << >> \in Seq(Seq(Candidates)) /\ e \in [0 .. 0 -> 0 .. 0] /\ e[0] = 0
    OBVIOUS
  <2> HIDE DEF e
  <2>3. Cut(cs, << >>, e)
    BY <2>1, <2>2 DEF Cut, l
  <2>4. QED
    BY <2>1, <2>3
<1>7. CASE ~(2 * l > 3 * Share(l)) /\ cs # << >>
  <2> DEFINE e == [k \in 0 .. 1 |-> IF k = 0 THEN 0 ELSE l]
  <2>1. Pieces(cs) = <<cs>>
    BY <1>7 DEF Pieces, l
  <2>2. Len(<<cs>>) = 1 /\ <<cs>> \in Seq(Seq(Candidates)) /\ <<cs>>[1] = cs
    OBVIOUS
  <2>3. e \in [0 .. 1 -> 0 .. l] /\ e[0] = 0 /\ e[1] = l
    BY <1>1
  <2>4. SubSeq(cs, 1, l) = cs
    BY SubSeqFull DEF l
  <2> HIDE DEF e
  <2>5. \A k \in 1 .. 1 : e[k - 1] <= e[k] /\ <<cs>>[k] = SubSeq(cs, e[k - 1] + 1, e[k])
    <3>1. \A k \in 1 .. 1 : k = 1
      OBVIOUS
    <3>2. e[1 - 1] <= e[1] /\ <<cs>>[1] = SubSeq(cs, e[1 - 1] + 1, e[1])
      BY <1>1, <2>2, <2>3, <2>4
    <3>3. QED
      BY <3>1, <3>2
  <2>6. Cut(cs, <<cs>>, e)
    BY <2>2, <2>3, <2>5 DEF Cut, l
  <2>7. QED
    BY <2>1, <2>6
<1>8. QED
  BY <1>5, <1>6, <1>7

Undealt == [p \in 1 .. ScanWorkers |-> << >>]

\* The pieces are dealt one at a time.
LEMMA DealSteps ==
  ASSUME ScanAssumption, NEW cs, Pieces(cs) \in Seq(Seq(Candidates))
  PROVE  \E t \in [0 .. Len(Pieces(cs)) -> Parts] :
           /\ t[0] = Undealt /\ t[Len(Pieces(cs))] = partitionCandidates(cs)
           /\ \A k \in 1 .. Len(Pieces(cs)) : t[k] = Deal(t[k - 1], Pieces(cs)[k])
<1> DEFINE pieces == Pieces(cs)
           n == Len(pieces)
           step == [vk \in Parts \X (1 .. n) |-> Deal(vk[1], pieces[vk[2]])]
<1>1. n \in Nat /\ DOMAIN pieces = 1 .. n /\ \A k \in 1 .. n : pieces[k] \in Seq(Candidates)
  OBVIOUS
<1>2. ASSUME NEW v \in Parts, NEW k \in 1 .. n PROVE Deal(v, pieces[k]) \in Parts
  <2>1. Smallest(v) \in 1 .. ScanWorkers
    BY SmallestIsOne
  <2> DEFINE s == Smallest(v)
  <2> HIDE DEF s
  <2>2. v[s] \in Seq(Candidates) /\ pieces[k] \in Seq(Candidates)
    BY <1>1, <2>1 DEF Parts, s
  <2>3. v[s] \o pieces[k] \in Seq(Candidates)
    BY <2>2, ConcatProperties
  <2>4. [v EXCEPT ![s] = v[s] \o pieces[k]] \in Parts
    BY <2>3 DEF Parts
  <2>5. QED
    BY <2>4 DEF Deal, s
<1>3. step \in [Parts \X (1 .. n) -> Parts]
  BY <1>2
<1>4. \A v \in Parts, k \in 1 .. n : step[<<v, k>>] = Deal(v, pieces[k])
  OBVIOUS
<1>5. Undealt \in Parts
  BY DEF Undealt, Parts
<1> HIDE DEF step
<1>6. PICK f \in [SUBSET (1 .. n) -> Parts] : Folding(f, n, Undealt, step)
  BY <1>1, <1>3, <1>5, FoldExists
<1> DEFINE Dealing(g) ==
       g = [s \in SUBSET (1 .. n) |->
              IF s = {} THEN Undealt ELSE Deal(g[s \ {Max(s)}], pieces[Max(s)])]
<1>7. Dealing(f)
  <2>1. ASSUME NEW s \in SUBSET (1 .. n)
        PROVE  f[s] = IF s = {} THEN Undealt ELSE Deal(f[s \ {Max(s)}], pieces[Max(s)])
    <3>1. CASE s = {}
      BY <1>6, <3>1 DEF Folding
    <3>2. CASE s # {}
      <4>1. f[s] = step[<<f[s \ {Max(s)}], Max(s)>>]
        BY <1>6, <3>2 DEF Folding
      <4>2. Max(s) \in 1 .. n
        BY <1>1, <3>2, LargestIn
      <4>3. f[s \ {Max(s)}] \in Parts
        OBVIOUS
      <4>4. QED
        BY <1>4, <3>2, <4>1, <4>2, <4>3
    <3>3. QED
      BY <3>1, <3>2
  <2>2. QED
    BY <2>1
<1> DEFINE g == CHOOSE g : Dealing(g)
<1>8. partitionCandidates(cs) = g[1 .. n]
  BY <1>1 DEF partitionCandidates, FoldLeft, MapThenFoldSet, Undealt
<1> HIDE DEF Dealing
<1>9. Dealing(g)
  BY <1>7
<1> HIDE DEF g
<1>10. g[{}] = Undealt
  BY <1>9 DEF Dealing
<1>11. ASSUME NEW k \in 1 .. n, g[1 .. k - 1] \in Parts
       PROVE  g[1 .. k] = step[<<g[1 .. k - 1], k>>]
  <2>1. 1 .. k \in SUBSET (1 .. n) /\ k \in 1 .. k /\ (1 .. k) \ {k} = 1 .. k - 1 /\ k \in Nat
    BY <1>1
  <2>2. Max(1 .. k) = k
    BY <2>1, LargestOf
  <2>3. g[1 .. k] = Deal(g[1 .. k - 1], pieces[k])
    BY <1>9, <2>1, <2>2 DEF Dealing
  <2>4. QED
    BY <1>4, <1>11, <2>3
<1>12. PICK t \in [0 .. n -> Parts] : Trace(t, n, Undealt, step) /\ t[n] = g[1 .. n]
  <2> HIDE DEF n
  <2>1. Along(g, n, Parts, Undealt, step)
    BY <1>10, <1>11 DEF Along
  <2>2. Reached(g, n, Parts, Undealt, step)
    BY <1>1, <1>3, <1>5, <2>1, FoldSteps
  <2>3. QED
    BY <2>2 DEF Reached
<1>13. \A k \in 1 .. n : t[k] = Deal(t[k - 1], pieces[k])
  <2>1. ASSUME NEW k \in 1 .. n PROVE t[k] = Deal(t[k - 1], pieces[k])
    <3>1. k - 1 \in 0 .. n
      BY <1>1
    <3>2. t[k - 1] \in Parts
      BY <1>12, <3>1
    <3>3. QED
      BY <1>4, <1>12, <3>2 DEF Trace
  <2>2. QED
    BY <2>1
<1>14. QED
  BY <1>8, <1>12, <1>13 DEF Trace

\* Each candidate is once in the part of one worker, and nothing else is.
LEMMA PartitionSpreads ==
  ASSUME ScanAssumption, NEW cs \in Seq(Candidates), Distinct(cs)
  PROVE  Spread(partitionCandidates(cs), cs, Len(cs))
<1> DEFINE pieces == Pieces(cs)
           n == Len(pieces)
<1>1. PICK e : Cut(cs, pieces, e)
  BY PiecesCut
<1>2. /\ pieces \in Seq(Seq(Candidates)) /\ n \in Nat /\ Len(cs) \in Nat
      /\ \A k \in 0 .. n : e[k] \in 0 .. Len(cs)
      /\ e[0] = 0 /\ e[n] = Len(cs)
      /\ \A k \in 1 .. n : e[k - 1] <= e[k] /\ pieces[k] = SubSeq(cs, e[k - 1] + 1, e[k])
  BY <1>1 DEF Cut
<1>3. PICK t \in [0 .. n -> Parts] :
           /\ t[0] = Undealt /\ t[n] = partitionCandidates(cs)
           /\ \A k \in 1 .. n : t[k] = Deal(t[k - 1], pieces[k])
  BY <1>2, DealSteps
<1> DEFINE G == { k \in 0 .. n : Spread(t[k], cs, e[k]) }
<1> HIDE DEF n, pieces
<1>4. 0 \in G
  <2>1. \A p \in 1 .. ScanWorkers : DOMAIN t[0][p] = {}
    BY <1>3 DEF Undealt
  <2>2. Spread(t[0], cs, e[0])
    BY <1>2, <2>1 DEF Spread
  <2>3. QED
    BY <1>2, <2>2
<1>5. ASSUME NEW k \in 1 .. n, k - 1 \in G
      PROVE  k \in G
  <2>1. k - 1 \in 0 .. n /\ k \in 0 .. n
    BY <1>2
  <2>2. t[k - 1] \in Parts /\ Spread(t[k - 1], cs, e[k - 1])
    BY <1>3, <1>5, <2>1
  <2>3. e[k - 1] \in 0 .. Len(cs) /\ e[k] \in e[k - 1] .. Len(cs)
    BY <1>2, <2>1
  <2>4. Smallest(t[k - 1]) \in 1 .. ScanWorkers
    BY <2>2, SmallestIsOne
  <2> DEFINE P == Smallest(t[k - 1])
             old == t[k - 1]
             new == t[k]
             a == e[k - 1]
             b == e[k]
  <2>5. new = [old EXCEPT ![P] = @ \o SubSeq(cs, a + 1, b)]
    BY <1>2, <1>3 DEF Deal
  <2>6. Spread(new, cs, b)
    <3>1. old \in Parts /\ Spread(old, cs, a) /\ a \in 0 .. Len(cs) /\ b \in a .. Len(cs)
          /\ P \in 1 .. ScanWorkers
      BY <2>2, <2>3, <2>4
    <3> HIDE DEF P, old, new, a, b
    <3>2. QED
      BY <2>5, <3>1, SpreadStep
  <2>7. QED
    BY <2>1, <2>6
<1>6. n \in G
  <2> HIDE DEF G
  <2>1. \A k \in 1 .. n : k - 1 \in G => k \in G
    BY <1>5
  <2>2. \A k \in 0 .. n : k \in G
    BY <1>2, <1>4, <2>1, CountUp
  <2>3. QED
    BY <1>2, <2>2
<1>7. QED
  BY <1>2, <1>3, <1>6

\* The candidates by rank, each once.
LEMMA RankedOnce ==
  ASSUME ScanAssumption
  PROVE  /\ IsFiniteSet(Merged) /\ Cardinality(Merged) \in Nat
         /\ RankedCandidates \in Seq(Candidates) /\ Len(RankedCandidates) = Cardinality(Merged)
         /\ Distinct(RankedCandidates) /\ \A k \in DOMAIN RankedCandidates : RankedCandidates[k] \in Merged
<1> DEFINE S == Merged
           n == Cardinality(S)
           s == RankedCandidates
           w == [f \in S |-> CandidateScore(f)]
           R == { fg \in S \X S : Ranks(fg[1], fg[2]) }
<1>1. S \subseteq Candidates /\ IsFiniteSet(S) /\ n \in Nat
  <2>1. IsFiniteSet(Candidates)
    BY FS_Interval DEF ScanAssumption, Candidates
  <2>2. S \subseteq Candidates
    BY DEF Merged
  <2>3. QED
    BY <2>1, <2>2, FS_Subset, FS_CardinalityType
<1>2. w \in [S -> Int]
  <2>1. ASSUME NEW f \in S PROVE CandidateScore(f) \in Int
    <3>1. FoundBy(f) \subseteq Strategies
      BY DEF FoundBy, ValidReturns
    <3>2. Cardinality(FoundBy(f)) \in Nat
      BY <3>1, FS_Subset, FS_CardinalityType DEF ScanAssumption
    <3>3. QED
      BY <3>2 DEF CandidateScore
  <2>2. QED
    BY <2>1
<1>3. \A f, g \in S : <<f, g>> \in R <=> w[f] > w[g] \/ (w[f] = w[g] /\ f < g)
  BY DEF Ranks
<1>4. \A f, g \in S : Ranks(f, g) <=> <<f, g>> \in R
  OBVIOUS
<1>5. S \subseteq Int
  BY <1>1 DEF Candidates
<1> HIDE DEF R, w
<1>6. /\ \A x \in S : <<x, x>> \notin R
      /\ \A x, y \in S : x = y \/ <<x, y>> \in R \/ <<y, x>> \in R
  <2> HIDE DEF S
  <2>1. QED
    BY <1>2, <1>3, <1>5
<1>7. ASSUME NEW x \in S, NEW y \in S, NEW z \in S, <<x, y>> \in R, <<y, z>> \in R
      PROVE  <<x, z>> \in R
  <2> HIDE DEF S
  <2>1. QED
    BY <1>2, <1>3, <1>5, <1>7
<1> HIDE DEF S, n
<1>8. \A k \in 1 .. n : \E x \in S : Cardinality(Below(S, R, x)) = k - 1
  BY <1>1, <1>6, <1>7, PlacesAreTaken DEF n
<1>9. \A x \in S : { y \in S : Ranks(y, x) } = Below(S, R, x)
  BY <1>4 DEF Below
<1>10. s = [k \in 1 .. n |-> CHOOSE x \in S : Cardinality({ y \in S : Ranks(y, x) }) = k - 1]
  BY DEF RankedCandidates, InOrder, n, S
<1>11. ASSUME NEW k \in 1 .. n
       PROVE  s[k] \in S /\ Cardinality(Below(S, R, s[k])) = k - 1
  <2>1. s[k] = CHOOSE x \in S : Cardinality({ y \in S : Ranks(y, x) }) = k - 1
    BY <1>10
  <2>2. \E x \in S : Cardinality({ y \in S : Ranks(y, x) }) = k - 1
    BY <1>8, <1>9
  <2>3. s[k] \in S /\ Cardinality({ y \in S : Ranks(y, s[k]) }) = k - 1
    BY <2>1, <2>2
  <2>4. QED
    BY <1>9, <2>3
<1>12. DOMAIN s = 1 .. n /\ s = [k \in 1 .. n |-> s[k]]
  <2> DEFINE at(k) == CHOOSE x \in S : Cardinality({ y \in S : Ranks(y, x) }) = k - 1
  <2>1. s = [k \in 1 .. n |-> at(k)]
    BY <1>10
  <2> HIDE DEF at
  <2>2. QED
    BY <2>1
<1> HIDE DEF s
<1>13. \A i, j \in 1 .. n : i < j => s[i] # s[j]
  <2>1. \A k \in 1 .. Cardinality(S) : s[k] \in S /\ Cardinality(Below(S, R, s[k])) = k - 1
    BY <1>11 DEF n
  <2>2. QED
    BY <1>1, <1>6, <1>7, <2>1, Ordered DEF n
<1>14. s \in Seq(Candidates) /\ Len(s) = n
  <2>1. \A k \in 1 .. n : s[k] \in Candidates
    BY <1>1, <1>11
  <2>2. QED
    BY <1>1, <1>12, <2>1
<1>15. Distinct(s)
  <2>1. ASSUME NEW i \in 1 .. n, NEW j \in 1 .. n, s[i] = s[j] PROVE i = j
    <3>1. ~(i < j) /\ ~(j < i)
      BY <1>13, <2>1
    <3>2. QED
      BY <1>1, <3>1
  <2>2. QED
    BY <1>12, <2>1 DEF Distinct
<1>16. \A k \in DOMAIN s : s[k] \in S
  BY <1>11, <1>12
<1>17. QED
  BY <1>1, <1>14, <1>15, <1>16 DEF s, n, S

-----------------------------------------------------------------------------

(***************************************************************************)
(* The inductive invariant: what is valid was stored whole, the stopped    *)
(* have timed out, and a report was made when no race was open any more.   *)
(***************************************************************************)
ScanShaped ==
  /\ worker \in [Strategies -> [at : Nat, hits : SUBSET Candidates]]
  /\ DOMAIN race = Strategies /\ DOMAIN store = Strategies
  /\ partial \subseteq Strategies

WholeSearches ==
  /\ \A s \in Strategies : worker[s].at = ScanFiles + 2 => store[s] = worker[s].hits
  /\ \A s \in Strategies : race[s] = "valid" => worker[s].at = ScanFiles + 2
  /\ \A s \in partial : race[s] = "timeout"

SearchesSettled ==
  report # NoScan => /\ \A s \in Strategies : race[s] # "open"
                     /\ report.violations = Strategies \ ValidReturns

ScanInv == ScanShaped /\ WholeSearches /\ SearchesSettled /\ ReportCountsWholeSearches

LEMMA ScanInitHolds == ASSUME ScanAssumption, ScanInit PROVE ScanInv
<1> USE DEF ScanInit, ScanAssumption
<1>1. ScanShaped
  BY DEF ScanShaped
<1>2. WholeSearches
  BY DEF WholeSearches
<1>3. SearchesSettled /\ ReportCountsWholeSearches
  BY DEF SearchesSettled, ReportCountsWholeSearches
<1>4. QED
  BY <1>1, <1>2, <1>3 DEF ScanInv

\* A report, when it is made.
LEMMA ReportIsRight ==
  ASSUME ScanAssumption, ScanInv, runDiscoveryScan
  PROVE  SearchesSettled' /\ ReportCountsWholeSearches'
<1> DEFINE n == Cardinality(Merged)
           L == Min({MaxSources, n})
           chosen == SubSeq(RankedCandidates, 1, L)
           r == [candidates |-> chosen,
                 strategies |-> [f \in Range(chosen) |-> FoundBy(f)],
                 dropped |-> (Cardinality(Merged) - Len(chosen)) + EscapingHits,
                 violations |-> Strategies \ ValidReturns,
                 insufficient |-> 2 * Cardinality(ValidReturns) < Cardinality(Strategies),
                 partitions |-> partitionCandidates(chosen)]
<1>1. report' = r /\ UNCHANGED <<worker, race, store, partial>>
      /\ \A s \in Strategies : race[s] # "open"
  BY DEF runDiscoveryScan
<1>2. /\ IsFiniteSet(Merged) /\ n \in Nat
      /\ RankedCandidates \in Seq(Candidates) /\ Len(RankedCandidates) = n
      /\ Distinct(RankedCandidates) /\ \A k \in DOMAIN RankedCandidates : RankedCandidates[k] \in Merged
  BY RankedOnce
<1>3. L \in 0 .. n
  <2>1. MaxSources \in Nat
    BY DEF ScanAssumption
  <2> HIDE DEF n
  <2>2. Min({MaxSources, n}) = IF MaxSources <= n THEN MaxSources ELSE n
    BY <1>2, <2>1, MinOfTwo
  <2>3. QED
    BY <1>2, <2>1, <2>2
<1> HIDE DEF L, n
<1>4. /\ chosen \in Seq(Candidates) /\ Len(chosen) = L
      /\ \A k \in 1 .. L : k \in DOMAIN RankedCandidates /\ chosen[k] = RankedCandidates[k]
  <2>1. L \in Int /\ n \in Nat /\ L <= n /\ 0 <= L
    BY <1>2, <1>3
  <2>2. \A i \in 1 .. L : i \in DOMAIN RankedCandidates /\ RankedCandidates[i] \in Candidates
    BY <1>2, <2>1
  <2>3. /\ chosen \in Seq(Candidates)
        /\ Len(chosen) = IF 1 <= L THEN L - 1 + 1 ELSE 0
        /\ \A i \in 1 .. L - 1 + 1 : chosen[i] = RankedCandidates[1 + i - 1]
    BY <2>1, <2>2, SubSeqProperties, 1 \in Int
  <2> HIDE DEF chosen
  <2>4. L - 1 + 1 = L /\ \A i \in 1 .. L : 1 + i - 1 = i
    BY <2>1
  <2>5. QED
    BY <2>1, <2>2, <2>3, <2>4
<1> HIDE DEF chosen
<1>5. DOMAIN chosen = 1 .. L /\ Distinct(chosen) /\ Range(chosen) \subseteq Merged
  <2>1. DOMAIN chosen = 1 .. L
    BY <1>4
  <2>2. Distinct(chosen)
    BY <1>2, <1>4, <2>1 DEF Distinct
  <2>3. QED
    BY <1>2, <1>4, <2>1, <2>2 DEF Range
<1>6. Spread(partitionCandidates(chosen), chosen, L)
  BY <1>4, <1>5, PartitionSpreads
<1> DEFINE parts == partitionCandidates(chosen)
           hits == { hit \in ValidReturns \X Escaping : hit[2] \in store[hit[1]] }
<1>7. /\ report'.candidates = chosen /\ report'.partitions = parts
      /\ report'.strategies = [f \in Range(chosen) |-> FoundBy(f)]
      /\ report'.dropped = (n - L) + EscapingHits
      /\ report'.violations = Strategies \ ValidReturns
  BY <1>1, <1>4 DEF n
<1> HIDE DEF parts, r
<1>8. ValidReturns \subseteq Strategies /\ Strategies \ (Strategies \ ValidReturns) = ValidReturns
  BY DEF ValidReturns
<1>9. \A s \in ValidReturns : store[s] = worker[s].hits /\ worker[s].hits \subseteq Candidates
  BY <1>8 DEF ScanInv, ScanShaped, WholeSearches, ValidReturns
<1>10. EscapingHits \in Nat
  <2>1. IsFiniteSet(ValidReturns)
    BY <1>8, FS_Subset DEF ScanAssumption
  <2>2. IsFiniteSet(Escaping)
    <3>1. ScanFiles \in Int /\ Escaping \in SUBSET (1 .. ScanFiles)
      BY DEF ScanAssumption
    <3>2. IsFiniteSet(1 .. ScanFiles)
      BY <3>1, FS_Interval
    <3>3. QED
      BY <3>1, <3>2, FS_Subset
  <2>3. IsFiniteSet(ValidReturns \X Escaping)
    BY <2>1, <2>2, FS_Product
  <2>4. IsFiniteSet(hits)
    BY <2>3, FS_Subset
  <2>5. QED
    BY <2>4, FS_CardinalityType DEF EscapingHits
<1>11. partial \subseteq Strategies \ ValidReturns
  BY DEF ScanInv, ScanShaped, WholeSearches, ValidReturns
<1>12. \A f \in Range(chosen) : FoundBy(f) = { s \in ValidReturns : f \in worker[s].hits }
  BY <1>9 DEF FoundBy
<1>13. UNION { worker[s].hits \ Escaping : s \in ValidReturns } = Merged
  <2>1. \A f : f \in Merged <=>
           f \in Candidates \ Escaping /\ \E s \in ValidReturns : f \in worker[s].hits
    BY <1>9 DEF Merged, FoundBy
  <2>2. \A f : f \in UNION { worker[s].hits \ Escaping : s \in ValidReturns } <=>
           f \in Candidates \ Escaping /\ \E s \in ValidReturns : f \in worker[s].hits
    BY <1>9
  <2>3. QED
    BY <2>1, <2>2
<1>14. { hit \in ValidReturns \X Escaping : hit[2] \in worker[hit[1]].hits } = hits
  BY <1>9
<1>15. n + Cardinality(hits) = L + ((n - L) + EscapingHits)
  BY <1>2, <1>3, <1>10 DEF EscapingHits
<1>16. \A p \in 1 .. ScanWorkers : Range(parts[p]) \subseteq Range(chosen)
  BY <1>5, <1>6 DEF Spread, Range, parts
<1>17. \A f \in Range(chosen) : AtOnePlace(parts, f)
  BY <1>5, <1>6 DEF Spread, Range, parts
<1> HIDE DEF hits
<1>18. ReportCountsWholeSearches'
  <2> DEFINE counted == Strategies \ report'.violations
  <2>1. counted = ValidReturns
    BY <1>7, <1>8
  <2>2. partial' \subseteq report'.violations
    BY <1>1, <1>7, <1>11
  <2>3. \A f \in Range(report'.candidates) :
           report'.strategies[f] = { s \in counted : f \in worker'[s].hits }
    BY <1>1, <1>7, <1>12, <2>1
  <2>4. Cardinality(UNION { worker'[s].hits \ Escaping : s \in counted })
          + Cardinality({ hit \in counted \X Escaping : hit[2] \in worker'[hit[1]].hits })
          = Len(report'.candidates) + report'.dropped
    <3>1. Cardinality(UNION { worker[s].hits \ Escaping : s \in ValidReturns }) = n
      BY <1>13 DEF n
    <3>2. Len(report'.candidates) = L
      BY <1>4, <1>7
    <3> HIDE DEF counted
    <3>3. UNION { worker'[s].hits \ Escaping : s \in counted }
            = UNION { worker[s].hits \ Escaping : s \in ValidReturns }
      BY <1>1, <2>1
    <3>4. { hit \in counted \X Escaping : hit[2] \in worker'[hit[1]].hits } = hits
      BY <1>1, <1>14, <2>1
    <3>5. QED
      BY <1>7, <1>15, <3>1, <3>2, <3>3, <3>4
  <2>5. \A p \in 1 .. ScanWorkers : Range(report'.partitions[p]) \subseteq Range(report'.candidates)
    BY <1>7, <1>16
  <2>6. \A f \in Range(report'.candidates) : AtOnePlace(report'.partitions, f)
    BY <1>7, <1>17
  <2>7. QED
    BY <2>2, <2>3, <2>4, <2>5, <2>6 DEF ReportCountsWholeSearches, AtOnePlace, AtPlace
<1>19. SearchesSettled'
  BY <1>1, <1>7 DEF SearchesSettled, ValidReturns
<1>20. QED
  BY <1>18, <1>19

\* What a report says stays true while it stands.
LEMMA ReportStays ==
  ASSUME ScanAssumption, ScanInv, report' = report,
         report # NoScan => /\ race' = race /\ partial' = partial
                            /\ \A s \in ValidReturns : worker'[s] = worker[s]
  PROVE  SearchesSettled' /\ ReportCountsWholeSearches'
<1>1. CASE report = NoScan
  BY <1>1 DEF SearchesSettled, ReportCountsWholeSearches
<1>2. CASE report # NoScan
  <2> DEFINE counted == Strategies \ report.violations
  <2>1. counted = ValidReturns
    BY <1>2 DEF ScanInv, SearchesSettled, ValidReturns
  <2>2. \A s \in counted : worker'[s].hits = worker[s].hits
    BY <1>2, <2>1
  <2>3. SearchesSettled'
    BY <1>2 DEF ScanInv, SearchesSettled, ValidReturns
  <2>4. Strategies \ report'.violations = counted
    OBVIOUS
  <2> HIDE DEF counted
  <2>5. \A f : { s \in counted : f \in worker'[s].hits } = { s \in counted : f \in worker[s].hits }
    BY <2>2
  <2>6. UNION { worker'[s].hits \ Escaping : s \in counted }
          = UNION { worker[s].hits \ Escaping : s \in counted }
    BY <2>2
  <2>7. { hit \in counted \X Escaping : hit[2] \in worker'[hit[1]].hits }
          = { hit \in counted \X Escaping : hit[2] \in worker[hit[1]].hits }
    BY <2>2
  <2>8. /\ partial \subseteq report.violations
        /\ \A f \in Range(report.candidates) :
             report.strategies[f] = { s \in counted : f \in worker[s].hits }
        /\ Cardinality(UNION { worker[s].hits \ Escaping : s \in counted })
             + Cardinality({ hit \in counted \X Escaping : hit[2] \in worker[hit[1]].hits })
             = Len(report.candidates) + report.dropped
        /\ \A p \in 1 .. ScanWorkers : Range(report.partitions[p]) \subseteq Range(report.candidates)
        /\ \A f \in Range(report.candidates) : AtOnePlace(report.partitions, f)
    BY <1>2 DEF ScanInv, ReportCountsWholeSearches, AtOnePlace, AtPlace, counted
  <2>9. ReportCountsWholeSearches'
    <3>1. partial' \subseteq report'.violations
      BY <1>2, <2>8
    <3>2. \A f \in Range(report'.candidates) :
             report'.strategies[f] = { s \in counted : f \in worker'[s].hits }
      BY <2>5, <2>8
    <3>3. Cardinality(UNION { worker'[s].hits \ Escaping : s \in counted })
            + Cardinality({ hit \in counted \X Escaping : hit[2] \in worker'[hit[1]].hits })
            = Len(report'.candidates) + report'.dropped
      BY <2>6, <2>7, <2>8
    <3>4. /\ \A p \in 1 .. ScanWorkers :
               Range(report'.partitions[p]) \subseteq Range(report'.candidates)
          /\ \A f \in Range(report'.candidates) : AtOnePlace(report'.partitions, f)
      BY <2>8
    <3>5. QED
      BY <2>4, <3>1, <3>2, <3>3, <3>4 DEF ReportCountsWholeSearches, AtOnePlace, AtPlace
  <2>10. QED
    BY <2>3, <2>9
<1>3. QED
  BY <1>1, <1>2

LEMMA ScanStep == ASSUME ScanAssumption, ScanInv, [ScanNext]_scanVars PROVE ScanInv'
<1>1. ScanShaped /\ WholeSearches /\ SearchesSettled
  BY DEF ScanInv
<1>2. ScanFiles \in Nat
  BY DEF ScanAssumption
<1>3. ASSUME runDiscoveryScan PROVE ScanInv'
  <2>1. ScanShaped' /\ WholeSearches'
    BY <1>1, <1>3 DEF runDiscoveryScan, ScanShaped, WholeSearches
  <2>2. SearchesSettled' /\ ReportCountsWholeSearches'
    BY <1>3, ReportIsRight
  <2>3. QED
    BY <2>1, <2>2 DEF ScanInv
<1>4. ASSUME NEW s \in Strategies, SearchFile(s) PROVE ScanInv'
  <2>1. ScanShaped' /\ WholeSearches'
    BY <1>1, <1>2, <1>4 DEF SearchFile, aborted, Candidates, ScanShaped, WholeSearches
  <2>2. s \notin ValidReturns
    BY <1>1, <1>2, <1>4 DEF SearchFile, Candidates, ScanShaped, WholeSearches, ValidReturns
  <2>3. SearchesSettled' /\ ReportCountsWholeSearches'
    BY <1>1, <1>4, <2>2, ReportStays DEF SearchFile, ScanShaped
  <2>4. QED
    BY <2>1, <2>3 DEF ScanInv
<1>5. ASSUME NEW s \in Strategies, StoreMatches(s) PROVE ScanInv'
  <2>1. ScanShaped' /\ WholeSearches'
    BY <1>1, <1>2, <1>5 DEF StoreMatches, Searching, aborted, ScanShaped, WholeSearches
  <2>2. s \notin ValidReturns
    BY <1>1, <1>2, <1>5 DEF StoreMatches, Searching, ScanShaped, WholeSearches, ValidReturns
  <2>3. SearchesSettled' /\ ReportCountsWholeSearches'
    BY <1>1, <1>5, <2>2, ReportStays DEF StoreMatches, ScanShaped
  <2>4. QED
    BY <2>1, <2>3 DEF ScanInv
<1>6. ASSUME NEW s \in Strategies, WorkerReturns(s) PROVE ScanInv'
  <2>1. ScanShaped' /\ WholeSearches'
    BY <1>1, <1>2, <1>6 DEF WorkerReturns, ScanShaped, WholeSearches
  <2>2. report = NoScan
    BY <1>1, <1>6 DEF WorkerReturns, SearchesSettled
  <2>3. SearchesSettled' /\ ReportCountsWholeSearches'
    BY <1>6, <2>2, ReportStays DEF WorkerReturns
  <2>4. QED
    BY <2>1, <2>3 DEF ScanInv
<1>7. ASSUME NEW s \in Strategies, WorkerThrows(s) PROVE ScanInv'
  <2>1. ScanShaped' /\ WholeSearches'
    BY <1>1, <1>2, <1>7 DEF WorkerThrows, ScanShaped, WholeSearches
  <2>2. report = NoScan
    BY <1>1, <1>7 DEF WorkerThrows, SearchesSettled
  <2>3. SearchesSettled' /\ ReportCountsWholeSearches'
    BY <1>7, <2>2, ReportStays DEF WorkerThrows
  <2>4. QED
    BY <2>1, <2>3 DEF ScanInv
<1>8. ASSUME NEW s \in Strategies, withTimeout(s) PROVE ScanInv'
  <2>1. ScanShaped' /\ WholeSearches'
    BY <1>1, <1>2, <1>8 DEF withTimeout, ScanShaped, WholeSearches
  <2>2. report = NoScan
    BY <1>1, <1>8 DEF withTimeout, SearchesSettled
  <2>3. SearchesSettled' /\ ReportCountsWholeSearches'
    BY <1>8, <2>2, ReportStays DEF withTimeout
  <2>4. QED
    BY <2>1, <2>3 DEF ScanInv
<1>9. ASSUME UNCHANGED scanVars PROVE ScanInv'
  <2>1. ScanShaped' /\ WholeSearches'
    BY <1>1, <1>9 DEF scanVars, ScanShaped, WholeSearches
  <2>2. SearchesSettled' /\ ReportCountsWholeSearches'
    BY <1>9, ReportStays DEF scanVars
  <2>3. QED
    BY <2>1, <2>2 DEF ScanInv
<1>10. QED
  BY <1>3, <1>4, <1>5, <1>6, <1>7, <1>8, <1>9 DEF ScanNext

(***************************************************************************)
(* A report rests on whole searches only, whatever the strategies, the     *)
(* files, the budget and the number of workers, and however the searches   *)
(* race their timeouts.                                                    *)
(***************************************************************************)
THEOREM ReportCountsWholeSearchesHolds == ScanSpec => []ReportCountsWholeSearches
<1>1. ScanInit => ScanInv
  BY ScanInitHolds, ScanAssumption
<1>2. ScanInv /\ [ScanNext]_scanVars => ScanInv'
  BY ScanStep, ScanAssumption
<1>3. ScanInv => ReportCountsWholeSearches
  BY DEF ScanInv
<1>4. QED
  BY <1>1, <1>2, <1>3, PTL DEF ScanSpec

-----------------------------------------------------------------------------
(* What the state is like, whatever happens.                               *)

ScanParts ==
  /\ \A s \in Strategies :
       /\ worker[s].at <= ScanFiles + 3
       /\ race[s] \in {"open", "valid", "failed", "timeout"}
       /\ store[s] # NoScan => store[s] \subseteq Candidates
  /\ \A s \in Strategies : worker[s].at >= 1

LEMMA ScanTypes == ScanSpec => []ScanTypeOK
<1> USE ScanAssumption
<1>1. ScanInit => ScanShaped /\ ScanParts
  BY ScanInitHolds DEF ScanInit, ScanParts, ScanInv
<1>2. ASSUME ScanShaped, ScanParts, ScanNext PROVE ScanParts'
  <2>1. ASSUME NEW s \in Strategies, SearchFile(s) PROVE ScanParts'
    <3>1. PICK hits : worker' = [worker EXCEPT ![s] = [at |-> @.at + 1, hits |-> hits]]
      BY <2>1 DEF SearchFile
    <3>2. worker[s].at \in 1 .. ScanFiles /\ UNCHANGED <<race, store>>
      BY <2>1 DEF SearchFile, Candidates
    <3>3. \A u \in Strategies : worker'[u].at = IF u = s THEN worker[s].at + 1 ELSE worker[u].at
      BY <1>2, <3>1 DEF ScanShaped
    <3>4. QED
      BY <1>2, <3>2, <3>3 DEF ScanParts, ScanShaped
  <2>2. ASSUME NEW s \in Strategies, StoreMatches(s) PROVE ScanParts'
    BY <1>2, <2>2 DEF StoreMatches, ScanParts, ScanShaped
  <2>3. ASSUME NEW s \in Strategies, WorkerReturns(s) PROVE ScanParts'
    BY <1>2, <2>3 DEF WorkerReturns, ScanParts, ScanShaped
  <2>4. ASSUME NEW s \in Strategies, WorkerThrows(s) PROVE ScanParts'
    BY <1>2, <2>4 DEF WorkerThrows, ScanParts, ScanShaped
  <2>5. ASSUME NEW s \in Strategies, withTimeout(s) PROVE ScanParts'
    BY <1>2, <2>5 DEF withTimeout, ScanParts, ScanShaped
  <2>6. CASE runDiscoveryScan
    BY <1>2, <2>6 DEF runDiscoveryScan, ScanParts
  <2>7. QED
    BY <1>2, <2>1, <2>2, <2>3, <2>4, <2>5, <2>6 DEF ScanNext
<1>3. ScanParts /\ UNCHANGED scanVars => ScanParts'
  BY DEF ScanParts, scanVars
<1>4. ScanShaped /\ ScanParts => ScanTypeOK
  BY DEF ScanShaped, ScanParts, ScanTypeOK
<1>5. ScanInit => ScanInv
  BY ScanInitHolds
<1>6. ScanInv /\ [ScanNext]_scanVars => ScanInv'
  BY ScanStep
<1>7. ScanInv => ScanShaped
  BY DEF ScanInv
<1>8. QED
  BY <1>1, <1>2, <1>3, <1>4, <1>5, <1>6, <1>7, PTL DEF ScanSpec

-----------------------------------------------------------------------------
(***************************************************************************)
(* The discovery artifacts: what is joined is each fact once, with all     *)
(* that told it.                                                           *)
(***************************************************************************)

ClusterSet == [file : STRING, anchor : Nat, fact : Int, conf : {"high", "low"},
               sources : SUBSET Dispatched]
Clusterings == Seq(ClusterSet)

LEMMA FirstFit ==
  ASSUME NEW clusters \in Clusterings, NEW c \in Claims, findMergeTarget(clusters, c) # 0
  PROVE  /\ findMergeTarget(clusters, c) \in DOMAIN clusters
         /\ Eligible(clusters[findMergeTarget(clusters, c)], c)
<1> DEFINE fit == { i \in DOMAIN clusters : Eligible(clusters[i], c) }
<1>1. fit # {} /\ findMergeTarget(clusters, c) = CHOOSE i \in fit : \A j \in fit : i <= j
  BY DEF findMergeTarget
<1>2. DOMAIN clusters = 1 .. Len(clusters) /\ Len(clusters) \in Nat
  BY DEF Clusterings
<1>3. fit \in SUBSET Nat
  BY <1>2
<1>4. \A i \in fit : i \in DOMAIN clusters /\ Eligible(clusters[i], c)
  OBVIOUS
<1> HIDE DEF fit
<1>5. \E i \in fit : \A j \in fit : i <= j
  BY <1>1, <1>3, LeastNatural
<1>6. findMergeTarget(clusters, c) \in fit
  BY <1>1, <1>5
<1>7. QED
  BY <1>4, <1>6

LEMMA AbsorbType ==
  ASSUME NEW clusters \in Clusterings, NEW c \in Claims, NEW d \in Dispatched
  PROVE  Absorb(clusters, c, d) \in Clusterings
<1> DEFINE i == findMergeTarget(clusters, c)
<1>1. CASE i = 0
  <2>1. Cluster(c, d) \in ClusterSet
    BY DEF Cluster, ClusterSet, Claims
  <2>2. Absorb(clusters, c, d) = Append(clusters, Cluster(c, d))
    BY <1>1 DEF Absorb
  <2>3. QED
    BY <2>1, <2>2 DEF Clusterings
<1>2. CASE i # 0
  <2>1. i \in DOMAIN clusters
    BY <1>2, FirstFit
  <2>2. clusters[i] \in ClusterSet
    BY <2>1 DEF Clusterings
  <2> DEFINE k == [clusters[i] EXCEPT !.sources = @ \cup {d},
                     !.conf = IF c.conf = "high" THEN "high" ELSE @,
                     !.fact = IF c.fact > clusters[i].fact THEN c.fact ELSE @,
                     !.anchor = IF c.fact > clusters[i].fact THEN c.anchor ELSE @]
  <2>3. k \in ClusterSet
    BY <2>2 DEF ClusterSet, Claims
  <2>4. Absorb(clusters, c, d) = [clusters EXCEPT ![i] = k]
    BY <1>2, <2>1, <2>2 DEF Absorb, ClusterSet
  <2> HIDE DEF k, i
  <2>5. QED
    BY <2>1, <2>3, <2>4 DEF Clusterings
<1>3. QED
  BY <1>1, <1>2

\* A return's claims are absorbed one after another.
LEMMA IntoSteps ==
  ASSUME NEW clusters \in Clusterings, NEW d \in Dispatched, ClaimsOf(d) \in Seq(Claims)
  PROVE  \E t \in [0 .. Len(ClaimsOf(d)) -> Clusterings] :
           /\ t[0] = clusters /\ t[Len(ClaimsOf(d))] = Into(clusters, d)
           /\ \A i \in 1 .. Len(ClaimsOf(d)) : t[i] = Absorb(t[i - 1], ClaimsOf(d)[i], d)
<1> DEFINE cs == ClaimsOf(d)
           n == Len(cs)
           step == [vi \in Clusterings \X (1 .. n) |-> Absorb(vi[1], cs[vi[2]], d)]
<1>1. n \in Nat /\ DOMAIN cs = 1 .. n /\ \A i \in 1 .. n : cs[i] \in Claims
  OBVIOUS
<1>2. step \in [Clusterings \X (1 .. n) -> Clusterings]
  BY <1>1, AbsorbType
<1>3. \A v \in Clusterings, i \in 1 .. n : step[<<v, i>>] = Absorb(v, cs[i], d)
  OBVIOUS
<1> HIDE DEF step
<1>4. PICK f \in [SUBSET (1 .. n) -> Clusterings] : Folding(f, n, clusters, step)
  BY <1>1, <1>2, FoldExists
<1> DEFINE Absorbing(g) ==
       g = [s \in SUBSET (1 .. n) |->
              IF s = {} THEN clusters ELSE Absorb(g[s \ {Max(s)}], cs[Max(s)], d)]
<1>5. Absorbing(f)
  <2>1. ASSUME NEW s \in SUBSET (1 .. n)
        PROVE  f[s] = IF s = {} THEN clusters ELSE Absorb(f[s \ {Max(s)}], cs[Max(s)], d)
    <3>1. CASE s = {}
      BY <1>4, <3>1 DEF Folding
    <3>2. CASE s # {}
      <4>1. f[s] = step[<<f[s \ {Max(s)}], Max(s)>>]
        BY <1>4, <3>2 DEF Folding
      <4>2. Max(s) \in 1 .. n
        BY <1>1, <3>2, LargestIn
      <4>3. f[s \ {Max(s)}] \in Clusterings
        OBVIOUS
      <4>4. QED
        BY <1>3, <3>2, <4>1, <4>2, <4>3
    <3>3. QED
      BY <3>1, <3>2
  <2>2. QED
    BY <2>1
<1> DEFINE g == CHOOSE g : Absorbing(g)
<1>6. Into(clusters, d) = g[1 .. n]
  BY <1>1 DEF Into, FoldLeft, MapThenFoldSet
<1> HIDE DEF Absorbing
<1>7. Absorbing(g)
  BY <1>5
<1> HIDE DEF g
<1>8. g[{}] = clusters
  BY <1>7 DEF Absorbing
<1>9. ASSUME NEW i \in 1 .. n, g[1 .. i - 1] \in Clusterings
      PROVE  g[1 .. i] = step[<<g[1 .. i - 1], i>>]
  <2>1. 1 .. i \in SUBSET (1 .. n) /\ i \in 1 .. i /\ (1 .. i) \ {i} = 1 .. i - 1 /\ i \in Nat
    BY <1>1
  <2>2. Max(1 .. i) = i
    BY <2>1, LargestOf
  <2>3. g[1 .. i] = Absorb(g[1 .. i - 1], cs[i], d)
    BY <1>7, <2>1, <2>2 DEF Absorbing
  <2>4. QED
    BY <1>3, <1>9, <2>3
<1>10. PICK t \in [0 .. n -> Clusterings] : Trace(t, n, clusters, step) /\ t[n] = g[1 .. n]
  <2> HIDE DEF n
  <2>1. Along(g, n, Clusterings, clusters, step)
    BY <1>8, <1>9 DEF Along
  <2>2. Reached(g, n, Clusterings, clusters, step)
    BY <1>1, <1>2, <2>1, FoldSteps
  <2>3. QED
    BY <2>2 DEF Reached
<1>11. \A i \in 1 .. n : t[i] = Absorb(t[i - 1], cs[i], d)
  <2>1. ASSUME NEW i \in 1 .. n PROVE t[i] = Absorb(t[i - 1], cs[i], d)
    <3>1. i - 1 \in 0 .. n
      BY <1>1
    <3>2. t[i - 1] \in Clusterings
      BY <1>10, <3>1
    <3>3. QED
      BY <1>3, <1>10, <3>2 DEF Trace
  <2>2. QED
    BY <2>1
<1>12. QED
  BY <1>6, <1>10, <1>11 DEF Trace

\* Behind the clusters is what was said, and nothing else.
Voiced(clusters, said) ==
  /\ \A h \in said : \E i \in DOMAIN clusters :
       clusters[i].file = h[2].file /\ h[1] \in clusters[i].sources
  /\ \A i \in DOMAIN clusters :
       /\ \A e \in clusters[i].sources : \E h \in said : h[1] = e
       /\ clusters[i].conf = "high" =>
            \E h \in said : /\ h[1] \in clusters[i].sources
                            /\ h[2].file = clusters[i].file /\ h[2].conf = "high"

LEMMA AbsorbVoiced ==
  ASSUME NEW clusters \in Clusterings, NEW c \in Claims, NEW d \in Dispatched,
         NEW said, Voiced(clusters, said)
  PROVE  Voiced(Absorb(clusters, c, d), said \cup {<<d, c>>})
<1> DEFINE i == findMergeTarget(clusters, c)
           after == Absorb(clusters, c, d)
           more == said \cup {<<d, c>>}
<1>1. DOMAIN clusters = 1 .. Len(clusters) /\ Len(clusters) \in Nat
  BY DEF Clusterings
<1>2. CASE i = 0
  <2>1. after = Append(clusters, Cluster(c, d))
    BY <1>2 DEF Absorb
  <2> DEFINE n == Len(clusters)
  <2>2. /\ DOMAIN after = 1 .. n + 1 /\ \A j \in 1 .. n : after[j] = clusters[j]
        /\ after[n + 1] = Cluster(c, d)
    BY <1>1, <2>1 DEF Clusterings
  <2>3. /\ after[n + 1].file = c.file /\ after[n + 1].sources = {d} /\ after[n + 1].conf = c.conf
    BY <2>2 DEF Cluster
  <2> HIDE DEF after, n
  <2>4. ASSUME NEW h \in more
        PROVE  \E j \in DOMAIN after : after[j].file = h[2].file /\ h[1] \in after[j].sources
    <3>1. CASE h = <<d, c>>
      <4>1. n + 1 \in DOMAIN after
        BY <1>1, <2>2 DEF n
      <4>2. QED
        BY <2>3, <3>1, <4>1
    <3>2. CASE h \in said
      <4>1. PICK j \in DOMAIN clusters : clusters[j].file = h[2].file /\ h[1] \in clusters[j].sources
        BY <3>2 DEF Voiced
      <4>2. j \in DOMAIN after /\ after[j] = clusters[j]
        BY <1>1, <2>2 DEF n
      <4>3. QED
        BY <4>1, <4>2
    <3>3. QED
      BY <3>1, <3>2
  <2>5. ASSUME NEW j \in DOMAIN after
        PROVE  /\ \A e \in after[j].sources : \E h \in more : h[1] = e
               /\ after[j].conf = "high" =>
                    \E h \in more : /\ h[1] \in after[j].sources
                                    /\ h[2].file = after[j].file /\ h[2].conf = "high"
    <3>1. CASE j = n + 1
      <4>1. <<d, c>> \in more /\ <<d, c>>[1] = d /\ <<d, c>>[2] = c
        OBVIOUS
      <4> HIDE DEF more
      <4>2. QED
        BY <2>3, <3>1, <4>1
    <3>2. CASE j # n + 1
      <4>1. j \in DOMAIN clusters /\ after[j] = clusters[j]
        BY <1>1, <2>2, <3>2 DEF n
      <4>2. said \subseteq more
        OBVIOUS
      <4> HIDE DEF more
      <4>3. QED
        BY <4>1, <4>2 DEF Voiced
    <3>3. QED
      BY <3>1, <3>2
  <2> HIDE DEF more
  <2>6. QED
    BY <2>4, <2>5 DEF Voiced, after, more
<1>3. CASE i # 0
  <2>1. i \in DOMAIN clusters /\ clusters[i].file = c.file
    BY <1>3, FirstFit DEF Eligible
  <2>2. clusters[i] \in ClusterSet
    BY <2>1 DEF Clusterings
  <2>3. /\ DOMAIN after = DOMAIN clusters
        /\ \A j \in DOMAIN clusters : j # i => after[j] = clusters[j]
        /\ after[i].file = clusters[i].file
        /\ after[i].sources = clusters[i].sources \cup {d}
        /\ after[i].conf = IF c.conf = "high" THEN "high" ELSE clusters[i].conf
    BY <1>3, <2>1, <2>2 DEF Absorb, ClusterSet
  <2> HIDE DEF after, i
  <2>4. ASSUME NEW h \in more
        PROVE  \E j \in DOMAIN after : after[j].file = h[2].file /\ h[1] \in after[j].sources
    <3>1. CASE h = <<d, c>>
      BY <2>1, <2>3, <3>1
    <3>2. CASE h \in said
      <4>1. PICK j \in DOMAIN clusters : clusters[j].file = h[2].file /\ h[1] \in clusters[j].sources
        BY <3>2 DEF Voiced
      <4>2. QED
        BY <2>3, <4>1
    <3>3. QED
      BY <3>1, <3>2
  <2>5. ASSUME NEW j \in DOMAIN after
        PROVE  /\ \A e \in after[j].sources : \E h \in more : h[1] = e
               /\ after[j].conf = "high" =>
                    \E h \in more : /\ h[1] \in after[j].sources
                                    /\ h[2].file = after[j].file /\ h[2].conf = "high"
    <3>1. <<d, c>> \in more /\ <<d, c>>[1] = d /\ <<d, c>>[2] = c /\ said \subseteq more
      OBVIOUS
    <3> HIDE DEF more
    <3>2. /\ \A e \in clusters[j].sources : \E h \in more : h[1] = e
          /\ clusters[j].conf = "high" =>
               \E h \in more : /\ h[1] \in clusters[j].sources
                               /\ h[2].file = clusters[j].file /\ h[2].conf = "high"
      BY <2>3, <3>1 DEF Voiced
    <3>3. CASE j = i
      <4>1. \A e \in after[j].sources : \E h \in more : h[1] = e
        BY <2>3, <3>1, <3>2, <3>3
      <4>2. CASE c.conf = "high"
        BY <2>1, <2>3, <3>1, <3>3, <4>1, <4>2
      <4>3. CASE c.conf # "high"
        <5>1. SUFFICES ASSUME after[j].conf = "high"
                       PROVE  \E h \in more : /\ h[1] \in after[j].sources
                                    /\ h[2].file = after[j].file /\ h[2].conf = "high"
          BY <4>1
        <5>2. PICK h \in more : /\ h[1] \in clusters[j].sources
                                /\ h[2].file = clusters[j].file /\ h[2].conf = "high"
          BY <2>3, <3>2, <3>3, <4>3, <5>1
        <5>3. h[1] \in after[j].sources /\ h[2].file = after[j].file
          BY <2>3, <3>3, <5>2
        <5>4. QED
          BY <5>2, <5>3
      <4>4. QED
        BY <4>2, <4>3
    <3>4. CASE j # i
      BY <2>3, <3>2, <3>4
    <3>5. QED
      BY <3>3, <3>4
  <2> HIDE DEF more
  <2>6. QED
    BY <2>4, <2>5 DEF Voiced, after, more
<1>4. QED
  BY <1>2, <1>3

\* What d says, up to its k-th claim.
SaidUpTo(d, k) ==
  { h \in Dispatched \X Claims : h[1] = d /\ \E j \in 1 .. k : h[2] = ClaimsOf(d)[j] }

LEMMA IntoVoiced ==
  ASSUME NEW clusters \in Clusterings, NEW d \in Dispatched, ClaimsOf(d) \in Seq(Claims),
         NEW said, Voiced(clusters, said)
  PROVE  /\ Into(clusters, d) \in Clusterings
         /\ Voiced(Into(clusters, d), said \cup SaidUpTo(d, Len(ClaimsOf(d))))
<1> DEFINE cs == ClaimsOf(d)
           n == Len(cs)
<1>1. n \in Nat /\ \A i \in 1 .. n : cs[i] \in Claims
  OBVIOUS
<1>2. PICK t \in [0 .. n -> Clusterings] :
           /\ t[0] = clusters /\ t[n] = Into(clusters, d)
           /\ \A i \in 1 .. n : t[i] = Absorb(t[i - 1], cs[i], d)
  BY IntoSteps
<1> DEFINE G == { k \in 0 .. n : Voiced(t[k], said \cup SaidUpTo(d, k)) }
<1>3. 0 \in G
  <2>1. SaidUpTo(d, 0) = {}
    BY DEF SaidUpTo
  <2>2. said \cup SaidUpTo(d, 0) = said
    BY <2>1
  <2>3. Voiced(t[0], said \cup SaidUpTo(d, 0))
    BY <1>2, <2>2
  <2>4. QED
    BY <1>1, <2>3
<1>4. ASSUME NEW k \in 1 .. n, k - 1 \in G
      PROVE  k \in G
  <2>1. k - 1 \in 0 .. n /\ k \in 0 .. n /\ t[k - 1] \in Clusterings /\ cs[k] \in Claims
    BY <1>1, <1>2
  <2>2. Voiced(t[k - 1], said \cup SaidUpTo(d, k - 1))
    BY <1>4
  <2>3. Voiced(t[k], (said \cup SaidUpTo(d, k - 1)) \cup {<<d, cs[k]>>})
    BY <1>2, <2>1, <2>2, AbsorbVoiced
  <2>4. SaidUpTo(d, k) = SaidUpTo(d, k - 1) \cup {<<d, cs[k]>>}
    <3>1. \A j \in 1 .. k : j \in 1 .. k - 1 \/ j = k
      BY <2>1
    <3>2. \A j \in 1 .. k - 1 : j \in 1 .. k
      BY <2>1
    <3>3. ASSUME NEW h \in SaidUpTo(d, k) PROVE h \in SaidUpTo(d, k - 1) \cup {<<d, cs[k]>>}
      <4>1. PICK j \in 1 .. k : h[1] = d /\ h[2] = cs[j]
        BY <3>3 DEF SaidUpTo
      <4>2. CASE j = k
        <5>1. h = <<h[1], h[2]>>
          BY <3>3 DEF SaidUpTo
        <5>2. QED
          BY <4>1, <4>2, <5>1
      <4>3. CASE j \in 1 .. k - 1
        BY <3>3, <4>1, <4>3 DEF SaidUpTo
      <4>4. QED
        BY <3>1, <4>2, <4>3
    <3>4. <<d, cs[k]>> \in SaidUpTo(d, k)
      BY <2>1 DEF SaidUpTo
    <3>5. SaidUpTo(d, k - 1) \subseteq SaidUpTo(d, k)
      BY <3>2 DEF SaidUpTo
    <3>6. QED
      BY <3>3, <3>4, <3>5
  <2>5. (said \cup SaidUpTo(d, k - 1)) \cup {<<d, cs[k]>>} = said \cup SaidUpTo(d, k)
    BY <2>4
  <2>6. QED
    BY <2>1, <2>3, <2>5
<1>5. n \in G
  <2> HIDE DEF G, n
  <2>1. \A k \in 1 .. n : k - 1 \in G => k \in G
    BY <1>4
  <2>2. \A k \in 0 .. n : k \in G
    BY <1>1, <1>3, <2>1, CountUp
  <2>3. QED
    BY <1>1, <2>2
<1>6. QED
  BY <1>1, <1>2, <1>5

\* The returns are merged one after another.
LEMMA ClustersSteps ==
  ASSUME NEW from \in Seq(Dispatched),
         \A i \in 1 .. Len(from) : ClaimsOf(from[i]) \in Seq(Claims)
  PROVE  \E t \in [0 .. Len(from) -> Clusterings] :
           /\ t[0] = << >> /\ t[Len(from)] = Clusters(from)
           /\ \A i \in 1 .. Len(from) : t[i] = Into(t[i - 1], from[i])
<1> DEFINE n == Len(from)
           step == [vi \in Clusterings \X (1 .. n) |-> Into(vi[1], from[vi[2]])]
<1>1. n \in Nat /\ DOMAIN from = 1 .. n /\ \A i \in 1 .. n : from[i] \in Dispatched
  OBVIOUS
<1>2. ASSUME NEW v \in Clusterings, NEW i \in 1 .. n PROVE Into(v, from[i]) \in Clusterings
  <2>1. PICK t \in [0 .. Len(ClaimsOf(from[i])) -> Clusterings] :
              t[Len(ClaimsOf(from[i]))] = Into(v, from[i])
    BY <1>1, IntoSteps
  <2>2. Len(ClaimsOf(from[i])) \in 0 .. Len(ClaimsOf(from[i]))
    OBVIOUS
  <2>3. QED
    BY <2>1, <2>2
<1>3. step \in [Clusterings \X (1 .. n) -> Clusterings]
  BY <1>2
<1>4. \A v \in Clusterings, i \in 1 .. n : step[<<v, i>>] = Into(v, from[i])
  OBVIOUS
<1>5. << >> \in Clusterings
  BY DEF Clusterings
<1> HIDE DEF step
<1>6. PICK f \in [SUBSET (1 .. n) -> Clusterings] : Folding(f, n, << >>, step)
  BY <1>1, <1>3, <1>5, FoldExists
<1> DEFINE Merging(g) ==
       g = [s \in SUBSET (1 .. n) |->
              IF s = {} THEN << >> ELSE Into(g[s \ {Max(s)}], from[Max(s)])]
<1>7. Merging(f)
  <2>1. ASSUME NEW s \in SUBSET (1 .. n)
        PROVE  f[s] = IF s = {} THEN << >> ELSE Into(f[s \ {Max(s)}], from[Max(s)])
    <3>1. CASE s = {}
      BY <1>6, <3>1 DEF Folding
    <3>2. CASE s # {}
      <4>1. f[s] = step[<<f[s \ {Max(s)}], Max(s)>>]
        BY <1>6, <3>2 DEF Folding
      <4>2. Max(s) \in 1 .. n
        BY <1>1, <3>2, LargestIn
      <4>3. f[s \ {Max(s)}] \in Clusterings
        OBVIOUS
      <4>4. QED
        BY <1>4, <3>2, <4>1, <4>2, <4>3
    <3>3. QED
      BY <3>1, <3>2
  <2>2. QED
    BY <2>1
<1> DEFINE g == CHOOSE g : Merging(g)
<1>8. Clusters(from) = g[1 .. n]
  BY <1>1 DEF Clusters, FoldLeft, MapThenFoldSet
<1> HIDE DEF Merging
<1>9. Merging(g)
  BY <1>7
<1> HIDE DEF g
<1>10. g[{}] = << >>
  BY <1>9 DEF Merging
<1>11. ASSUME NEW i \in 1 .. n, g[1 .. i - 1] \in Clusterings
       PROVE  g[1 .. i] = step[<<g[1 .. i - 1], i>>]
  <2>1. 1 .. i \in SUBSET (1 .. n) /\ i \in 1 .. i /\ (1 .. i) \ {i} = 1 .. i - 1 /\ i \in Nat
    BY <1>1
  <2>2. Max(1 .. i) = i
    BY <2>1, LargestOf
  <2>3. g[1 .. i] = Into(g[1 .. i - 1], from[i])
    BY <1>9, <2>1, <2>2 DEF Merging
  <2>4. QED
    BY <1>4, <1>11, <2>3
<1>12. PICK t \in [0 .. n -> Clusterings] : Trace(t, n, << >>, step) /\ t[n] = g[1 .. n]
  <2> HIDE DEF n
  <2>1. Along(g, n, Clusterings, << >>, step)
    BY <1>10, <1>11 DEF Along
  <2>2. Reached(g, n, Clusterings, << >>, step)
    BY <1>1, <1>3, <1>5, <2>1, FoldSteps
  <2>3. QED
    BY <2>2 DEF Reached
<1>13. \A i \in 1 .. n : t[i] = Into(t[i - 1], from[i])
  <2>1. ASSUME NEW i \in 1 .. n PROVE t[i] = Into(t[i - 1], from[i])
    <3>1. i - 1 \in 0 .. n
      BY <1>1
    <3>2. t[i - 1] \in Clusterings
      BY <1>12, <3>1
    <3>3. QED
      BY <1>4, <1>12, <3>2 DEF Trace
  <2>2. QED
    BY <2>1
<1>14. QED
  BY <1>8, <1>12, <1>13 DEF Trace

\* What is said in the first k of the returns to be merged.
SaidIn(from, k) ==
  { h \in Dispatched \X Claims :
      \E i \in 1 .. k : /\ h[1] = from[i]
                        /\ \E j \in 1 .. Len(ClaimsOf(from[i])) : h[2] = ClaimsOf(from[i])[j] }

LEMMA ClustersVoiced ==
  ASSUME NEW from \in Seq(Dispatched),
         \A i \in 1 .. Len(from) : ClaimsOf(from[i]) \in Seq(Claims)
  PROVE  /\ Clusters(from) \in Clusterings
         /\ Voiced(Clusters(from), SaidIn(from, Len(from)))
<1> DEFINE n == Len(from)
<1>1. n \in Nat /\ \A i \in 1 .. n : from[i] \in Dispatched
  OBVIOUS
<1>2. PICK t \in [0 .. n -> Clusterings] :
           /\ t[0] = << >> /\ t[n] = Clusters(from)
           /\ \A i \in 1 .. n : t[i] = Into(t[i - 1], from[i])
  BY ClustersSteps
<1> DEFINE G == { k \in 0 .. n : Voiced(t[k], SaidIn(from, k)) }
<1>3. 0 \in G
  <2>1. SaidIn(from, 0) = {}
    BY DEF SaidIn
  <2>2. DOMAIN t[0] = {}
    BY <1>2
  <2>3. Voiced(t[0], SaidIn(from, 0))
    BY <2>1, <2>2 DEF Voiced
  <2>4. QED
    BY <1>1, <2>3
<1>4. ASSUME NEW k \in 1 .. n, k - 1 \in G
      PROVE  k \in G
  <2>1. k - 1 \in 0 .. n /\ k \in 0 .. n /\ t[k - 1] \in Clusterings /\ from[k] \in Dispatched
    BY <1>1, <1>2
  <2>2. Voiced(t[k - 1], SaidIn(from, k - 1))
    BY <1>4
  <2> DEFINE d == from[k]
  <2>3. Voiced(t[k], SaidIn(from, k - 1) \cup SaidUpTo(d, Len(ClaimsOf(d))))
    BY <1>2, <2>1, <2>2, IntoVoiced
  <2>4. SaidIn(from, k) = SaidIn(from, k - 1) \cup SaidUpTo(d, Len(ClaimsOf(d)))
    <3>1. \A j \in 1 .. k : j \in 1 .. k - 1 \/ j = k
      BY <2>1
    <3>2. (\A j \in 1 .. k - 1 : j \in 1 .. k) /\ k \in 1 .. k
      BY <2>1
    <3>3. QED
      BY <3>1, <3>2 DEF SaidIn, SaidUpTo
  <2>5. QED
    BY <2>1, <2>3, <2>4
<1>5. n \in G
  <2> HIDE DEF G, n
  <2>1. \A k \in 1 .. n : k - 1 \in G => k \in G
    BY <1>4
  <2>2. \A k \in 0 .. n : k \in G
    BY <1>1, <1>3, <2>1, CountUp
  <2>3. QED
    BY <1>1, <2>2
<1>6. QED
  BY <1>1, <1>2, <1>5

\* The clusters in the order of their rank: each once, the ones with more workers
\* behind them first.
LEMMA ClustersRanked ==
  ASSUME NEW clusters, NEW n \in Nat, DOMAIN clusters = 1 .. n,
         \A i \in 1 .. n : /\ IsFiniteSet(clusters[i].sources)
                           /\ clusters[i].conf \in {"high", "low"}
  PROVE  /\ DOMAIN RankedClusters(clusters) = 1 .. n
         /\ \A k \in 1 .. n : RankedClusters(clusters)[k] \in 1 .. n
         /\ \A i \in 1 .. n : \E k \in 1 .. n : RankedClusters(clusters)[k] = i
         /\ \A j, k \in 1 .. n : j < k =>
              Cardinality(clusters[RankedClusters(clusters)[j]].sources)
                >= Cardinality(clusters[RankedClusters(clusters)[k]].sources)
<1> DEFINE S == 1 .. n
           s == RankedClusters(clusters)
           R == { ij \in S \X S : Outranks(clusters, ij[1], ij[2]) }
           w == [i \in S |-> Cardinality(clusters[i].sources)]
<1>1. IsFiniteSet(S) /\ Cardinality(S) = n
  <2>1. Cardinality(1 .. n) = IF 1 > n THEN 0 ELSE n - 1 + 1
    BY FS_Interval
  <2>2. QED
    BY <2>1, FS_Interval
<1>2. \A i \in S : Cardinality(clusters[i].sources) \in Nat
  BY FS_CardinalityType
<1>3. \A i, j \in S : <<i, j>> \in R <=>
         \/ w[i] > w[j]
         \/ w[i] = w[j] /\ clusters[i].conf = "high" /\ clusters[j].conf = "low"
         \/ w[i] = w[j] /\ clusters[i].conf = clusters[j].conf /\ i < j
  BY DEF Outranks
<1>4. w \in [S -> Nat]
  BY <1>2
<1>5. \A i, j \in S : Outranks(clusters, i, j) <=> <<i, j>> \in R
  OBVIOUS
<1> HIDE DEF R, w
<1>6. /\ \A x \in S : <<x, x>> \notin R
      /\ \A x, y \in S : x = y \/ <<x, y>> \in R \/ <<y, x>> \in R
  BY <1>3, <1>4
<1>7. ASSUME NEW x \in S, NEW y \in S, NEW z \in S, <<x, y>> \in R, <<y, z>> \in R
      PROVE  <<x, z>> \in R
  <2>1. \/ w[x] > w[y]
        \/ w[x] = w[y] /\ clusters[x].conf = "high" /\ clusters[y].conf = "low"
        \/ w[x] = w[y] /\ clusters[x].conf = clusters[y].conf /\ x < y
    BY <1>3, <1>7
  <2>2. \/ w[y] > w[z]
        \/ w[y] = w[z] /\ clusters[y].conf = "high" /\ clusters[z].conf = "low"
        \/ w[y] = w[z] /\ clusters[y].conf = clusters[z].conf /\ y < z
    BY <1>3, <1>7
  <2>3. w[x] \in Nat /\ w[y] \in Nat /\ w[z] \in Nat
    BY <1>4
  <2>4. \/ w[x] > w[z]
        \/ w[x] = w[z] /\ clusters[x].conf = "high" /\ clusters[z].conf = "low"
        \/ w[x] = w[z] /\ clusters[x].conf = clusters[z].conf /\ x < z
    BY <2>1, <2>2, <2>3
  <2>5. QED
    BY <1>3, <2>4
<1>8. \A k \in 1 .. n : \E x \in S : Cardinality(Below(S, R, x)) = k - 1
  BY <1>1, <1>6, <1>7, PlacesAreTaken
<1>9. \A x \in S : { y \in S : Outranks(clusters, y, x) } = Below(S, R, x)
  BY <1>5 DEF Below
<1>10. DOMAIN s = 1 .. n
  BY <1>1 DEF RankedClusters, InOrder
<1>11. ASSUME NEW k \in 1 .. n
       PROVE  s[k] \in S /\ Cardinality(Below(S, R, s[k])) = k - 1
  <2>1. s[k] = CHOOSE x \in S : Cardinality({ y \in S : Outranks(clusters, y, x) }) = k - 1
    BY <1>1 DEF RankedClusters, InOrder
  <2>2. \E x \in S : Cardinality({ y \in S : Outranks(clusters, y, x) }) = k - 1
    BY <1>8, <1>9
  <2>3. s[k] \in S /\ Cardinality({ y \in S : Outranks(clusters, y, s[k]) }) = k - 1
    BY <2>1, <2>2
  <2>4. QED
    BY <1>9, <2>3
<1> HIDE DEF s
<1>12. /\ \A x \in S : \E k \in 1 .. n : s[k] = x
       /\ \A i, j \in 1 .. n : i < j => <<s[i], s[j]>> \in R /\ s[i] # s[j]
  <2> HIDE DEF S
  <2>1. \A k \in 1 .. Cardinality(S) : s[k] \in S /\ Cardinality(Below(S, R, s[k])) = k - 1
    BY <1>1, <1>11
  <2>2. /\ \A x \in S : \E k \in 1 .. Cardinality(S) : s[k] = x
        /\ \A i, j \in 1 .. Cardinality(S) : i < j => <<s[i], s[j]>> \in R /\ s[i] # s[j]
    BY <1>1, <1>6, <1>7, <2>1, Ordered
  <2>3. QED
    BY <1>1, <2>2
<1>13. \A j, k \in 1 .. n : j < k => w[s[j]] >= w[s[k]]
  <2>1. \A i, j \in S : <<i, j>> \in R => w[i] >= w[j]
    BY <1>3, <1>4
  <2>2. QED
    BY <1>11, <1>12, <2>1
<1>14. QED
  BY <1>10, <1>11, <1>12, <1>13 DEF s, w

\* What is said of the workers, in one merge, where each says the claims of said.
Telling(m, said) ==
  LET all == m.claims \cup m.dropped
  IN  /\ \A d \in m.from : \A c \in said[d] :
           \E k \in all : k.file = c.file /\ d \in k.sources
      /\ \A k \in all :
           /\ k.sources \subseteq m.from
           /\ k.conf = "high" => \/ Cardinality(k.sources) >= 2
                                 \/ \E e \in k.sources : \E c \in said[e] :
                                      c.file = k.file /\ c.conf = "high"
           /\ ~k.needsReview => \A other \in all \ {k} : other.file # k.file
      /\ \A k \in m.claims, x \in m.dropped :
           Cardinality(k.sources) >= Cardinality(x.sources)

Said == [d \in Dispatched |-> Range(ClaimsOf(d))]

LEMMA MergeTells ==
  ASSUME NEW from \in Seq(Dispatched),
         \A i \in 1 .. Len(from) : ClaimsOf(from[i]) \in Seq(Claims)
  PROVE  /\ mergeDiscoveryArtifacts(from) \in Merges
         /\ mergeDiscoveryArtifacts(from).from = Range(from)
         /\ Telling(mergeDiscoveryArtifacts(from), Said)
<1> DEFINE raw == Clusters(from)
           clusters == Judged(raw)
           ranked == RankedClusters(clusters)
           n == Len(raw)
           m == mergeDiscoveryArtifacts(from)
           said == SaidIn(from, Len(from))
<1>1. raw \in Clusterings /\ Voiced(raw, said)
  BY ClustersVoiced
<1>2. n \in Nat /\ DOMAIN raw = 1 .. n /\ \A i \in 1 .. n : raw[i] \in ClusterSet
  BY <1>1 DEF Clusterings
<1>3. IsFiniteSet(Dispatched)
  BY ReturnsAssumption, FS_Interval DEF Dispatched
<1>4. \A i \in 1 .. n : IsFiniteSet(raw[i].sources) /\ Cardinality(raw[i].sources) \in Nat
  BY <1>2, <1>3, FS_Subset, FS_CardinalityType DEF ClusterSet
<1> HIDE DEF raw, n, said
<1>5. /\ DOMAIN clusters = 1 .. n
      /\ \A i \in 1 .. n :
           /\ clusters[i].file = raw[i].file /\ clusters[i].sources = raw[i].sources
           /\ clusters[i].conf = IF Cardinality(raw[i].sources) >= 2 THEN "high" ELSE raw[i].conf
           /\ clusters[i].needsReview <=> \E j \in (1 .. n) \ {i} : raw[j].file = raw[i].file
           /\ clusters[i] \in MergedClaims
  <2>1. DOMAIN clusters = 1 .. n
    BY <1>2 DEF Judged
  <2>2. ASSUME NEW i \in 1 .. n
        PROVE  clusters[i] =
                 [file |-> raw[i].file, anchor |-> raw[i].anchor, fact |-> raw[i].fact,
                  conf |-> IF Cardinality(raw[i].sources) >= 2 THEN "high" ELSE raw[i].conf,
                  sources |-> raw[i].sources,
                  needsReview |-> \E j \in (1 .. n) \ {i} : raw[j].file = raw[i].file]
    BY <1>2 DEF Judged
  <2> HIDE DEF clusters
  <2>3. ASSUME NEW i \in 1 .. n
        PROVE  /\ clusters[i].file = raw[i].file /\ clusters[i].sources = raw[i].sources
               /\ clusters[i].conf = IF Cardinality(raw[i].sources) >= 2 THEN "high" ELSE raw[i].conf
               /\ clusters[i].needsReview <=> \E j \in (1 .. n) \ {i} : raw[j].file = raw[i].file
    <3> DEFINE flag == \E j \in (1 .. n) \ {i} : raw[j].file = raw[i].file
               conf == IF Cardinality(raw[i].sources) >= 2 THEN "high" ELSE raw[i].conf
    <3>1. clusters[i] =
            [file |-> raw[i].file, anchor |-> raw[i].anchor, fact |-> raw[i].fact, conf |-> conf,
             sources |-> raw[i].sources, needsReview |-> flag]
      BY <2>2
    <3> HIDE DEF flag, conf
    <3>2. /\ clusters[i].file = raw[i].file /\ clusters[i].sources = raw[i].sources
          /\ clusters[i].conf = conf
      BY <3>1
    <3>3. clusters[i].needsReview = flag
      BY <3>1
    <3>4. clusters[i].needsReview <=> flag
      BY Zenon, <3>3
    <3>5. QED
      BY <3>2, <3>4 DEF flag, conf
  <2>4. ASSUME NEW i \in 1 .. n PROVE clusters[i] \in MergedClaims
    <3> DEFINE flag == \E j \in (1 .. n) \ {i} : raw[j].file = raw[i].file
               conf == IF Cardinality(raw[i].sources) >= 2 THEN "high" ELSE raw[i].conf
    <3>1. clusters[i] =
            [file |-> raw[i].file, anchor |-> raw[i].anchor, fact |-> raw[i].fact, conf |-> conf,
             sources |-> raw[i].sources, needsReview |-> flag]
      BY <2>2
    <3>2. raw[i] \in ClusterSet
      BY <1>2
    <3>3. conf \in {"high", "low"}
      BY <3>2 DEF ClusterSet
    <3>4. flag \in BOOLEAN
      OBVIOUS
    <3> HIDE DEF flag, conf
    <3>5. QED
      BY <3>1, <3>2, <3>3, <3>4 DEF MergedClaims, ClusterSet
  <2>5. QED
    BY <2>1, <2>3, <2>4
<1> HIDE DEF clusters
<1>6. /\ DOMAIN ranked = 1 .. n
      /\ \A k \in 1 .. n : ranked[k] \in 1 .. n
      /\ \A i \in 1 .. n : \E k \in 1 .. n : ranked[k] = i
      /\ \A j, k \in 1 .. n : j < k =>
           Cardinality(clusters[ranked[j]].sources) >= Cardinality(clusters[ranked[k]].sources)
  <2>1. \A i \in 1 .. n : clusters[i].conf \in {"high", "low"}
    BY <1>5 DEF MergedClaims
  <2>2. \A i \in 1 .. n : IsFiniteSet(clusters[i].sources)
    BY <1>4, <1>5
  <2>3. QED
    BY <1>2, <1>5, <2>1, <2>2, ClustersRanked
<1>7. m = [from |-> Range(from),
           claims |-> {clusters[ranked[i]] : i \in DOMAIN ranked \cap 1..MaxClaims},
           dropped |-> {clusters[ranked[i]] : i \in DOMAIN ranked \ 1..MaxClaims}]
  BY DEF mergeDiscoveryArtifacts, clusters, raw
<1> HIDE DEF ranked, m
<1>8. /\ m.from = Range(from)
      /\ m.claims = {clusters[ranked[i]] : i \in (1 .. n) \cap 1..MaxClaims}
      /\ m.dropped = {clusters[ranked[i]] : i \in (1 .. n) \ 1..MaxClaims}
  BY <1>6, <1>7
<1>9. Range(from) \subseteq Dispatched
  BY DEF Range
<1>10. m \in Merges
  <2>1. \A i \in 1 .. n : clusters[ranked[i]] \in MergedClaims
    BY <1>5, <1>6
  <2>2. m.claims \subseteq MergedClaims /\ m.dropped \subseteq MergedClaims
    BY <1>8, <2>1
  <2>3. QED
    BY <1>7, <1>8, <1>9, <2>2 DEF Merges
<1>11. m.claims \cup m.dropped = {clusters[i] : i \in 1 .. n}
  <2>1. m.claims \cup m.dropped = {clusters[ranked[k]] : k \in 1 .. n}
    BY <1>8
  <2>2. QED
    BY <1>6, <2>1
<1>12. ASSUME NEW d \in m.from, NEW c \in Range(ClaimsOf(d))
       PROVE  \E k \in m.claims \cup m.dropped : k.file = c.file /\ d \in k.sources
  <2>1. PICK i \in 1 .. Len(from) : from[i] = d
    BY <1>8 DEF Range
  <2>2. ClaimsOf(d) \in Seq(Claims) /\ d \in Dispatched
    BY <2>1
  <2>3. PICK j \in 1 .. Len(ClaimsOf(d)) : ClaimsOf(d)[j] = c
    BY <2>2 DEF Range
  <2>4. c \in Claims
    BY <2>2, <2>3
  <2>5. <<d, c>> \in said
    BY <2>1, <2>2, <2>3, <2>4 DEF said, SaidIn
  <2>6. PICK l \in 1 .. n : raw[l].file = c.file /\ d \in raw[l].sources
    BY <1>1, <1>2, <2>5 DEF Voiced
  <2>7. QED
    BY <1>5, <1>11, <2>6
<1>13. ASSUME NEW k \in m.claims \cup m.dropped
       PROVE  /\ k.sources \subseteq m.from
              /\ k.conf = "high" => \/ Cardinality(k.sources) >= 2
                                    \/ \E e \in k.sources : \E c \in Range(ClaimsOf(e)) :
                                         c.file = k.file /\ c.conf = "high"
              /\ ~k.needsReview => \A other \in (m.claims \cup m.dropped) \ {k} : other.file # k.file
  <2>1. PICK i \in 1 .. n : k = clusters[i]
    BY <1>11
  <2>2. \A h \in said : /\ h[1] \in Range(from)
                        /\ h[2] \in Range(ClaimsOf(h[1]))
    <3>1. ASSUME NEW h \in said PROVE h[1] \in Range(from) /\ h[2] \in Range(ClaimsOf(h[1]))
      <4>1. PICK l \in 1 .. Len(from) :
              /\ h[1] = from[l]
              /\ \E j \in 1 .. Len(ClaimsOf(from[l])) : h[2] = ClaimsOf(from[l])[j]
        BY <3>1 DEF said, SaidIn
      <4>2. ClaimsOf(from[l]) \in Seq(Claims)
        OBVIOUS
      <4>3. QED
        BY <4>1, <4>2 DEF Range
    <3>2. QED
      BY <3>1
  <2>3. k.sources \subseteq m.from
    <3>1. \A e \in raw[i].sources : \E h \in said : h[1] = e
      BY <1>1, <1>2 DEF Voiced
    <3>2. \A e \in raw[i].sources : e \in Range(from)
      BY <2>2, <3>1
    <3>3. QED
      BY <1>5, <1>8, <2>1, <3>2
  <2>4. ASSUME k.conf = "high", ~(Cardinality(k.sources) >= 2)
        PROVE  \E e \in k.sources : \E c \in Range(ClaimsOf(e)) :
                 c.file = k.file /\ c.conf = "high"
    <3>1. raw[i].conf = "high"
      BY <1>5, <2>1, <2>4
    <3>2. PICK h \in said : /\ h[1] \in raw[i].sources
                            /\ h[2].file = raw[i].file /\ h[2].conf = "high"
      BY <1>1, <1>2, <3>1 DEF Voiced
    <3>3. QED
      BY <1>5, <2>1, <2>2, <3>2
  <2>5. ASSUME ~k.needsReview, NEW other \in (m.claims \cup m.dropped) \ {k}
        PROVE  other.file # k.file
    <3>1. PICK j \in 1 .. n : other = clusters[j]
      BY <1>11
    <3>2. j # i
      BY <2>1, <3>1
    <3>3. QED
      BY <1>5, <2>1, <2>5, <3>1, <3>2
  <2>6. QED
    BY <2>3, <2>4, <2>5
<1>14. ASSUME NEW k \in m.claims, NEW x \in m.dropped
       PROVE  Cardinality(k.sources) >= Cardinality(x.sources)
  <2>1. PICK i \in 1 .. n : i \in 1 .. MaxClaims /\ k = clusters[ranked[i]]
    BY <1>8
  <2>2. PICK j \in 1 .. n : j \notin 1 .. MaxClaims /\ x = clusters[ranked[j]]
    BY <1>8
  <2>3. i < j
    BY <1>2, <2>1, <2>2, ReturnsAssumption
  <2>4. QED
    BY <1>6, <2>1, <2>2, <2>3
<1>15. Telling(m, Said)
  <2>1. \A d \in m.from : d \in Dispatched /\ Said[d] = Range(ClaimsOf(d))
    BY <1>8, <1>9 DEF Said
  <2>2. \A k \in m.claims \cup m.dropped : \A e \in k.sources : Said[e] = Range(ClaimsOf(e))
    BY <1>13, <2>1
  <2>3. \A k \in m.claims \cup m.dropped :
          /\ k.sources \subseteq m.from
          /\ k.conf = "high" => \/ Cardinality(k.sources) >= 2
                                \/ \E e \in k.sources : \E c \in Said[e] :
                                     c.file = k.file /\ c.conf = "high"
          /\ ~k.needsReview => \A other \in (m.claims \cup m.dropped) \ {k} : other.file # k.file
    BY <1>13, <2>2
  <2>4. QED
    BY <1>12, <1>14, <2>1, <2>3 DEF Telling
<1>16. QED
  BY <1>8, <1>10, <1>15 DEF m

\* A merge goes on telling what its workers said.
LEMMA TellingStays ==
  ASSUME NEW m, NEW said, NEW later, Telling(m, said), \A d \in m.from : later[d] = said[d]
  PROVE  Telling(m, later)
<1>1. \A k \in m.claims \cup m.dropped : \A e \in k.sources : later[e] = said[e]
  BY DEF Telling
<1>2. QED
  BY <1>1 DEF Telling

Foundable == { d \in Dispatched : /\ returns[d] # NoReturn
                                  /\ returns[d].whole /\ returns[d].reply.named = "discovery" }

\* What a merge reads: all the returns it can, each once.
LEMMA ReadsAll ==
  ASSUME ReturnsTypeOK
  PROVE  /\ readDiscoveryReturns \in Seq(Dispatched)
         /\ Range(readDiscoveryReturns) = Foundable
         /\ \A i \in 1 .. Len(readDiscoveryReturns) :
              ClaimsOf(readDiscoveryReturns[i]) \in Seq(Claims)
<1> DEFINE S == Foundable
           s == readDiscoveryReturns
           n == Cardinality(S)
           R == { ij \in S \X S : Sorts(ij[1], ij[2]) }
<1>1. IsFiniteSet(S)
  <2>1. IsFiniteSet(Dispatched)
    BY ReturnsAssumption, FS_Interval DEF Dispatched
  <2>2. QED
    BY <2>1, FS_Subset DEF Foundable
<1>2. \A d \in S : d \in Dispatched /\ d \in Int /\ returns[d] \in Returns
  BY DEF ReturnsTypeOK, Foundable, Dispatched
<1>3. \A d, e \in S : <<d, e>> \in R <=>
         \/ returns[d].name = returns[e].name /\ d < e
         \/ returns[d].name = "discovery" /\ returns[e].name = "fullstack"
  <2>1. \A d \in S : returns[d].name \in {"discovery", "fullstack"}
    BY <1>2 DEF Returns, AgentTypes
  <2>2. QED
    BY <2>1 DEF Sorts
<1>4. \A d, e \in S : Sorts(d, e) <=> <<d, e>> \in R
  OBVIOUS
<1>5. \A d \in S : returns[d].name \in {"discovery", "fullstack"}
  BY <1>2 DEF Returns, AgentTypes
<1> HIDE DEF R, S, s, n
<1>6. /\ \A x \in S : <<x, x>> \notin R
      /\ \A x, y \in S : x = y \/ <<x, y>> \in R \/ <<y, x>> \in R
      /\ \A x, y, z \in S : <<x, y>> \in R /\ <<y, z>> \in R => <<x, z>> \in R
  BY <1>2, <1>3, <1>5
<1>7. n \in Nat /\ \A k \in 1 .. n : \E x \in S : Cardinality(Below(S, R, x)) = k - 1
  BY <1>1, <1>6, PlacesAreTaken DEF n
<1>8. \A x \in S : { y \in S : Sorts(y, x) } = Below(S, R, x)
  BY <1>4 DEF Below
<1>9. s = InOrder(S, Sorts)
  BY DEF s, S, Foundable, readDiscoveryReturns
<1>10. DOMAIN s = 1 .. n
  BY <1>9 DEF InOrder, n
<1>11. ASSUME NEW k \in 1 .. n
       PROVE  s[k] \in S /\ Cardinality(Below(S, R, s[k])) = k - 1
  <2>1. s[k] = CHOOSE x \in S : Cardinality({ y \in S : Sorts(y, x) }) = k - 1
    BY <1>9 DEF InOrder, n
  <2>2. \E x \in S : Cardinality({ y \in S : Sorts(y, x) }) = k - 1
    BY <1>7, <1>8
  <2>3. s[k] \in S /\ Cardinality({ y \in S : Sorts(y, s[k]) }) = k - 1
    BY <2>1, <2>2
  <2>4. QED
    BY <1>8, <2>3
<1>12. \A x \in S : \E k \in 1 .. n : s[k] = x
  BY <1>1, <1>6, <1>11, Ordered DEF n
<1>13. s \in Seq(Dispatched) /\ Len(s) = n
  <2> DEFINE nth(k) == CHOOSE x \in S : Cardinality({ y \in S : Sorts(y, x) }) = k - 1
  <2>1. s = [k \in 1 .. n |-> nth(k)]
    BY Zenon, <1>9 DEF InOrder, n
  <2> HIDE DEF nth
  <2>2. s = [k \in 1 .. n |-> s[k]]
    BY <2>1
  <2>3. \A k \in 1 .. n : s[k] \in Dispatched
    BY <1>2, <1>11
  <2>4. [k \in 1 .. n |-> s[k]] \in [1 .. n -> Dispatched]
    BY <2>3
  <2>5. QED
    BY <1>7, <2>2, <2>4
<1>14. Range(s) = S
  BY <1>10, <1>11, <1>12 DEF Range
<1>15. \A i \in 1 .. n : ClaimsOf(s[i]) \in Seq(Claims)
  <2>1. ASSUME NEW d \in S PROVE ClaimsOf(d) \in Seq(Claims)
    <3>1. returns[d].reply.artifact \in Artifacts \cup {NoReturn}
      BY <1>2 DEF Returns, Replies
    <3>2. << >> \in Seq(Claims)
      OBVIOUS
    <3>3. QED
      BY <3>1, <3>2, ReturnsAssumption DEF ClaimsOf
  <2>2. QED
    BY <1>11, <2>1
<1>16. QED
  BY <1>13, <1>14, <1>15 DEF s, S

---------------------------------------------------------------------------
AtReturn == {"persisting", "merging", "writing"}
Begun == { d \in Dispatched : hook[d].at # "idle" }
Started == { d \in Dispatched : hook[d].at \notin {"idle", "indexing"} }

\* What the hooks of a return write.
Filing(d, w) == [name |-> hook[d].name, whole |-> w, reply |-> hook[d].reply]

\* A dispatch has a name once it returned, and its file is of what it returned.
Filed ==
  \A d \in Dispatched :
    /\ hook[d].at \in {"idle", "indexing", "running"} => hook[d].name = NoReturn
    /\ hook[d].at \in AtReturn \cup {"returned"} => hook[d].name # NoReturn
    /\ hook[d].name # NoReturn => hook[d].reply # NoReturn
    /\ copy[d] = "writing" => hook[d].name # NoReturn
    /\ returns[d] # NoReturn =>
         /\ hook[d].name # NoReturn
         /\ returns[d].name = hook[d].name /\ returns[d].reply = hook[d].reply

\* Every merge, written or about to be, tells what its workers said.
SaysOf(m) == /\ Telling(m, Said)
             /\ \A d \in m.from : returns[d] # NoReturn

AllTell ==
  /\ mergedFacts # NoReturn => SaysOf(mergedFacts)
  /\ \A d \in Dispatched : hook[d].merged # NoReturn => SaysOf(hook[d].merged)

\* While starts do not overlap and there is room, the index is who has started.
IndexExact ==
  "start" \notin crossed /\ Cardinality(Begun) <= MAX_ENTRIES =>
    /\ \A d, e \in Dispatched : hook[d].at = "indexing" /\ hook[e].at = "indexing" => d = e
    /\ \A d \in Dispatched : hook[d].at = "indexing" => hook[d].index = index
    /\ Len(index) = Cardinality(Started)
    /\ \A i \in 1 .. Len(index) :
         index[i].id \in Started /\ index[i].type = hook[index[i].id].type
    /\ \A d \in Started : \E i \in 1 .. Len(index) : index[i].id = d
    /\ \A d \in Dispatched : hook[d].name # NoReturn => hook[d].name = hook[d].type

\* While merges do not overlap, none meets a copy and none fails, whoever is past
\* the hook of its return is in the merge, and in the one about to be written.
MergeExact ==
  "merge" \notin crossed =>
    /\ \A d, e \in Dispatched : hook[d].at \in AtReturn /\ hook[e].at \in AtReturn => d = e
    /\ \A d \in Dispatched : hook[d].at \in AtReturn \cup {"done"} => returns[d] # NoReturn
    /\ \A d \in Dispatched : returns[d] # NoReturn /\ hook[d].at # "persisting" /\ copy[d] # "writing" =>
         returns[d].whole
    /\ \A d \in Dispatched : Returned(d) /\ hook[d].at = "done" =>
         mergedFacts # NoReturn /\ d \in mergedFacts.from
    /\ \A d, e \in Dispatched : hook[d].at = "writing" /\ Returned(e) /\ hook[e].at \in {"writing", "done"} =>
         e \in hook[d].merged.from

ReturnsInv == ReturnsTypeOK /\ Filed /\ AllTell /\ IndexExact /\ MergeExact

Hooks == [at : {"idle", "indexing", "running", "refused", "returned",
                "persisting", "merging", "writing", "done"},
          type : AgentTypes, reply : Replies \cup {NoReturn}, name : AgentTypes \cup {NoReturn},
          index : Seq(IndexEntries), merged : Merges \cup {NoReturn}]

LEMMA ReturnsInitHolds == ReturnsInit => ReturnsInv
<1> SUFFICES ASSUME ReturnsInit PROVE ReturnsInv
  OBVIOUS
<1>1. \A d \in Dispatched : hook[d] = NewHook /\ returns[d] = NoReturn
  BY DEF ReturnsInit
<1>2. \A d \in Dispatched : /\ hook[d].at = "idle" /\ hook[d].merged = NoReturn
                            /\ hook[d].name = NoReturn /\ copy[d] = "due"
  BY <1>1 DEF NewHook, ReturnsInit
<1>3. ReturnsTypeOK
  <2>1. NewHook \in Hooks
    BY DEF NewHook, Hooks, AgentTypes
  <2>2. hook \in [Dispatched -> Hooks]
    BY <2>1 DEF ReturnsInit
  <2>3. index \in Seq(IndexEntries) /\ Len(index) <= MAX_ENTRIES
    BY ReturnsAssumption DEF ReturnsInit
  <2>4. QED
    BY <1>2, <2>2, <2>3 DEF ReturnsTypeOK, ReturnsInit, Hooks
<1>4. Filed /\ AllTell
  BY <1>1, <1>2 DEF Filed, AllTell, AtReturn, ReturnsInit
<1>5. IndexExact
  <2>1. Started = {}
    BY <1>2 DEF Started
  <2>2. Cardinality(Started) = 0 /\ Len(index) = 0
    BY <2>1, FS_EmptySet DEF ReturnsInit
  <2>3. QED
    BY <1>1, <1>2, <2>1, <2>2 DEF IndexExact
<1>6. MergeExact
  BY <1>1, <1>2 DEF MergeExact, AtReturn, Returned
<1>7. QED
  BY <1>3, <1>4, <1>5, <1>6 DEF ReturnsInv

LEMMA HookTyped ==
  ASSUME ReturnsTypeOK
  PROVE  hook \in [Dispatched -> Hooks] /\ \A d \in Dispatched : hook[d] \in Hooks
<1>1. hook \in [Dispatched -> Hooks]
  BY DEF ReturnsTypeOK, Hooks
<1>2. QED
  BY <1>1

LEMMA NameFound ==
  ASSUME ReturnsTypeOK, NEW d \in Dispatched
  PROVE  /\ resolveAgentName(d) \in AgentTypes \cup {NoReturn}
         /\ (\E i \in 1 .. Len(index) : index[i].id = d) =>
              \E i \in 1 .. Len(index) : index[i].id = d /\ resolveAgentName(d) = index[i].type
<1> DEFINE named == {e \in Range(index) : e.id = d}
<1>1. DOMAIN index = 1 .. Len(index) /\ \A i \in 1 .. Len(index) : index[i] \in IndexEntries
  BY DEF ReturnsTypeOK
<1>2. resolveAgentName(d) = IF named = {} THEN NoReturn ELSE (CHOOSE e \in named : TRUE).type
  BY DEF resolveAgentName
<1>3. \A e \in named : \E i \in 1 .. Len(index) : index[i] = e /\ index[i].id = d
  BY <1>1 DEF Range
<1>4. \A i \in 1 .. Len(index) : index[i].id = d => index[i] \in named
  BY <1>1 DEF Range
<1> HIDE DEF named
<1>5. CASE named = {}
  BY <1>2, <1>4, <1>5
<1>6. CASE named # {}
  <2> DEFINE e == CHOOSE e \in named : TRUE
  <2>1. e \in named /\ resolveAgentName(d) = e.type
    BY <1>2, <1>6
  <2> HIDE DEF e
  <2>2. PICK i \in 1 .. Len(index) : index[i] = e /\ index[i].id = d
    BY <1>3, <2>1
  <2>3. index[i].type \in AgentTypes
    BY <1>1 DEF IndexEntries
  <2>4. QED
    BY <2>1, <2>2, <2>3
<1>7. QED
  BY <1>5, <1>6

LEMMA NewestIsASuffix ==
  ASSUME NEW T, NEW s \in Seq(T), NEW n \in Nat
  PROVE  /\ Newest(n, s) \in Seq(T) /\ Len(Newest(n, s)) <= n
         /\ Len(s) <= n => Newest(n, s) = s
<1>1. Len(s) \in Nat
  OBVIOUS
<1>2. CASE Len(s) > n
  <2>1. Newest(n, s) = SubSeq(s, Len(s) - n + 1, Len(s))
    BY <1>2 DEF Newest
  <2>2. Len(s) - n + 1 \in 1 .. Len(s) + 1
    BY <1>1, <1>2
  <2>3. /\ SubSeq(s, Len(s) - n + 1, Len(s)) \in Seq(T)
        /\ Len(SubSeq(s, Len(s) - n + 1, Len(s))) = n
    BY <1>1, <1>2, <2>2
  <2>4. QED
    BY <1>1, <1>2, <2>1, <2>3
<1>3. CASE ~(Len(s) > n)
  BY <1>1, <1>3 DEF Newest
<1>4. QED
  BY <1>2, <1>3

LEMMA FilingTyped ==
  ASSUME ReturnsTypeOK, Filed, NEW d \in Dispatched, hook[d].name # NoReturn, NEW w \in BOOLEAN
  PROVE  Filing(d, w) \in Returns /\ Filing(d, w) # NoReturn
<1>1. hook[d].name \in AgentTypes /\ hook[d].reply \in Replies
  BY HookTyped DEF Filed, Hooks
<1>2. Filing(d, w) \in Returns
  BY <1>1 DEF Filing, Returns
<1>3. QED
  BY <1>2, ReturnsAssumption

\* A hook that moves on, and not to write a merge.
LEMMA PlaceTyped ==
  ASSUME ReturnsTypeOK, NEW d \in Dispatched,
         NEW at \in {"refused", "persisting", "merging", "done"}, hook' = [hook EXCEPT ![d].at = at]
  PROVE  /\ hook' \in [Dispatched -> Hooks]
         /\ \A e \in Dispatched : hook'[e].at = "writing" => hook'[e].merged # NoReturn
<1>1. hook \in [Dispatched -> Hooks] /\ \A e \in Dispatched : hook[e] \in Hooks
  BY HookTyped
<1>2. hook' \in [Dispatched -> Hooks]
  <2> DEFINE h == [hook[d] EXCEPT !.at = at]
  <2>1. h \in Hooks
    BY <1>1 DEF Hooks
  <2>2. hook' = [hook EXCEPT ![d] = h]
    BY <1>1
  <2> HIDE DEF h
  <2>3. QED
    BY <1>1, <2>1, <2>2
<1>3. hook'[d].at # "writing" /\ \A e \in Dispatched \ {d} : hook'[e] = hook[e]
  BY <1>1 DEF Hooks
<1>4. QED
  BY <1>2, <1>3 DEF ReturnsTypeOK

LEMMA ReturnsTyped ==
  ASSUME ReturnsTypeOK, Filed, [ReturnsNext]_returnsVars
  PROVE  ReturnsTypeOK'
<1> USE DEF Hooks
<1>1. hook \in [Dispatched -> Hooks] /\ \A d \in Dispatched : hook[d] \in Hooks
  BY HookTyped
<1>2. CASE UNCHANGED returnsVars
  BY <1>2 DEF ReturnsTypeOK, returnsVars
<1>3. ASSUME NEW d \in Dispatched, NEW type \in AgentTypes, ReadIndex(d, type)
      PROVE  ReturnsTypeOK'
  <2>1. index \in Seq(IndexEntries)
    BY DEF ReturnsTypeOK
  <2>2. hook' \in [Dispatched -> Hooks]
    <3> DEFINE h == [hook[d] EXCEPT !.at = "indexing", !.type = type, !.index = index]
    <3>1. h \in Hooks
      BY <1>1, <2>1
    <3>2. hook' = [hook EXCEPT ![d] = h]
      BY <1>1, <1>3 DEF ReadIndex
    <3> HIDE DEF h
    <3>3. QED
      BY <1>1, <3>1, <3>2
  <2>3. \A e \in Dispatched : hook'[e].at = "writing" => hook'[e].merged # NoReturn
    BY <1>1, <1>3 DEF ReadIndex, ReturnsTypeOK
  <2>4. QED
    BY <1>3, <2>2, <2>3 DEF ReadIndex, ReturnsTypeOK
<1>4. ASSUME NEW d \in Dispatched, recordSubagentStart(d)
      PROVE  ReturnsTypeOK'
  <2>1. hook[d].index \in Seq(IndexEntries) /\ [id |-> d, type |-> hook[d].type] \in IndexEntries
    BY <1>1 DEF IndexEntries
  <2>2. Append(hook[d].index, [id |-> d, type |-> hook[d].type]) \in Seq(IndexEntries)
    BY <2>1
  <2>3. index' \in Seq(IndexEntries) /\ Len(index') <= MAX_ENTRIES
    BY <1>4, <2>2, NewestIsASuffix, ReturnsAssumption DEF recordSubagentStart
  <2>4. hook' \in [Dispatched -> Hooks]
    <3> DEFINE h == [hook[d] EXCEPT !.at = "running", !.index = << >>]
    <3>1. h \in Hooks
      <4>1. << >> \in Seq(IndexEntries)
        OBVIOUS
      <4>2. QED
        BY <1>1, <4>1
    <3>2. hook' = [hook EXCEPT ![d] = h]
      BY <1>1, <1>4 DEF recordSubagentStart
    <3> HIDE DEF h
    <3>3. QED
      BY <1>1, <3>1, <3>2
  <2>5. \A e \in Dispatched : hook'[e].at = "writing" => hook'[e].merged # NoReturn
    BY <1>1, <1>4 DEF recordSubagentStart, ReturnsTypeOK
  <2>6. QED
    BY <1>4, <2>3, <2>4, <2>5 DEF recordSubagentStart, ReturnsTypeOK
<1>5. ASSUME NEW d \in Dispatched, IndexWriteFails(d)
      PROVE  ReturnsTypeOK'
  <2>1. hook' \in [Dispatched -> Hooks]
    <3> DEFINE h == [hook[d] EXCEPT !.at = "running", !.index = << >>]
    <3>1. h \in Hooks
      <4>1. << >> \in Seq(IndexEntries)
        OBVIOUS
      <4>2. QED
        BY <1>1, <4>1
    <3>2. hook' = [hook EXCEPT ![d] = h]
      BY <1>1, <1>5 DEF IndexWriteFails
    <3> HIDE DEF h
    <3>3. QED
      BY <1>1, <3>1, <3>2
  <2>2. \A e \in Dispatched : hook'[e].at = "writing" => hook'[e].merged # NoReturn
    BY <1>1, <1>5 DEF IndexWriteFails, ReturnsTypeOK
  <2>3. QED
    BY <1>5, <2>1, <2>2 DEF IndexWriteFails, ReturnsTypeOK
<1>6. ASSUME NEW d \in Dispatched, NEW reply \in Replies, Return(d, reply)
      PROVE  ReturnsTypeOK'
  <2> DEFINE name == Attributed(d, reply)
  <2>1. name \in AgentTypes \cup {NoReturn}
    BY NameFound DEF Attributed, Replies, AgentTypes
  <2>2. \/ hook' = [hook EXCEPT ![d].at = "refused"]
        \/ hook' = [hook EXCEPT ![d].at = "returned", ![d].reply = reply, ![d].name = name]
    BY <1>6 DEF Return
  <2> HIDE DEF name
  <2>3. hook' \in [Dispatched -> Hooks]
    <3>1. CASE hook' = [hook EXCEPT ![d].at = "refused"]
      BY <1>1, <3>1
    <3>2. CASE hook' = [hook EXCEPT ![d].at = "returned", ![d].reply = reply, ![d].name = name]
      <4> DEFINE h == [hook[d] EXCEPT !.at = "returned", !.reply = reply, !.name = name]
      <4>1. h \in Hooks
        BY <1>1, <2>1
      <4>2. hook' = [hook EXCEPT ![d] = h]
        BY <1>1, <3>2
      <4> HIDE DEF h
      <4>3. QED
        BY <1>1, <4>1, <4>2
    <3>3. QED
      BY <2>2, <3>1, <3>2
  <2>4. \A e \in Dispatched : hook'[e].at = "writing" => hook'[e].merged # NoReturn
    <3>1. hook'[d].at # "writing" /\ \A e \in Dispatched \ {d} : hook'[e] = hook[e]
      <4>1. CASE hook' = [hook EXCEPT ![d].at = "refused"]
        BY <1>1, <4>1
      <4>2. CASE hook' = [hook EXCEPT ![d].at = "returned", ![d].reply = reply, ![d].name = name]
        BY <1>1, <4>2
      <4>3. QED
        BY <2>2, <4>1, <4>2
    <3>2. QED
      BY <3>1 DEF ReturnsTypeOK
  <2>5. QED
    BY <1>6, <2>3, <2>4 DEF Return, ReturnsTypeOK
<1>7. ASSUME NEW d \in Dispatched, EmptyReply(d) \/ PersistFails(d)
      PROVE  ReturnsTypeOK'
  <2>1. PICK at \in {"refused", "merging", "done"} : hook' = [hook EXCEPT ![d].at = at]
    BY <1>7 DEF EmptyReply, PersistFails, Onward
  <2>2. /\ hook' \in [Dispatched -> Hooks]
        /\ \A e \in Dispatched : hook'[e].at = "writing" => hook'[e].merged # NoReturn
    BY <2>1, PlaceTyped
  <2>3. QED
    BY <1>7, <2>2 DEF EmptyReply, PersistFails, ReturnsTypeOK
<1>8. ASSUME NEW d \in Dispatched, NEW w \in BOOLEAN, File(d, w), hook[d].name # NoReturn
      PROVE  returns' \in [Dispatched -> Returns \cup {NoReturn}]
  <2>1. Filing(d, w) \in Returns
    BY <1>8, FilingTyped
  <2>2. returns' = [returns EXCEPT ![d] = Filing(d, w)]
    BY <1>8 DEF File, Filing
  <2>3. QED
    BY <2>1, <2>2 DEF ReturnsTypeOK
<1>13. ASSUME NEW d \in Dispatched, persistWorkerReturn(d) \/ ReturnWritten(d)
       PROVE  ReturnsTypeOK'
  <2>1. PICK at \in {"persisting", "merging", "done"} : hook' = [hook EXCEPT ![d].at = at]
    BY <1>13 DEF persistWorkerReturn, ReturnWritten, Onward
  <2>2. hook[d].name # NoReturn
    BY <1>13 DEF persistWorkerReturn, ReturnWritten, Filed, AtReturn
  <2>3. returns' \in [Dispatched -> Returns \cup {NoReturn}]
    <3>1. CASE persistWorkerReturn(d)
      BY <1>8, <2>2, <3>1 DEF persistWorkerReturn
    <3>2. CASE ReturnWritten(d)
      BY <1>8, <2>2, <3>2 DEF ReturnWritten
    <3>3. QED
      BY <1>13, <3>1, <3>2
  <2>4. /\ hook' \in [Dispatched -> Hooks]
        /\ \A e \in Dispatched : hook'[e].at = "writing" => hook'[e].merged # NoReturn
    BY <2>1, PlaceTyped
  <2>5. QED
    BY <1>13, <2>3, <2>4 DEF persistWorkerReturn, ReturnWritten, ReturnsTypeOK
<1>14. ASSUME NEW d \in Dispatched, CopyReturn(d) \/ CopyWritten(d) \/ CopyFails(d)
       PROVE  ReturnsTypeOK'
  <2>1. returns' \in [Dispatched -> Returns \cup {NoReturn}]
    <3>1. CASE CopyReturn(d)
      BY <1>8, <3>1 DEF CopyReturn
    <3>2. CASE CopyWritten(d)
      BY <1>8, <3>2 DEF CopyWritten, Filed
    <3>3. CASE CopyFails(d)
      BY <3>3 DEF CopyFails, ReturnsTypeOK
    <3>4. QED
      BY <1>14, <3>1, <3>2, <3>3
  <2>2. copy' \in [Dispatched -> {"due", "writing", "done"}]
    BY <1>14 DEF CopyReturn, CopyWritten, CopyFails, ReturnsTypeOK
  <2>3. hook' = hook /\ index' = index /\ mergedFacts' = mergedFacts /\ crossed' \subseteq crossed \cup {"merge"}
    BY <1>14 DEF CopyReturn, CopyWritten, CopyFails
  <2>4. QED
    BY <2>1, <2>2, <2>3 DEF ReturnsTypeOK
<1>9. ASSUME NEW d \in Dispatched, MergeRead(d)
      PROVE  ReturnsTypeOK'
  <2> DEFINE m == mergeDiscoveryArtifacts(readDiscoveryReturns)
  <2>1. m \in Merges
    BY ReadsAll, MergeTells
  <2>2. m # NoReturn
    BY <2>1, ReturnsAssumption
  <2>3. \/ hook' = [hook EXCEPT ![d].at = "done"]
        \/ hook' = [hook EXCEPT ![d].at = "writing", ![d].merged = m]
    BY <1>9 DEF MergeRead
  <2> HIDE DEF m
  <2>4. hook' \in [Dispatched -> Hooks]
    <3>1. CASE hook' = [hook EXCEPT ![d].at = "done"]
      BY <1>1, <3>1
    <3>2. CASE hook' = [hook EXCEPT ![d].at = "writing", ![d].merged = m]
      <4> DEFINE h == [hook[d] EXCEPT !.at = "writing", !.merged = m]
      <4>1. h \in Hooks
        BY <1>1, <2>1
      <4>2. hook' = [hook EXCEPT ![d] = h]
        BY <1>1, <3>2
      <4> HIDE DEF h
      <4>3. QED
        BY <1>1, <4>1, <4>2
    <3>3. QED
      BY <2>3, <3>1, <3>2
  <2>5. \A e \in Dispatched : hook'[e].at = "writing" => hook'[e].merged # NoReturn
    <3>1. CASE hook' = [hook EXCEPT ![d].at = "done"]
      BY <1>1, <3>1 DEF ReturnsTypeOK
    <3>2. CASE hook' = [hook EXCEPT ![d].at = "writing", ![d].merged = m]
      BY <1>1, <2>2, <3>2 DEF ReturnsTypeOK
    <3>3. QED
      BY <2>3, <3>1, <3>2
  <2>6. QED
    BY <1>9, <2>4, <2>5 DEF MergeRead, ReturnsTypeOK
<1>10. ASSUME NEW d \in Dispatched, MergeWrite(d)
       PROVE  ReturnsTypeOK'
  <2>1. hook' \in [Dispatched -> Hooks]
    BY <1>1, <1>10 DEF MergeWrite
  <2>2. \A e \in Dispatched : hook'[e].at = "writing" => hook'[e].merged # NoReturn
    BY <1>1, <1>10 DEF MergeWrite, ReturnsTypeOK
  <2>3. mergedFacts' \in Merges \cup {NoReturn}
    BY <1>1, <1>10 DEF MergeWrite
  <2>4. QED
    BY <1>10, <2>1, <2>2, <2>3 DEF MergeWrite, ReturnsTypeOK
<1>11. ASSUME NEW d \in Dispatched, ReturnHookDies(d)
       PROVE  ReturnsTypeOK'
  <2>1. hook' \in [Dispatched -> Hooks]
    BY <1>1, <1>11 DEF ReturnHookDies
  <2>2. \A e \in Dispatched : hook'[e].at = "writing" => hook'[e].merged # NoReturn
    BY <1>1, <1>11 DEF ReturnHookDies, ReturnsTypeOK
  <2>3. QED
    BY <1>11, <2>1, <2>2 DEF ReturnHookDies, ReturnsTypeOK
<1>12. QED
  BY <1>2, <1>3, <1>4, <1>5, <1>6, <1>7, <1>9, <1>10, <1>11, <1>13, <1>14 DEF ReturnsNext

\* What the hooks of a dispatch do to its place, to its return and to what is shared.
Still(d) == /\ hook'[d].merged = hook[d].merged
            /\ hook'[d].name = hook[d].name /\ hook'[d].reply = hook[d].reply
StartRead(d) ==
  /\ hook[d].at = "idle" /\ hook'[d].at = "indexing" /\ hook'[d].index = index
  /\ Still(d)
  /\ crossed' = IF Others(d, {"indexing"}) THEN crossed \cup {"start"} ELSE crossed
  /\ UNCHANGED <<index, returns, mergedFacts, copy>>
StartWritten(d) ==
  /\ hook[d].at = "indexing" /\ hook'[d].at = "running"
  /\ Still(d) /\ hook'[d].type = hook[d].type
  /\ \/ /\ crossed' = crossed
        /\ index' = Newest(MAX_ENTRIES, Append(hook[d].index, [id |-> d, type |-> hook[d].type]))
     \/ crossed' = crossed \cup {"start"} /\ index' = index
  /\ UNCHANGED <<returns, mergedFacts, copy>>
NotFiled(d) ==
  /\ hook[d].at = "running" /\ hook'[d].at = "refused"
  /\ Still(d) /\ hook'[d].type = hook[d].type
  /\ UNCHANGED <<index, returns, mergedFacts, copy, crossed>>
Arrives(d) ==
  /\ hook[d].at = "running" /\ hook'[d].at = "returned"
  /\ hook'[d].merged = hook[d].merged /\ hook'[d].type = hook[d].type
  /\ hook'[d].name # NoReturn /\ hook'[d].reply \in Replies
  /\ hook'[d].name = Attributed(d, hook'[d].reply)
  /\ UNCHANGED <<index, returns, mergedFacts, copy, crossed>>
FiledTorn(d) ==
  /\ hook[d].at = "returned" /\ hook'[d].at = "persisting"
  /\ Still(d) /\ hook'[d].type = hook[d].type
  /\ returns'[d] = Filing(d, FALSE)
  /\ crossed' = IF Others(d, AtReturn) THEN crossed \cup {"merge"} ELSE crossed
  /\ UNCHANGED <<index, mergedFacts, copy>>
FiledWhole(d) ==
  /\ hook[d].at = "persisting" /\ hook'[d].at = Onward(d)
  /\ Still(d) /\ hook'[d].type = hook[d].type
  /\ returns'[d] = Filing(d, TRUE)
  /\ UNCHANGED <<index, mergedFacts, copy, crossed>>
NotPersisted(d) ==
  /\ hook[d].at \in {"returned", "persisting"} /\ hook'[d].at = Onward(d)
  /\ Still(d) /\ hook'[d].type = hook[d].type
  /\ crossed' = crossed \cup {"merge"}
  /\ UNCHANGED <<index, returns, mergedFacts, copy>>
Copies(d) ==
  /\ hook[d].name # NoReturn
  /\ \/ copy'[d] = "writing" /\ returns'[d] = Filing(d, FALSE)
     \/ copy'[d] = "done" /\ returns'[d] = Filing(d, TRUE)
  /\ UNCHANGED <<index, hook, mergedFacts, crossed>>
CopyLost(d) ==
  /\ copy'[d] = "done"
  /\ crossed' = crossed \cup {"merge"}
  /\ UNCHANGED <<index, returns, hook, mergedFacts>>
Copied == \E e \in Dispatched : copy[e] = "writing"
Gathers(d) ==
  /\ hook[d].at = "merging"
  /\ hook'[d].type = hook[d].type /\ hook'[d].name = hook[d].name /\ hook'[d].reply = hook[d].reply
  /\ \/ /\ readDiscoveryReturns = << >>
        /\ hook'[d].at = "done" /\ hook'[d].merged = hook[d].merged
     \/ /\ hook'[d].at = "writing"
        /\ hook'[d].merged = mergeDiscoveryArtifacts(readDiscoveryReturns)
  /\ crossed' = IF Copied THEN crossed \cup {"merge"} ELSE crossed
  /\ UNCHANGED <<index, returns, mergedFacts, copy>>
Publishes(d) ==
  /\ hook[d].at = "writing" /\ hook'[d].at = "done" /\ hook'[d].merged = NoReturn
  /\ hook'[d].type = hook[d].type /\ hook'[d].name = hook[d].name /\ hook'[d].reply = hook[d].reply
  /\ mergedFacts' = hook[d].merged
  /\ UNCHANGED <<index, returns, copy, crossed>>
GivesUp(d) ==
  /\ hook[d].at \in AtReturn \cup {"returned"}
  /\ hook'[d].at = "refused" /\ hook'[d].merged = NoReturn
  /\ hook'[d].type = hook[d].type /\ hook'[d].name = hook[d].name /\ hook'[d].reply = hook[d].reply
  /\ crossed' = crossed \cup {"merge"}
  /\ UNCHANGED <<index, returns, mergedFacts, copy>>

OthersStay(d) ==
  \A e \in Dispatched \ {d} : hook'[e] = hook[e] /\ returns'[e] = returns[e] /\ copy'[e] = copy[e]
Moves(d) ==
  /\ OthersStay(d)
  /\ \/ StartRead(d) \/ StartWritten(d) \/ NotFiled(d) \/ Arrives(d) \/ FiledTorn(d)
     \/ FiledWhole(d) \/ NotPersisted(d) \/ Copies(d) \/ CopyLost(d)
     \/ Gathers(d) \/ Publishes(d) \/ GivesUp(d)

LEMMA ReturnsMove ==
  ASSUME ReturnsTypeOK, Filed, ReturnsNext
  PROVE  \E d \in Dispatched : Moves(d)
<1>1. hook \in [Dispatched -> Hooks] /\ \A d \in Dispatched : hook[d] \in Hooks
  BY HookTyped
<1>2. /\ returns \in [Dispatched -> Returns \cup {NoReturn}]
      /\ copy \in [Dispatched -> {"due", "writing", "done"}]
  BY DEF ReturnsTypeOK
<1>3. PICK d \in Dispatched :
        \/ \E type \in AgentTypes : ReadIndex(d, type)
        \/ recordSubagentStart(d) \/ IndexWriteFails(d)
        \/ \E reply \in Replies : Return(d, reply)
        \/ EmptyReply(d) \/ persistWorkerReturn(d) \/ ReturnWritten(d) \/ PersistFails(d)
        \/ CopyReturn(d) \/ CopyWritten(d) \/ CopyFails(d)
        \/ MergeRead(d) \/ MergeWrite(d) \/ ReturnHookDies(d)
  BY DEF ReturnsNext
<1>4. ASSUME NEW w, File(d, w)
      PROVE  returns'[d] = Filing(d, w) /\ \A e \in Dispatched \ {d} : returns'[e] = returns[e]
  BY <1>2, <1>4 DEF File, Filing
<1> USE DEF Hooks, Moves, OthersStay, Still
<1>5. CASE \E type \in AgentTypes : ReadIndex(d, type)
  BY <1>1, <1>5 DEF ReadIndex, StartRead
<1>6. CASE recordSubagentStart(d)
  BY <1>1, <1>6 DEF recordSubagentStart, StartWritten
<1>7. CASE IndexWriteFails(d)
  BY <1>1, <1>7 DEF IndexWriteFails, StartWritten
<1>8. ASSUME NEW reply \in Replies, Return(d, reply)
      PROVE  Moves(d)
  <2> DEFINE name == Attributed(d, reply)
  <2>1. CASE name = NoReturn
    <3>1. /\ hook[d].at = "running" /\ hook' = [hook EXCEPT ![d].at = "refused"]
          /\ UNCHANGED <<index, returns, mergedFacts, copy, crossed>>
      BY <1>8, <2>1 DEF Return
    <3>2. QED
      BY <1>1, <3>1 DEF NotFiled
  <2>2. CASE name # NoReturn
    <3>1. /\ hook[d].at = "running"
          /\ hook' = [hook EXCEPT ![d].at = "returned", ![d].reply = reply, ![d].name = name]
          /\ UNCHANGED <<index, returns, mergedFacts, copy, crossed>>
      BY <1>8, <2>2 DEF Return
    <3> HIDE DEF name
    <3>2. /\ hook'[d].at = "returned" /\ hook'[d].name = name /\ hook'[d].reply = reply
          /\ hook'[d].merged = hook[d].merged /\ hook'[d].type = hook[d].type
          /\ \A e \in Dispatched \ {d} : hook'[e] = hook[e]
      BY <1>1, <3>1
    <3>3. QED
      BY <2>2, <3>1, <3>2 DEF name, Arrives
  <2>3. QED
    BY <2>1, <2>2
<1>9. CASE EmptyReply(d)
  BY <1>1, <1>9 DEF EmptyReply, NotFiled
<1>10. CASE persistWorkerReturn(d)
  BY <1>1, <1>4, <1>10 DEF persistWorkerReturn, FiledTorn, AtReturn
<1>11. CASE ReturnWritten(d)
  BY <1>1, <1>4, <1>11 DEF ReturnWritten, FiledWhole
<1>12. CASE PersistFails(d)
  BY <1>1, <1>12 DEF PersistFails, NotPersisted
<1>13. CASE CopyReturn(d)
  BY <1>2, <1>4, <1>13 DEF CopyReturn, Copies
<1>14. CASE CopyWritten(d)
  BY <1>2, <1>4, <1>14 DEF CopyWritten, Copies, Filed
<1>15. CASE CopyFails(d)
  BY <1>2, <1>15 DEF CopyFails, CopyLost
<1>16. CASE MergeRead(d)
  BY <1>1, <1>16 DEF MergeRead, Gathers, Copied
<1>17. CASE MergeWrite(d)
  BY <1>1, <1>17 DEF MergeWrite, Publishes
<1>18. CASE ReturnHookDies(d)
  BY <1>1, <1>18 DEF ReturnHookDies, GivesUp, AtReturn
<1>19. CASE \E reply \in Replies : Return(d, reply)
  BY <1>8, <1>19
<1>20. QED
  BY <1>3, <1>5, <1>6, <1>7, <1>9, <1>10, <1>11, <1>12, <1>13, <1>14, <1>15, <1>16, <1>17, <1>18, <1>19

LEMMA FiledStays ==
  ASSUME ReturnsTypeOK, Filed, NEW d \in Dispatched, Moves(d)
  PROVE  Filed'
<1> DEFINE F(e) ==
      /\ hook[e].at \in {"idle", "indexing", "running"} => hook[e].name = NoReturn
      /\ hook[e].at \in AtReturn \cup {"returned"} => hook[e].name # NoReturn
      /\ hook[e].name # NoReturn => hook[e].reply # NoReturn
      /\ copy[e] = "writing" => hook[e].name # NoReturn
      /\ returns[e] # NoReturn =>
           /\ hook[e].name # NoReturn
           /\ returns[e].name = hook[e].name /\ returns[e].reply = hook[e].reply
<1>1. \A e \in Dispatched : F(e)
  BY DEF Filed
<1>2. \A e \in Dispatched \ {d} : F(e)'
  BY <1>1 DEF Moves, OthersStay, AtReturn
<1>3. F(d)'
  <2> USE DEF AtReturn, Still
  <2>1. CASE StartRead(d)
    BY <1>1, <2>1 DEF StartRead
  <2>2. CASE StartWritten(d)
    BY <1>1, <2>2 DEF StartWritten
  <2>3. CASE NotFiled(d)
    BY <1>1, <2>3 DEF NotFiled
  <2>4. CASE Arrives(d)
    <3>1. returns'[d] = NoReturn /\ copy'[d] # "writing"
      BY <1>1, <2>4 DEF Arrives
    <3>2. hook'[d].reply # NoReturn /\ hook'[d].name # NoReturn /\ hook'[d].at = "returned"
      BY <2>4, ReturnsAssumption DEF Arrives
    <3>3. QED
      BY <3>1, <3>2
  <2>5. CASE FiledTorn(d)
    BY <1>1, <2>5 DEF FiledTorn, Filing
  <2>6. CASE FiledWhole(d)
    BY <1>1, <2>6 DEF FiledWhole, Filing, Onward
  <2>7. CASE NotPersisted(d)
    BY <1>1, <2>7 DEF NotPersisted, Onward
  <2>8. CASE Copies(d)
    BY <1>1, <2>8 DEF Copies, Filing
  <2>9. CASE CopyLost(d)
    BY <1>1, <2>9 DEF CopyLost
  <2>10. CASE Gathers(d)
    BY <1>1, <2>10 DEF Gathers
  <2>11. CASE Publishes(d)
    BY <1>1, <2>11 DEF Publishes
  <2>12. CASE GivesUp(d)
    BY <1>1, <2>12 DEF GivesUp
  <2>13. QED
    BY <2>1, <2>2, <2>3, <2>4, <2>5, <2>6, <2>7, <2>8, <2>9, <2>10, <2>11, <2>12 DEF Moves
<1>4. QED
  BY <1>2, <1>3 DEF Filed

\* What a dispatch has said it goes on saying.
LEMMA SaidStays ==
  ASSUME ReturnsTypeOK, Filed, NEW d \in Dispatched, Moves(d)
  PROVE  \A e \in Dispatched : returns[e] # NoReturn =>
           /\ returns'[e] # NoReturn /\ returns'[e].name = returns[e].name
           /\ returns'[e].reply = returns[e].reply /\ Said'[e] = Said[e]
<1>1. ASSUME NEW e \in Dispatched, returns[e] # NoReturn
      PROVE  /\ returns'[e] # NoReturn /\ returns'[e].name = returns[e].name
             /\ returns'[e].reply = returns[e].reply
  <2>1. CASE e # d
    BY <1>1, <2>1 DEF Moves, OthersStay
  <2>2. CASE e = d
    <3>1. /\ hook[d].name # NoReturn
          /\ returns[d].name = hook[d].name /\ returns[d].reply = hook[d].reply
      BY <1>1, <2>2 DEF Filed
    <3>2. returns'[d] = returns[d] \/ \E w \in BOOLEAN : returns'[d] = Filing(d, w)
      BY DEF Moves, StartRead, StartWritten, NotFiled, Arrives, FiledTorn, FiledWhole, NotPersisted,
         Copies, CopyLost, Gathers, Publishes, GivesUp
    <3>3. CASE returns'[d] = returns[d]
      BY <1>1, <2>2, <3>3
    <3>4. CASE \E w \in BOOLEAN : returns'[d] = Filing(d, w)
      <4>1. PICK w \in BOOLEAN : returns'[d] = Filing(d, w)
        BY <3>4
      <4>2. returns'[d] # NoReturn
        BY <3>1, <4>1, FilingTyped
      <4>3. QED
        BY <2>2, <3>1, <4>1, <4>2 DEF Filing
    <3>5. QED
      BY <3>2, <3>3, <3>4
  <2>3. QED
    BY <2>1, <2>2
<1>2. \A e \in Dispatched : Said[e] = Range(ClaimsOf(e)) /\ Said'[e] = Range(ClaimsOf(e)')
  BY DEF Said
<1>3. \A e \in Dispatched : returns'[e].reply = returns[e].reply => ClaimsOf(e)' = ClaimsOf(e)
  BY DEF ClaimsOf
<1>4. QED
  BY <1>1, <1>2, <1>3

LEMMA SaysOfStays ==
  ASSUME ReturnsTypeOK, Filed, NEW d \in Dispatched, Moves(d), NEW m \in Merges,
         Telling(m, Said), \A e \in m.from : returns[e] # NoReturn
  PROVE  Telling(m, Said') /\ \A e \in m.from : returns'[e] # NoReturn
<1>1. m.from \subseteq Dispatched
  BY DEF Merges
<1>2. \A e \in m.from : Said'[e] = Said[e] /\ returns'[e] # NoReturn
  BY <1>1, SaidStays
<1>3. QED
  BY <1>2, TellingStays

LEMMA AllTellStays ==
  ASSUME ReturnsTypeOK, Filed, AllTell, NEW d \in Dispatched, Moves(d)
  PROVE  AllTell'
<1>1. \A e \in Dispatched : hook[e].merged \in Merges \cup {NoReturn}
  BY HookTyped DEF Hooks
<1>2. mergedFacts \in Merges \cup {NoReturn}
  BY DEF ReturnsTypeOK
<1> DEFINE T(m) == Telling(m, Said') /\ \A e \in m.from : returns'[e] # NoReturn
<1>3. ASSUME NEW e \in Dispatched, hook[e].merged # NoReturn PROVE T(hook[e].merged)
  BY <1>1, <1>3, SaysOfStays DEF AllTell, SaysOf
<1>4. ASSUME mergedFacts # NoReturn PROVE T(mergedFacts)
  BY <1>2, <1>4, SaysOfStays DEF AllTell, SaysOf
<1>5. ASSUME NEW e \in Dispatched, hook'[e].merged # NoReturn PROVE T(hook'[e].merged)
  <2>1. CASE hook'[e].merged = hook[e].merged
    BY <1>3, <1>5, <2>1
  <2>2. CASE hook'[e].merged # hook[e].merged
    <3>1. e = d
      BY <2>2 DEF Moves, OthersStay
    <3>2. Gathers(d) /\ hook'[d].merged = mergeDiscoveryArtifacts(readDiscoveryReturns)
      BY <1>5, <2>2, <3>1 DEF Moves, Still, StartRead, StartWritten, NotFiled, Arrives, FiledTorn,
         FiledWhole, NotPersisted, Copies, CopyLost, Gathers, Publishes, GivesUp
    <3> DEFINE m == mergeDiscoveryArtifacts(readDiscoveryReturns)
    <3>3. m \in Merges /\ m.from = Foundable /\ Telling(m, Said)
      BY ReadsAll, MergeTells
    <3> HIDE DEF m
    <3>4. \A f \in m.from : returns[f] # NoReturn
      BY <3>3 DEF Foundable
    <3>5. T(m)
      BY <3>3, <3>4, SaysOfStays
    <3>6. QED
      BY <3>1, <3>2, <3>5 DEF m
  <2>3. QED
    BY <2>1, <2>2
<1>6. ASSUME mergedFacts' # NoReturn PROVE T(mergedFacts')
  <2>1. CASE mergedFacts' = mergedFacts
    BY <1>4, <1>6, <2>1
  <2>2. CASE mergedFacts' # mergedFacts
    <3>1. mergedFacts' = hook[d].merged
      BY <2>2 DEF Moves, Still, StartRead, StartWritten, NotFiled, Arrives, FiledTorn,
         FiledWhole, NotPersisted, Copies, CopyLost, Gathers, Publishes, GivesUp
    <3>2. QED
      BY <1>3, <1>6, <3>1
  <2>3. QED
    BY <2>1, <2>2
<1>7. QED
  BY <1>5, <1>6 DEF AllTell, SaysOf

LEMMA DispatchedFinite ==
  \A S \in SUBSET Dispatched : IsFiniteSet(S) /\ Cardinality(S) \in Nat
<1>1. IsFiniteSet(Dispatched)
  BY ReturnsAssumption, FS_Interval DEF Dispatched
<1>2. QED
  BY <1>1, FS_Subset, FS_CardinalityType

LEMMA IndexExactStays ==
  ASSUME ReturnsTypeOK, Filed, IndexExact, ReturnsTypeOK', NEW d \in Dispatched, Moves(d)
  PROVE  IndexExact'
<1> SUFFICES ASSUME "start" \notin crossed', Cardinality(Begun') <= MAX_ENTRIES
             PROVE
               /\ \A e, f \in Dispatched : hook'[e].at = "indexing" /\ hook'[f].at = "indexing" => e = f
               /\ \A e \in Dispatched : hook'[e].at = "indexing" => hook'[e].index = index'
               /\ Len(index') = Cardinality(Started')
               /\ \A i \in 1 .. Len(index') :
                    index'[i].id \in Started' /\ index'[i].type = hook'[index'[i].id].type
               /\ \A e \in Started' : \E i \in 1 .. Len(index') : index'[i].id = e
               /\ \A e \in Dispatched : hook'[e].name # NoReturn => hook'[e].name = hook'[e].type
  BY DEF IndexExact
<1>1. \A e \in Dispatched \ {d} : hook'[e] = hook[e] /\ returns'[e] = returns[e]
  BY DEF Moves, OthersStay
<1>2. "start" \notin crossed
  BY DEF Moves, StartRead, StartWritten, NotFiled, Arrives, FiledTorn, FiledWhole, NotPersisted,
     Copies, CopyLost, Gathers, Publishes, GivesUp
<1>3. /\ Begun \in SUBSET Dispatched /\ Begun' \in SUBSET Dispatched
      /\ Started \in SUBSET Dispatched /\ Started' \in SUBSET Dispatched
      /\ Started' \subseteq Begun'
  BY DEF Begun, Started
<1>4. hook'[d].at = "idle" => hook[d].at = "idle"
  BY DEF Moves, StartRead, StartWritten, NotFiled, Arrives, FiledTorn, FiledWhole, NotPersisted,
     Onward, Copies, CopyLost, Gathers, Publishes, GivesUp
<1>5. Begun \subseteq Begun'
  BY <1>1, <1>4 DEF Begun
<1>6. /\ Cardinality(Begun) \in Nat /\ Cardinality(Begun') \in Nat
      /\ Cardinality(Begun) <= Cardinality(Begun')
  BY <1>3, <1>5, DispatchedFinite, FS_Subset
<1>7. /\ Cardinality(Started') \in Nat /\ Cardinality(Started) \in Nat
      /\ Cardinality(Started') <= Cardinality(Begun')
  BY <1>3, DispatchedFinite, FS_Subset
<1>8. Cardinality(Begun) <= MAX_ENTRIES
  BY <1>6, ReturnsAssumption
<1>9. /\ \A e, f \in Dispatched : hook[e].at = "indexing" /\ hook[f].at = "indexing" => e = f
      /\ \A e \in Dispatched : hook[e].at = "indexing" => hook[e].index = index
      /\ Len(index) = Cardinality(Started)
      /\ \A i \in 1 .. Len(index) : index[i].id \in Started /\ index[i].type = hook[index[i].id].type
      /\ \A e \in Started : \E i \in 1 .. Len(index) : index[i].id = e
      /\ \A e \in Dispatched : hook[e].name # NoReturn => hook[e].name = hook[e].type
  BY <1>2, <1>8 DEF IndexExact
<1>10. index \in Seq(IndexEntries)
  BY DEF ReturnsTypeOK
<1>11. CASE StartRead(d)
  <2>1. Started' = Started /\ d \notin Started
    BY <1>1, <1>11 DEF Started, StartRead
  <2>2. \A e \in Dispatched \ {d} : hook[e].at # "indexing"
    BY <1>11 DEF StartRead, Others
  <2>3. hook'[d].name = NoReturn
    BY <1>11 DEF Filed, StartRead, Still
  <2>4. /\ \A e, f \in Dispatched : hook'[e].at = "indexing" /\ hook'[f].at = "indexing" => e = f
        /\ \A e \in Dispatched : hook'[e].at = "indexing" => hook'[e].index = index'
    BY <1>1, <1>11, <2>2 DEF StartRead
  <2>5. index' = index
    BY <1>11 DEF StartRead
  <2>6. \A i \in 1 .. Len(index) : hook'[index[i].id] = hook[index[i].id]
    BY <1>1, <1>3, <1>9, <2>1
  <2>7. QED
    BY <1>1, <1>9, <2>1, <2>3, <2>4, <2>5, <2>6
<1>12. CASE StartWritten(d)
  <2>1. /\ hook[d].at = "indexing" /\ hook'[d].at = "running" /\ hook'[d].type = hook[d].type
        /\ index' = Newest(MAX_ENTRIES, Append(index, [id |-> d, type |-> hook[d].type]))
        /\ hook'[d].name = hook[d].name
    <3>1. crossed' # crossed \cup {"start"}
      OBVIOUS
    <3>2. QED
      BY <1>9, <1>12, <3>1 DEF StartWritten, Still
  <2>2. Started' = Started \cup {d} /\ d \notin Started
    BY <1>1, <2>1 DEF Started
  <2>3. Cardinality(Started') = Cardinality(Started) + 1
    BY <1>3, <2>2, DispatchedFinite, FS_AddElement
  <2> DEFINE entry == [id |-> d, type |-> hook[d].type]
             n == Len(index)
  <2>4. entry \in IndexEntries /\ entry.id = d /\ entry.type = hook[d].type
    BY HookTyped DEF Hooks, IndexEntries
  <2> HIDE DEF entry
  <2>5. Append(index, entry) \in Seq(IndexEntries) /\ Len(Append(index, entry)) = n + 1
    BY <1>10, <2>4
  <2>6. Len(Append(index, entry)) <= MAX_ENTRIES
    BY <1>6, <1>7, <1>9, <2>3, <2>5, ReturnsAssumption
  <2>7. index' = Append(index, entry)
    BY <2>1, <2>5, <2>6, NewestIsASuffix, ReturnsAssumption DEF entry
  <2>8. /\ n \in Nat /\ Len(index') = n + 1 /\ index'[n + 1] = entry
        /\ \A i \in 1 .. n : index'[i] = index[i]
    BY <1>10, <2>7
  <2> HIDE DEF n
  <2>9. /\ \A e, f \in Dispatched : hook'[e].at = "indexing" /\ hook'[f].at = "indexing" => e = f
        /\ \A e \in Dispatched : hook'[e].at = "indexing" => hook'[e].index = index'
    BY <1>1, <1>9, <2>1
  <2>10. \A i \in 1 .. n + 1 : index'[i].id \in Started' /\ index'[i].type = hook'[index'[i].id].type
    <3>1. ASSUME NEW i \in 1 .. n + 1
          PROVE  index'[i].id \in Started' /\ index'[i].type = hook'[index'[i].id].type
      <4>1. CASE i = n + 1
        BY <2>1, <2>2, <2>4, <2>8, <4>1
      <4>2. CASE i # n + 1
        <5>1. i \in 1 .. n /\ index'[i] = index[i]
          BY <2>8, <4>2
        <5>2. index[i].id \in Started /\ index[i].type = hook[index[i].id].type
          BY <1>9, <5>1 DEF n
        <5>3. hook'[index[i].id] = hook[index[i].id]
          BY <1>1, <1>3, <2>2, <5>2
        <5>4. QED
          BY <2>2, <5>1, <5>2, <5>3
      <4>3. QED
        BY <4>1, <4>2
    <3>2. QED
      BY <3>1
  <2>11. \A e \in Started' : \E i \in 1 .. n + 1 : index'[i].id = e
    <3>1. ASSUME NEW e \in Started' PROVE \E i \in 1 .. n + 1 : index'[i].id = e
      <4>1. CASE e = d
        BY <2>4, <2>8, <4>1
      <4>2. CASE e # d
        <5>1. PICK i \in 1 .. n : index[i].id = e
          BY <1>9, <2>2, <4>2 DEF n
        <5>2. i \in 1 .. n + 1 /\ index'[i].id = e
          BY <2>8, <5>1
        <5>3. QED
          BY <5>2
      <4>3. QED
        BY <4>1, <4>2
    <3>2. QED
      BY <3>1
  <2>12. \A e \in Dispatched : hook'[e].name # NoReturn => hook'[e].name = hook'[e].type
    BY <1>1, <1>9, <2>1
  <2>13. Len(index') = Cardinality(Started')
    BY <1>9, <2>3, <2>8 DEF n
  <2>14. QED
    BY <2>8, <2>9, <2>10, <2>11, <2>12, <2>13
<1>13. CASE /\ hook[d].at \notin {"idle", "indexing"} /\ hook'[d].at \notin {"idle", "indexing"}
            /\ index' = index /\ hook'[d].type = hook[d].type
            /\ (hook'[d].name # NoReturn => hook'[d].name = hook'[d].type)
  <2>1. Started' = Started
    BY <1>1, <1>13 DEF Started
  <2>2. \A e \in Dispatched : hook'[e].type = hook[e].type
    BY <1>1, <1>13
  <2>3. \A e \in Dispatched : hook'[e].at = "indexing" => hook'[e] = hook[e] /\ hook[e].at = "indexing"
    BY <1>1, <1>13
  <2>4. \A e \in Dispatched : hook'[e].name # NoReturn => hook'[e].name = hook'[e].type
    BY <1>1, <1>9, <1>13
  <2>5. \A i \in 1 .. Len(index) : index[i].type = hook'[index[i].id].type
    BY <1>3, <1>9, <2>2
  <2>6. QED
    BY <1>9, <1>13, <2>1, <2>3, <2>4, <2>5
<1>14. CASE Arrives(d)
  <2>1. hook[d].at = "running" /\ hook'[d].at = "returned" /\ hook'[d].type = hook[d].type /\ index' = index
    BY <1>14 DEF Arrives
  <2>2. d \in Started
    BY <2>1 DEF Started
  <2>3. PICK i \in 1 .. Len(index) : index[i].id = d /\ resolveAgentName(d) = index[i].type
    BY <1>9, <2>2, NameFound
  <2>4. resolveAgentName(d) = hook[d].type
    BY <1>9, <2>3
  <2>5. hook[d].type # NoReturn
    BY HookTyped, ReturnsAssumption DEF Hooks
  <2>6. hook'[d].name = hook[d].type
    BY <1>14, <2>4, <2>5 DEF Arrives, Attributed
  <2>7. QED
    BY <1>13, <2>1, <2>6
<1>15. CASE NotFiled(d) \/ FiledTorn(d) \/ FiledWhole(d) \/ NotPersisted(d)
            \/ Gathers(d) \/ Publishes(d) \/ GivesUp(d)
  <2>1. /\ hook[d].at \notin {"idle", "indexing"} /\ hook'[d].at \notin {"idle", "indexing"}
        /\ index' = index /\ hook'[d].type = hook[d].type /\ hook'[d].name = hook[d].name
    BY <1>15 DEF NotFiled, FiledTorn, FiledWhole, NotPersisted, Gathers, Publishes, GivesUp,
       AtReturn, Still, Onward
  <2>2. QED
    BY <1>9, <1>13, <2>1
<1>16. CASE Copies(d) \/ CopyLost(d)
  <2>1. hook' = hook /\ index' = index
    BY <1>16 DEF Copies, CopyLost
  <2>2. Started' = Started
    BY <2>1 DEF Started
  <2>3. QED
    BY <1>9, <2>1, <2>2
<1>17. QED
  BY <1>11, <1>12, <1>14, <1>15, <1>16 DEF Moves

LEMMA MergeExactStays ==
  ASSUME ReturnsTypeOK, Filed, MergeExact, NEW d \in Dispatched, Moves(d)
  PROVE  MergeExact'
<1> SUFFICES ASSUME "merge" \notin crossed'
             PROVE
               /\ \A e, f \in Dispatched : hook'[e].at \in AtReturn /\ hook'[f].at \in AtReturn => e = f
               /\ \A e \in Dispatched : hook'[e].at \in AtReturn \cup {"done"} => returns'[e] # NoReturn
               /\ \A e \in Dispatched :
                    returns'[e] # NoReturn /\ hook'[e].at # "persisting" /\ copy'[e] # "writing" =>
                      returns'[e].whole
               /\ \A e \in Dispatched : Returned(e)' /\ hook'[e].at = "done" =>
                    mergedFacts' # NoReturn /\ e \in mergedFacts'.from
               /\ \A e, f \in Dispatched :
                    hook'[e].at = "writing" /\ Returned(f)' /\ hook'[f].at \in {"writing", "done"} =>
                      f \in hook'[e].merged.from
  BY DEF MergeExact, AtReturn
<1>1. \A e \in Dispatched \ {d} : hook'[e] = hook[e] /\ returns'[e] = returns[e] /\ copy'[e] = copy[e]
  BY DEF Moves, OthersStay
<1>2. "merge" \notin crossed /\ ~GivesUp(d) /\ ~NotPersisted(d) /\ ~CopyLost(d)
  BY DEF Moves, StartRead, StartWritten, NotFiled, Arrives, FiledTorn, FiledWhole, NotPersisted,
     Copies, CopyLost, Gathers, Publishes, GivesUp
<1>3. /\ \A e, f \in Dispatched : hook[e].at \in AtReturn /\ hook[f].at \in AtReturn => e = f
      /\ \A e \in Dispatched : hook[e].at \in AtReturn \cup {"done"} => returns[e] # NoReturn
      /\ \A e \in Dispatched :
           returns[e] # NoReturn /\ hook[e].at # "persisting" /\ copy[e] # "writing" => returns[e].whole
      /\ \A e \in Dispatched : Returned(e) /\ hook[e].at = "done" =>
           mergedFacts # NoReturn /\ e \in mergedFacts.from
      /\ \A e, f \in Dispatched :
           hook[e].at = "writing" /\ Returned(f) /\ hook[f].at \in {"writing", "done"} =>
             f \in hook[e].merged.from
  BY <1>2 DEF MergeExact
<1>4. \A e \in Dispatched \ {d} : Returned(e)' <=> Returned(e)
  BY <1>1 DEF Returned
<1>5. CASE StartRead(d) \/ StartWritten(d) \/ NotFiled(d) \/ Arrives(d)
  <2>1. /\ hook[d].at \notin AtReturn \cup {"done"} /\ hook'[d].at \notin AtReturn \cup {"done"}
        /\ returns' = returns /\ mergedFacts' = mergedFacts /\ copy' = copy
    BY <1>5 DEF StartRead, StartWritten, NotFiled, Arrives, AtReturn
  <2>2. \A e \in Dispatched : Returned(e)' <=> Returned(e)
    BY <2>1 DEF Returned
  <2>3. \A e \in Dispatched : hook'[e].at \in AtReturn \cup {"done"} => hook'[e] = hook[e]
    BY <1>1, <2>1
  <2>4. \A e \in Dispatched : hook'[e].at # "persisting" => hook[e].at # "persisting"
    BY <1>1, <2>1 DEF AtReturn
  <2>5. \A e \in Dispatched : hook'[e].at \in {"writing", "done"} => hook'[e] = hook[e]
    BY <2>3 DEF AtReturn
  <2>6. QED
    BY <1>3, <2>1, <2>2, <2>3, <2>4, <2>5
<1>6. CASE FiledTorn(d)
  <2>1. ~Others(d, AtReturn)
    BY <1>6 DEF FiledTorn
  <2>2. \A e \in Dispatched \ {d} : hook[e].at \notin AtReturn /\ hook'[e].at \notin AtReturn
    BY <1>1, <2>1 DEF Others
  <2>3. hook'[d].at = "persisting" /\ mergedFacts' = mergedFacts
    BY <1>6 DEF FiledTorn
  <2>4. \A e, f \in Dispatched : hook'[e].at \in AtReturn /\ hook'[f].at \in AtReturn => e = f
    BY <2>2
  <2>5. returns'[d] # NoReturn
    BY <1>6, FilingTyped DEF FiledTorn, Filed
  <2>6. \A e \in Dispatched : hook'[e].at \in AtReturn \cup {"done"} => returns'[e] # NoReturn
    BY <1>1, <1>3, <2>5
  <2>7. \A e \in Dispatched :
          returns'[e] # NoReturn /\ hook'[e].at # "persisting" /\ copy'[e] # "writing" => returns'[e].whole
    BY <1>1, <1>3, <2>3
  <2>8. \A e \in Dispatched : Returned(e)' /\ hook'[e].at = "done" =>
           mergedFacts' # NoReturn /\ e \in mergedFacts'.from
    BY <1>1, <1>3, <1>4, <2>3
  <2>9. \A e \in Dispatched : hook'[e].at # "writing"
    BY <2>2, <2>3 DEF AtReturn
  <2>10. QED
    BY <2>4, <2>6, <2>7, <2>8, <2>9
<1>7. ASSUME hook[d].at \in AtReturn
      PROVE  \A e \in Dispatched \ {d} : hook[e].at \notin AtReturn /\ hook'[e].at \notin AtReturn
  BY <1>1, <1>3, <1>7
<1>8. CASE FiledWhole(d)
  <2>1. \A e \in Dispatched \ {d} : hook[e].at \notin AtReturn /\ hook'[e].at \notin AtReturn
    BY <1>7, <1>8 DEF FiledWhole, AtReturn
  <2>2. returns'[d].whole /\ mergedFacts' = mergedFacts /\ returns'[d].name = hook[d].name
    BY <1>8 DEF FiledWhole, Filing
  <2>3. \A e, f \in Dispatched : hook'[e].at \in AtReturn /\ hook'[f].at \in AtReturn => e = f
    BY <2>1
  <2>4. \A e \in Dispatched : hook'[e].at \in AtReturn \cup {"done"} => returns'[e] # NoReturn
    <3>1. returns'[d] # NoReturn
      BY <1>8, FilingTyped DEF FiledWhole, Filed, AtReturn
    <3>2. QED
      BY <1>1, <1>3, <3>1
  <2>5. \A e \in Dispatched :
          returns'[e] # NoReturn /\ hook'[e].at # "persisting" /\ copy'[e] # "writing" => returns'[e].whole
    BY <1>1, <1>3, <2>2
  <2>6. Returned(d)' => hook'[d].at = "merging"
    BY <1>8, <2>2 DEF Returned, FiledWhole, Onward
  <2>7. \A e \in Dispatched : Returned(e)' /\ hook'[e].at = "done" =>
           mergedFacts' # NoReturn /\ e \in mergedFacts'.from
    BY <1>1, <1>3, <1>4, <2>2, <2>6
  <2>8. \A e \in Dispatched : hook'[e].at # "writing"
    BY <1>8, <2>1 DEF FiledWhole, AtReturn, Onward
  <2>9. QED
    BY <2>3, <2>4, <2>5, <2>7, <2>8
<1>9. CASE Copies(d)
  <2>1. /\ hook' = hook /\ mergedFacts' = mergedFacts
        /\ hook[d].name # NoReturn
        /\ \E w \in BOOLEAN : returns'[d] = Filing(d, w) /\ (w \/ copy'[d] = "writing")
    BY <1>9 DEF Copies
  <2>2. PICK w \in BOOLEAN : returns'[d] = Filing(d, w) /\ (w \/ copy'[d] = "writing")
    BY <2>1
  <2>3. /\ returns'[d] # NoReturn /\ returns'[d].whole = w
        /\ returns'[d].name = hook[d].name /\ returns'[d].reply = hook[d].reply
    BY <2>1, <2>2, FilingTyped DEF Filing
  <2>4. returns[d] # NoReturn => (Returned(d)' <=> Returned(d))
    BY <2>3 DEF Filed, Returned
  <2>5. \A e \in Dispatched : hook[e].at \in AtReturn \cup {"done"} => (Returned(e)' <=> Returned(e))
    BY <1>3, <1>4, <2>4
  <2>6. \A e \in Dispatched : hook'[e].at \in AtReturn \cup {"done"} => returns'[e] # NoReturn
    BY <1>1, <1>3, <2>1, <2>3
  <2>7. \A e \in Dispatched :
          returns'[e] # NoReturn /\ hook'[e].at # "persisting" /\ copy'[e] # "writing" => returns'[e].whole
    BY <1>1, <1>3, <2>1, <2>2, <2>3
  <2>8. \A e, f \in Dispatched :
          hook'[e].at = "writing" /\ Returned(f)' /\ hook'[f].at \in {"writing", "done"} =>
            f \in hook'[e].merged.from
    BY <1>3, <2>1, <2>5 DEF AtReturn
  <2>9. QED
    BY <1>3, <2>1, <2>5, <2>6, <2>7, <2>8
<1>10. CASE Gathers(d)
  <2>1. \A e \in Dispatched \ {d} : hook[e].at \notin AtReturn /\ hook'[e].at \notin AtReturn
    BY <1>7, <1>10 DEF Gathers, AtReturn
  <2>2. /\ returns' = returns /\ mergedFacts' = mergedFacts /\ copy' = copy
        /\ hook[d].at = "merging" /\ hook'[d].at # "persisting" /\ ~Copied
    BY <1>10 DEF Gathers
  <2>3. \A e \in Dispatched : Returned(e)' <=> Returned(e)
    BY <2>2 DEF Returned
  <2>4. \A e \in Dispatched : Returned(e) => e \in Foundable
    <3>1. ASSUME NEW e \in Dispatched, Returned(e) PROVE e \in Foundable
      <4>1. hook[e].at # "persisting" /\ copy[e] # "writing"
        BY <2>1, <2>2 DEF AtReturn, Copied
      <4>2. QED
        BY <1>3, <3>1, <4>1 DEF Returned, Foundable
    <3>2. QED
      BY <3>1
  <2>5. \A e, f \in Dispatched : hook'[e].at \in AtReturn /\ hook'[f].at \in AtReturn => e = f
    BY <2>1
  <2>6. \A e \in Dispatched :
          returns'[e] # NoReturn /\ hook'[e].at # "persisting" /\ copy'[e] # "writing" => returns'[e].whole
    BY <1>1, <1>3, <2>2
  <2>7. \A e \in Dispatched : hook'[e].at \in AtReturn \cup {"done"} => returns'[e] # NoReturn
    <3>1. returns[d] # NoReturn
      BY <1>3, <2>2 DEF AtReturn
    <3>2. QED
      BY <1>1, <1>3, <2>2, <3>1
  <2>8. readDiscoveryReturns = << >> => \A e \in Dispatched : ~Returned(e)
    <3>1. SUFFICES ASSUME readDiscoveryReturns = << >>, NEW e \in Dispatched, Returned(e)
                   PROVE  FALSE
      OBVIOUS
    <3>2. e \in Range(readDiscoveryReturns)
      BY <2>4, <3>1, ReadsAll
    <3>3. QED
      BY <3>1, <3>2 DEF Range
  <2>9. \A e \in Dispatched : Returned(e)' /\ hook'[e].at = "done" =>
           mergedFacts' # NoReturn /\ e \in mergedFacts'.from
    <3>1. Returned(d)' => hook'[d].at # "done"
      BY <1>10, <2>3, <2>8 DEF Gathers
    <3>2. QED
      BY <1>1, <1>3, <2>2, <2>3, <3>1
  <2>10. ASSUME NEW e \in Dispatched, NEW f \in Dispatched, hook'[e].at = "writing", Returned(f)'
         PROVE  f \in hook'[e].merged.from
    <3>1. e = d
      BY <2>1, <2>10 DEF AtReturn
    <3>2. f \in Foundable
      BY <2>3, <2>4, <2>10
    <3>3. hook'[d].merged = mergeDiscoveryArtifacts(readDiscoveryReturns)
      BY <1>10, <2>10, <3>1 DEF Gathers
    <3>4. mergeDiscoveryArtifacts(readDiscoveryReturns).from = Foundable
      BY ReadsAll, MergeTells
    <3>5. QED
      BY <3>1, <3>2, <3>3, <3>4
  <2>11. QED
    BY <2>5, <2>6, <2>7, <2>9, <2>10
<1>11. CASE Publishes(d)
  <2>1. \A e \in Dispatched \ {d} : hook[e].at \notin AtReturn /\ hook'[e].at \notin AtReturn
    BY <1>7, <1>11 DEF Publishes, AtReturn
  <2>2. /\ returns' = returns /\ mergedFacts' = hook[d].merged /\ hook[d].at = "writing"
        /\ hook'[d].at = "done" /\ copy' = copy
    BY <1>11 DEF Publishes
  <2>3. \A e \in Dispatched : Returned(e)' <=> Returned(e)
    BY <2>2 DEF Returned
  <2>4. mergedFacts' # NoReturn
    BY <2>2 DEF ReturnsTypeOK
  <2>5. \A e \in Dispatched : Returned(e) /\ hook'[e].at = "done" => e \in mergedFacts'.from
    BY <1>1, <1>3, <2>2
  <2>6. \A e \in Dispatched : hook'[e].at \notin AtReturn
    BY <2>1, <2>2 DEF AtReturn
  <2>7. \A e \in Dispatched :
          returns'[e] # NoReturn /\ hook'[e].at # "persisting" /\ copy'[e] # "writing" => returns'[e].whole
    BY <1>1, <1>3, <2>2
  <2>8. \A e \in Dispatched : hook'[e].at \in AtReturn \cup {"done"} => returns'[e] # NoReturn
    <3>1. returns[d] # NoReturn
      BY <1>3, <2>2 DEF AtReturn
    <3>2. QED
      BY <1>1, <1>3, <2>2, <3>1
  <2>9. \A e \in Dispatched : hook'[e].at # "writing"
    BY <2>6 DEF AtReturn
  <2>10. QED
    BY <2>3, <2>4, <2>5, <2>6, <2>7, <2>8, <2>9
<1>12. QED
  BY <1>2, <1>5, <1>6, <1>8, <1>9, <1>10, <1>11 DEF Moves

LEMMA ReturnsStutter ==
  ASSUME ReturnsInv, UNCHANGED returnsVars
  PROVE  ReturnsInv'
<1>1. ReturnsTypeOK'
  BY DEF ReturnsInv, ReturnsTypeOK, returnsVars
<1>2. Filed'
  BY DEF ReturnsInv, Filed, AtReturn, returnsVars
<1>3. AllTell'
  <2>1. Said' = Said
    BY DEF Said, ClaimsOf, returnsVars
  <2>2. QED
    BY <2>1 DEF ReturnsInv, AllTell, SaysOf, returnsVars
<1>4. IndexExact'
  <2>1. Begun' = Begun /\ Started' = Started
    BY DEF Begun, Started, returnsVars
  <2>2. QED
    BY <2>1 DEF ReturnsInv, IndexExact, returnsVars
<1>5. MergeExact'
  BY DEF ReturnsInv, MergeExact, AtReturn, Returned, returnsVars
<1>6. QED
  BY <1>1, <1>2, <1>3, <1>4, <1>5 DEF ReturnsInv

\* Typing of the index, the returns and the merge (subagent-index.mjs, worker-returns.mjs).
THEOREM ReturnsInvHolds == ReturnsSpec => []ReturnsInv
<1>1. ReturnsInit => ReturnsInv
  BY ReturnsInitHolds
<1>2. ReturnsInv /\ [ReturnsNext]_returnsVars => ReturnsInv'
  <2> SUFFICES ASSUME ReturnsInv, [ReturnsNext]_returnsVars PROVE ReturnsInv'
    OBVIOUS
  <2>1. CASE UNCHANGED returnsVars
    BY <2>1, ReturnsStutter
  <2>2. CASE ReturnsNext
    <3>1. ReturnsTypeOK /\ Filed /\ AllTell /\ IndexExact /\ MergeExact
      BY DEF ReturnsInv
    <3>2. PICK d \in Dispatched : Moves(d)
      BY <2>2, <3>1, ReturnsMove
    <3>3. ReturnsTypeOK'
      BY <2>2, <3>1, ReturnsTyped
    <3>4. Filed'
      BY <3>1, <3>2, FiledStays
    <3>5. AllTell'
      BY <3>1, <3>2, AllTellStays
    <3>6. IndexExact'
      BY <3>1, <3>2, <3>3, IndexExactStays
    <3>7. MergeExact'
      BY <3>1, <3>2, MergeExactStays
    <3>8. QED
      BY <3>3, <3>4, <3>5, <3>6, <3>7 DEF ReturnsInv
  <2>3. QED
    BY <2>1, <2>2
<1>3. QED
  BY <1>1, <1>2, PTL DEF ReturnsSpec

\* The join.
THEOREM ReturnsJoinedHolds == ReturnsSpec => []ReturnsJoined
<1>1. ReturnsInv => ReturnsJoined
  <2> SUFFICES ASSUME ReturnsInv PROVE ReturnsJoined
    OBVIOUS
  <2>1. ReturnsTypeOK /\ Filed /\ AllTell /\ IndexExact /\ MergeExact
    BY DEF ReturnsInv
  <2>2. MergeKeepsEveryVoice
    <3>1. SUFFICES ASSUME mergedFacts # NoReturn PROVE MergeKeepsEveryVoice
      BY DEF MergeKeepsEveryVoice
    <3>2. Telling(mergedFacts, Said) /\ mergedFacts \in Merges
      BY <2>1, <3>1 DEF AllTell, SaysOf, ReturnsTypeOK
    <3>3. \A e \in Dispatched : Said[e] = Range(ClaimsOf(e))
      BY DEF Said
    <3>4. mergedFacts.from \subseteq Dispatched
      BY <3>2 DEF Merges
    <3>5. \A k \in mergedFacts.claims \cup mergedFacts.dropped : k.sources \subseteq Dispatched
      BY <3>2, <3>4 DEF Telling
    <3>6. \A d \in mergedFacts.from : \A c \in Range(ClaimsOf(d)) :
            \E k \in mergedFacts.claims \cup mergedFacts.dropped : k.file = c.file /\ d \in k.sources
      BY <3>2, <3>3, <3>4 DEF Telling
    <3>7. ASSUME NEW k \in mergedFacts.claims \cup mergedFacts.dropped
          PROVE  /\ k.conf = "high" => \/ Cardinality(k.sources) >= 2
                                       \/ \E e \in k.sources : \E c \in Range(ClaimsOf(e)) :
                                            c.file = k.file /\ c.conf = "high"
                 /\ ~k.needsReview =>
                      \A other \in (mergedFacts.claims \cup mergedFacts.dropped) \ {k} :
                        other.file # k.file
      <4>1. \A e \in k.sources : Said[e] = Range(ClaimsOf(e))
        BY <3>3, <3>5
      <4>2. QED
        BY <3>2, <4>1 DEF Telling
    <3>8. \A k \in mergedFacts.claims, x \in mergedFacts.dropped :
            Cardinality(k.sources) >= Cardinality(x.sources)
      BY <3>2 DEF Telling
    <3>9. QED
      BY <3>6, <3>7, <3>8 DEF MergeKeepsEveryVoice
  <2>3. ReturnsAttributedAndMerged
    <3>1. "start" \notin crossed /\ Cardinality({d \in Dispatched : hook[d].at # "idle"}) <= MAX_ENTRIES
            => \A d \in Dispatched : returns[d] # NoReturn => returns[d].name = hook[d].type
      BY <2>1 DEF IndexExact, Begun, Filed
    <3>2. /\ "merge" \notin crossed
          /\ \A e \in Dispatched : hook[e].at \notin {"persisting", "merging", "writing"}
          => \A d \in Dispatched : Returned(d) /\ hook[d].at = "done" =>
               mergedFacts # NoReturn /\ d \in mergedFacts.from
      BY <2>1 DEF MergeExact
    <3>3. QED
      BY <3>1, <3>2 DEF ReturnsAttributedAndMerged
  <2>4. QED
    BY <2>2, <2>3 DEF ReturnsJoined
<1>2. QED
  BY <1>1, ReturnsInvHolds, PTL

-----------------------------------------------------------------------------
(***************************************************************************)
(* The approvals.                                                          *)
(***************************************************************************)

PastDraft == {"spec-approved", "impl-started", "verification-passed", "pr-ready"}

ApprovalTyped ==
  /\ doc \in Docs
  /\ spec \in Texts
  /\ human \in HumanCalls \cup {NoCall}
  /\ guard \in [step : {"mismatch", "trace"}, digest : Texts] \cup {NoCall}
  /\ adv \in AdvCalls \cup {NoCall}
  /\ ticking \in Texts \cup {NoCall}

\* What a human's call is to write is approved already, unless the write is the
\* approval or goes back to the drafts.
CallsAreApproved ==
  human # NoCall =>
    /\ human.step = "asked" => human.to \in {"spec-approved", "pr-ready"}
    /\ human.step = "write" /\ human.to \in PastDraft \ {"spec-approved"} => human.base.digest \in approved
    /\ human.step \in {"trace", "continue", "start", "fail"} /\ human.to = "spec-approved"
         => human.base.digest \in approved
    /\ human.step \in {"continue", "start", "fail"} => human.to = "spec-approved"

\* A pinned commit that will not conflict is based on what is on disk.
PinnedIsFresh == adv # NoCall /\ ~adv.stale => adv.base = doc

ApprovalInv ==
  fixed = NoCall =>
    /\ ApprovalTyped /\ CallsAreApproved /\ PinnedIsFresh
    /\ doc.gate \in PastDraft => doc.digest \in approved

LEMMA ChainIs ==
  /\ DOMAIN LANE_EVIDENCE_CHAIN = 1 .. 9
  /\ LANE_EVIDENCE_CHAIN[1] = "lane-set" /\ LANE_EVIDENCE_CHAIN[2] = "discovery-done"
  /\ LANE_EVIDENCE_CHAIN[3] = "grill-done" /\ LANE_EVIDENCE_CHAIN[4] = "plan-done"
  /\ LANE_EVIDENCE_CHAIN[5] = "spec-draft" /\ LANE_EVIDENCE_CHAIN[6] = "spec-approved"
  /\ LANE_EVIDENCE_CHAIN[7] = "impl-started" /\ LANE_EVIDENCE_CHAIN[8] = "verification-passed"
  /\ LANE_EVIDENCE_CHAIN[9] = "pr-ready"
BY DEF LANE_EVIDENCE_CHAIN

LEMMA LateGatesAre == LateGates = {"plan-done", "spec-draft"} \cup PastDraft
BY ChainIs DEF LateGates, PastDraft

LEMMA PlacesAre == Place("plan-done") = 4 /\ Place("spec-draft") = 5
<1>1. \A i \in DOMAIN LANE_EVIDENCE_CHAIN : LANE_EVIDENCE_CHAIN[i] = "plan-done" <=> i = 4
  BY ChainIs
<1>2. \A i \in DOMAIN LANE_EVIDENCE_CHAIN : LANE_EVIDENCE_CHAIN[i] = "spec-draft" <=> i = 5
  BY ChainIs
<1>3. 4 \in DOMAIN LANE_EVIDENCE_CHAIN /\ 5 \in DOMAIN LANE_EVIDENCE_CHAIN
  BY ChainIs
<1>4. QED
  BY <1>1, <1>2, <1>3 DEF Place

LEMMA PastDraftIs ==
  ASSUME NEW gate \in LateGates, Place(gate) > Place("spec-draft")
  PROVE  gate \in PastDraft
BY LateGatesAre, PlacesAre

\* The doctor's target is a gate of the chain, spec-draft at the earliest.
LEMMA TargetIsLate == EvidenceBackedGate \in LateGates
<1> DEFINE backed == { i \in DOMAIN LANE_EVIDENCE_CHAIN : \A j \in 1 .. i : Backed(LANE_EVIDENCE_CHAIN[j]) }
<1>1. \A j \in 1 .. 5 : Backed(LANE_EVIDENCE_CHAIN[j])
  BY ChainIs DEF Backed, resolveArtifactPresent, HUMAN_AUDIT_GATES
<1>2. backed \subseteq 1 .. 9 /\ 5 \in backed
  BY <1>1, ChainIs
<1>3. EvidenceBackedGate = LANE_EVIDENCE_CHAIN[CHOOSE i \in backed : \A j \in backed : j <= i]
  BY DEF EvidenceBackedGate
<1> HIDE DEF backed
<1>4. \E i \in backed : \A j \in backed : j <= i
  BY <1>2
<1>5. PICK i \in backed : (\A j \in backed : j <= i) /\ EvidenceBackedGate = LANE_EVIDENCE_CHAIN[i]
  BY <1>3, <1>4
<1>6. i \in 4 .. 9
  BY <1>2, <1>5
<1>7. QED
  BY <1>5, <1>6 DEF LateGates

LEMMA InitApprovalInv == ApprovalInit => ApprovalInv
<1> SUFFICES ASSUME ApprovalInit PROVE ApprovalInv
  OBVIOUS
<1>1. doc \in Docs /\ spec \in Texts /\ doc.gate = "plan-done"
  BY LateGatesAre, ApprovalAssumption DEF ApprovalInit, Docs, Texts
<1>2. QED
  BY <1>1 DEF ApprovalInit, ApprovalInv, ApprovalTyped, CallsAreApproved, PinnedIsFresh, PastDraft

\* A write through the store, of a state whose digest is approved if it is past
\* the drafts, while the calls under way stay as they were.
LEMMA StoreKeeps ==
  ASSUME ApprovalTyped, PinnedIsFresh, NEW d \in Docs, Stored(d)
  PROVE  doc' \in Docs /\ adv' \in AdvCalls \cup {NoCall} /\ PinnedIsFresh'
<1>1. doc' = d
  BY DEF Stored, Moved
<1>2. CASE adv = NoCall
  BY <1>1, <1>2 DEF Stored, PinnedIsFresh, ApprovalTyped
<1>3. CASE adv # NoCall
  <2>1. adv' = [adv EXCEPT !.stale = TRUE] /\ adv \in AdvCalls
    BY <1>3 DEF Stored, ApprovalTyped
  <2>2. adv' \in AdvCalls /\ adv'.stale
    BY <2>1 DEF AdvCalls
  <2>3. QED
    BY <1>1, <2>2 DEF PinnedIsFresh
<1>4. QED
  BY <1>2, <1>3

LEMMA CallFields ==
  ASSUME NEW h \in HumanCalls
  PROVE  h.step \in {"asked", "write", "trace", "continue", "start", "fail"}
         /\ h.to \in LateGates /\ h.base \in Docs
BY DEF HumanCalls

LEMMA StepMoves ==
  ASSUME NEW h \in HumanCalls, NEW step \in {"asked", "write", "trace", "continue", "start", "fail"}
  PROVE  /\ [h EXCEPT !.step = step] \in HumanCalls
         /\ [h EXCEPT !.step = step].step = step /\ [h EXCEPT !.step = step].to = h.to
         /\ [h EXCEPT !.step = step].base = h.base
BY DEF HumanCalls

LEMMA GateMoves ==
  ASSUME NEW d \in Docs, NEW gate \in LateGates
  PROVE  /\ [d EXCEPT !.gate = gate] \in Docs
         /\ [d EXCEPT !.gate = gate].gate = gate /\ [d EXCEPT !.gate = gate].digest = d.digest
BY DEF Docs

LEMMA DigestMoves ==
  ASSUME NEW d \in Docs, NEW text \in Texts
  PROVE  /\ [d EXCEPT !.digest = text] \in Docs
         /\ [d EXCEPT !.digest = text].gate = d.gate /\ [d EXCEPT !.digest = text].digest = text
BY DEF Docs

LEMMA BothMove ==
  ASSUME NEW d \in Docs, NEW gate \in LateGates, NEW text \in Texts
  PROVE  /\ [d EXCEPT !.gate = gate, !.digest = text] \in Docs
         /\ [d EXCEPT !.gate = gate, !.digest = text].gate = gate
BY DEF Docs

\* The hook's move keeps the digest of whatever is past the drafts.
LEMMA AdvanceKeeps ==
  ASSUME NEW d \in Docs, spec \in Texts
  PROVE  /\ advanceAlongLane(d) \in Docs
         /\ advanceAlongLane(d).gate \in PastDraft
              => d.gate \in PastDraft /\ advanceAlongLane(d).digest = d.digest
<1> USE LateGatesAre
<1>1. d.gate \in LateGates /\ d.digest \in Texts
  BY DEF Docs
<1>2. CASE d.gate = "plan-done"
  <2> DEFINE e == [d EXCEPT !.digest = spec]
  <2>1. e \in Docs
    BY DigestMoves, <1>1
  <2>2. advanceAlongLane(d) = [e EXCEPT !.gate = "spec-draft"]
    BY <1>2 DEF advanceAlongLane
  <2> HIDE DEF e
  <2>3. advanceAlongLane(d) \in Docs /\ advanceAlongLane(d).gate = "spec-draft"
    BY <2>1, <2>2 DEF Docs
  <2>4. QED
    BY <2>3 DEF PastDraft
<1>3. CASE d.gate = "spec-draft"
  <2>1. advanceAlongLane(d) = [d EXCEPT !.digest = spec]
    BY <1>3 DEF advanceAlongLane
  <2>2. QED
    BY <1>1, <1>3, <2>1, DigestMoves DEF PastDraft
<1>4. CASE d.gate = "impl-started" /\ verified = d.digest
  <2>1. advanceAlongLane(d) = [d EXCEPT !.gate = "verification-passed"]
    BY <1>4 DEF advanceAlongLane
  <2>2. advanceAlongLane(d) \in Docs /\ advanceAlongLane(d).digest = d.digest
    BY <2>1 DEF Docs, PastDraft
  <2>3. QED
    BY <1>4, <2>2 DEF PastDraft
<1>5. CASE d.gate \in PastDraft /\ ~(d.gate = "impl-started" /\ verified = d.digest)
  <2>1. advanceAlongLane(d) = d
    BY <1>5 DEF advanceAlongLane, PastDraft
  <2>2. QED
    BY <1>5, <2>1
<1>6. QED
  BY <1>1, <1>2, <1>3, <1>4, <1>5

\* Only verification-passed leads to pr-ready.
LEMMA PrComesFromVerified ==
  ASSUME NEW gate \in LateGates, <<gate, "pr-ready">> \in LEGAL_TRANSITIONS
  PROVE  gate = "verification-passed"
<1>1. \A e \in (UNION {TRANSITIONS[l] : l \in Lanes}) \cup STEERING :
        e.to = "pr-ready" => e.from = "verification-passed"
  BY DEF TRANSITIONS, STEERING, Edge, PrTail, Lanes
<1>2. QED
  BY <1>1, LateGatesAre DEF LEGAL_TRANSITIONS, LINEAR_SPINE, PastDraft

LEMMA StepApprovalInv == ApprovalInv /\ [ApprovalNext]_approvalVars => ApprovalInv'
<1> SUFFICES ASSUME ApprovalInv, [ApprovalNext]_approvalVars
             PROVE  ApprovalInv'
  OBVIOUS
<1>1. CASE UNCHANGED approvalVars
  BY <1>1 DEF approvalVars, ApprovalInv, ApprovalTyped, CallsAreApproved, PinnedIsFresh
<1> SUFFICES ASSUME ApprovalNext PROVE ApprovalInv'
  BY <1>1
<1> USE LateGatesAre
<1> DEFINE DigestIsApproved == doc.gate \in PastDraft => doc.digest \in approved
           Kept == ApprovalTyped' /\ CallsAreApproved' /\ PinnedIsFresh' /\ DigestIsApproved'
<1>2. /\ ApprovalTyped /\ CallsAreApproved /\ PinnedIsFresh /\ DigestIsApproved
      /\ doc \in Docs /\ doc.gate \in LateGates /\ doc.digest \in Texts /\ spec \in Texts
      /\ human # NoCall => human \in HumanCalls
  BY DEF ApprovalNext, ApprovalInv, ApprovalTyped, Docs
<1> SUFFICES ASSUME ~runGateConsistency PROVE ApprovalInv'
  <2>1. CASE runGateConsistency
    <3>1. fixed' \in DoctorMoves
      <4>1. PICK torn \in BOOLEAN :
              fixed' = [from |-> doc.gate, to |-> EvidenceBackedGate, found |-> analyzeGateConsistency(torn)]
        BY <2>1 DEF runGateConsistency
      <4>2. analyzeGateConsistency(torn) \in SUBSET Divergences
        BY DEF analyzeGateConsistency
      <4>3. QED
        BY <1>2, <4>1, <4>2, TargetIsLate DEF DoctorMoves
    <3>2. QED
      BY <3>1, DoctorAssumption DEF ApprovalInv
  <2>2. QED
    BY <2>1
<1> SUFFICES Kept
  BY DEF ApprovalInv
<1>3. CASE ApproveSpecAsks
  <2> DEFINE h == AskedFor("spec-approved")
  <2>1. h \in HumanCalls /\ h.step = "asked" /\ h.to = "spec-approved" /\ h.base = doc
    BY <1>2 DEF AskedFor, HumanCalls, PastDraft
  <2>2. /\ human' = IF doc.gate = "spec-approved" THEN [h EXCEPT !.step = "continue"] ELSE h
        /\ UNCHANGED <<doc, spec, guard, adv, approved, ticking>>
    BY <1>3 DEF ApproveSpecAsks, Keep
  <2> HIDE DEF h
  <2>3. /\ human' \in HumanCalls /\ human'.to = "spec-approved" /\ human'.base = doc
        /\ human'.step \in {"asked", "continue"}
        /\ human'.step = "continue" => doc.gate = "spec-approved"
    BY <1>2, <2>1, <2>2, StepMoves
  <2>4. QED
    BY <1>2, <2>2, <2>3 DEF ApprovalTyped, CallsAreApproved, PinnedIsFresh, PastDraft
<1>4. CASE ApprovePrAsks
  <2>1. human' = [step |-> "asked", to |-> "pr-ready", base |-> doc]
    BY <1>4 DEF ApprovePrAsks, AskedFor
  <2>2. human' \in HumanCalls /\ human'.step = "asked" /\ human'.to = "pr-ready"
    BY <1>2, <2>1 DEF HumanCalls, PastDraft
  <2>3. UNCHANGED <<doc, spec, guard, adv, approved, ticking>>
    BY <1>4 DEF ApprovePrAsks, Keep
  <2>4. QED
    BY <1>2, <2>2, <2>3 DEF ApprovalTyped, CallsAreApproved, PinnedIsFresh
<1>5. CASE HumanGateChecks
  <2>1. /\ human \in HumanCalls /\ human.step = "asked" /\ human.to \in {"spec-approved", "pr-ready"}
        /\ UNCHANGED <<doc, spec, guard, adv, approved, ticking>>
    BY <1>2, <1>5 DEF HumanGateChecks, Keep, CallsAreApproved
  <2>2. CASE human' = NoCall
    BY <1>2, <2>1, <2>2 DEF ApprovalTyped, CallsAreApproved, PinnedIsFresh
  <2>3. CASE /\ human' = [human EXCEPT !.step = "write", !.base = doc]
             /\ <<human.base.gate, human.to>> \in LEGAL_TRANSITIONS /\ doc.gate = human.base.gate
    <3>1. human' \in HumanCalls /\ human'.step = "write" /\ human'.to = human.to /\ human'.base = doc
      BY <1>2, <2>1, <2>3 DEF HumanCalls
    <3>2. human.to = "pr-ready" => doc.gate = "verification-passed"
      BY <1>2, <2>3, PrComesFromVerified
    <3>3. QED
      BY <1>2, <2>1, <3>1, <3>2 DEF ApprovalTyped, CallsAreApproved, PinnedIsFresh, PastDraft
  <2>4. QED
    BY <1>5, <2>2, <2>3 DEF HumanGateChecks
<1>6. CASE HumanGateWrites
  <2> DEFINE next == [human.base EXCEPT !.gate = human.to]
  <2>1. human \in HumanCalls /\ human.step = "write" /\ human.to \in LateGates /\ human.base \in Docs
    BY <1>2, <1>6, CallFields DEF HumanGateWrites
  <2>2. /\ Stored(next) /\ human' = [human EXCEPT !.step = "trace", !.base = next]
        /\ approved \subseteq approved'
        /\ human.to = "spec-approved" => human.base.digest \in approved'
        /\ UNCHANGED <<spec, guard, ticking>>
    BY <1>6 DEF HumanGateWrites, Keep
  <2>3. next \in Docs /\ next.gate = human.to /\ next.digest = human.base.digest
    BY <2>1, GateMoves DEF Docs
  <2> HIDE DEF next
  <2>4. doc' \in Docs /\ adv' \in AdvCalls \cup {NoCall} /\ PinnedIsFresh' /\ doc' = next
    BY <1>2, <2>2, <2>3, StoreKeeps DEF Stored, Moved
  <2>5. human' \in HumanCalls /\ human'.step = "trace" /\ human'.to = human.to /\ human'.base = next
    BY <2>1, <2>2, <2>3 DEF HumanCalls
  <2>6. human.to \in PastDraft => human.base.digest \in approved'
    BY <1>2, <1>6, <2>1, <2>2 DEF CallsAreApproved, HumanGateWrites
  <2>7. QED
    BY <1>2, <2>2, <2>3, <2>4, <2>5, <2>6 DEF ApprovalTyped, CallsAreApproved, PastDraft
<1>7. CASE appendGateTransitionEvent \/ continueApprovedFeature
  <2>1. /\ human # NoCall /\ human \in HumanCalls /\ human.step \in {"trace", "continue"}
        /\ UNCHANGED <<doc, spec, guard, adv, approved, ticking>>
    BY <1>2, <1>7 DEF appendGateTransitionEvent, continueApprovedFeature, Keep
  <2>2. \/ human' = NoCall
        \/ /\ human.to = "spec-approved"
           /\ \E step \in {"continue", "start", "fail"} : human' = [human EXCEPT !.step = step]
    BY <1>2, <1>7 DEF appendGateTransitionEvent, continueApprovedFeature, CallsAreApproved
  <2>3. \/ human' = NoCall
        \/ /\ human' \in HumanCalls /\ human'.step \in {"continue", "start", "fail"}
           /\ human'.to = "spec-approved" /\ human'.base = human.base /\ human.to = "spec-approved"
    <3>1. ASSUME NEW step \in {"continue", "start", "fail"}, human' = [human EXCEPT !.step = step]
          PROVE  human' \in HumanCalls /\ human'.step = step /\ human'.to = human.to
                 /\ human'.base = human.base
      BY <2>1, <3>1 DEF HumanCalls
    <3>2. QED
      BY <2>2, <3>1
  <2>4. QED
    BY <1>2, <2>1, <2>3 DEF ApprovalTyped, CallsAreApproved, PinnedIsFresh
<1>8. CASE ContinuationWrites
  <2> DEFINE next == [human.base EXCEPT !.gate = "impl-started"]
  <2>1. human \in HumanCalls /\ human.step = "start" /\ human.base \in Docs
    BY <1>2, <1>8, CallFields DEF ContinuationWrites
  <2>2. human.base.digest \in approved
    BY <1>2, <1>8, <2>1 DEF ContinuationWrites, CallsAreApproved
  <2>3. next \in Docs /\ next.digest = human.base.digest
    BY <2>1, GateMoves DEF Docs, PastDraft
  <2>4. Stored(next) /\ human' = NoCall /\ UNCHANGED <<spec, guard, approved, ticking>>
    BY <1>8 DEF ContinuationWrites, Keep
  <2> HIDE DEF next
  <2>5. doc' \in Docs /\ adv' \in AdvCalls \cup {NoCall} /\ PinnedIsFresh' /\ doc' = next
    BY <1>2, <2>3, <2>4, StoreKeeps DEF Stored, Moved
  <2>6. QED
    BY <1>2, <2>2, <2>3, <2>4, <2>5 DEF ApprovalTyped, CallsAreApproved
<1>9. CASE persistContinuationError \/ recordDomainContext
  <2>1. /\ Stored(doc) /\ human' \in {human, NoCall}
        /\ UNCHANGED <<spec, guard, approved, ticking>>
    BY <1>9 DEF persistContinuationError, recordDomainContext, Keep
  <2>2. adv' \in AdvCalls \cup {NoCall} /\ PinnedIsFresh' /\ doc' = doc
    BY <1>2, <2>1, StoreKeeps DEF Stored, Moved
  <2>3. QED
    BY <1>2, <2>1, <2>2 DEF ApprovalTyped, CallsAreApproved
<1>10. ASSUME NEW to \in {"spec-draft", "plan-done"}, handleSteeringPhrase(to)
      PROVE  Kept
  <2>1. human' = [step |-> "write", to |-> to, base |-> doc]
        /\ UNCHANGED <<doc, spec, guard, adv, approved, ticking>>
    BY <1>10 DEF handleSteeringPhrase, Keep
  <2>2. human' \in HumanCalls /\ human'.step = "write" /\ human'.to = to
    BY <1>2, <2>1 DEF HumanCalls
  <2>3. QED
    BY <1>2, <2>1, <2>2 DEF ApprovalTyped, CallsAreApproved, PinnedIsFresh, PastDraft
<1>11. CASE SpecEdited \/ Verified
  <2>1. spec' \in Texts /\ UNCHANGED <<doc, human, guard, adv, approved, ticking>>
    BY <1>2, <1>11, ApprovalAssumption DEF SpecEdited, Verified, Texts
  <2>2. QED
    BY <1>2, <2>1 DEF ApprovalTyped, CallsAreApproved, PinnedIsFresh
<1>12. CASE CompleteAcTicks
  <2>1. spec' \in Texts /\ ticking' \in Texts /\ UNCHANGED <<doc, human, guard, adv, approved>>
    BY <1>12 DEF CompleteAcTicks
  <2>2. QED
    BY <1>2, <2>1 DEF ApprovalTyped, CallsAreApproved, PinnedIsFresh
<1>13. CASE recordArtifactHash
  <2> DEFINE next == [doc EXCEPT !.digest = ticking]
  <2>1. /\ ticking \in Texts /\ Stored(next) /\ ticking' = NoCall
        /\ approved' = approved \cup {ticking} /\ UNCHANGED <<spec, human, guard>>
    BY <1>2, <1>13 DEF recordArtifactHash, ApprovalTyped
  <2>2. next \in Docs /\ next.digest = ticking
    BY <1>2, <2>1, DigestMoves
  <2> HIDE DEF next
  <2>3. doc' \in Docs /\ adv' \in AdvCalls \cup {NoCall} /\ PinnedIsFresh' /\ doc' = next
    BY <1>2, <2>1, <2>2, StoreKeeps DEF Stored, Moved
  <2>4. QED
    BY <1>2, <2>1, <2>2, <2>3 DEF ApprovalTyped, CallsAreApproved
<1>14. CASE GuardReads
  <2>1. guard' \in [step : {"mismatch", "trace"}, digest : Texts]
        /\ UNCHANGED <<doc, spec, human, adv, approved, ticking>>
    BY <1>2, <1>14 DEF GuardReads, Keep
  <2>2. QED
    BY <1>2, <2>1 DEF ApprovalTyped, CallsAreApproved, PinnedIsFresh
<1>15. CASE rollbackState
  <2> DEFINE next == [doc EXCEPT !.gate = "spec-draft", !.digest = guard.digest]
  <2>1. guard \in [step : {"mismatch", "trace"}, digest : Texts]
    BY <1>2, <1>15 DEF rollbackState, ApprovalTyped
  <2>2. /\ Stored(next) /\ guard' = [guard EXCEPT !.step = "trace"]
        /\ UNCHANGED <<spec, human, approved, ticking>>
    BY <1>15 DEF rollbackState, Keep
  <2>3. next \in Docs /\ next.gate = "spec-draft"
    <3>1. guard.digest \in Texts
      BY <2>1
    <3>2. QED
      BY <1>2, <3>1, BothMove
  <2> HIDE DEF next
  <2>4. doc' \in Docs /\ adv' \in AdvCalls \cup {NoCall} /\ PinnedIsFresh' /\ doc' = next
    BY <1>2, <2>2, <2>3, StoreKeeps DEF Stored, Moved
  <2>5. guard' \in [step : {"mismatch", "trace"}, digest : Texts]
    BY <2>1, <2>2
  <2>6. QED
    BY <1>2, <2>2, <2>3, <2>4, <2>5 DEF ApprovalTyped, CallsAreApproved, PastDraft
<1>16. CASE recordSpecInvalidated
  <2>1. guard' = NoCall /\ UNCHANGED <<doc, spec, human, adv, approved, ticking>>
    BY <1>16 DEF recordSpecInvalidated, Keep
  <2>2. QED
    BY <1>2, <2>1 DEF ApprovalTyped, CallsAreApproved, PinnedIsFresh
<1>17. CASE AdvanceReads
  <2>1. adv' = [base |-> doc, tries |-> 0, stale |-> FALSE]
        /\ UNCHANGED <<doc, spec, human, guard, approved, ticking>>
    BY <1>17 DEF AdvanceReads, Keep
  <2>2. adv' \in AdvCalls /\ adv'.base = doc
    BY <1>2, <2>1 DEF AdvCalls
  <2>3. QED
    BY <1>2, <2>1, <2>2 DEF ApprovalTyped, CallsAreApproved, PinnedIsFresh
<1>18. CASE AdvanceCommits
  <2>1. UNCHANGED <<spec, human, guard, approved, ticking>>
    BY <1>18 DEF AdvanceCommits, Keep
  <2>2. CASE ~adv.stale /\ doc' = advanceAlongLane(adv.base) /\ adv' = NoCall
    <3>1. adv.base = doc
      BY <1>2, <1>18, <2>2 DEF AdvanceCommits, PinnedIsFresh
    <3>2. doc' \in Docs /\ (doc'.gate \in PastDraft => doc.gate \in PastDraft /\ doc'.digest = doc.digest)
      BY <1>2, <2>2, <3>1, AdvanceKeeps
    <3>3. QED
      BY <1>2, <2>1, <2>2, <3>2 DEF ApprovalTyped, CallsAreApproved, PinnedIsFresh
  <2>3. CASE /\ doc' = doc
             /\ adv' \in {[base |-> doc, tries |-> adv.tries + 1, stale |-> FALSE], NoCall}
             /\ adv' # NoCall => adv.tries < 2
    <3>1. adv # NoCall /\ adv \in AdvCalls
      BY <1>2, <1>18 DEF AdvanceCommits, ApprovalTyped
    <3>2. adv' \in AdvCalls \cup {NoCall} /\ (adv' # NoCall => adv'.base = doc)
      <4>1. adv.tries \in 0 .. 2
        BY <3>1 DEF AdvCalls
      <4>2. adv' # NoCall => adv.tries + 1 \in 0 .. 2
        BY <2>3, <4>1
      <4>3. CASE adv' = NoCall
        BY <4>3
      <4>4. CASE adv' # NoCall /\ adv' = [base |-> doc, tries |-> adv.tries + 1, stale |-> FALSE]
        <5>1. adv' \in AdvCalls
          BY <1>2, <4>2, <4>4 DEF AdvCalls
        <5>2. QED
          BY <4>4, <5>1
      <4>5. QED
        BY <2>3, <4>3, <4>4
    <3>3. QED
      BY <1>2, <2>1, <2>3, <3>2 DEF ApprovalTyped, CallsAreApproved, PinnedIsFresh
  <2>4. QED
    BY <1>18, <2>2, <2>3 DEF AdvanceCommits, Moved
<1>19. QED
  BY <1>3, <1>4, <1>5, <1>6, <1>7, <1>8, <1>9, <1>10, <1>11, <1>12, <1>13, <1>14, <1>15, <1>16, <1>17, <1>18
     DEF ApprovalNext

\* Up to the doctor's first move no task past the draft of its spec records a
\* digest nobody approved, for any number of texts and any order of the calls.
THEOREM ApprovedDigestOnlyHolds == ApprovalSpec => []ApprovedDigestOnly
<1>1. ApprovalInv => ApprovedDigestOnly
  BY PastDraftIs DEF ApprovalInv, ApprovalTyped, Docs, ApprovedDigestOnly
<1>2. QED
  BY <1>1, InitApprovalInv, StepApprovalInv, PTL DEF ApprovalSpec

-----------------------------------------------------------------------------
(* What the state is like, whatever happens.                               *)

LEMMA EventTyped ==
  ASSUME trace \in GateEvents, NEW to \in LateGates, NEW audited \in BOOLEAN
  PROVE  Event(to, audited) \in GateEvents
BY DEF Event, GateEvents

LEMMA ApprovalTypes == ApprovalSpec => []ApprovalTypeOK
<1>1. ApprovalInit => ApprovalTypeOK
  <2>1. "plan-done" \in LateGates
    BY LateGatesAre
  <2>2. 1 \in Texts
    BY ApprovalAssumption DEF Texts
  <2>3. QED
    BY <2>1, <2>2 DEF ApprovalInit, ApprovalTypeOK, Docs, GateEvents
<1>2. ASSUME ApprovalInv, ApprovalTypeOK, ApprovalNext
      PROVE  ApprovalTypeOK'
  <2>1. /\ doc \in Docs /\ doc.gate \in LateGates /\ doc.digest \in Texts /\ trace \in GateEvents
        /\ human # NoCall => human \in HumanCalls
        /\ ticking # NoCall => ticking \in Texts
    BY <1>2 DEF ApprovalTypeOK, Docs
  <2>2. CASE runGateConsistency
    <3>1. PICK torn \in BOOLEAN :
            /\ fixed' = [from |-> doc.gate, to |-> EvidenceBackedGate, found |-> analyzeGateConsistency(torn)]
            /\ doc' = [doc EXCEPT !.gate = EvidenceBackedGate] /\ trace' = Event(EvidenceBackedGate, TRUE)
            /\ UNCHANGED <<spec, verified, human, guard, adv, ticking, approved>>
      BY <2>2 DEF runGateConsistency, Moved
    <3>2. analyzeGateConsistency(torn) \in SUBSET Divergences
      BY DEF analyzeGateConsistency
    <3>3. fixed' \in DoctorMoves
      BY <2>1, <3>1, <3>2, TargetIsLate DEF DoctorMoves
    <3>4. doc' \in Docs
      BY <2>1, <3>1, TargetIsLate DEF Docs
    <3>5. trace' \in GateEvents
      BY <2>1, <3>1, TargetIsLate, EventTyped
    <3>6. QED
      BY <1>2, <3>1, <3>3, <3>4, <3>5 DEF ApprovalTypeOK
  <2>3. CASE ~runGateConsistency
    <3>1. fixed' = NoCall
      BY <1>2, <2>3 DEF ApprovalNext, ApproveSpecAsks, ApprovePrAsks, HumanGateChecks, HumanGateWrites,
         appendGateTransitionEvent, continueApprovedFeature, ContinuationWrites, persistContinuationError,
         handleSteeringPhrase, recordDomainContext, SpecEdited, CompleteAcTicks, recordArtifactHash,
         GuardReads, rollbackState, recordSpecInvalidated, Verified, AdvanceReads, AdvanceCommits, Keep
    <3>2. ApprovalTyped'
      BY <1>2, <3>1, StepApprovalInv DEF ApprovalInv
    <3>3. verified' \in Texts \cup {NoCall}
      BY <1>2, <2>1, <2>3 DEF ApprovalNext, ApproveSpecAsks, ApprovePrAsks, HumanGateChecks, HumanGateWrites,
         appendGateTransitionEvent, continueApprovedFeature, ContinuationWrites, persistContinuationError,
         handleSteeringPhrase, recordDomainContext, SpecEdited, CompleteAcTicks, recordArtifactHash,
         GuardReads, rollbackState, recordSpecInvalidated, Verified, AdvanceReads, AdvanceCommits, Keep,
         ApprovalTypeOK
    <3>4. trace' \in GateEvents
      <4>1. CASE appendGateTransitionEvent
        <5>1. human.to \in LateGates
          BY <2>1, <4>1 DEF appendGateTransitionEvent, HumanCalls
        <5>2. QED
          BY <2>1, <4>1, <5>1, EventTyped DEF appendGateTransitionEvent
      <4>2. CASE recordSpecInvalidated
        BY <2>1, <4>2, EventTyped, LateGatesAre DEF recordSpecInvalidated
      <4>3. CASE AdvanceCommits
        <5>1. doc'.gate \in LateGates
          BY <3>2 DEF ApprovalTyped, Docs
        <5>2. QED
          BY <2>1, <4>3, <5>1, EventTyped DEF AdvanceCommits
      <4>4. CASE UNCHANGED trace
        BY <2>1, <4>4
      <4>5. QED
        BY <1>2, <2>3, <4>1, <4>2, <4>3, <4>4 DEF ApprovalNext, ApproveSpecAsks, ApprovePrAsks,
           HumanGateChecks, HumanGateWrites, continueApprovedFeature, ContinuationWrites,
           persistContinuationError, handleSteeringPhrase, recordDomainContext, SpecEdited,
           CompleteAcTicks, recordArtifactHash, GuardReads, rollbackState, Verified, AdvanceReads
    <3>5. approved' \in SUBSET Texts
      <4>1. CASE HumanGateWrites
        <5>1. human.base.digest \in Texts
          BY <2>1, <4>1 DEF HumanGateWrites, HumanCalls, Docs
        <5>2. QED
          BY <1>2, <4>1, <5>1 DEF HumanGateWrites, ApprovalTypeOK
      <4>2. CASE recordArtifactHash
        BY <1>2, <2>1, <4>2 DEF recordArtifactHash, ApprovalTypeOK
      <4>3. CASE UNCHANGED approved
        BY <1>2, <4>3 DEF ApprovalTypeOK
      <4>4. QED
        BY <1>2, <2>3, <4>1, <4>2, <4>3 DEF ApprovalNext, ApproveSpecAsks, ApprovePrAsks,
           HumanGateChecks, appendGateTransitionEvent, continueApprovedFeature, ContinuationWrites,
           persistContinuationError, handleSteeringPhrase, recordDomainContext, SpecEdited,
           CompleteAcTicks, GuardReads, rollbackState, recordSpecInvalidated, Verified, AdvanceReads,
           AdvanceCommits
    <3>6. QED
      BY <3>1, <3>2, <3>3, <3>4, <3>5 DEF ApprovalTyped, ApprovalTypeOK
  <2>4. QED
    BY <2>2, <2>3
<1>3. ApprovalTypeOK /\ UNCHANGED approvalVars => ApprovalTypeOK'
  BY DEF ApprovalTypeOK, approvalVars
<1>4. QED
  BY <1>1, <1>2, <1>3, InitApprovalInv, StepApprovalInv, PTL DEF ApprovalSpec

-----------------------------------------------------------------------------
(***************************************************************************)
(* The PR review gate.                                                     *)
(***************************************************************************)

-----------------------------------------------------------------------------
(* The context.                                                            *)

\* A cut list is of the files, and names one if there is one.
LEMMA CapKeepsOne ==
  ASSUME NEW files \in SUBSET PrFiles
  PROVE  /\ capList(files) \subseteq files
         /\ capList(files) = {} <=> files = {}
<1>1. capList(files) \subseteq files
  BY DEF capList
<1>2. ASSUME files # {}
      PROVE  capList(files) # {}
  <2>1. files \in SUBSET Nat
    BY PrReviewAssumption
  <2>2. PICK f \in files : \A g \in files : f <= g
    BY <1>2, <2>1, LeastNatural
  <2> DEFINE before == { g \in files : g < f }
  <2>3. before = {}
    <3>1. \A g \in files : f \in Nat /\ g \in Nat /\ ~(g < f)
      BY <2>1, <2>2
    <3>2. QED
      BY <3>1
  <2>4. Cardinality(before) = 0
    BY <2>3, FS_EmptySet
  <2>5. f \in capList(files) <=> Cardinality(before) < MAX_LIST
    BY DEF capList
  <2> HIDE DEF before
  <2>6. QED
    BY <2>4, <2>5, PrReviewAssumption
<1>3. QED
  BY <1>1, <1>2

PrStates == [ id : PrTasks, lane : {"feature", "bug"},
              gate : {"no-lane", "impl-started", "verification-passed", "pr-ready"} ]

BranchStates == [listed : BOOLEAN, diff : Diffs, untracked : SUBSET PrFiles]
PrLanes == {"feature", "bug"}
RepoGatherings == [at : {"repo"}, id : PrTasks, lane : PrLanes, listed : BOOLEAN, met : BOOLEAN]
NamesGatherings ==
  [ at : {"names"}, id : PrTasks, lane : PrLanes, listed : BOOLEAN, met : BOOLEAN,
    diff : Diffs, cut : SUBSET {"diff"} ]

\* A whole diff that met no edit is still the branch's.
GatheringInv ==
  /\ branch \in BranchStates
  /\ gather \in {NotGathering} \cup RepoGatherings \cup NamesGatherings
  /\ gather.at = "names" /\ ~gather.met /\ "diff" \notin gather.cut => gather.diff = branch.diff

ContextOwned == context # NoContext => context.id \in PrTasks /\ context.lane \in PrLanes

ReviewInv == GatheringInv /\ ContextOwned /\ ContextTellsTheDiff

LEMMA GatheringKinds ==
  ASSUME GatheringInv
  PROVE  /\ gather = NotGathering => gather.at = "idle"
         /\ gather.at = "repo" => gather \in RepoGatherings
         /\ gather.at = "names" => gather \in NamesGatherings
BY DEF GatheringInv, NotGathering, RepoGatherings, NamesGatherings

LEMMA NamesAreFiles ==
  ASSUME NEW diff \in Diffs
  PROVE  /\ parseNameStatus(diff) \in SUBSET PrFiles
         /\ diff.edited \in SUBSET PrFiles
         /\ diff.renamed \in SUBSET (PrFiles \X PrFiles)
<1>1. /\ diff.edited \in SUBSET PrFiles
      /\ diff.renamed \in SUBSET (PrFiles \X PrFiles)
  BY DEF Diffs
<1>2. \A r \in diff.renamed : r[2] \in PrFiles
  BY <1>1
<1>3. QED
  BY <1>1, <1>2 DEF parseNameStatus

LEMMA CutShortIsPart ==
  ASSUME NEW files, NEW part \in CutShort(files)
  PROVE  part \in SUBSET files
BY DEF CutShort

\* What is written tells the diff it was given with what was listed of it.
LEMMA WrittenContext ==
  ASSUME NEW c, NEW diff \in Diffs, NEW changed \in SUBSET parseNameStatus(diff),
         NEW lane \in PrLanes, NEW listed \in BOOLEAN,
         c.diff = diff, c.changedFiles = capList(changed),
         c.signals = alignmentSignals(lane, listed, changed),
         c.listed = listed, c.lane = lane,
         "names" \notin c.cut => changed = parseNameStatus(diff),
         ~c.truncated => capList(changed) = changed
  PROVE  Tells(c)
<1> DEFINE allowed == IF listed THEN PlannedFiles
                      ELSE IF lane = "bug" THEN PrFiles ELSE {}
           names == parseNameStatus(diff)
           signals == alignmentSignals(lane, listed, changed)
           stray == signals.outOfScopeFiles \cup signals.unlistedFiles
<1>0. names \in SUBSET PrFiles /\ changed \in SUBSET PrFiles
  BY NamesAreFiles
<1>1. stray = capList(changed \ allowed)
  <2>1. capList({}) = {}
    BY CapKeepsOne
  <2>2. CASE lane = "feature"
    BY <2>2 DEF alignmentSignals
  <2>3. CASE lane = "bug" /\ listed
    BY <2>3 DEF alignmentSignals
  <2>4. CASE lane = "bug" /\ ~listed
    BY <1>0, <2>1, <2>4 DEF alignmentSignals
  <2>5. QED
    BY <2>2, <2>3, <2>4 DEF PrLanes
<1>2. /\ stray \subseteq changed \ allowed /\ (stray = {} <=> changed \ allowed = {})
      /\ capList(changed) \subseteq changed
  <2>1. changed \ allowed \in SUBSET PrFiles
    BY <1>0
  <2> HIDE DEF allowed
  <2>2. QED
    BY <1>0, <1>1, <2>1, CapKeepsOne
<1>3. signals.regressionTestPresent <=> changed \cap TestFiles # {}
  BY DEF alignmentSignals
<1>4. capList(changed) = changed => capList(changed \ allowed) = changed \ allowed
  <2> SUFFICES ASSUME capList(changed) = changed, NEW f \in changed \ allowed
               PROVE  f \in capList(changed \ allowed)
    BY <1>1, <1>2
  <2>1. Cardinality({ g \in changed : g < f }) < MAX_LIST
    BY DEF capList
  <2>2. /\ IsFiniteSet({ g \in changed : g < f })
        /\ { g \in changed \ allowed : g < f } \in SUBSET { g \in changed : g < f }
    BY <1>0, PrReviewAssumption, FS_Subset
  <2>3. /\ Cardinality({ g \in changed \ allowed : g < f }) <= Cardinality({ g \in changed : g < f })
        /\ IsFiniteSet({ g \in changed \ allowed : g < f })
    BY <2>2, FS_Subset
  <2>4. /\ Cardinality({ g \in changed \ allowed : g < f }) \in Nat
        /\ Cardinality({ g \in changed : g < f }) \in Nat
    BY <2>2, <2>3, FS_CardinalityType
  <2>5. QED
    BY <2>1, <2>3, <2>4, PrReviewAssumption DEF capList
<1> DEFINE stray1 == c.signals.outOfScopeFiles \cup c.signals.unlistedFiles
           allowed1 == IF c.listed THEN PlannedFiles
                       ELSE IF c.lane = "bug" THEN PrFiles ELSE {}
           names1 == parseNameStatus(c.diff)
<1>5. /\ stray1 = stray /\ allowed1 = allowed /\ names1 = names
      /\ c.signals.regressionTestPresent = signals.regressionTestPresent
  OBVIOUS
<1> HIDE DEF signals, allowed, stray, names
<1>6. /\ c.changedFiles \subseteq names1
      /\ stray1 \subseteq names1 \ allowed1
      /\ c.signals.regressionTestPresent => names1 \cap TestFiles # {}
  <2> HIDE DEF stray1, allowed1, names1
  <2>1. changed \subseteq names
    BY DEF names
  <2>2. QED
    BY <1>2, <1>3, <1>5, <2>1
<1>7. ASSUME "names" \notin c.cut
      PROVE  /\ (stray1 = {}) <=> (names1 \subseteq allowed1)
             /\ c.signals.regressionTestPresent <=> (names1 \cap TestFiles # {})
             /\ ~c.truncated => c.changedFiles = names1 /\ stray1 = names1 \ allowed1
  <2> HIDE DEF stray1, allowed1, names1
  <2>1. changed = names
    BY <1>7 DEF names
  <2>2. stray = {} <=> names \subseteq allowed
    BY <1>2, <2>1
  <2>3. QED
    BY <1>1, <1>2, <1>3, <1>4, <1>5, <2>1, <2>2
<1>8. QED
  BY <1>6, <1>7, Zenon DEF Tells

\* Of some contexts nothing is said.
LEMMA NothingToTell ==
  ASSUME NEW c, ~c.available \/ c.met \/ "diff" \in c.cut
  PROVE  Tells(c)
BY Zenon DEF Tells

LEMMA StepReviewInv ==
  ASSUME ReviewInv, pr \in PrStates, [ReviewNext \/ EditBranch]_reviewVars
  PROVE  ReviewInv'
<1>1. GatheringInv /\ ContextOwned /\ ContextTellsTheDiff
  BY DEF ReviewInv
<1>2. ASSUME context' = context
      PROVE  ContextOwned' /\ ContextTellsTheDiff'
  <2>1. ContextOwned'
    BY <1>1, <1>2 DEF ContextOwned
  <2>2. ContextTellsTheDiff'
    BY <1>1, <1>2 DEF ContextTellsTheDiff, Tells
  <2>3. QED
    BY <2>1, <2>2
<1>3. CASE GatherArtifacts(pr.id, pr.lane)
  <2>1. gather' \in RepoGatherings /\ gather'.at = "repo" /\ branch' = branch /\ context' = context
    BY <1>1, <1>3 DEF GatherArtifacts, RepoGatherings, GatheringInv, BranchStates, PrStates, PrLanes
  <2>2. QED
    BY <1>1, <1>2, <2>1 DEF ReviewInv, GatheringInv
<1>4. CASE NoWorkTree
  <2>1. gather \in RepoGatherings
    BY <1>1, <1>4, GatheringKinds DEF NoWorkTree
  <2>2. /\ gather' = NotGathering /\ branch' = branch
        /\ context'.available = FALSE /\ context'.id = gather.id /\ context'.lane = gather.lane
    BY <1>4 DEF NoWorkTree, Finalized
  <2>3. ContextOwned' /\ ContextTellsTheDiff'
    <3>1. ContextOwned'
      BY <2>1, <2>2 DEF ContextOwned, RepoGatherings
    <3>2. ~context'.available
      BY <2>2
    <3>3. Tells(context')
      BY <3>2, NothingToTell
    <3>4. QED
      BY <3>1, <3>3 DEF ContextTellsTheDiff, Tells
  <2>4. QED
    BY <1>1, <2>2, <2>3 DEF ReviewInv, GatheringInv, NotGathering
<1>5. CASE TakeDiff
  <2>1. gather \in RepoGatherings /\ branch \in BranchStates
    BY <1>1, <1>5, GatheringKinds DEF TakeDiff, GatheringInv
  <2>2. PICK diff \in Diffs, cut \in SUBSET {"diff"} :
          /\ gather' = [at |-> "names", id |-> gather.id, lane |-> gather.lane,
                        listed |-> gather.listed, met |-> gather.met, diff |-> diff, cut |-> cut]
          /\ "diff" \notin cut => diff = branch.diff
    <3>1. branch.diff \in Diffs
      BY <2>1 DEF BranchStates
    <3>2. [edited : CutShort(branch.diff.edited), renamed : SUBSET branch.diff.renamed] \subseteq Diffs
      <4>1. CutShort(branch.diff.edited) \subseteq SUBSET PrFiles
        BY <3>1, NamesAreFiles, CutShortIsPart
      <4>2. SUBSET branch.diff.renamed \subseteq SUBSET (PrFiles \X PrFiles)
        BY <3>1, NamesAreFiles
      <4>3. QED
        BY <4>1, <4>2 DEF Diffs
    <3>3. QED
      BY <1>5, <3>1, <3>2 DEF TakeDiff
  <2>3. branch' = branch /\ context' = context
    BY <1>5 DEF TakeDiff
  <2>4. gather' \in NamesGatherings /\ gather'.cut = cut /\ gather'.diff = diff
    BY <2>1, <2>2 DEF RepoGatherings, NamesGatherings
  <2>5. QED
    BY <1>1, <1>2, <2>2, <2>3, <2>4 DEF ReviewInv, GatheringInv
<1>6. CASE ListAndWrite
  <2>1. gather \in NamesGatherings /\ branch \in BranchStates
    BY <1>1, <1>6, GatheringKinds DEF ListAndWrite, GatheringInv
  <2> DEFINE names == parseNameStatus(branch.diff)
  <2>2. PICK changed \in SUBSET names, cut \in SUBSET {"diff", "names"} :
          /\ \E untracked : context' = Finalized(TRUE, gather.diff, cut, changed, untracked)
          /\ gather.cut \subseteq cut
          /\ "names" \notin cut => changed = names
    <3> DEFINE Wrote == \E listing \in SUBSET names, c \in SUBSET {"diff", "names"} :
                          /\ \E untracked : context' = Finalized(TRUE, gather.diff, c, listing, untracked)
                          /\ gather.cut \subseteq c
                          /\ "names" \notin c => listing = names
    <3>1. gather.cut \in SUBSET {"diff"}
      BY <2>1 DEF NamesGatherings
    <3>2. gather.cut \in SUBSET {"diff", "names"} /\ gather.cut \cup {"names"} \in SUBSET {"diff", "names"}
      BY <3>1
    <3>3. ASSUME NEW untracked,
                 context' = Finalized(TRUE, gather.diff, gather.cut, names, untracked)
          PROVE  Wrote
      <4> HIDE DEF names
      <4>1. QED
        BY <3>2, <3>3
    <3>4. ASSUME NEW listing \in CutShort(names),
                 context' = Finalized(TRUE, gather.diff, gather.cut \cup {"names"}, listing,
                                      branch.untracked)
          PROVE  Wrote
      <4>1. listing \in SUBSET names
        BY CutShortIsPart
      <4> HIDE DEF names
      <4>2. QED
        BY <3>2, <3>4, <4>1
    <3> HIDE DEF Wrote
    <3>5. Wrote
      BY <1>6, <3>3, <3>4 DEF ListAndWrite
    <3>6. QED
      BY <3>5 DEF Wrote
  <2>3. gather' = NotGathering /\ branch' = branch
    BY <1>6 DEF ListAndWrite
  <2>4. GatheringInv'
    BY <1>1, <2>3 DEF GatheringInv, NotGathering
  <2>5. /\ context'.id = gather.id /\ context'.lane = gather.lane /\ context'.met = gather.met
        /\ context'.cut = cut /\ context'.diff = gather.diff
        /\ context'.changedFiles = capList(changed) /\ context'.listed = gather.listed
        /\ context'.signals = alignmentSignals(gather.lane, gather.listed, changed)
        /\ ~context'.truncated => capList(changed) = changed
    <3> HIDE DEF names
    <3>1. PICK untracked : context' = Finalized(TRUE, gather.diff, cut, changed, untracked)
      BY <2>2
    <3>2. QED
      BY <3>1 DEF Finalized
  <2>6. ContextOwned'
    BY <2>1, <2>5 DEF ContextOwned, NamesGatherings
  <2>7. Tells(context')
    <3>1. CASE gather.met \/ "diff" \in cut
      <4>1. context'.met \/ "diff" \in context'.cut
        BY <2>5, <3>1
      <4>2. QED
        BY <4>1, NothingToTell
    <3>2. CASE ~gather.met /\ "diff" \notin cut
      <4>1. gather.at = "names" /\ "diff" \notin gather.cut
        BY <2>1, <2>2, <3>2 DEF NamesGatherings
      <4>2. /\ gather.diff = branch.diff /\ gather.diff \in Diffs
            /\ gather.lane \in PrLanes /\ gather.listed \in BOOLEAN
        BY <1>1, <2>1, <3>2, <4>1 DEF GatheringInv, NamesGatherings
      <4>3. /\ changed \in SUBSET parseNameStatus(gather.diff)
            /\ "names" \notin cut => changed = parseNameStatus(gather.diff)
        BY <2>2, <4>2
      <4> HIDE DEF names
      <4>4. QED
        BY <2>5, <4>2, <4>3, WrittenContext
    <3>3. QED
      BY <3>1, <3>2
  <2>8. QED
    BY <2>4, <2>6, <2>7 DEF ReviewInv, ContextTellsTheDiff, Tells
<1>7. CASE WriteLost
  <2>1. gather' = NotGathering /\ branch' = branch /\ context' = context
    BY <1>7 DEF WriteLost
  <2>2. QED
    BY <1>1, <1>2, <2>1 DEF ReviewInv, GatheringInv, NotGathering
<1>8. CASE EditBranch
  <2>1. PICK b \in BranchStates : Edited(b)
    <3> DEFINE Somehow == \E b \in BranchStates : Edited(b)
    <3>1. /\ branch \in BranchStates /\ branch.diff \in Diffs
          /\ branch.untracked \in SUBSET PrFiles
      BY <1>1 DEF GatheringInv, BranchStates
    <3>2. /\ branch.diff.edited \in SUBSET PrFiles
          /\ branch.diff.renamed \in SUBSET (PrFiles \X PrFiles)
      BY <3>1, NamesAreFiles
    <3>3. \A d \in Diffs, u \in SUBSET PrFiles :
            [branch EXCEPT !.diff = d, !.untracked = u] \in BranchStates
      BY <3>1 DEF BranchStates
    <3>4. \A d \in Diffs :
            [branch EXCEPT !.diff = d] \in BranchStates
      BY <3>1 DEF BranchStates
    <3>5. \A e \in SUBSET PrFiles : [branch.diff EXCEPT !.edited = e] \in Diffs
      BY <3>1 DEF Diffs
    <3>6. ASSUME NEW f \in PrFiles,
                 Edited([branch EXCEPT !.diff.edited = IF f \in @ THEN @ \ {f} ELSE @ \cup {f}])
          PROVE  Somehow
      <4> DEFINE e == IF f \in branch.diff.edited THEN branch.diff.edited \ {f}
                      ELSE branch.diff.edited \cup {f}
                 b == [branch EXCEPT !.diff = [branch.diff EXCEPT !.edited = e]]
      <4>1. e \in SUBSET PrFiles
        BY <3>2
      <4>2. Edited(b)
        BY <3>6
      <4> HIDE DEF e
      <4>3. b \in BranchStates
        BY <3>4, <3>5, <4>1
      <4> HIDE DEF b
      <4>4. QED
        BY <4>2, <4>3
    <3>7. ASSUME NEW f \in PrFiles, NEW g \in PrFiles,
                 Edited([branch EXCEPT !.diff.renamed = @ \cup {<<f, g>>}])
          PROVE  Somehow
      <4> DEFINE r == branch.diff.renamed \cup {<<f, g>>}
                 b == [branch EXCEPT !.diff = [branch.diff EXCEPT !.renamed = r]]
      <4>1. r \in SUBSET (PrFiles \X PrFiles)
        BY <3>2
      <4>2. Edited(b)
        BY <3>7
      <4> HIDE DEF r
      <4>3. [branch.diff EXCEPT !.renamed = r] \in Diffs
        BY <3>1, <4>1 DEF Diffs
      <4>4. b \in BranchStates
        BY <3>4, <4>3
      <4> HIDE DEF b
      <4>5. QED
        BY <4>2, <4>4
    <3>8. ASSUME NEW r \in branch.diff.renamed,
                 Edited([branch EXCEPT !.diff = [edited |-> @.edited \cup {r[1], r[2]},
                                                 renamed |-> @.renamed \ {r}]])
          PROVE  Somehow
      <4> DEFINE d == [edited |-> branch.diff.edited \cup {r[1], r[2]},
                       renamed |-> branch.diff.renamed \ {r}]
                 b == [branch EXCEPT !.diff = d]
      <4>1. r[1] \in PrFiles /\ r[2] \in PrFiles
        BY <3>2
      <4>2. d \in Diffs
        BY <3>2, <4>1 DEF Diffs
      <4>3. Edited(b)
        BY <3>8
      <4> HIDE DEF d
      <4>4. b \in BranchStates
        BY <3>4, <4>2
      <4> HIDE DEF b
      <4>5. QED
        BY <4>3, <4>4
    <3>9. ASSUME NEW f \in PrFiles, Edited([branch EXCEPT !.untracked = @ \cup {f}])
          PROVE  Somehow
      <4> DEFINE b == [branch EXCEPT !.untracked = branch.untracked \cup {f}]
      <4>1. branch.untracked \cup {f} \in SUBSET PrFiles
        BY <3>1
      <4>2. b \in BranchStates /\ Edited(b)
        BY <3>1, <3>9, <4>1 DEF BranchStates
      <4> HIDE DEF b
      <4>3. QED
        BY <4>2
    <3>10. ASSUME NEW f \in branch.untracked,
                  Edited([branch EXCEPT !.untracked = @ \ {f}, !.diff.edited = @ \cup {f}])
           PROVE  Somehow
      <4> DEFINE u == branch.untracked \ {f}
                 e == branch.diff.edited \cup {f}
                 d == [branch.diff EXCEPT !.edited = e]
                 b == [branch EXCEPT !.diff = d, !.untracked = u]
      <4>1. u \in SUBSET PrFiles /\ e \in SUBSET PrFiles
        BY <3>1, <3>2
      <4>2. b = [branch EXCEPT !.untracked = branch.untracked \ {f},
                               !.diff.edited = branch.diff.edited \cup {f}]
        BY <3>1 DEF BranchStates
      <4>3. Edited(b)
        BY <3>10, <4>2
      <4> HIDE DEF u, e
      <4>4. d \in Diffs
        BY <3>5, <4>1
      <4> HIDE DEF d
      <4>5. b \in BranchStates
        BY <3>3, <4>1, <4>4
      <4> HIDE DEF b
      <4>6. QED
        BY <4>3, <4>5
    <3>11. [branch EXCEPT !.listed = TRUE] \in BranchStates
      BY <3>1 DEF BranchStates
    <3>12. QED
      BY <1>8, <3>6, <3>7, <3>8, <3>9, <3>10, <3>11 DEF EditBranch
  <2>2. /\ branch' = b /\ context' = context
        /\ gather' = IF gather = NotGathering THEN gather ELSE [gather EXCEPT !.met = TRUE]
    BY <2>1 DEF Edited
  <2>3. /\ gather' \in {NotGathering} \cup RepoGatherings \cup NamesGatherings
        /\ gather'.at = "names" => gather'.met
    <3>1. CASE gather = NotGathering
      BY <2>2, <3>1 DEF NotGathering
    <3>2. CASE gather \in RepoGatherings \cup NamesGatherings /\ gather # NotGathering
      BY <2>2, <3>2 DEF RepoGatherings, NamesGatherings
    <3>3. QED
      BY <1>1, <3>1, <3>2 DEF GatheringInv
  <2>4. QED
    BY <1>2, <2>1, <2>2, <2>3 DEF ReviewInv, GatheringInv
<1>9. CASE UNCHANGED reviewVars
  <2>1. GatheringInv' /\ context' = context
    BY <1>1, <1>9 DEF reviewVars, GatheringInv
  <2>2. QED
    BY <1>2, <2>1 DEF ReviewInv
<1>10. QED
  BY <1>3, <1>4, <1>5, <1>6, <1>7, <1>8, <1>9 DEF ReviewNext, GatherNext

LEMMA InitReviewInv == ReviewInit => ReviewInv
<1> SUFFICES ASSUME ReviewInit
             PROVE  ReviewInv
  OBVIOUS
<1>1. [NoDiff EXCEPT !.edited = PrFiles] \in Diffs
  BY DEF NoDiff, Diffs
<1>2. branch \in BranchStates
  BY <1>1 DEF ReviewInit, BranchStates
<1>3. QED
  BY <1>2 DEF ReviewInit, ReviewInv, GatheringInv, ContextOwned, ContextTellsTheDiff, NotGathering

-----------------------------------------------------------------------------
(* The entries.                                                            *)
Checks == {"ac", "review"}

EntryStates == [ by : {"hook", "human"}, base : PrStates, at : {"ac", "review", "commit"},
                 found : SUBSET Checks, recorded : SUBSET Checks,
                 overtaken : BOOLEAN, lost : BOOLEAN ]

PrTyped ==
  /\ pr \in PrStates
  /\ entering \in {NotEntering} \cup EntryStates
  /\ verdict \in {NoVerdict, Unparseable} \cup Owned
  /\ endorsed \in [PrTasks -> {NoVerdict} \cup Endorsements]

\* The verdict on disk is what its task's latest review said.
VerdictIsTheLatest ==
  verdict \notin {NoVerdict, Unparseable} =>
    endorsed[verdict.id] = IF verdict.approve
                           THEN [id |-> verdict.id, lane |-> verdict.lane, told |-> TRUE]
                           ELSE NoVerdict

\* What a check that is behind a call has left of it.
Settled(check) ==
  IF Holds(check) THEN check \notin entering.found \cup entering.recorded
  ELSE \/ policy[check] = "off"
       \/ policy[check] = "block" /\ check \in entering.found
       \/ policy[check] = "warn" /\ (check \in entering.recorded \/ entering.lost)

\* A call nothing overtook is about the task there is, and the checks behind
\* it have looked at what there is.
EntryIsCurrent ==
  entering # NotEntering /\ ~entering.overtaken =>
    /\ entering.base = pr
    /\ entering.at = "ac" => entering.found = {} /\ entering.recorded = {}
    /\ entering.at = "review" => "review" \notin entering.found \cup entering.recorded
    /\ entering.at # "ac" => Settled("ac")
    /\ entering.at = "commit" /\ entering.by = "human" => Settled("review")

PrInv == PrTyped /\ VerdictIsTheLatest /\ EntryIsCurrent

LEMMA EntryKinds ==
  ASSUME PrTyped
  PROVE  /\ NotEntering \notin EntryStates
         /\ entering # NotEntering => entering \in EntryStates
BY DEF PrTyped, NotEntering, EntryStates

LEMMA InitPrInv == PrInit => PrInv
<1> SUFFICES ASSUME PrInit
             PROVE  PrInv
  OBVIOUS
<1>1. FirstTask \in PrTasks
  BY PrAssumption DEF FirstTask
<1>2. pr \in PrStates
  BY <1>1 DEF PrInit, PrStates
<1>3. endorsed \in [PrTasks -> {NoVerdict} \cup Endorsements]
  BY DEF PrInit
<1>4. PrTyped
  BY <1>2, <1>3 DEF PrInit, PrTyped
<1>5. QED
  BY <1>4 DEF PrInit, PrInv, VerdictIsTheLatest, EntryIsCurrent

\* For the task a current call is about, a check fails exactly if what it asks
\* for is not there.
LEMMA FailingIsNotHolding ==
  ASSUME PrInv, entering \in EntryStates, entering.base = pr
  PROVE  /\ Uncovered <=> ~Holds("ac")
         /\ Unreviewed <=> ~Holds("review")
<1>1. CheckedTask = pr.id
  BY DEF CheckedTask
<1>2. pr.lane \in {"feature", "bug"}
  BY DEF PrInv, PrTyped, PrStates
<1>3. Uncovered <=> ~Holds("ac")
  <2>1. Holds("ac") <=> criteria \subseteq done[pr.id] /\ (pr.lane = "feature" => criteria # {})
    BY DEF Holds
  <2>2. Uncovered <=> IF criteria = {} THEN pr.lane = "feature" ELSE ~(criteria \subseteq done[pr.id])
    BY <1>1 DEF Uncovered
  <2>3. QED
    BY <2>1, <2>2
<1>4. Unreviewed <=> ~Holds("review")
  <2>1. CASE verdict \in {NoVerdict, Unparseable}
    BY <2>1 DEF Unreviewed, Holds
  <2>2. CASE verdict \notin {NoVerdict, Unparseable}
    <3>1. endorsed[verdict.id] = IF verdict.approve
                                 THEN [id |-> verdict.id, lane |-> verdict.lane, told |-> TRUE]
                                 ELSE NoVerdict
      BY <2>2 DEF PrInv, VerdictIsTheLatest
    <3>2. Holds("review") <=>
            /\ endorsed[pr.id] = [id |-> pr.id, lane |-> pr.lane, told |-> TRUE]
            /\ verdict.id = pr.id
      BY <2>2 DEF Holds
    <3>3. Unreviewed <=> verdict.id # pr.id \/ verdict.lane # pr.lane \/ ~verdict.approve
      BY <1>1, <2>2 DEF Unreviewed
    <3>4. NoVerdict # [id |-> pr.id, lane |-> pr.lane, told |-> TRUE]
      <4>1. pr.id \in PrTasks
        BY DEF PrInv, PrTyped, PrStates
      <4>2. [id |-> pr.id, lane |-> pr.lane, told |-> TRUE] \in Endorsements
        BY <1>2, <4>1 DEF Endorsements
      <4>3. QED
        BY <4>2, PrAssumption
    <3>5. CASE verdict.id # pr.id
      BY <3>2, <3>3, <3>5
    <3>6. CASE verdict.id = pr.id /\ ~verdict.approve
      BY <3>1, <3>2, <3>3, <3>4, <3>6
    <3>7. CASE verdict.id = pr.id /\ verdict.approve
      <4>1. endorsed[pr.id] = [id |-> pr.id, lane |-> verdict.lane, told |-> TRUE]
        BY <3>1, <3>7
      <4>2. endorsed[pr.id].lane = verdict.lane
        BY <4>1
      <4>3. endorsed[pr.id] = [id |-> pr.id, lane |-> pr.lane, told |-> TRUE]
              <=> verdict.lane = pr.lane
        <5>1. ASSUME endorsed[pr.id] = [id |-> pr.id, lane |-> pr.lane, told |-> TRUE]
              PROVE  verdict.lane = pr.lane
          <6>1. endorsed[pr.id].lane = pr.lane
            BY <5>1
          <6>2. QED
            BY <4>2, <6>1, Zenon
        <5>2. ASSUME verdict.lane = pr.lane
              PROVE  endorsed[pr.id] = [id |-> pr.id, lane |-> pr.lane, told |-> TRUE]
          BY <4>1, <5>2, Zenon
        <5>3. QED
          BY <5>1, <5>2, Zenon
      <4>4. Holds("review") <=> verdict.lane = pr.lane
        BY <3>2, <3>7, <4>3, Zenon
      <4>5. Unreviewed <=> verdict.lane # pr.lane
        BY <3>3, <3>7, Zenon
      <4>6. QED
        BY <4>4, <4>5
    <3>8. QED
      BY <3>5, <3>6, <3>7
  <2>3. QED
    BY <2>1, <2>2
<1>5. QED
  BY <1>3, <1>4

\* What happens around a call leaves it, or marks it overtaken.
LEMMA OvertakenIsKept ==
  ASSUME PrTyped, Overtakes
  PROVE  /\ entering' \in {NotEntering} \cup EntryStates
         /\ EntryIsCurrent'
<1>1. CASE entering = NotEntering
  BY <1>1 DEF Overtakes, EntryIsCurrent
<1>2. CASE entering # NotEntering
  <2>1. entering \in EntryStates
    BY <1>2, EntryKinds
  <2>2. entering' = [entering EXCEPT !.overtaken = TRUE]
    BY <1>2 DEF Overtakes
  <2>3. entering' \in EntryStates /\ entering'.overtaken
    BY <2>1, <2>2 DEF EntryStates
  <2>4. QED
    BY <2>3 DEF EntryIsCurrent
<1>3. QED
  BY <1>1, <1>2

\* One check of a call.
LEMMA CheckSettles ==
  ASSUME NEW check \in Checks, NEW next \in {"review", "commit"}, NEW failing,
         entering \in EntryStates,
         \/ (~failing \/ policy[check] = "off") /\ entering' = [entering EXCEPT !.at = next]
         \/ /\ failing /\ policy[check] = "block"
            /\ entering' = [entering EXCEPT !.at = next, !.found = @ \cup {check}]
         \/ /\ failing /\ policy[check] = "warn"
            /\ \/ entering' = [entering EXCEPT !.at = next, !.recorded = @ \cup {check}]
               \/ entering' = [entering EXCEPT !.at = next, !.lost = TRUE]
  PROVE  /\ entering' \in EntryStates /\ entering'.at = next
         /\ entering'.by = entering.by /\ entering'.base = entering.base
         /\ entering'.overtaken = entering.overtaken
         /\ entering.lost => entering'.lost
         /\ entering.found \subseteq entering'.found
         /\ entering'.found \subseteq entering.found \cup {check}
         /\ entering.recorded \subseteq entering'.recorded
         /\ entering'.recorded \subseteq entering.recorded \cup {check}
         /\ ~failing => entering'.found = entering.found /\ entering'.recorded = entering.recorded
         /\ failing => \/ policy[check] = "off"
                       \/ policy[check] = "block" /\ check \in entering'.found
                       \/ policy[check] = "warn" /\ (check \in entering'.recorded \/ entering'.lost)
<1>1. CASE entering' = [entering EXCEPT !.at = next] /\ (~failing \/ policy[check] = "off")
  BY <1>1 DEF EntryStates
<1>2. CASE /\ failing /\ policy[check] = "block"
           /\ entering' = [entering EXCEPT !.at = next, !.found = @ \cup {check}]
  <2>1. entering.found \cup {check} \in SUBSET Checks
    BY DEF EntryStates
  <2>2. QED
    BY <1>2, <2>1 DEF EntryStates
<1>3. CASE /\ failing /\ policy[check] = "warn"
           /\ entering' = [entering EXCEPT !.at = next, !.recorded = @ \cup {check}]
  <2>1. entering.recorded \cup {check} \in SUBSET Checks
    BY DEF EntryStates
  <2>2. QED
    BY <1>3, <2>1 DEF EntryStates
<1>4. CASE /\ failing /\ policy[check] = "warn"
           /\ entering' = [entering EXCEPT !.at = next, !.lost = TRUE]
  BY <1>4 DEF EntryStates
<1>5. QED
  BY <1>1, <1>2, <1>3, <1>4

\* The task's own steps, on whatever contexts there are.
EntryStep == Surroundings \/ EntryNext

LEMMA StepPrInv ==
  ASSUME PrInv, ContextOwned, ContextTellsTheDiff, [EntryStep]_prVars
  PROVE  PrInv'
<1>1. PrTyped /\ VerdictIsTheLatest /\ EntryIsCurrent
  BY DEF PrInv
<1>2. ASSUME Overtakes, pr' \in PrStates, UNCHANGED <<verdict, endorsed>>
      PROVE  PrInv'
  BY <1>1, <1>2, OvertakenIsKept DEF PrInv, PrTyped, VerdictIsTheLatest
<1>3. CASE EditConfig \/ EditSpec \/ CompleteCriterion
  <2>1. Overtakes /\ pr' = pr /\ UNCHANGED <<verdict, endorsed>>
    BY <1>3 DEF EditConfig, EditSpec, CompleteCriterion
  <2>2. QED
    BY <1>1, <1>2, <2>1 DEF PrTyped
<1>4. CASE Implement
  <2>1. PICK lane \in {"feature", "bug"} : pr' = [pr EXCEPT !.lane = lane, !.gate = "impl-started"]
    BY <1>4 DEF Implement
  <2>2. pr' \in PrStates
    BY <1>1, <2>1 DEF PrTyped, PrStates
  <2>3. QED
    BY <1>2, <1>4, <2>2 DEF Implement
<1>5. CASE NextTask
  <2>1. pr' \in PrStates
    BY <1>5 DEF NextTask, PrStates
  <2>2. QED
    BY <1>2, <1>5, <2>1 DEF NextTask
<1>7. CASE Review
  <2>1. Overtakes /\ pr' = pr /\ context # NoContext
    BY <1>7 DEF Review
  <2>2. context.id \in PrTasks /\ context.lane \in PrLanes
    BY <2>1 DEF ContextOwned
  <2> DEFINE Fits == /\ verdict' \in {NoVerdict, Unparseable} \cup Owned
                     /\ endorsed' \in [PrTasks -> {NoVerdict} \cup Endorsements]
                     /\ VerdictIsTheLatest'
  <2>3. Fits
    <3>1. CASE verdict' = Unparseable /\ endorsed' = endorsed
      BY <1>1, <3>1 DEF PrTyped, VerdictIsTheLatest
    <3>2. ASSUME NEW ok \in BOOLEAN, context.available,
                 verdict' = [id |-> context.id, lane |-> context.lane, approve |-> ok],
                 endorsed' = [endorsed EXCEPT ![context.id] = IF ok THEN Approved(context)
                                                              ELSE NoVerdict]
          PROVE  Fits
      <4> DEFINE told == [id |-> context.id, lane |-> context.lane, told |-> TRUE]
      <4>1. verdict' \in Owned
        BY <2>2, <3>2 DEF Owned, PrLanes
      <4>2. Approved(context) = told
        <5>1. (context.available /\ Tells(context)) = TRUE
          BY <2>1, <3>2 DEF ContextTellsTheDiff
        <5>2. QED
          BY Zenon, <5>1 DEF Approved
      <4>3. told \in Endorsements
        BY <2>2 DEF Endorsements, PrLanes
      <4>4. endorsed' = [endorsed EXCEPT ![context.id] = IF ok THEN told ELSE NoVerdict]
        BY <3>2, <4>2
      <4> HIDE DEF told
      <4>5. endorsed' \in [PrTasks -> {NoVerdict} \cup Endorsements]
        BY <1>1, <2>2, <4>3, <4>4 DEF PrTyped
      <4>6. endorsed'[context.id] = IF ok THEN told ELSE NoVerdict
        BY <1>1, <2>2, <4>4 DEF PrTyped
      <4>7. VerdictIsTheLatest'
        BY <3>2, <4>6 DEF VerdictIsTheLatest, told
      <4>8. QED
        BY <4>1, <4>5, <4>7
    <3> HIDE DEF Fits
    <3>3. QED
      BY <1>7, <3>1, <3>2, Zenon DEF Review
  <2>4. QED
    BY <1>1, <2>1, <2>3, OvertakenIsKept DEF PrInv, PrTyped
<1>8. CASE StartEntry
  <2>1. PICK by \in {"hook", "human"} :
          entering' = [by |-> by, base |-> pr, at |-> "ac", found |-> {}, recorded |-> {},
                       overtaken |-> FALSE, lost |-> FALSE]
    BY <1>8 DEF StartEntry, Entries
  <2>2. UNCHANGED <<pr, verdict, endorsed>>
    BY <1>8 DEF StartEntry
  <2>3. entering' \in EntryStates
    BY <1>1, <2>1 DEF PrTyped, EntryStates
  <2>4. EntryIsCurrent'
    BY <2>1, <2>2 DEF EntryIsCurrent
  <2>5. QED
    BY <1>1, <2>2, <2>3, <2>4 DEF PrInv, PrTyped, VerdictIsTheLatest
<1>9. ASSUME NEW check \in Checks, NEW next \in {"review", "commit"}, entering # NotEntering,
             check = "ac" => entering.at = "ac" /\ (next = "commit" <=> entering.by = "hook"),
             check = "review" => entering.at = "review" /\ next = "commit",
             Checked(check, IF check = "ac" THEN Uncovered ELSE Unreviewed, next),
             UNCHANGED <<pr, policy, criteria, done, verdict, endorsed>>
      PROVE  PrInv'
  <2> DEFINE failing == IF check = "ac" THEN Uncovered ELSE Unreviewed
  <2>1. entering \in EntryStates
    BY <1>1, <1>9, EntryKinds
  <2>2. /\ entering' \in EntryStates /\ entering'.at = next
        /\ entering'.by = entering.by /\ entering'.base = entering.base
        /\ entering'.overtaken = entering.overtaken
        /\ entering.lost => entering'.lost
        /\ entering.found \subseteq entering'.found
        /\ entering'.found \subseteq entering.found \cup {check}
        /\ entering.recorded \subseteq entering'.recorded
        /\ entering'.recorded \subseteq entering.recorded \cup {check}
        /\ ~failing => entering'.found = entering.found /\ entering'.recorded = entering.recorded
        /\ failing => \/ policy[check] = "off"
                      \/ policy[check] = "block" /\ check \in entering'.found
                      \/ policy[check] = "warn" /\ (check \in entering'.recorded \/ entering'.lost)
    <3> HIDE DEF failing
    <3>1. Checked(check, failing, next)
      BY <1>9 DEF failing
    <3>2. QED
      BY <1>9, <2>1, <3>1, CheckSettles DEF Checked
  <2>3. \A c \in Checks : Holds(c)' = Holds(c)
    BY <1>9 DEF Holds
  <2>4. EntryIsCurrent'
    <3> SUFFICES ASSUME entering'.overtaken = FALSE
                 PROVE  EntryIsCurrent'
      BY <2>2 DEF EntryIsCurrent, EntryStates
    <3>1. entering.base = pr /\ ~entering.overtaken
      BY <1>1, <1>9, <2>2 DEF EntryIsCurrent
    <3>2. failing <=> ~Holds(check)
      BY <2>1, <3>1, FailingIsNotHolding DEF Checks
    <3>3. check \notin entering.found \cup entering.recorded
      BY <1>1, <1>9, <3>1 DEF EntryIsCurrent, Checks
    <3>4. Settled(check)'
      BY <1>9, <2>2, <2>3, <3>2, <3>3 DEF Settled
    <3>5. CASE check = "ac"
      <4>1. "review" \notin entering'.found \cup entering'.recorded
        BY <1>1, <1>9, <2>2, <3>1, <3>5 DEF EntryIsCurrent
      <4>2. QED
        BY <1>9, <2>2, <3>1, <3>4, <3>5, <4>1 DEF EntryIsCurrent
    <3>6. CASE check = "review"
      <4>1. Settled("ac")
        BY <1>1, <1>9, <3>1, <3>6 DEF EntryIsCurrent
      <4>2. Settled("ac")'
        BY <1>9, <2>2, <2>3, <3>6, <4>1 DEF Settled, Checks
      <4>3. QED
        BY <1>9, <2>2, <3>1, <3>4, <3>6, <4>2 DEF EntryIsCurrent
    <3>7. QED
      BY <3>5, <3>6 DEF Checks
  <2>5. QED
    BY <1>1, <1>9, <2>2, <2>4 DEF PrInv, PrTyped, VerdictIsTheLatest
<1>10. CASE acCoveragePrecondition
  <2>1. CASE entering.by = "hook"
    BY <1>9, <1>10, <2>1 DEF acCoveragePrecondition, Checks
  <2>2. CASE entering.by # "hook"
    BY <1>9, <1>10, <2>2 DEF acCoveragePrecondition, Checks
  <2>3. QED
    BY <2>1, <2>2
<1>11. CASE prReviewPrecondition
  BY <1>9, <1>11 DEF prReviewPrecondition, Checks
<1>12. CASE CommitEntry
  <2>1. entering' = NotEntering /\ UNCHANGED <<verdict, endorsed>>
    BY <1>12 DEF CommitEntry
  <2>2. pr' \in PrStates
    <3>1. entering \in EntryStates
      BY <1>1, <1>12, EntryKinds DEF CommitEntry
    <3>2. [entering.base EXCEPT !.gate = Entries[entering.by]] \in PrStates
      BY <3>1 DEF EntryStates, PrStates, Entries
    <3>3. QED
      BY <1>1, <1>12, <3>2 DEF CommitEntry, PrTyped
  <2>3. QED
    BY <1>1, <2>1, <2>2 DEF PrInv, PrTyped, VerdictIsTheLatest, EntryIsCurrent
<1>13. CASE UNCHANGED prVars
  BY <1>1, <1>13 DEF prVars, PrInv, PrTyped, VerdictIsTheLatest, EntryIsCurrent, Settled, Holds
<1>14. QED
  BY <1>3, <1>4, <1>5, <1>7, <1>8, <1>10, <1>11, <1>12, <1>13 DEF EntryStep, Surroundings, EntryNext

\* Only the step that commits ends a call.
LEMMA EntriesAreBacked == PrInv /\ [EntryStep]_prVars => EntryIsBacked
<1> SUFFICES ASSUME PrInv, [EntryStep]_prVars, Enters
             PROVE  EntryIsBacked
  BY DEF EntryIsBacked
<1>1. PrTyped /\ EntryIsCurrent /\ entering \in EntryStates
  BY EntryKinds DEF PrInv, Enters
<1>2. ASSUME Overtakes
      PROVE  FALSE
  <2>1. entering' = [entering EXCEPT !.overtaken = TRUE]
    BY <1>2 DEF Overtakes, Enters
  <2>2. entering'.by = entering.by
    BY <1>1, <2>1 DEF EntryStates
  <2>3. QED
    BY <1>1, <2>2 DEF Enters, NotEntering, EntryStates
<1>3. CommitEntry
  BY <1>2 DEF EntryStep, Surroundings, EntryNext, Enters, prVars, EditConfig, EditSpec,
              CompleteCriterion, Implement, NextTask, Review, StartEntry, acCoveragePrecondition, prReviewPrecondition
<1>4. entering.found = {} /\ pr' = [entering.base EXCEPT !.gate = Entries[entering.by]]
  BY <1>3 DEF CommitEntry, Enters
<1>5. Settled("ac") /\ (entering.by = "human" => Settled("review"))
  BY <1>1, <1>3 DEF EntryIsCurrent, CommitEntry, Enters
<1>6. pr'.gate = "pr-ready" => entering.by = "human"
  BY <1>1, <1>4 DEF EntryStates, PrStates, Entries
<1>7. ASSUME NEW check, Settled(check)
      PROVE  IF Holds(check) THEN check \notin entering.recorded
             ELSE \/ policy[check] = "off"
                  \/ policy[check] = "warn" /\ (check \in entering.recorded \/ entering.lost)
  BY <1>4, <1>7 DEF Settled
<1>8. QED
  BY <1>5, <1>6, <1>7 DEF EntryIsBacked

\* A step is one of the task's or of a gathering.
LEMMA PrSteps ==
  ASSUME [PrNext]_<<prVars, reviewVars>>
  PROVE  [EntryStep]_prVars /\ [ReviewNext \/ EditBranch]_reviewVars
BY DEF PrNext, EntryStep

LEMMA StepBothInv ==
  ASSUME PrInv, ReviewInv, [PrNext]_<<prVars, reviewVars>>
  PROVE  PrInv' /\ ReviewInv'
<1>1. ContextOwned /\ ContextTellsTheDiff /\ pr \in PrStates
  BY DEF ReviewInv, PrInv, PrTyped
<1>2. PrInv'
  BY <1>1, PrSteps, StepPrInv
<1>3. ReviewInv'
  BY <1>1, PrSteps, StepReviewInv
<1>4. QED
  BY <1>2, <1>3

\* A gate is entered on what its checks ask for: pr-ready on an approval given on
\* the task's own context, which told the reviewer the change as far as git did.
THEOREM PrReadyIsBackedHolds == PrSpec => PrReadyIsBacked
<1> DEFINE Kept == PrInv /\ ReviewInv
<1>1. PrInit /\ ReviewInit => Kept
  BY InitPrInv, InitReviewInv
<1>2. Kept /\ [PrNext]_<<prVars, reviewVars>> => Kept'
  BY StepBothInv
<1>3. Kept /\ Kept' /\ [PrNext]_<<prVars, reviewVars>>
        => [EntryIsBacked /\ ContextTellsTheDiff']_<<prVars, reviewVars>>
  BY PrSteps, EntriesAreBacked DEF ReviewInv
<1>4. QED
  <2> HIDE DEF Kept
  <2>1. QED
    BY <1>1, <1>2, <1>3, PTL DEF PrSpec, PrReadyIsBacked

-----------------------------------------------------------------------------
(* What the state is like, whatever happens.                               *)

SignalsTyped == context = NoContext \/ context.signals \in Signals

LEMMA SignalTyped ==
  ASSUME NEW oos \in SUBSET PrFiles, NEW unl \in SUBSET PrFiles, NEW reg \in BOOLEAN
  PROVE  [outOfScopeFiles |-> oos, unlistedFiles |-> unl, regressionTestPresent |-> reg] \in Signals
BY DEF Signals

LEMMA ReviewTypes ==
  ASSUME ReviewInv, SignalsTyped, [ReviewNext \/ EditBranch]_reviewVars
  PROVE  SignalsTyped'
<1>1. ASSUME NEW lane, NEW listed, NEW changed \in SUBSET PrFiles
      PROVE  alignmentSignals(lane, listed, changed) \in Signals
  <2>1. \A files \in SUBSET PrFiles : capList(files) \in SUBSET PrFiles
    BY DEF capList
  <2>2. changed \ PlannedFiles \in SUBSET PrFiles
        /\ changed \ (IF listed THEN PlannedFiles ELSE {}) \in SUBSET PrFiles
    OBVIOUS
  <2>3. (changed \cap TestFiles # {}) \in BOOLEAN
    OBVIOUS
  <2> DEFINE oos == IF lane = "bug" /\ listed THEN capList(changed \ PlannedFiles) ELSE {}
             unl == IF lane = "feature"
                    THEN capList(changed \ (IF listed THEN PlannedFiles ELSE {})) ELSE {}
             reg == changed \cap TestFiles # {}
  <2>4. oos \in SUBSET PrFiles /\ unl \in SUBSET PrFiles
    BY <2>1, <2>2
  <2>5. alignmentSignals(lane, listed, changed) =
          [outOfScopeFiles |-> oos, unlistedFiles |-> unl, regressionTestPresent |-> reg]
    BY Zenon DEF alignmentSignals
  <2>6. reg \in BOOLEAN
    OBVIOUS
  <2> HIDE DEF oos, unl, reg
  <2>7. QED
    BY Zenon, <2>4, <2>5, <2>6, SignalTyped
<1>2. branch.diff \in Diffs
  BY DEF ReviewInv, GatheringInv, BranchStates
<1>3. CASE UNCHANGED context
  BY <1>3 DEF SignalsTyped
<1>4. CASE NoWorkTree
  <2>1. context'.signals = alignmentSignals(gather.lane, gather.listed, {})
    BY <1>4 DEF NoWorkTree, Finalized
  <2>2. QED
    BY <1>1, <2>1 DEF SignalsTyped
<1>5. CASE ListAndWrite
  <2> DEFINE names == parseNameStatus(branch.diff)
  <2>1. names \in SUBSET PrFiles
    BY <1>2, NamesAreFiles
  <2>2. \A part \in CutShort(names) : part \in SUBSET names
    BY CutShortIsPart
  <2>3. PICK changed \in SUBSET names :
          \E untracked, cut : context' = Finalized(TRUE, gather.diff, cut, changed, untracked)
    <3> HIDE DEF names
    <3>1. QED
      BY <1>5, <2>2 DEF ListAndWrite, names
  <2>4. context'.signals = alignmentSignals(gather.lane, gather.listed, changed)
    BY <2>3 DEF Finalized
  <2>5. changed \in SUBSET PrFiles
    BY <2>1, <2>4
  <2>6. QED
    BY <1>1, <2>4, <2>5 DEF SignalsTyped
<1>6. QED
  BY <1>3, <1>4, <1>5 DEF ReviewNext, GatherNext, reviewVars, GatherArtifacts, TakeDiff, WriteLost,
     EditBranch, Edited

PolicyTyped ==
  policy \in Policies /\ criteria \subseteq Criteria /\ done \in [PrTasks -> SUBSET Criteria]

LEMMA PrTypes == PrSpec => [](PrTypeOK /\ ReviewTypeOK)
<1> DEFINE Kept == PrInv /\ ReviewInv /\ SignalsTyped /\ PolicyTyped
<1>1. PrInit /\ ReviewInit => Kept
  <2>1. PrInit => PolicyTyped
    BY PrAssumption DEF PrInit, PolicyTyped
  <2>2. ReviewInit => SignalsTyped
    BY DEF ReviewInit, SignalsTyped
  <2>3. QED
    BY <2>1, <2>2, InitPrInv, InitReviewInv
<1>3. ASSUME PrInv, PolicyTyped, [EntryStep]_prVars
      PROVE  PolicyTyped'
  <2>1. pr.id \in PrTasks
    BY <1>3 DEF PrInv, PrTyped, PrStates
  <2>2. CASE EditConfig
    BY <1>3, <2>2 DEF EditConfig, PolicyTyped
  <2>3. CASE EditSpec
    BY <1>3, <2>3 DEF EditSpec, PolicyTyped
  <2>4. CASE CompleteCriterion
    BY <1>3, <2>1, <2>4 DEF CompleteCriterion, PolicyTyped
  <2>5. CASE UNCHANGED <<policy, criteria, done>>
    BY <1>3, <2>5 DEF PolicyTyped
  <2>6. QED
    BY <1>3, <2>2, <2>3, <2>4, <2>5 DEF EntryStep, Surroundings, EntryNext, prVars, Implement, NextTask,
       Review, StartEntry, acCoveragePrecondition, prReviewPrecondition, CommitEntry
<1>4. Kept /\ [PrNext]_<<prVars, reviewVars>> => Kept'
  BY <1>3, PrSteps, StepBothInv, ReviewTypes
<1>5. Kept => PrTypeOK /\ ReviewTypeOK
  <2> SUFFICES ASSUME Kept PROVE PrTypeOK /\ ReviewTypeOK
    OBVIOUS
  <2>1. PrTypeOK
    BY DEF PrInv, PrTyped, PrStates, PolicyTyped, PrTypeOK
  <2>2. gather.at \in {"idle", "repo", "names"}
    BY DEF ReviewInv, GatheringInv, NotGathering, RepoGatherings, NamesGatherings
  <2>3. QED
    BY Zenon, <2>1, <2>2 DEF ReviewTypeOK, ReviewInv, GatheringInv, BranchStates, SignalsTyped
<1>6. QED
  <2> HIDE DEF Kept
  <2>1. QED
    BY <1>1, <1>4, <1>5, PTL DEF PrSpec

-----------------------------------------------------------------------------
(***************************************************************************)
(* The scope contract.                                                     *)
(***************************************************************************)

Works == [at : {"plan", "scope", "fill"}, task : Owners, files : SUBSET SourceFiles,
          floor : SUBSET TestFloor, alone : BOOLEAN]
EditStates == [at : {"asked", "allowed"}, files : toolInputPaths, task : Owners]
Contracts == (SUBSET SourceFiles) \cup {NoContract, Blank}

ScopeTyped ==
  /\ owner \in [id : Owners, edits : BOOLEAN] /\ readable \in BOOLEAN
  /\ planOf \in [Owners -> Contracts] /\ scopeOf \in [Owners -> Contracts]
  /\ projecting \in [Projectors -> Works \cup {Resting}]
  /\ edit \in EditStates \cup {NoEdit}
  /\ plans \in 0..MaxReturns
  /\ returned \in [Owners -> SUBSET SourceFiles] /\ settled \in [Owners -> BOOLEAN]

\* A contract, written or on its way, holds nothing but tests and what the
\* workers of its task named.
OnlyReturned ==
  /\ \A t \in Owners : scopeOf[t] \notin {NoContract, Blank} => scopeOf[t] \subseteq returned[t] \cup TestFloor
  /\ \A h \in Projectors :
       projecting[h].at # "idle" => projecting[h].files \subseteq returned[projecting[h].task]

\* A hook that is alone, as all are on a settled task, is the only one at work on
\* its task, and past its first write the plan is its own.
AloneIsAlone ==
  \A h \in Projectors :
    /\ projecting[h].at # "idle" /\ settled[projecting[h].task] => projecting[h].alone
    /\ projecting[h].at # "idle" /\ projecting[h].alone
         => \A g \in Projectors \ {h} : ~Projecting(projecting[h].task, g)
    /\ projecting[h].at \in {"scope", "fill"} /\ projecting[h].alone
         => planOf[projecting[h].task] = projecting[h].files

ScopeInv == ScopeTyped /\ OnlyReturned /\ AloneIsAlone /\ EditsAreBounded /\ ContractIsThePlan

LEMMA InitScopeInv == ScopeInit => ScopeInv
<1> SUFFICES ASSUME ScopeInit PROVE ScopeInv
  OBVIOUS
<1>1. FirstOwner \in Owners
  BY ScopeAssumption DEF FirstOwner
<1>2. ScopeTyped
  <2>1. MaxReturns \in Nat /\ 0 \in 0..MaxReturns
    BY ScopeAssumption
  <2>2. owner \in [id : Owners, edits : BOOLEAN] /\ readable \in BOOLEAN
    BY <1>1 DEF ScopeInit
  <2>3. planOf \in [Owners -> Contracts] /\ scopeOf \in [Owners -> Contracts]
    BY DEF ScopeInit, Contracts
  <2>4. projecting \in [Projectors -> Works \cup {Resting}]
    BY DEF ScopeInit
  <2>5. returned \in [Owners -> SUBSET SourceFiles] /\ settled \in [Owners -> BOOLEAN]
    BY DEF ScopeInit
  <2>6. QED
    BY <2>1, <2>2, <2>3, <2>4, <2>5 DEF ScopeTyped, ScopeInit
<1>3. \A h \in Projectors : projecting[h].at = "idle"
  BY DEF ScopeInit, Resting
<1>4. OnlyReturned /\ AloneIsAlone
  BY <1>3 DEF ScopeInit, OnlyReturned, AloneIsAlone
<1>5. EditsAreBounded /\ ContractIsThePlan
  BY DEF ScopeInit, NoEdit, EditsAreBounded, ContractIsThePlan
<1>6. QED
  BY <1>2, <1>4, <1>5 DEF ScopeInv

LEMMA WorkOnIs ==
  ASSUME ScopeTyped, NEW h \in Projectors, projecting[h].at # "idle"
  PROVE  projecting[h] \in Works
BY DEF ScopeTyped, Resting

\* A hook at work on task t goes on with it, or rests: every other hook, and every
\* other task, is left alone.
LEMMA HookStep ==
  ASSUME ScopeInv, NEW h \in Projectors, NEW t \in Owners, projecting[h].at # "idle",
         projecting[h].task = t,
         \/ projecting' = [projecting EXCEPT ![h] = Resting]
         \/ \E where \in {"scope", "fill"} : projecting' = [projecting EXCEPT ![h].at = where]
  PROVE  /\ projecting' \in [Projectors -> Works \cup {Resting}]
         /\ \A g \in Projectors \ {h} : projecting'[g] = projecting[g]
         /\ projecting'[h].at # "idle" =>
              /\ projecting'[h].at \in {"scope", "fill"}
              /\ projecting'[h].task = t
              /\ projecting'[h].files = projecting[h].files
              /\ projecting'[h].alone = projecting[h].alone
         /\ \A u \in Owners \ {t} : AtWorkOn(u)' <=> AtWorkOn(u)
<1>1. projecting \in [Projectors -> Works \cup {Resting}] /\ projecting[h] \in Works
  BY WorkOnIs DEF ScopeInv, ScopeTyped
<1>2. \A g \in Projectors \ {h} : projecting'[g] = projecting[g]
  BY <1>1
<1>3. CASE projecting' = [projecting EXCEPT ![h] = Resting]
  <2>1. projecting'[h] = Resting /\ projecting'[h].at = "idle"
    BY <1>1, <1>3 DEF Resting
  <2>2. \A u \in Owners \ {t} : AtWorkOn(u)' <=> AtWorkOn(u)
    BY <1>2, <2>1 DEF AtWorkOn, Projecting
  <2>3. QED
    BY <1>1, <1>2, <1>3, <2>1, <2>2
<1>4. ASSUME NEW where \in {"scope", "fill"}, projecting' = [projecting EXCEPT ![h].at = where]
      PROVE  /\ projecting' \in [Projectors -> Works \cup {Resting}]
             /\ projecting'[h].at \in {"scope", "fill"}
             /\ projecting'[h].task = t
             /\ projecting'[h].files = projecting[h].files
             /\ projecting'[h].alone = projecting[h].alone
             /\ \A u \in Owners \ {t} : AtWorkOn(u)' <=> AtWorkOn(u)
  <2>1. projecting'[h] = [projecting[h] EXCEPT !.at = where] /\ projecting'[h] \in Works
    BY <1>1, <1>4 DEF Works
  <2>2. /\ projecting'[h].at = where /\ projecting'[h].task = t
        /\ projecting'[h].files = projecting[h].files /\ projecting'[h].alone = projecting[h].alone
    BY <1>1, <2>1 DEF Works
  <2>3. \A u \in Owners \ {t} : AtWorkOn(u)' <=> AtWorkOn(u)
    BY <1>2, <2>2 DEF AtWorkOn, Projecting
  <2>4. projecting' \in [Projectors -> Works \cup {Resting}]
    BY <1>1, <1>4, <2>1
  <2>5. QED
    BY <2>2, <2>3, <2>4
<1>5. QED
  BY <1>2, <1>3, <1>4

\* Such a step keeps the invariant when what it leaves of t is right.
LEMMA HookKeeps ==
  ASSUME ScopeInv, NEW h \in Projectors, NEW t \in Owners, projecting[h].at # "idle",
         projecting[h].task = t,
         \/ projecting' = [projecting EXCEPT ![h] = Resting]
         \/ \E where \in {"scope", "fill"} : projecting' = [projecting EXCEPT ![h].at = where],
         UNCHANGED <<owner, readable, edit, plans, returned>>,
         planOf' \in [Owners -> Contracts], scopeOf' \in [Owners -> Contracts],
         settled' \in [Owners -> BOOLEAN],
         \A u \in Owners \ {t} :
           planOf'[u] = planOf[u] /\ scopeOf'[u] = scopeOf[u] /\ settled'[u] = settled[u],
         scopeOf'[t] \notin {NoContract, Blank} => scopeOf'[t] \subseteq returned[t] \cup TestFloor,
         settled'[t] => settled[t] \/ (projecting[h].alone /\ projecting'[h].at = "idle"),
         projecting'[h].at # "idle" /\ projecting[h].alone => planOf'[t] = projecting[h].files,
         settled'[t] /\ projecting'[h].at = "idle" /\ projecting[h].alone /\ planOf'[t] # NoContract
           => \/ planOf'[t] \cap Inside = {}
              \/ /\ scopeOf'[t] \notin {NoContract, Blank}
                 /\ planOf'[t] \cap Inside \subseteq scopeOf'[t]
                 /\ scopeOf'[t] \subseteq (planOf'[t] \cap Inside) \cup TestFloor
  PROVE  ScopeInv'
<1>1. /\ projecting' \in [Projectors -> Works \cup {Resting}]
      /\ \A g \in Projectors \ {h} : projecting'[g] = projecting[g]
      /\ projecting'[h].at # "idle" =>
           /\ projecting'[h].at \in {"scope", "fill"}
           /\ projecting'[h].task = t
           /\ projecting'[h].files = projecting[h].files
           /\ projecting'[h].alone = projecting[h].alone
      /\ \A u \in Owners \ {t} : AtWorkOn(u)' <=> AtWorkOn(u)
  BY HookStep
<1>2. ScopeTyped'
  BY <1>1 DEF ScopeInv, ScopeTyped
<1>3. OnlyReturned'
  BY <1>1 DEF ScopeInv, OnlyReturned
<1>4. AloneIsAlone'
  <2>1. ASSUME NEW g \in Projectors, projecting'[g].at # "idle", settled'[projecting'[g].task]
        PROVE  projecting'[g].alone
    <3>1. CASE g = h
      BY <1>1, <2>1, <3>1 DEF ScopeInv, AloneIsAlone
    <3>2. CASE g # h
      <4>1. projecting'[g] = projecting[g] /\ projecting[g].at # "idle" /\ projecting[g] \in Works
        BY <1>1, <2>1, <3>2, WorkOnIs DEF ScopeInv
      <4>2. projecting[g].task \in Owners
        BY <4>1 DEF Works
      <4>3. CASE projecting[g].task # t
        BY <2>1, <4>1, <4>2, <4>3 DEF ScopeInv, AloneIsAlone
      <4>4. CASE projecting[g].task = t
        <5>1. ~projecting[h].alone
          BY <3>2, <4>1, <4>4 DEF ScopeInv, AloneIsAlone, Projecting
        <5>2. QED
          BY <2>1, <4>1, <4>4, <5>1 DEF ScopeInv, AloneIsAlone
      <4>5. QED
        BY <4>3, <4>4
    <3>3. QED
      BY <3>1, <3>2
  <2>2. ASSUME NEW g \in Projectors, projecting'[g].at # "idle", projecting'[g].alone,
               NEW f \in Projectors \ {g}
        PROVE  ~(projecting'[f].at # "idle" /\ projecting'[f].task = projecting'[g].task)
    <3>1. projecting[g].at # "idle" /\ projecting[g].alone
      BY <1>1, <2>2
    <3>2. ~(projecting[f].at # "idle" /\ projecting[f].task = projecting[g].task)
      BY <2>2, <3>1 DEF ScopeInv, AloneIsAlone, Projecting
    <3>3. QED
      BY <1>1, <2>2, <3>2
  <2>3. ASSUME NEW g \in Projectors, projecting'[g].at \in {"scope", "fill"}, projecting'[g].alone
        PROVE  planOf'[projecting'[g].task] = projecting'[g].files
    <3>1. CASE g = h
      BY <1>1, <2>3, <3>1
    <3>2. CASE g # h
      <4>1. projecting'[g] = projecting[g] /\ projecting[g].at # "idle" /\ projecting[g] \in Works
        BY <1>1, <2>3, <3>2, WorkOnIs DEF ScopeInv
      <4>2. projecting[g].task \in Owners /\ projecting[g].task # t
        BY <2>3, <3>2, <4>1 DEF ScopeInv, AloneIsAlone, Projecting, Works
      <4>3. QED
        BY <2>3, <4>1, <4>2 DEF ScopeInv, AloneIsAlone
    <3>3. QED
      BY <3>1, <3>2
  <2>4. QED
    BY <2>1, <2>2, <2>3 DEF AloneIsAlone, Projecting
<1>5. EditsAreBounded'
  BY DEF ScopeInv, EditsAreBounded
<1>6. ContractIsThePlan'
  <2>1. SUFFICES ASSUME NEW u \in Owners, settled'[u], ~AtWorkOn(u)', planOf'[u] # NoContract
                 PROVE  \/ planOf'[u] \cap Inside = {}
                        \/ /\ scopeOf'[u] \notin {NoContract, Blank}
                           /\ planOf'[u] \cap Inside \subseteq scopeOf'[u]
                           /\ scopeOf'[u] \subseteq (planOf'[u] \cap Inside) \cup TestFloor
    BY DEF ContractIsThePlan, Inside
  <2>2. CASE u # t
    BY <1>1, <2>1, <2>2 DEF ScopeInv, ContractIsThePlan
  <2>3. CASE u = t
    <3>1. projecting'[h].at = "idle"
      BY <1>1, <2>1, <2>3 DEF AtWorkOn, Projecting
    <3>2. projecting[h].alone
      BY <2>1, <2>3 DEF ScopeInv, AloneIsAlone
    <3>3. QED
      BY <2>1, <2>3, <3>1, <3>2
  <2>4. QED
    BY <2>2, <2>3
<1>7. QED
  BY <1>2, <1>3, <1>4, <1>5, <1>6 DEF ScopeInv

LEMMA StepScopeInv == ScopeInv /\ [ScopeNext]_scopeVars => ScopeInv'
<1> SUFFICES ASSUME ScopeInv, [ScopeNext]_scopeVars
             PROVE  ScopeInv'
  OBVIOUS
<1>1. /\ owner \in [id : Owners, edits : BOOLEAN] /\ readable \in BOOLEAN
      /\ planOf \in [Owners -> Contracts] /\ scopeOf \in [Owners -> Contracts]
      /\ projecting \in [Projectors -> Works \cup {Resting}]
      /\ edit \in EditStates \cup {NoEdit} /\ plans \in 0..MaxReturns
      /\ returned \in [Owners -> SUBSET SourceFiles] /\ settled \in [Owners -> BOOLEAN]
  BY DEF ScopeInv, ScopeTyped
<1>2. ASSUME NEW h \in Projectors, PlanReturns(h)
      PROVE  ScopeInv'
  <2> DEFINE t == owner.id
  <2>1. PICK files \in Plans :
          /\ projecting' = [g \in Projectors |->
               IF g = h THEN [at |-> "plan", task |-> owner.id, files |-> files,
                              floor |-> IF readable THEN TestFloor ELSE {},
                              alone |-> ~AtWorkOn(owner.id)]
               ELSE IF Projecting(owner.id, g) THEN [projecting[g] EXCEPT !.alone = FALSE]
               ELSE projecting[g]]
          /\ returned' = [returned EXCEPT ![owner.id] = @ \cup files]
    BY <1>2 DEF PlanReturns
  <2>2. /\ t \in Owners /\ files \subseteq SourceFiles /\ plans' = plans + 1 /\ plans < MaxReturns
        /\ settled' = [settled EXCEPT ![t] = @ /\ ~AtWorkOn(t)]
        /\ projecting[h].at = "idle"
        /\ UNCHANGED <<owner, readable, planOf, scopeOf, edit>>
    BY <1>1, <1>2, ScopeAssumption DEF PlanReturns
  <2>3. /\ projecting'[h] \in Works /\ projecting'[h].at = "plan" /\ projecting'[h].task = t
        /\ projecting'[h].files = files /\ projecting'[h].alone = ~AtWorkOn(t)
    BY <2>1, <2>2 DEF Works, AtWorkOn
  <2>4. ASSUME NEW g \in Projectors \ {h}
        PROVE  /\ projecting'[g] \in Works \cup {Resting}
               /\ projecting'[g].at = projecting[g].at
               /\ projecting[g].at # "idle" =>
                    /\ projecting[g].task \in Owners
                    /\ projecting'[g].task = projecting[g].task
                    /\ projecting'[g].files = projecting[g].files
                    /\ projecting'[g].alone <=> projecting[g].alone /\ projecting[g].task # t
    <3>1. CASE Projecting(t, g)
      <4>1. projecting[g] \in Works /\ projecting'[g] = [projecting[g] EXCEPT !.alone = FALSE]
        BY <2>1, <2>4, <3>1, WorkOnIs DEF ScopeInv, Projecting
      <4>2. QED
        BY <3>1, <4>1 DEF Works, Projecting
    <3>2. CASE ~Projecting(t, g)
      <4>1. projecting'[g] = projecting[g] /\ projecting[g] \in Works \cup {Resting}
        BY <1>1, <2>1, <2>4, <3>2
      <4>2. projecting[g].at # "idle" => projecting[g] \in Works
        BY <2>4, WorkOnIs DEF ScopeInv
      <4>3. QED
        BY <3>2, <4>1, <4>2 DEF Projecting, Works
    <3>3. QED
      BY <3>1, <3>2
  <2>5. projecting' \in [Projectors -> Works \cup {Resting}]
    BY <2>1, <2>3, <2>4
  <2>6. ScopeTyped'
    <3>1. plans' \in 0..MaxReturns
      BY <1>1, <2>2, ScopeAssumption
    <3>2. returned' \in [Owners -> SUBSET SourceFiles]
      BY <1>1, <2>1, <2>2
    <3>3. settled' \in [Owners -> BOOLEAN]
      BY <1>1, <2>2 DEF AtWorkOn
    <3>4. QED
      BY <1>1, <2>2, <2>5, <3>1, <3>2, <3>3 DEF ScopeTyped
  <2>7. \A u \in Owners : returned[u] \subseteq returned'[u]
    BY <1>1, <2>1, <2>2
  <2>8. OnlyReturned'
    <3>1. files \subseteq returned'[t]
      BY <1>1, <2>1, <2>2
    <3>2. \A g \in Projectors :
            projecting'[g].at # "idle" => projecting'[g].files \subseteq returned'[projecting'[g].task]
      BY <2>3, <2>4, <2>7, <3>1 DEF ScopeInv, OnlyReturned
    <3>3. QED
      BY <2>2, <2>7, <3>2 DEF ScopeInv, OnlyReturned
  <2>9. AloneIsAlone'
    <3>1. ASSUME NEW g \in Projectors, projecting'[g].at # "idle", settled'[projecting'[g].task]
          PROVE  projecting'[g].alone
      <4>1. CASE g = h
        BY <1>1, <2>2, <2>3, <3>1, <4>1
      <4>2. CASE g # h /\ projecting[g].task # t
        BY <1>1, <2>2, <2>4, <3>1, <4>2 DEF ScopeInv, AloneIsAlone
      <4>3. CASE g # h /\ projecting[g].task = t
        <5>1. AtWorkOn(t) /\ projecting'[g].task = t
          BY <2>4, <3>1, <4>3 DEF AtWorkOn, Projecting
        <5>2. QED
          BY <1>1, <2>2, <3>1, <5>1
      <4>4. QED
        BY <4>1, <4>2, <4>3
    <3>2. ASSUME NEW g \in Projectors, projecting'[g].at # "idle", projecting'[g].alone,
                 NEW f \in Projectors \ {g}
          PROVE  ~(projecting'[f].at # "idle" /\ projecting'[f].task = projecting'[g].task)
      <4>1. CASE g = h
        BY <2>3, <2>4, <3>2, <4>1 DEF AtWorkOn, Projecting
      <4>2. CASE g # h
        <5>1. projecting[g].at # "idle" /\ projecting[g].alone /\ projecting[g].task # t
              /\ projecting'[g].task = projecting[g].task
          BY <2>4, <3>2, <4>2
        <5>2. ~(projecting[f].at # "idle" /\ projecting[f].task = projecting[g].task)
          BY <3>2, <5>1 DEF ScopeInv, AloneIsAlone, Projecting
        <5>3. QED
          BY <2>3, <2>4, <3>2, <5>1, <5>2
      <4>3. QED
        BY <4>1, <4>2
    <3>3. ASSUME NEW g \in Projectors, projecting'[g].at \in {"scope", "fill"}, projecting'[g].alone
          PROVE  planOf'[projecting'[g].task] = projecting'[g].files
      <4>1. g # h
        BY <2>3, <3>3
      <4>2. QED
        BY <2>2, <2>4, <3>3, <4>1 DEF ScopeInv, AloneIsAlone
    <3>4. QED
      BY <3>1, <3>2, <3>3 DEF AloneIsAlone, Projecting
  <2>10. EditsAreBounded'
    <3>1. edit.at = "allowed" => edit.task \in Owners
      BY <1>1 DEF EditStates, NoEdit
    <3>2. QED
      BY <2>2, <2>7, <3>1 DEF ScopeInv, EditsAreBounded, Inside
  <2>11. ContractIsThePlan'
    <3>1. AtWorkOn(t)'
      BY <2>2, <2>3 DEF AtWorkOn, Projecting
    <3>2. \A u \in Owners \ {t} : (AtWorkOn(u) => AtWorkOn(u)') /\ settled'[u] = settled[u]
      BY <1>1, <2>2, <2>3, <2>4 DEF AtWorkOn, Projecting
    <3>3. QED
      BY <2>2, <3>1, <3>2 DEF ScopeInv, ContractIsThePlan, Inside
  <2>12. QED
    BY <2>6, <2>8, <2>9, <2>10, <2>11 DEF ScopeInv
<1>3. ASSUME NEW h \in Projectors, PlanWritten(h)
      PROVE  ScopeInv'
  <2> DEFINE t == projecting[h].task
  <2>1. projecting[h] \in Works /\ t \in Owners /\ projecting[h].files \in Contracts
    BY <1>3, WorkOnIs DEF ScopeInv, PlanWritten, Works, Contracts
  <2>2. /\ projecting' = [projecting EXCEPT ![h].at = "scope"]
        /\ planOf' = [planOf EXCEPT ![t] = projecting[h].files]
        /\ UNCHANGED <<owner, readable, scopeOf, edit, plans, returned, settled>>
    BY <1>3 DEF PlanWritten, Goes
  <2>3. projecting'[h].at # "idle"
    BY <1>1, <2>1, <2>2 DEF Works
  <2>4. scopeOf'[t] \notin {NoContract, Blank} => scopeOf'[t] \subseteq returned[t] \cup TestFloor
    BY <2>1, <2>2 DEF ScopeInv, OnlyReturned
  <2>5. /\ planOf' \in [Owners -> Contracts] /\ planOf'[t] = projecting[h].files
        /\ \A u \in Owners \ {t} : planOf'[u] = planOf[u]
    BY <1>1, <2>1, <2>2
  <2>6. projecting[h].at # "idle"
    BY <1>3 DEF PlanWritten
  <2>7. QED
    BY <1>1, <2>1, <2>2, <2>3, <2>4, <2>5, <2>6, HookKeeps
<1>4. ASSUME NEW h \in Projectors, ScopeRefused(h) \/ HookDies(h)
      PROVE  ScopeInv'
  <2> DEFINE t == projecting[h].task
  <2>1. projecting[h] \in Works /\ t \in Owners
    BY <1>4, WorkOnIs DEF ScopeInv, ScopeRefused, HookDies, Works
  <2>2. /\ projecting' = [projecting EXCEPT ![h] = Resting] /\ projecting[h].at # "idle"
        /\ UNCHANGED <<owner, readable, planOf, scopeOf, edit, plans, returned>>
    BY <1>4 DEF ScopeRefused, HookDies, Rest
  <2>3. projecting'[h].at = "idle"
    BY <1>1, <2>2 DEF Resting
  <2>4. scopeOf'[t] \notin {NoContract, Blank} => scopeOf'[t] \subseteq returned[t] \cup TestFloor
    BY <2>1, <2>2 DEF ScopeInv, OnlyReturned
  <2>5. /\ settled' \in [Owners -> BOOLEAN]
        /\ \A u \in Owners \ {t} : settled'[u] = settled[u]
        /\ settled'[t] => settled' = settled /\ ScopeRefused(h)
    BY <1>1, <1>4, <2>1 DEF ScopeRefused, HookDies
  <2>6. ASSUME settled'[t], projecting[h].alone
        PROVE  planOf'[t] \cap Inside = {}
    <3>1. planOf[t] = projecting[h].files /\ Contract(h) = {}
      BY <2>5, <2>6 DEF ScopeRefused, ScopeInv, AloneIsAlone
    <3>2. QED
      BY <2>2, <3>1 DEF Contract, filterWorkspacePaths, Inside
  <2>7. QED
    BY <1>1, <2>1, <2>2, <2>3, <2>4, <2>5, <2>6, HookKeeps
<1>5. ASSUME NEW h \in Projectors, ScopeOpened(h)
      PROVE  ScopeInv'
  <2> DEFINE t == projecting[h].task
  <2>1. projecting[h] \in Works /\ t \in Owners
    BY <1>5, WorkOnIs DEF ScopeInv, ScopeOpened, Works
  <2>2. /\ projecting' = [projecting EXCEPT ![h].at = "fill"] /\ projecting[h].at = "scope"
        /\ scopeOf' = [scopeOf EXCEPT ![t] = Blank]
        /\ UNCHANGED <<owner, readable, planOf, edit, plans, returned, settled>>
    BY <1>5 DEF ScopeOpened, Goes
  <2>3. projecting'[h].at # "idle"
    BY <1>1, <2>1, <2>2 DEF Works
  <2>4. /\ scopeOf' \in [Owners -> Contracts] /\ scopeOf'[t] = Blank
        /\ \A u \in Owners \ {t} : scopeOf'[u] = scopeOf[u]
    BY <1>1, <2>1, <2>2 DEF Contracts
  <2>5. projecting[h].alone => planOf[t] = projecting[h].files
    BY <2>2 DEF ScopeInv, AloneIsAlone
  <2>6. QED
    BY <1>1, <2>1, <2>2, <2>3, <2>4, <2>5, HookKeeps
<1>6. ASSUME NEW h \in Projectors, ScopeWritten(h)
      PROVE  ScopeInv'
  <2> DEFINE t == projecting[h].task
  <2>1. projecting[h] \in Works /\ t \in Owners
    BY <1>6, WorkOnIs DEF ScopeInv, ScopeWritten, Works
  <2>2. /\ projecting' = [projecting EXCEPT ![h] = Resting] /\ projecting[h].at = "fill"
        /\ scopeOf' = [scopeOf EXCEPT ![t] = Contract(h)]
        /\ settled' = [settled EXCEPT ![t] = @ \/ projecting[h].alone]
        /\ UNCHANGED <<owner, readable, planOf, edit, plans, returned>>
    BY <1>6 DEF ScopeWritten, Rest
  <2>3. projecting'[h].at = "idle"
    BY <1>1, <2>2 DEF Resting
  <2>4. /\ projecting[h].files \subseteq returned[t] /\ projecting[h].files \subseteq SourceFiles
        /\ projecting[h].floor \subseteq TestFloor /\ TestFloor \subseteq SourceFiles
    BY <2>1, <2>2, ScopeAssumption DEF ScopeInv, OnlyReturned, Works
  <2>5. /\ Contract(h) = (projecting[h].files \cap Inside) \cup projecting[h].floor
        /\ Contract(h) \subseteq SourceFiles /\ Contract(h) \notin {NoContract, Blank}
    BY <2>4, ScopeAssumption DEF Contract, filterWorkspacePaths, Inside
  <2>6. /\ scopeOf' \in [Owners -> Contracts] /\ scopeOf'[t] = Contract(h)
        /\ \A u \in Owners \ {t} : scopeOf'[u] = scopeOf[u]
    BY <1>1, <2>1, <2>2, <2>5 DEF Contracts
  <2>7. /\ settled' \in [Owners -> BOOLEAN]
        /\ \A u \in Owners \ {t} : settled'[u] = settled[u]
        /\ settled'[t] => settled[t] \/ projecting[h].alone
    BY <1>1, <2>1, <2>2 DEF Works
  <2>8. projecting[h].alone => planOf[t] = projecting[h].files
    BY <2>2 DEF ScopeInv, AloneIsAlone
  <2>9. /\ scopeOf'[t] \subseteq returned[t] \cup TestFloor
        /\ projecting[h].alone =>
             /\ scopeOf'[t] \notin {NoContract, Blank}
             /\ planOf'[t] \cap Inside \subseteq scopeOf'[t]
             /\ scopeOf'[t] \subseteq (planOf'[t] \cap Inside) \cup TestFloor
    BY <2>2, <2>4, <2>5, <2>6, <2>8
  <2>10. QED
    BY <1>1, <2>1, <2>2, <2>3, <2>6, <2>7, <2>9, HookKeeps
<1>7. ASSUME \/ EditAsked \/ EditJudged \/ EditMade \/ ImplStarts \/ NextOwner \/ ConfigEdited
             \/ UNCHANGED scopeVars
      PROVE  ScopeInv'
  <2>1. UNCHANGED <<planOf, scopeOf, projecting, plans, returned, settled>>
    BY <1>7 DEF EditAsked, EditJudged, EditMade, ImplStarts, NextOwner, ConfigEdited, scopeVars
  <2>2. OnlyReturned' /\ AloneIsAlone' /\ ContractIsThePlan'
    BY <2>1 DEF ScopeInv, OnlyReturned, AloneIsAlone, ContractIsThePlan, Projecting, AtWorkOn
  <2>3. owner' \in [id : Owners, edits : BOOLEAN] /\ readable' \in BOOLEAN
    <3>1. CASE ImplStarts
      BY <1>1, <3>1 DEF ImplStarts
    <3>2. CASE NextOwner
      BY <1>1, <3>2 DEF NextOwner
    <3>3. CASE ConfigEdited
      BY <1>1, <3>3 DEF ConfigEdited
    <3>4. CASE EditAsked \/ EditJudged \/ EditMade \/ UNCHANGED scopeVars
      BY <1>1, <3>4 DEF EditAsked, EditJudged, EditMade, scopeVars
    <3>5. QED
      BY <1>7, <3>1, <3>2, <3>3, <3>4
  <2>4. edit' \in EditStates \cup {NoEdit} /\ EditsAreBounded'
    <3>1. CASE edit' = edit \/ edit' = NoEdit
      BY <1>1, <2>1, <3>1 DEF ScopeInv, EditsAreBounded, NoEdit, JudgedPath
    <3>2. CASE EditAsked
      <4>1. PICK files \in toolInputPaths :
              edit' = [at |-> "asked", files |-> files, task |-> owner.id]
        BY <3>2 DEF EditAsked
      <4>2. QED
        BY <1>1, <4>1 DEF EditStates, EditsAreBounded
    <3>3. CASE EditJudged /\ LetsPass(edit, readScopeForTask(edit.task))
      <4>1. edit \in EditStates /\ edit' = [edit EXCEPT !.at = "allowed"]
        BY <1>1, <3>3 DEF EditJudged, NoEdit
      <4>2. /\ edit' \in EditStates /\ edit'.at = "allowed"
            /\ edit'.files = edit.files /\ edit'.task = edit.task
            /\ edit.files \in toolInputPaths /\ edit.task \in Owners
        BY <4>1 DEF EditStates
      <4>3. JudgedPath(edit) \in SourceFiles
        BY <4>2 DEF JudgedPath, firstToolInputPath, toolInputPaths
      <4>4. JudgedPath(edit) \in Inside /\ JudgedPath(edit) \in returned[edit.task] \cup TestFloor
        BY <3>3, <4>2, <4>3 DEF LetsPass, editEscapesWorkspace, readScopeForTask, Inside, ScopeInv,
                                OnlyReturned
      <4>5. QED
        BY <2>1, <4>2, <4>4 DEF EditsAreBounded, JudgedPath
    <3>4. QED
      BY <1>7, <3>1, <3>2, <3>3
         DEF EditJudged, EditMade, ImplStarts, NextOwner, ConfigEdited, scopeVars
  <2>5. QED
    BY <1>1, <2>1, <2>2, <2>3, <2>4 DEF ScopeInv, ScopeTyped
<1>8. QED
  BY <1>2, <1>3, <1>4, <1>5, <1>6, <1>7 DEF ScopeNext

\* Whatever hooks overlap, die or are refused, and whenever the edit is judged, the
\* file it names first is a test or one a worker named for this task; and where
\* hooks neither overlapped nor died, scope.md is the latest plan.
THEOREM ScopeIsHonouredHolds == ScopeSpec => []ScopeIsHonoured
<1>1. ScopeInv => ScopeIsHonoured
  BY DEF ScopeInv, ScopeIsHonoured
<1>2. QED
  BY <1>1, InitScopeInv, StepScopeInv, PTL DEF ScopeSpec

-----------------------------------------------------------------------------
(* What the state is like, whatever happens.                               *)

\* A plan on disk is never blank: it is written whole.
PlansAreWhole == \A t \in Owners : planOf[t] = NoContract \/ planOf[t] \subseteq SourceFiles

LEMMA ScopeTypes == ScopeSpec => []ScopeTypeOK
<1>1. ScopeInit => PlansAreWhole
  BY DEF ScopeInit, PlansAreWhole
<1>2. ASSUME ScopeInv, PlansAreWhole, [ScopeNext]_scopeVars
      PROVE  PlansAreWhole'
  <2>1. ASSUME NEW h \in Projectors, PlanWritten(h)
        PROVE  PlansAreWhole'
    <3>1. projecting[h] \in Works
      BY <1>2, <2>1 DEF PlanWritten, ScopeInv, ScopeTyped, Resting
    <3>2. projecting[h].files \subseteq SourceFiles /\ planOf \in [Owners -> Contracts]
      BY <1>2, <3>1 DEF Works, ScopeInv, ScopeTyped
    <3>3. QED
      BY <1>2, <2>1, <3>2 DEF PlanWritten, PlansAreWhole
  <2>2. CASE UNCHANGED planOf
    BY <1>2, <2>2 DEF PlansAreWhole
  <2>3. QED
    BY <1>2, <2>1, <2>2 DEF ScopeNext, scopeVars, PlanReturns, ScopeRefused, ScopeOpened,
       ScopeWritten, HookDies, EditAsked, EditJudged, EditMade, ImplStarts, NextOwner, ConfigEdited
<1>3. ScopeInv /\ PlansAreWhole => ScopeTypeOK
  <2> SUFFICES ASSUME ScopeInv, PlansAreWhole PROVE ScopeTypeOK
    OBVIOUS
  <2>1. ScopeTyped
    BY DEF ScopeInv
  <2>2. \A t \in Owners : scopeOf[t] \in {NoContract, Blank} \/ scopeOf[t] \subseteq SourceFiles
    BY <2>1 DEF ScopeTyped, Contracts
  <2>3. \A h \in Projectors : projecting[h].at \in {"idle", "plan", "scope", "fill"}
    BY <2>1 DEF ScopeTyped, Works, Resting
  <2>4. edit.at \in {"idle", "asked", "allowed"}
    BY <2>1 DEF ScopeTyped, EditStates, NoEdit
  <2>5. owner \in [id : Owners, edits : BOOLEAN] /\ readable \in BOOLEAN /\ plans \in 0..MaxReturns
    BY Zenon, <2>1 DEF ScopeTyped
  <2>6. QED
    BY Zenon, <2>2, <2>3, <2>4, <2>5 DEF ScopeTypeOK, PlansAreWhole
<1>4. QED
  BY <1>1, <1>2, <1>3, InitScopeInv, StepScopeInv, PTL DEF ScopeSpec

-----------------------------------------------------------------------------
(***************************************************************************)
(* The parts together, in an orchestration that moves one of them at a     *)
(* time.                                                                   *)
(***************************************************************************)

\* A step of what the orchestrator runs is a step of one part and leaves the
\* others alone: what is proved of a part is so of it among the others.
THEOREM OrchestrationMovesParts ==
  OrchestrationSpec =>
    /\ DispatchSpec /\ ScanSpec /\ ReturnsSpec /\ DepSpec /\ TreesSpec /\ RollbackSpec
    /\ ApprovalSpec /\ PrSpec /\ ScopeSpec
<1> DEFINE vars == <<moving, searchVars, workVars, gateVars>>
<1>1. OrchestrationInit =>
        /\ DispatchInit /\ ScanInit /\ ReturnsInit /\ DepInit /\ TreesInit /\ RollbackInit
        /\ ApprovalInit /\ PrInit /\ ReviewInit /\ ScopeInit
  BY DEF OrchestrationInit
<1>2. [OrchestrationNext]_vars =>
        /\ [DispatchNext]_dispatchVars /\ [ScanNext]_scanVars /\ [ReturnsNext]_returnsVars
        /\ [DepNext]_depVars /\ [TreesNext]_treeVars /\ [RollbackNext]_rollbackVars
        /\ [ApprovalNext]_approvalVars /\ [ScopeNext]_scopeVars
        /\ [PrNext]_<<prVars, reviewVars>>
  <2>1. ReviewExplored => PrNext
    BY DEF ReviewExplored, PrNext, EntryNext
  <2>2. PrExplored => PrNext
    BY DEF PrExplored, PrNext
  <2>3. ReturnsExplored => ReturnsNext
    BY DEF ReturnsExplored
  <2>4. QED
    BY <2>1, <2>2, <2>3 DEF OrchestrationNext, searchVars, workVars, gateVars
<1>3. QED
  BY <1>1, <1>2, PTL
     DEF OrchestrationSpec, DispatchSpec, ScanSpec, ReturnsSpec, DepSpec, TreesSpec, RollbackSpec,
         ApprovalSpec, PrSpec, ScopeSpec

LEMMA PlainTypes ==
  /\ ReturnsSpec => []ReturnsTypeOK
  /\ DepSpec => []DepTypeOK
  /\ TreesSpec => []TreesTypeOK
<1>1. ReturnsInv => ReturnsTypeOK
  BY DEF ReturnsInv
<1>2. DepInv => DepTypeOK
  BY DEF DepInv
<1>3. TreesInv => TreesTypeOK
  <2> SUFFICES ASSUME TreesInv PROVE TreesTypeOK
    OBVIOUS
  <2>1. \A p \in Paths : trees[p] # NoTree => trees[p] \in TreeStates
    BY DEF TreesInv, TreesTyped
  <2>2. \A x \in Execs : exec[x] \in ExecStates
    BY DEF TreesInv, TreesTyped
  <2>3. QED
    BY <2>1, <2>2 DEF TreesInv, TreesTyped, TreesTypeOK, TreeStates, ExecStates
<1>4. QED
  BY <1>1, <1>2, <1>3, ReturnsInvHolds, InitDepInv, StepDepInv, InitTreesInv, StepTreesInv,
     PTL DEF DepSpec, TreesSpec

\* The state of each part is what its module says it is, whatever happens.
THEOREM OrchestrationTypeOKHolds == OrchestrationSpec => []OrchestrationTypeOK
<1>1. /\ DispatchTypeOK /\ ScanTypeOK /\ ReturnsTypeOK /\ DepTypeOK /\ TreesTypeOK /\ RollbackTypeOK
      /\ ApprovalTypeOK /\ PrTypeOK /\ ReviewTypeOK /\ ScopeTypeOK
      => OrchestrationTypeOK
  BY DEF OrchestrationTypeOK
<1>2. QED
  BY <1>1, OrchestrationMovesParts, DispatchTypes, ScanTypes, PlainTypes, RollbackTypes, ApprovalTypes,
     PrTypes, ScopeTypes, PTL
=============================================================================
