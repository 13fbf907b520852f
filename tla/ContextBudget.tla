--------------------------- MODULE ContextBudget ---------------------------
(***************************************************************************)
(* The context budget: the PostToolUse hook check-session-budget meters    *)
(* each tool result, measures the session and, over the critical           *)
(* threshold, compacts it in place; compact-session does the same before   *)
(* the host compacts.  Nothing locks the meter or the marker, and the      *)
(* hooks of parallel tool calls overlap.                                   *)
(*                                                                         *)
(* Abstracted: sizes are small token counts; the recorded tool output has  *)
(* no producer and is left out, as are the size of the trace, which is not *)
(* budgeted, and the text of the reports.  The meter's writes, each a      *)
(* rename, are atomic.                                                     *)
(***************************************************************************)
EXTENDS Integers

CONSTANTS
  Hooks,             \* the tool results, each with its check-session-budget
  Compactor,         \* a run of compact-session
  Results,           \* the sizes of tool results
  Notes,             \* the size the session markdown may grow to
  Warn, Critical     \* the thresholds of the task's budget class

ASSUME BudgetAssumption ==
  /\ Compactor \notin Hooks
  /\ Results \subseteq Nat /\ Notes \in Nat
  /\ Warn \in Nat \ {0} /\ Critical \in Nat /\ Warn < Critical

VARIABLES
  meter,       \* context-meter.json
  notes,       \* the size of the session markdown
  marker,      \* whether budget-critical.json is there
  step,        \* where each process is
  reading,     \* the meter as a process last read it
  measured,    \* the session as it measured it, first the result it handles
  owed,        \* history: tokens put into the context since the last reset
  disturbed    \* history: two processes overlapped, or one failed or died

budgetVars == <<meter, notes, marker, step, reading, measured, owed, disturbed>>

Procs == Hooks \cup {Compactor}

\* The identity of a report: its level, the larger component, the size bucket.
NoReport == <<"ok", "none", 0>>
emptyMeter == [contextTokens |-> 0, lastReportId |-> NoReport]

Level(s) ==
  LET total == s.notes + s.tokens
  IN  IF total < Warn THEN "ok" ELSE IF total < Critical THEN "warn" ELSE "critical"

\* Math.max(1, Math.round(threshold / 4))
BucketSize(level) ==
  LET threshold == IF level = "warn" THEN Warn ELSE Critical
      rounded == (threshold + 2) \div 4
  IN  IF rounded < 1 THEN 1 ELSE rounded

reportId(s) ==
  IF Level(s) = "ok" THEN NoReport
  ELSE <<Level(s),
         IF s.notes >= s.tokens THEN "notes" ELSE "meter",
         (s.notes + s.tokens) \div BucketSize(Level(s))>>

NoMeasure == [notes |-> 0, tokens |-> 0]

BudgetInit ==
  /\ meter = emptyMeter
  /\ notes = 0
  /\ marker = FALSE
  /\ step = [p \in Procs |-> "idle"]
  /\ reading = [p \in Procs |-> emptyMeter]
  /\ measured = [p \in Procs |-> NoMeasure]
  /\ owed = 0
  /\ disturbed = FALSE

\* What a process has read dies with it.
Session == [notes |-> notes, tokens |-> meter.contextTokens]
Goto(h, s, read, size) ==
  /\ step' = [step EXCEPT ![h] = s]
  /\ reading' = [reading EXCEPT ![h] = IF s = "done" THEN emptyMeter ELSE read]
  /\ measured' = [measured EXCEPT ![h] = IF s = "done" THEN NoMeasure ELSE size]
Keep(h, s) == Goto(h, s, reading[h], measured[h])

Running(p) == step[p] \notin {"idle", "done"}
Overlaps(p) == \E q \in Procs \ {p} : Running(q)

\* The task's notes: no code of the plugin writes them, the agent may.
WriteNotes ==
  /\ notes < Notes
  /\ notes' = notes + 1
  /\ disturbed' = (disturbed \/ \E p \in Procs : Running(p))
  /\ UNCHANGED <<meter, marker, step, reading, measured, owed>>

---------------------------------------------------------------------------
\* A tool call ends: the hook reads the meter.
ToolResult(h) ==
  /\ step[h] = "idle"
  /\ \E n \in Results :
       /\ owed' = owed + n
       /\ Goto(h, "record", meter, [NoMeasure EXCEPT !.tokens = n])
  /\ disturbed' = (disturbed \/ Overlaps(h))
  /\ UNCHANGED <<meter, notes, marker>>

\* recordToolResult: what it read plus the result; an empty one is not written.
recordToolResult(h) ==
  /\ step[h] = "record"
  /\ LET added == measured[h].tokens
     IN  meter' = IF added < 1 THEN meter
                  ELSE [reading[h] EXCEPT !.contextTokens = @ + added]
  /\ Keep(h, "measure")
  /\ UNCHANGED <<notes, marker, owed, disturbed>>

\* measureSession and checkBudget; a warning already reported ends the hook.
measureSession(h) ==
  /\ step[h] = "measure"
  /\ Goto(h, IF Level(Session) = "warn" /\ reportId(Session) = meter.lastReportId
             THEN "done" ELSE "report", meter, Session)
  /\ UNCHANGED <<meter, notes, marker, owed, disturbed>>

\* rememberReport writes the whole meter back; then only a breach goes on.
rememberReport(h) ==
  /\ step[h] \in {"report", "reportAfter"}
  /\ LET id == reportId(measured[h])
     IN  meter' = IF reading[h].lastReportId = id THEN meter
                  ELSE [reading[h] EXCEPT !.lastReportId = id]
  /\ Keep(h, IF step[h] = "report" /\ Level(measured[h]) = "critical"
             THEN "archive" ELSE "done")
  /\ UNCHANGED <<notes, marker, owed, disturbed>>

---------------------------------------------------------------------------
\* compact-session: the reset that follows the artifact.
StartCompaction ==
  /\ step[Compactor] = "idle"
  /\ Keep(Compactor, "archive")
  /\ disturbed' = (disturbed \/ Overlaps(Compactor))
  /\ UNCHANGED <<meter, notes, marker, owed>>

\* resetContextBudget: the notes move to the archive; when that fails, and
\* whatever else fails, the reset goes on.
Archive(p) ==
  /\ step[p] = "archive"
  /\ \/ notes' = 0 /\ UNCHANGED disturbed
     \/ notes > 0 /\ disturbed' = TRUE /\ UNCHANGED notes
  /\ Keep(p, "zero")
  /\ UNCHANGED <<meter, marker, owed>>

resetContextMeter(p) ==
  /\ step[p] = "zero"
  /\ meter' = emptyMeter
  /\ owed' = 0
  /\ Keep(p, "unmark")
  /\ UNCHANGED <<notes, marker, disturbed>>

Unmark(p) ==
  /\ step[p] = "unmark"
  /\ marker' = FALSE
  /\ Keep(p, IF p = Compactor THEN "done" ELSE "remeasure")
  /\ UNCHANGED <<meter, notes, owed, disturbed>>

\* Back in the hook: only a session that is still critical is marked.
Remeasure(h) ==
  /\ step[h] = "remeasure"
  /\ Goto(h, IF Level(Session) = "critical" THEN "mark" ELSE "reportAfter", meter, Session)
  /\ UNCHANGED <<meter, notes, marker, owed, disturbed>>

writeCriticalMarker(h) ==
  /\ step[h] = "mark"
  /\ marker' = TRUE
  /\ Keep(h, "done")
  /\ UNCHANGED <<meter, notes, owed, disturbed>>

\* The host ends a hook that exceeds its time.
HookDies(p) ==
  /\ Running(p)
  /\ Keep(p, "done")
  /\ disturbed' = TRUE
  /\ UNCHANGED <<meter, notes, marker, owed>>

HookStep(h) ==
  \/ recordToolResult(h) \/ measureSession(h) \/ rememberReport(h)
  \/ Archive(h) \/ resetContextMeter(h) \/ Unmark(h)
  \/ Remeasure(h) \/ writeCriticalMarker(h)

BudgetNext ==
  \/ WriteNotes \/ StartCompaction
  \/ \E h \in Hooks : ToolResult(h) \/ HookStep(h)
  \/ Archive(Compactor) \/ resetContextMeter(Compactor) \/ Unmark(Compactor)
  \/ \E p \in Procs : HookDies(p)

BudgetSpec == BudgetInit /\ [][BudgetNext]_budgetVars

---------------------------------------------------------------------------
BudgetTypeOK ==
  /\ meter.contextTokens \in Nat /\ notes \in 0..Notes
  /\ marker \in BOOLEAN /\ disturbed \in BOOLEAN
  /\ step \in [Procs -> {"idle", "done", "record", "measure", "report", "reportAfter", "archive",
                         "zero", "unmark", "remeasure", "mark"}]
  /\ owed \in Nat

\* evaluateGuard, Rule 2b: the marker denies every source edit.
EditsBlocked == marker

(***************************************************************************)
(* While the hooks run one at a time and none fails, the meter is what     *)
(* entered the context since it was last reset, and a breach, whatever     *)
(* component caused it, is reclaimed: no edit is ever blocked.             *)
(***************************************************************************)
UndisturbedNeverBlocks ==
  ~disturbed =>
    /\ ~EditsBlocked
    /\ (\A p \in Procs : ~Running(p)) => meter.contextTokens = owed

=============================================================================
