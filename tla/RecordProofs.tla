---------------------------- MODULE RecordProofs ----------------------------
(***************************************************************************)
(* What one session leaves to the next, and what it takes in: task.json,   *)
(* the boxes of spec.md and the briefs of compactions, the evidence        *)
(* packed, the returns of workers, and the parts of a session together;    *)
(* for any calls, tasks, sessions, criteria, compactions, pointers,        *)
(* budgets, globs and paths.                                               *)
(***************************************************************************)
EXTENDS MCSession, SessionProofs, FoldLemmas

-----------------------------------------------------------------------------
(***************************************************************************)
(* The life of a task in task.json: it goes forward only.                  *)
(***************************************************************************)

Writing == {"open", "fill", "rename"}

\* What a task that is there may be replaced by, and what it may go on to.
MakesWay(state) ==
  \/ taskFile \in {NoTask, Torn}
  \/ IsDoc(taskFile) /\ taskFile.gate = "done" /\ taskFile.task # state.task
GoesOn(state) ==
  \/ taskFile = Torn
  \/ /\ IsDoc(taskFile) /\ state.task = taskFile.task
     /\ rank(state.gate) >= rank(taskFile.gate) /\ (taskFile.pack => state.pack)

\* What a call is about, wherever it is.
Shape(c) ==
  /\ call[c].at \in {"quarantine", "move", "bootstrap"} => call[c].kind = "reset"
  /\ call[c].at = "bootstrap" => call[c].session \in Sessions
  /\ call[c].at = "budget" => call[c].kind = "start"
  /\ call[c].at = "lock" /\ call[c].kind # "hook" => call[c].doc \in TaskDocs
  /\ call[c].at \in Writing => call[c].doc \in TaskDocs

LifeTyped ==
  /\ taskFile \in TaskDocs \cup {NoTask, Torn} /\ tmpFile \in TaskDocs \cup {NoTask, Torn}
  /\ owner \in Calls \cup {NoTask}
  /\ call \in [Calls -> LifeCalls]
  /\ holdings \in [Sessions -> SUBSET {"namespace", "flat"}]

LifeShaped ==
  /\ LifeTyped
  /\ owner # NoTask => call[owner].at \in Writing
  /\ \A c \in Calls : Shape(c)

\* What holds of a call while no creation has met another: what it has read is
\* what it replaces, and only it is writing.
Part(c) ==
  LET at == call[c].at
      kind == call[c].kind
      state == call[c].doc
      begun == at = "lock" \/ (at \in Writing /\ owner = c)
  IN  /\ at = "quarantine" => taskFile = Torn
      /\ at \in {"move", "bootstrap"} => taskFile = NoTask
      /\ at = "bootstrap" /\ ~call[c].kept => "namespace" \notin holdings[call[c].session]
      /\ kind = "reset" /\ at \in {"lock"} \cup Writing =>
           /\ begun /\ taskFile = NoTask
           /\ ~call[c].kept => "namespace" \notin holdings[state.task]
      /\ kind = "start" /\ begun => MakesWay(state)
      /\ kind = "start" /\ at \in Writing /\ ~begun => GoesOn(state)
      /\ kind = "hook" /\ at \in Writing => begun /\ GoesOn(state)
      /\ kind = "init" /\ at \in Writing => begun
      /\ at \in {"fill", "rename"} => call[c].into = "tmp"
      /\ at = "rename" => tmpFile = state

\* What NoTaskGoesBack asks of a step.
Forward ==
  /\ IsDoc(taskFile')
  /\ taskFile'.task # taskFile.task => taskFile.gate = "done"
  /\ taskFile'.task = taskFile.task => /\ rank(taskFile'.gate) >= rank(taskFile.gate)
                                       /\ taskFile.pack => taskFile'.pack

Calm == ~Meets /\ \A c \in Calls : Part(c)

LifeInv == LifeShaped /\ (~crowded => Calm)

-----------------------------------------------------------------------------
(* Documents and calls.                                                    *)

LEMMA Ranks ==
  \A g \in {"no-lane", "live", "done"} : rank(g) \in 1 .. 3
<1>1. \A g \in {"no-lane", "live", "done"} : \E i \in 1 .. 3 : Gates[i] = g
  BY DEF Gates
<1>2. QED
  BY <1>1 DEF rank

LEMMA FreshIsDoc ==
  ASSUME NEW s \in Sessions
  PROVE  FreshTask(s) \in TaskDocs /\ FreshTask(s).task = s
BY DEF FreshTask, TaskDocs

LEMMA RestIsCall == AtRest \in LifeCalls /\ AtRest.at = "idle" /\ AtRest.kind = "hook"
BY DEF AtRest, LifeCalls, Creating

LEMMA CallChanged ==
  ASSUME LifeShaped, NEW c \in Calls, NEW new \in LifeCalls, Becomes(c, new)
  PROVE  /\ call' \in [Calls -> LifeCalls] /\ call'[c] = new
         /\ \A d \in Calls \ {c} : call'[d] = call[d]
BY DEF LifeShaped, LifeTyped, Becomes

LEMMA CallGoes ==
  ASSUME LifeShaped, NEW c \in Calls,
         NEW label \in {"idle", "lock", "open", "fill", "rename", "budget", "quarantine", "move",
                        "bootstrap"},
         GoesTo(c, label)
  PROVE  /\ call' \in [Calls -> LifeCalls] /\ call'[c].at = label
         /\ call'[c].kind = call[c].kind /\ call'[c].session = call[c].session
         /\ call'[c].doc = call[c].doc /\ call'[c].kept = call[c].kept
         /\ call'[c].into = call[c].into
         /\ \A d \in Calls \ {c} : call'[d] = call[d]
<1>1. call[c] \in LifeCalls
  BY DEF LifeShaped, LifeTyped
<1> DEFINE new == [call[c] EXCEPT !.at = label]
<1>2. /\ new \in LifeCalls /\ new.at = label /\ new.kind = call[c].kind
      /\ new.session = call[c].session /\ new.doc = call[c].doc /\ new.kept = call[c].kept
      /\ new.into = call[c].into
  BY <1>1 DEF LifeCalls
<1>3. Becomes(c, new)
  BY DEF GoesTo, Becomes
<1> HIDE DEF new
<1>4. QED
  BY <1>2, <1>3, CallChanged

-----------------------------------------------------------------------------
(* One call moves.                                                         *)

\* While a creation or a write goes on, the others rest, or are hooks that wait.
LEMMA OthersRest ==
  ASSUME LifeShaped, Calm, NEW c \in Calls, call[c].at # "idle",
         call[c].kind \in Creating \/ call[c].at \in Writing
  PROVE  \A d \in Calls \ {c} :
           \/ call[d].at = "idle"
           \/ call[d].at = "lock" /\ call[d].kind = "hook"
<1> SUFFICES ASSUME NEW d \in Calls \ {c}, call[d].at # "idle"
             PROVE  call[d].at = "lock" /\ call[d].kind = "hook"
  OBVIOUS
<1>1. call[c] \in LifeCalls /\ call[d] \in LifeCalls
  BY DEF LifeShaped, LifeTyped
<1>2. call[c].kind \notin Creating /\ call[d].kind \notin Creating
  BY DEF Calm, Meets, Busy1
<1>3. call[c].kind = "hook" /\ call[d].kind = "hook" /\ call[c].at \in Writing
  BY <1>1, <1>2 DEF LifeCalls
<1>4. owner = c
  BY <1>3 DEF Calm, Part, Writing
<1>5. call[d].at \notin Writing
  BY <1>3, <1>4 DEF Calm, Part, Writing
<1>6. call[d].at \notin {"quarantine", "move", "bootstrap", "budget"}
  BY <1>3 DEF LifeShaped, Shape
<1>7. QED
  BY <1>1, <1>3, <1>5, <1>6 DEF LifeCalls, Writing

LEMMA RestingPart ==
  ASSUME NEW d \in Calls, call'[d].at = call[d].at, call'[d].kind = call[d].kind,
         call[d].at = "idle" \/ (call[d].at = "lock" /\ call[d].kind = "hook")
  PROVE  Part(d)'
BY DEF Part, Writing

LEMMA PartStays ==
  ASSUME NEW d \in Calls, Part(d), call'[d] = call[d], UNCHANGED <<taskFile, holdings>>,
         call[d].at \in Writing => (owner' = d <=> owner = d),
         call[d].at = "rename" => tmpFile' = tmpFile
  PROVE  Part(d)'
BY DEF Part, MakesWay, GoesOn, Writing

\* What is left to show of a step of one call.
LEMMA OneMoves ==
  ASSUME LifeShaped, NEW c \in Calls,
         call' \in [Calls -> LifeCalls], \A d \in Calls \ {c} : call'[d] = call[d],
         taskFile' \in TaskDocs \cup {NoTask, Torn}, tmpFile' \in TaskDocs \cup {NoTask, Torn},
         holdings' \in [Sessions -> SUBSET {"namespace", "flat"}],
         \/ owner' = NoTask
         \/ owner' = c /\ call'[c].at \in Writing
         \/ owner' = owner /\ owner # c,
         Shape(c)'
  PROVE  LifeShaped'
<1>1. LifeTyped'
  BY DEF LifeShaped, LifeTyped
<1>2. owner' # NoTask => call'[owner'].at \in Writing
  BY DEF LifeShaped, LifeTyped
<1>3. \A d \in Calls : Shape(d)'
  BY DEF LifeShaped, Shape
<1>4. QED
  BY <1>1, <1>2, <1>3 DEF LifeShaped

\* A step that leaves the files as they are, by a call that is not writing.
LEMMA OneGoesOn ==
  ASSUME LifeShaped, NEW c \in Calls, NEW new \in LifeCalls, Becomes(c, new),
         UNCHANGED <<taskFile, tmpFile, owner, holdings>>,
         call[c].at \notin Writing, Shape(c)', Calm => Part(c)'
  PROVE  LifeShaped' /\ (Calm => \A d \in Calls : Part(d)')
<1>1. /\ call' \in [Calls -> LifeCalls] /\ call'[c] = new
      /\ \A d \in Calls \ {c} : call'[d] = call[d]
  BY CallChanged
<1>2. owner # c
  BY LifeAssumption DEF LifeShaped, LifeTyped
<1>3. LifeShaped'
  <2>1. /\ taskFile' \in TaskDocs \cup {NoTask, Torn} /\ tmpFile' \in TaskDocs \cup {NoTask, Torn}
        /\ holdings' \in [Sessions -> SUBSET {"namespace", "flat"}]
        /\ owner' = NoTask \/ (owner' = owner /\ owner # c)
    BY <1>2 DEF LifeShaped, LifeTyped
  <2>2. QED
    BY <1>1, <2>1, OneMoves
<1>4. Calm => \A d \in Calls \ {c} : Part(d)'
  BY <1>1, PartStays DEF Calm
<1>5. QED
  BY <1>3, <1>4

\* A call ends without a trace.
LEMMA OneRests ==
  ASSUME LifeShaped, NEW c \in Calls, Becomes(c, AtRest), call[c].at \notin Writing,
         UNCHANGED <<taskFile, tmpFile, owner, holdings>>
  PROVE  LifeShaped' /\ (Calm => \A d \in Calls : Part(d)')
<1>1. call'[c] = AtRest
  BY RestIsCall, CallChanged
<1>2. Shape(c)' /\ Part(c)'
  BY <1>1, RestIsCall DEF Shape, Part, Writing
<1>3. QED
  BY <1>2, RestIsCall, OneGoesOn

-----------------------------------------------------------------------------
(* Who creates a task.                                                     *)

LEMMA bootstrapTaskStateKeeps ==
  ASSUME LifeShaped, NEW c \in Calls, NEW kind \in {"start", "reset"}, NEW s \in Sessions,
         bootstrapTaskState(c, kind, s), call[c].at \notin Writing,
         kind = "reset" => /\ call[c].at = "bootstrap" /\ call[c].session = s
  PROVE  LifeShaped' /\ (Calm => \A d \in Calls : Part(d)')
<1> DEFINE new == [call[c] EXCEPT !.at = "lock", !.kind = kind, !.session = NoTask,
                                  !.doc = FreshTask(s)]
<1>1. /\ Bootstraps(s) /\ Becomes(c, new)
      /\ UNCHANGED <<taskFile, tmpFile, owner, holdings>>
  BY DEF bootstrapTaskState
<1>2. call[c] \in LifeCalls
  BY DEF LifeShaped, LifeTyped
<1>3. /\ new \in LifeCalls /\ new.at = "lock" /\ new.kind = kind /\ new.doc = FreshTask(s)
      /\ new.kept = call[c].kept
  BY <1>2, FreshIsDoc DEF LifeCalls, Creating
<1> HIDE DEF new
<1>4. call'[c] = new
  BY <1>1, <1>3, CallChanged
<1>5. Shape(c)'
  BY <1>3, <1>4, FreshIsDoc DEF Shape, Writing
<1>6. ASSUME Calm PROVE Part(c)'
  <2>1. MakesWay(FreshTask(s))
    BY <1>1, FreshIsDoc DEF Bootstraps, MakesWay
  <2>2. CASE kind = "start"
    BY <1>1, <1>3, <1>4, <2>1, <2>2 DEF Part, Writing, MakesWay
  <2>3. CASE kind = "reset"
    <3>1. Part(c)
      BY <1>6 DEF Calm
    <3>2. taskFile = NoTask /\ (~call[c].kept => "namespace" \notin holdings[s])
      BY <2>3, <3>1 DEF Part
    <3>3. QED
      BY <1>1, <1>3, <1>4, <2>3, <3>2, FreshIsDoc DEF Part, Writing
  <2>4. QED
    BY <2>2, <2>3
<1>7. QED
  BY <1>1, <1>3, <1>5, <1>6, OneGoesOn

LEMMA SessionStartKeeps ==
  ASSUME LifeShaped, NEW c \in Calls, SessionStart(c)
  PROVE  LifeShaped' /\ (Calm => \A d \in Calls : Part(d)')
BY bootstrapTaskStateKeeps DEF SessionStart, Writing

LEMMA InitTaskStateKeeps ==
  ASSUME LifeShaped, NEW c \in Calls, InitTaskState(c)
  PROVE  LifeShaped' /\ (Calm => \A d \in Calls : Part(d)')
<1>1. PICK s \in Sessions :
        Becomes(c, [AtRest EXCEPT !.at = "lock", !.kind = "init", !.doc = FreshTask(s)])
  BY DEF InitTaskState
<1> DEFINE new == [AtRest EXCEPT !.at = "lock", !.kind = "init", !.doc = FreshTask(s)]
<1>2. new \in LifeCalls /\ new.at = "lock" /\ new.kind = "init" /\ new.doc = FreshTask(s)
  BY FreshIsDoc DEF AtRest, LifeCalls, Creating
<1>3. Becomes(c, new) /\ UNCHANGED <<taskFile, tmpFile, owner, holdings>> /\ call[c].at = "idle"
  BY <1>1 DEF InitTaskState
<1> HIDE DEF new
<1>4. call'[c] = new
  BY <1>2, <1>3, CallChanged
<1>5. Shape(c)' /\ Part(c)'
  BY <1>2, <1>4, FreshIsDoc DEF Shape, Part, Writing
<1>6. QED
  BY <1>2, <1>3, <1>5, OneGoesOn DEF Writing

LEMMA ResetTaskKeeps ==
  ASSUME LifeShaped, NEW c \in Calls, ResetTask(c)
  PROVE  LifeShaped' /\ (Calm => \A d \in Calls : Part(d)')
<1>1. PICK s \in Sessions \cup {NoTask} :
        Becomes(c, [AtRest EXCEPT !.at = "quarantine", !.kind = "reset", !.session = s])
  BY DEF ResetTask
<1> DEFINE new == [AtRest EXCEPT !.at = "quarantine", !.kind = "reset", !.session = s]
<1>2. new \in LifeCalls /\ new.at = "quarantine" /\ new.kind = "reset"
  BY DEF AtRest, LifeCalls, Creating
<1>3. /\ Becomes(c, new) /\ UNCHANGED <<taskFile, tmpFile, owner, holdings>>
      /\ call[c].at = "idle" /\ taskFile = Torn
  BY <1>1 DEF ResetTask
<1> HIDE DEF new
<1>4. call'[c] = new
  BY <1>2, <1>3, CallChanged
<1>5. Shape(c)' /\ Part(c)'
  BY <1>2, <1>3, <1>4 DEF Shape, Part, Writing
<1>6. QED
  BY <1>2, <1>3, <1>5, OneGoesOn DEF Writing

LEMMA QuarantineKeeps ==
  ASSUME LifeShaped, NEW c \in Calls, Quarantine(c)
  PROVE  LifeShaped' /\ (Calm => \A d \in Calls : Part(d)')
<1>1. /\ call[c].at = "quarantine" /\ taskFile' = NoTask
      /\ UNCHANGED <<tmpFile, owner, holdings>>
      /\ Becomes(c, AtRest) \/ GoesTo(c, "move")
  BY DEF Quarantine
<1>2. call[c].kind = "reset" /\ owner # c
  BY <1>1, LifeAssumption DEF LifeShaped, Shape, Writing
<1>3. /\ call' \in [Calls -> LifeCalls] /\ \A d \in Calls \ {c} : call'[d] = call[d]
      /\ call'[c] = AtRest \/ (call'[c].at = "move" /\ call'[c].kind = "reset")
  BY <1>1, <1>2, RestIsCall, CallChanged, CallGoes
<1>4. Shape(c)' /\ Part(c)'
  BY <1>1, <1>3, RestIsCall DEF Shape, Part, Writing
<1>5. LifeShaped'
  <2>1. /\ taskFile' \in TaskDocs \cup {NoTask, Torn} /\ tmpFile' \in TaskDocs \cup {NoTask, Torn}
        /\ holdings' \in [Sessions -> SUBSET {"namespace", "flat"}]
        /\ owner' = owner /\ owner # c
    BY <1>1, <1>2 DEF LifeShaped, LifeTyped
  <2>2. QED
    BY <1>3, <1>4, <2>1, OneMoves
<1>6. ASSUME Calm, NEW d \in Calls \ {c} PROVE Part(d)'
  BY <1>1, <1>2, <1>3, <1>6, OthersRest, RestingPart DEF Creating
<1>7. QED
  BY <1>4, <1>5, <1>6

LEMMA moveAsideIfExistsKeeps ==
  ASSUME LifeShaped, NEW c \in Calls, moveAsideIfExists(c)
  PROVE  LifeShaped' /\ (Calm => \A d \in Calls : Part(d)')
<1>1. call[c].at = "move" /\ call[c].kind = "reset" /\ call[c] \in LifeCalls
  BY DEF moveAsideIfExists, LifeShaped, LifeTyped, Shape
<1>2. CASE Becomes(c, AtRest) /\ UNCHANGED holdings
  BY <1>1, <1>2, OneRests DEF moveAsideIfExists, Writing
<1>3. ASSUME NEW s \in Sessions, s = call[c].session, NEW moved \in BOOLEAN,
             Becomes(c, [call[c] EXCEPT !.at = "bootstrap", !.kept = ~moved]),
             holdings' = IF moved THEN [holdings EXCEPT ![s] = @ \ {"namespace"}] ELSE holdings
      PROVE  LifeShaped' /\ (Calm => \A d \in Calls : Part(d)')
  <2> DEFINE new == [call[c] EXCEPT !.at = "bootstrap", !.kept = ~moved]
  <2>1. /\ new \in LifeCalls /\ new.at = "bootstrap" /\ new.kind = "reset"
        /\ new.session = s /\ (~new.kept => moved)
    BY <1>1, <1>3 DEF LifeCalls
  <2>2. Becomes(c, new)
    BY <1>3
  <2> HIDE DEF new
  <2>3. /\ call' \in [Calls -> LifeCalls] /\ call'[c] = new
        /\ \A d \in Calls \ {c} : call'[d] = call[d]
    BY <2>1, <2>2, CallChanged
  <2>4. UNCHANGED <<taskFile, tmpFile, owner>> /\ owner # c
    BY <1>1, LifeAssumption DEF moveAsideIfExists, LifeShaped, Writing
  <2>5. /\ holdings' \in [Sessions -> SUBSET {"namespace", "flat"}]
        /\ moved => "namespace" \notin holdings'[s]
    BY <1>3 DEF LifeShaped, LifeTyped
  <2>6. Shape(c)'
    BY <2>1, <2>3 DEF Shape, Writing
  <2>7. LifeShaped'
    <3>1. /\ taskFile' \in TaskDocs \cup {NoTask, Torn} /\ tmpFile' \in TaskDocs \cup {NoTask, Torn}
          /\ owner' = owner /\ owner # c
      BY <2>4 DEF LifeShaped, LifeTyped
    <3>2. QED
      BY <2>3, <2>5, <2>6, <3>1, OneMoves
  <2>8. ASSUME Calm, NEW d \in Calls PROVE Part(d)'
    <3>1. CASE d = c
      <4>1. taskFile = NoTask
        BY <1>1, <2>8 DEF Calm, Part
      <4>2. QED
        BY <2>1, <2>3, <2>4, <2>5, <3>1, <4>1 DEF Part, Writing
    <3>2. CASE d # c
      BY <1>1, <2>3, <2>8, <3>2, OthersRest, RestingPart DEF Creating
    <3>3. QED
      BY <3>1, <3>2
  <2>9. QED
    BY <2>7, <2>8
<1>4. QED
  BY <1>1, <1>2, <1>3 DEF moveAsideIfExists, LifeCalls

LEMMA ResetBootstrapsKeeps ==
  ASSUME LifeShaped, NEW c \in Calls, ResetBootstraps(c)
  PROVE  LifeShaped' /\ (Calm => \A d \in Calls : Part(d)')
<1>1. call[c].at = "bootstrap" /\ call[c].session \in Sessions
  BY DEF ResetBootstraps, LifeShaped, Shape
<1>2. QED
  BY <1>1, OneRests, bootstrapTaskStateKeeps DEF ResetBootstraps, Writing

-----------------------------------------------------------------------------
(* A write.                                                                *)

LEMMA HookBeginsKeeps ==
  ASSUME LifeShaped, NEW c \in Calls, HookBegins(c)
  PROVE  LifeShaped' /\ (Calm => \A d \in Calls : Part(d)')
<1> DEFINE new == [AtRest EXCEPT !.at = "lock"]
<1>1. new \in LifeCalls /\ new.at = "lock" /\ new.kind = "hook"
  BY DEF AtRest, LifeCalls
<1>2. /\ Becomes(c, new) /\ UNCHANGED <<taskFile, tmpFile, owner, holdings>>
      /\ call[c].at = "idle"
  BY DEF HookBegins
<1> HIDE DEF new
<1>3. call'[c] = new
  BY <1>1, <1>2, CallChanged
<1>4. Shape(c)' /\ Part(c)'
  BY <1>1, <1>3 DEF Shape, Part, Writing
<1>5. QED
  BY <1>1, <1>2, <1>4, OneGoesOn DEF Writing

\* A commit is a step forward from the document it was made of.
LEMMA CommitsGoOn ==
  ASSUME NEW new \in Commits(taskFile), IsDoc(taskFile)
  PROVE  new \in TaskDocs /\ GoesOn(new)
<1>1. taskFile \in TaskDocs /\ new \in TaskDocs
  BY DEF IsDoc, Commits
<1>2. rank(taskFile.gate) \in 1 .. 3 /\ rank(new.gate) \in 1 .. 3
  BY <1>1, Ranks DEF TaskDocs
<1>3. new.task = taskFile.task /\ (taskFile.pack => new.pack)
  BY <1>1 DEF Commits
<1>4. rank(new.gate) = rank(taskFile.gate) + 1 \/ new.gate = taskFile.gate
  BY DEF Commits
<1>5. QED
  BY <1>1, <1>2, <1>3, <1>4 DEF GoesOn, IsDoc

\* The lock is taken: nobody else is writing.
LEMMA Acquire1Keeps ==
  ASSUME LifeShaped, NEW c \in Calls, Acquire1(c)
  PROVE  LifeShaped' /\ (Calm => \A d \in Calls : Part(d)')
<1>1. /\ call[c].at = "lock" /\ owner = NoTask /\ call[c] \in LifeCalls
      /\ UNCHANGED <<taskFile, tmpFile, holdings>>
  BY DEF Acquire1, LifeShaped, LifeTyped
<1>2. CASE UNCHANGED owner /\ Becomes(c, AtRest)
  BY <1>1, <1>2, OneRests DEF Writing
<1>3. ASSUME owner' = c, NEW new \in LifeCalls, Becomes(c, new), new.at = "open",
             new.kind = call[c].kind, new.doc \in TaskDocs, new.kept = call[c].kept,
             IF new.kind = "hook" THEN GoesOn(new.doc) ELSE new.doc = call[c].doc
      PROVE  LifeShaped' /\ (Calm => \A d \in Calls : Part(d)')
  <2>1. /\ call' \in [Calls -> LifeCalls] /\ call'[c] = new
        /\ \A d \in Calls \ {c} : call'[d] = call[d]
    BY <1>3, CallChanged
  <2>2. Shape(c)'
    BY <1>3, <2>1 DEF Shape, Writing
  <2>3. LifeShaped'
    <3>1. /\ taskFile' \in TaskDocs \cup {NoTask, Torn} /\ tmpFile' \in TaskDocs \cup {NoTask, Torn}
          /\ holdings' \in [Sessions -> SUBSET {"namespace", "flat"}]
          /\ owner' = c /\ call'[c].at \in Writing
      BY <1>1, <1>3, <2>1 DEF LifeShaped, LifeTyped, Writing
    <3>2. QED
      BY <2>1, <2>2, <3>1, OneMoves
  <2>4. ASSUME Calm, NEW d \in Calls PROVE Part(d)'
    <3>1. Part(d)
      BY <2>4 DEF Calm
    <3>2. CASE d = c
      <4>1. GoesOn(new.doc)' <=> GoesOn(new.doc)
        BY <1>1 DEF GoesOn
      <4>2. MakesWay(new.doc)' <=> MakesWay(new.doc)
        BY <1>1 DEF MakesWay
      <4>3. QED
        BY <1>1, <1>3, <2>1, <3>1, <3>2, <4>1, <4>2 DEF Part, Writing
    <3>3. CASE d # c
      <4>1. owner # d /\ owner' # d
        BY <1>1, <1>3, <3>3, LifeAssumption
      <4>2. QED
        BY <1>1, <2>1, <3>1, <3>3, <4>1, PartStays
    <3>4. QED
      BY <3>2, <3>3
  <2>5. QED
    BY <2>3, <2>4
<1>4. CASE call[c].kind # "hook"
  <2> DEFINE new == [call[c] EXCEPT !.at = "open"]
  <2>1. Becomes(c, new) /\ owner' = c
    BY <1>4 DEF Acquire1, GoesTo, Becomes
  <2>2. /\ new \in LifeCalls /\ new.at = "open" /\ new.kind = call[c].kind
        /\ new.doc = call[c].doc /\ new.kept = call[c].kept
    BY <1>1 DEF LifeCalls
  <2>3. call[c].doc \in TaskDocs
    BY <1>1, <1>4 DEF LifeShaped, Shape
  <2> HIDE DEF new
  <2>4. QED
    BY <1>3, <1>4, <2>1, <2>2, <2>3
<1>5. CASE call[c].kind = "hook" /\ IsDoc(taskFile) /\ Commits(taskFile) # {}
  <2>1. PICK state \in Commits(taskFile) : Becomes(c, [call[c] EXCEPT !.at = "open", !.doc = state])
    BY <1>5 DEF Acquire1
  <2> DEFINE new == [call[c] EXCEPT !.at = "open", !.doc = state]
  <2>2. Becomes(c, new) /\ owner' = c
    BY <1>5, <2>1 DEF Acquire1
  <2>3. state \in TaskDocs /\ GoesOn(state)
    BY <1>5, CommitsGoOn
  <2>4. /\ new \in LifeCalls /\ new.at = "open" /\ new.kind = call[c].kind
        /\ new.doc = state /\ new.kept = call[c].kept
    BY <1>1, <2>3 DEF LifeCalls
  <2> HIDE DEF new
  <2>5. QED
    BY <1>3, <1>5, <2>2, <2>3, <2>4
<1>6. QED
  BY <1>2, <1>4, <1>5 DEF Acquire1

LEMMA OpenTmp1Keeps ==
  ASSUME LifeShaped, NEW c \in Calls, OpenTmp1(c)
  PROVE  LifeShaped' /\ (Calm => \A d \in Calls : Part(d)')
<1> DEFINE new == [call[c] EXCEPT !.at = "fill", !.into = "tmp"]
<1>1. /\ call[c].at = "open" /\ call[c] \in LifeCalls /\ Becomes(c, new) /\ tmpFile' = Torn
      /\ UNCHANGED <<taskFile, owner, holdings>>
  BY DEF OpenTmp1, LifeShaped, LifeTyped
<1>2. /\ new \in LifeCalls /\ new.at = "fill" /\ new.into = "tmp" /\ new.kind = call[c].kind
      /\ new.doc = call[c].doc /\ new.kept = call[c].kept
  BY <1>1 DEF LifeCalls
<1> HIDE DEF new
<1>3. /\ call' \in [Calls -> LifeCalls] /\ call'[c] = new
      /\ \A d \in Calls \ {c} : call'[d] = call[d]
  BY <1>1, <1>2, CallChanged
<1>4. LifeShaped'
  <2>1. Shape(c)'
    BY <1>1, <1>2, <1>3 DEF LifeShaped, Shape, Writing
  <2>2. /\ taskFile' \in TaskDocs \cup {NoTask, Torn} /\ tmpFile' \in TaskDocs \cup {NoTask, Torn}
        /\ holdings' \in [Sessions -> SUBSET {"namespace", "flat"}]
        /\ (owner' = c /\ call'[c].at \in Writing) \/ (owner' = owner /\ owner # c)
    BY <1>1, <1>2, <1>3 DEF LifeShaped, LifeTyped, Writing
  <2>3. QED
    BY <1>3, <2>1, <2>2, OneMoves
<1>5. ASSUME Calm PROVE Part(c)'
  <2>1. Part(c)
    BY <1>5 DEF Calm
  <2>2. /\ call'[c].at = "fill" /\ call'[c].into = "tmp" /\ call'[c].kind = call[c].kind
        /\ call'[c].doc = call[c].doc /\ call'[c].kept = call[c].kept
    BY <1>2, <1>3
  <2>3. /\ GoesOn(call[c].doc) => GoesOn(call[c].doc)'
        /\ MakesWay(call[c].doc) => MakesWay(call[c].doc)'
    BY <1>1, <2>2 DEF GoesOn, MakesWay
  <2>4. call[c].kind \in {"start", "init", "reset", "hook"}
    BY <1>1 DEF LifeCalls, Creating
  <2>5. CASE call[c].kind = "start"
    BY <1>1, <2>1, <2>2, <2>3, <2>5 DEF Part, Writing
  <2>6. CASE call[c].kind = "hook"
    BY <1>1, <2>1, <2>2, <2>3, <2>6 DEF Part, Writing
  <2>7. CASE call[c].kind \in {"init", "reset"}
    BY <1>1, <2>1, <2>2, <2>7 DEF Part, Writing
  <2>8. QED
    BY <2>4, <2>5, <2>6, <2>7
<1>6. ASSUME Calm, NEW d \in Calls \ {c} PROVE Part(d)'
  BY <1>1, <1>3, <1>6, OthersRest, RestingPart DEF Writing
<1>7. QED
  BY <1>4, <1>5, <1>6

\* Alone at it, a writer finds in .tmp what it has written.
LEMMA FillTmp1Alone ==
  ASSUME LifeShaped, Calm, NEW c \in Calls, FillTmp1(c)
  PROVE  taskFile' = taskFile /\ tmpFile' = call[c].doc
<1>1. call[c].at = "fill" /\ call[c].into = "tmp"
  BY DEF FillTmp1, Calm, Part
<1>2. \A d \in Calls \ {c} : call[d].at \notin {"fill", "rename"}
  BY <1>1, OthersRest DEF Writing
<1>3. QED
  BY <1>1, <1>2 DEF FillTmp1

LEMMA FillTmp1Keeps ==
  ASSUME LifeShaped, NEW c \in Calls, FillTmp1(c)
  PROVE  LifeShaped' /\ (Calm => \A d \in Calls : Part(d)')
<1>1. /\ call[c].at = "fill" /\ GoesTo(c, "rename") /\ UNCHANGED <<owner, holdings>>
      /\ tmpFile' \in {call[c].doc, Torn, tmpFile} /\ taskFile' \in {call[c].doc, Torn, taskFile}
  BY DEF FillTmp1
<1>2. /\ call' \in [Calls -> LifeCalls] /\ call'[c].at = "rename"
      /\ call'[c].kind = call[c].kind /\ call'[c].session = call[c].session
      /\ call'[c].doc = call[c].doc /\ call'[c].kept = call[c].kept
      /\ call'[c].into = call[c].into
      /\ \A d \in Calls \ {c} : call'[d] = call[d]
  BY <1>1, CallGoes
<1>3. LifeShaped'
  <2>1. Shape(c)' /\ call[c].doc \in TaskDocs
    BY <1>1, <1>2 DEF LifeShaped, Shape, Writing
  <2>2. /\ taskFile' \in TaskDocs \cup {NoTask, Torn} /\ tmpFile' \in TaskDocs \cup {NoTask, Torn}
        /\ holdings' \in [Sessions -> SUBSET {"namespace", "flat"}]
        /\ (owner' = c /\ call'[c].at \in Writing) \/ (owner' = owner /\ owner # c)
    BY <1>1, <1>2, <2>1 DEF LifeShaped, LifeTyped, Writing
  <2>3. QED
    BY <1>2, <2>1, <2>2, OneMoves
<1>4. ASSUME Calm PROVE Part(c)'
  <2>1. Part(c) /\ taskFile' = taskFile /\ tmpFile' = call[c].doc
    BY <1>4, FillTmp1Alone DEF Calm
  <2>2. QED
    BY <1>1, <1>2, <2>1 DEF Part, Writing, GoesOn, MakesWay
<1>5. ASSUME Calm, NEW d \in Calls \ {c} PROVE Part(d)'
  BY <1>1, <1>2, <1>5, OthersRest, RestingPart DEF Writing
<1>6. QED
  BY <1>3, <1>4, <1>5

LEMMA Rename1Keeps ==
  ASSUME LifeShaped, NEW c \in Calls, Rename1(c)
  PROVE  LifeShaped' /\ (Calm => \A d \in Calls : Part(d)')
<1>1. /\ call[c].at = "rename" /\ tmpFile' = NoTask /\ taskFile' \in {tmpFile, taskFile}
      /\ owner' = (IF owner = c THEN NoTask ELSE owner) /\ UNCHANGED holdings
  BY DEF Rename1
<1>2. /\ call' \in [Calls -> LifeCalls]
      /\ call'[c] = AtRest \/ (call'[c].at = "budget" /\ call'[c].kind = "start")
      /\ \A d \in Calls \ {c} :
           /\ call'[d].at = call[d].at /\ call'[d].kind = call[d].kind
           /\ call'[d].session = call[d].session /\ call'[d].doc = call[d].doc
  <2> DEFINE budget == [AtRest EXCEPT !.at = "budget", !.kind = "start"]
             into(d, i) == [call[d] EXCEPT !.into = i]
  <2>1. budget \in LifeCalls /\ budget.at = "budget" /\ budget.kind = "start"
    BY DEF AtRest, LifeCalls, Creating
  <2>2. ASSUME NEW d \in Calls, NEW i \in {"file", "gone"}
        PROVE  /\ into(d, i) \in LifeCalls /\ into(d, i).at = call[d].at
               /\ into(d, i).kind = call[d].kind /\ into(d, i).session = call[d].session
               /\ into(d, i).doc = call[d].doc
    <3>1. call[d] \in LifeCalls
      BY DEF LifeShaped, LifeTyped
    <3>2. QED
      BY <3>1 DEF LifeCalls
  <2>3. \A d \in Calls \ {c} : call'[d] \in {call[d], into(d, "file"), into(d, "gone")}
    BY DEF Rename1
  <2>4. call'[c] \in {AtRest, budget}
    BY DEF Rename1
  <2>5. call' = [d \in Calls |-> call'[d]]
    BY DEF Rename1
  <2> HIDE DEF budget, into
  <2>6. \A d \in Calls : call[d] \in LifeCalls
    BY DEF LifeShaped, LifeTyped
  <2>7. \A d \in Calls : call'[d] \in LifeCalls
    BY <2>1, <2>2, <2>3, <2>4, <2>6, RestIsCall
  <2>8. call' \in [Calls -> LifeCalls]
    BY <2>5, <2>7
  <2>9. QED
    BY <2>1, <2>2, <2>3, <2>4, <2>8
<1>3. LifeShaped'
  <2>1. LifeTyped'
    BY <1>1, <1>2 DEF LifeShaped, LifeTyped
  <2>2. owner' # NoTask => call'[owner'].at \in Writing
    BY <1>1, <1>2 DEF LifeShaped, LifeTyped
  <2>3. Shape(c)'
    BY <1>2, RestIsCall DEF Shape, Writing
  <2>4. \A d \in Calls \ {c} : Shape(d)'
    BY <1>2 DEF LifeShaped, Shape
  <2>5. QED
    BY <2>1, <2>2, <2>3, <2>4 DEF LifeShaped
<1>4. Part(c)'
  BY <1>2, RestIsCall DEF Part, Writing
<1>5. ASSUME Calm, NEW d \in Calls \ {c} PROVE Part(d)'
  BY <1>1, <1>2, <1>5, OthersRest, RestingPart DEF Writing
<1>6. QED
  BY <1>3, <1>4, <1>5

LEMMA persistBudgetKeeps ==
  ASSUME LifeShaped, NEW c \in Calls, persistBudget(c)
  PROVE  LifeShaped' /\ (Calm => \A d \in Calls : Part(d)')
<1>1. /\ call[c].at = "budget" /\ call[c].kind = "start" /\ call[c] \in LifeCalls
      /\ UNCHANGED <<taskFile, tmpFile, owner, holdings>> /\ owner # c
  BY LifeAssumption DEF persistBudget, LifeShaped, LifeTyped, Shape, Writing
<1>2. CASE ~IsDoc(taskFile)
  BY <1>1, <1>2, OneRests DEF persistBudget, Writing
<1>3. CASE IsDoc(taskFile)
  <2> DEFINE new == [call[c] EXCEPT !.at = "open", !.doc = taskFile]
  <2>1. /\ new \in LifeCalls /\ new.at = "open" /\ new.kind = "start" /\ new.doc = taskFile
    BY <1>1, <1>3 DEF LifeCalls, IsDoc
  <2>2. Becomes(c, new)
    BY <1>3 DEF persistBudget
  <2> HIDE DEF new
  <2>3. call'[c] = new
    BY <2>1, <2>2, CallChanged
  <2>4. Shape(c)'
    BY <1>3, <2>1, <2>3 DEF Shape, Writing, IsDoc
  <2>5. GoesOn(taskFile)'
    <3>1. rank(taskFile.gate) \in 1 .. 3
      BY <1>3, Ranks DEF IsDoc, TaskDocs
    <3>2. QED
      BY <1>1, <1>3, <3>1 DEF GoesOn, IsDoc
  <2>6. Part(c)'
    BY <1>1, <2>1, <2>3, <2>5 DEF Part, Writing, GoesOn
  <2>7. QED
    BY <1>1, <2>1, <2>2, <2>4, <2>6, OneGoesOn DEF Writing
<1>4. QED
  BY <1>2, <1>3

LEMMA CallDiesKeeps ==
  ASSUME LifeShaped, NEW c \in Calls, CallDies(c)
  PROVE  LifeShaped' /\ (Calm => \A d \in Calls : Part(d)')
<1>1. /\ Becomes(c, AtRest) /\ owner' = (IF owner = c THEN NoTask ELSE owner)
      /\ tmpFile' \in {tmpFile, NoTask} /\ UNCHANGED <<taskFile, holdings>>
      /\ (\E d \in Calls \ {c} : call[d].at \in {"fill", "rename"}) => tmpFile' = tmpFile
  BY DEF CallDies
<1>2. /\ call' \in [Calls -> LifeCalls] /\ call'[c] = AtRest
      /\ \A d \in Calls \ {c} : call'[d] = call[d]
  BY <1>1, RestIsCall, CallChanged
<1>3. Shape(c)' /\ Part(c)'
  BY <1>2, RestIsCall DEF Shape, Part, Writing
<1>4. LifeShaped'
  <2>1. /\ taskFile' \in TaskDocs \cup {NoTask, Torn} /\ tmpFile' \in TaskDocs \cup {NoTask, Torn}
        /\ holdings' \in [Sessions -> SUBSET {"namespace", "flat"}]
        /\ owner' = NoTask \/ (owner' = owner /\ owner # c)
    BY <1>1 DEF LifeShaped, LifeTyped
  <2>2. QED
    BY <1>2, <1>3, <2>1, OneMoves
<1>5. ASSUME Calm, NEW d \in Calls \ {c} PROVE Part(d)'
  <2>1. Part(d) /\ (owner' = d <=> owner = d)
    BY <1>1, <1>5, LifeAssumption DEF Calm
  <2>2. QED
    BY <1>1, <1>2, <2>1, PartStays
<1>6. QED
  BY <1>3, <1>4, <1>5

-----------------------------------------------------------------------------
(* The session's work, an edit by hand, and the invariant.                 *)

LEMMA WorkKeeps ==
  ASSUME LifeShaped, Work
  PROVE  LifeShaped' /\ (Calm => \A d \in Calls : Part(d)')
<1>1. /\ IsDoc(taskFile) /\ taskFile # NoTask /\ UNCHANGED <<taskFile, tmpFile, owner, call>>
      /\ holdings' = [holdings EXCEPT ![taskFile.task] = {"namespace", "flat"}]
  BY LifeAssumption DEF Work, IsDoc
<1>2. LifeShaped'
  BY <1>1 DEF LifeShaped, LifeTyped, Shape
<1>3. ASSUME Calm, NEW d \in Calls PROVE Part(d)'
  BY <1>1, <1>3 DEF Calm, Part, GoesOn, MakesWay
<1>4. QED
  BY <1>2, <1>3

LEMMA HandEditKeeps ==
  ASSUME LifeShaped, HandEdit
  PROVE  LifeShaped' /\ (Calm => \A d \in Calls : Part(d)')
<1>1. /\ IsDoc(taskFile) /\ taskFile # NoTask /\ taskFile' = Torn
      /\ UNCHANGED <<tmpFile, owner, call, holdings>>
  BY LifeAssumption DEF HandEdit, IsDoc
<1>2. LifeShaped'
  BY <1>1 DEF LifeShaped, LifeTyped, Shape
<1>3. ASSUME Calm, NEW d \in Calls PROVE Part(d)'
  BY <1>1, <1>3 DEF Calm, Part, GoesOn, MakesWay
<1>4. QED
  BY <1>2, <1>3

LEMMA InitLifeInv == LifeInit => LifeInv
<1> SUFFICES ASSUME LifeInit PROVE LifeInv
  OBVIOUS
<1>1. \A c \in Calls : call[c] = AtRest
  BY DEF LifeInit
<1>2. \A c \in Calls : Shape(c) /\ Part(c) /\ ~Busy1(c)
  BY <1>1, RestIsCall DEF Shape, Part, Writing, Busy1
<1>3. LifeTyped
  BY RestIsCall DEF LifeInit, LifeTyped
<1>4. QED
  BY <1>2, <1>3 DEF LifeInit, LifeInv, LifeShaped, Calm, Meets

LEMMA StepLifeInv == LifeInv /\ [LifeNext]_lifeVars => LifeInv'
<1>1. ASSUME LifeInv, LifeNext PROVE LifeInv'
  <2>1. LifeShaped
    BY <1>1 DEF LifeInv
  <2>2. LifeShaped' /\ (Calm => \A d \in Calls : Part(d)')
    BY <1>1, <2>1, SessionStartKeeps, InitTaskStateKeeps, ResetTaskKeeps, HookBeginsKeeps,
       QuarantineKeeps, moveAsideIfExistsKeeps, ResetBootstrapsKeeps, Acquire1Keeps,
       OpenTmp1Keeps, FillTmp1Keeps, Rename1Keeps, persistBudgetKeeps, CallDiesKeeps,
       WorkKeeps, HandEditKeeps
    DEF LifeNext
  <2>3. ASSUME ~crowded' PROVE Calm'
    <3>1. CASE \E d \in Calls : Busy1(d)'
      <4>1. ~crowded /\ ~Meets'
        BY <1>1, <2>3, <3>1 DEF LifeNext, Crowd
      <4>2. QED
        BY <1>1, <2>2, <4>1 DEF LifeInv, Calm
    <3>2. CASE \A d \in Calls : ~Busy1(d)'
      <4>1. \A d \in Calls : Part(d)'
        BY <3>2 DEF Busy1, Part, Writing
      <4>2. ~Meets'
        BY <3>2 DEF Meets
      <4>3. QED
        BY <4>1, <4>2 DEF Calm
    <3>3. QED
      BY <3>1, <3>2
  <2>4. QED
    BY <2>2, <2>3 DEF LifeInv
<1>2. ASSUME LifeInv, UNCHANGED lifeVars PROVE LifeInv'
  <2>1. UNCHANGED <<taskFile, tmpFile, owner, call, holdings, crowded>>
    BY <1>2 DEF lifeVars
  <2>2. LifeShaped'
    BY <1>2, <2>1 DEF LifeInv, LifeShaped, LifeTyped, Shape
  <2>3. Calm => Calm'
    BY <2>1 DEF Calm, Meets, Busy1, Part, GoesOn, MakesWay
  <2>4. QED
    BY <1>2, <2>1, <2>2, <2>3 DEF LifeInv
<1>3. QED
  BY <1>1, <1>2
-----------------------------------------------------------------------------
(* A task's life.                                                          *)

LEMMA KeptIsForward ==
  ASSUME IsDoc(taskFile), taskFile' = taskFile
  PROVE  Forward
<1>1. rank(taskFile.gate) \in 1 .. 3
  BY Ranks DEF IsDoc, TaskDocs
<1>2. QED
  BY <1>1 DEF Forward, IsDoc

\* The document a writer is about to rename into place takes a task forward.
LEMMA RenamedIsForward ==
  ASSUME LifeShaped, Calm, IsDoc(taskFile), NEW c \in Calls, Rename1(c)
  PROVE  Requested \/ Forward
<1>1. /\ call[c].at = "rename" /\ Part(c) /\ tmpFile = call[c].doc /\ call[c].doc \in TaskDocs
      /\ call[c].kind \in {"start", "init", "reset", "hook"}
  BY DEF Rename1, Calm, LifeShaped, LifeTyped, LifeCalls, Creating, Shape, Part, Writing
<1>2. taskFile \notin {NoTask, Torn} /\ taskFile' = call[c].doc
  BY <1>1, LifeAssumption DEF Rename1, IsDoc
<1>3. CASE call[c].kind = "init"
  BY <1>1, <1>3 DEF Part, Requested, Writing
<1>4. CASE call[c].kind = "reset"
  BY <1>1, <1>2, <1>4 DEF Part, Writing
<1>5. CASE GoesOn(call[c].doc)
  BY <1>1, <1>2, <1>5 DEF GoesOn, Forward, IsDoc
<1>6. CASE MakesWay(call[c].doc)
  BY <1>1, <1>2, <1>6 DEF MakesWay, Forward, IsDoc
<1>7. call[c].kind \in {"start", "hook"} => GoesOn(call[c].doc) \/ MakesWay(call[c].doc)
  BY <1>1 DEF Part, Writing
<1>8. QED
  BY <1>1, <1>3, <1>4, <1>5, <1>6, <1>7

LEMMA StepsAreForward ==
  ASSUME LifeShaped, Calm, IsDoc(taskFile), LifeNext
  PROVE  HandEdit \/ Requested \/ Forward
<1>1. ASSUME NEW c \in Calls, Quarantine(c) PROVE FALSE
  BY <1>1, LifeAssumption DEF Quarantine, Calm, Part, IsDoc
<1>2. ASSUME NEW c \in Calls, FillTmp1(c) PROVE Forward
  BY <1>2, FillTmp1Alone, KeptIsForward
<1>3. ASSUME NEW c \in Calls, Rename1(c) PROVE Requested \/ Forward
  BY <1>3, RenamedIsForward
<1>4. \/ HandEdit
      \/ \E c \in Calls : Quarantine(c) \/ FillTmp1(c) \/ Rename1(c)
      \/ taskFile' = taskFile
  BY DEF LifeNext, SessionStart, InitTaskState, ResetTask, HookBegins, moveAsideIfExists,
         ResetBootstraps, bootstrapTaskState, Acquire1, OpenTmp1, persistBudget, CallDies, Work
<1>5. QED
  BY <1>1, <1>2, <1>3, <1>4, KeptIsForward

\* As long as no creation meets another call, whatever starts, commits, fails or
\* dies, no task goes back and only a finished one makes way to another, but for
\* init-task-state and an edit by hand; and the task a reset makes finds no session
\* directory, trace or ledger under its id (bootstrapTaskState, recoverCorruptState).
THEOREM TaskLifeKeptHolds == LifeSpec => TaskLifeKept
<1>1. LifeInit => LifeInv
  BY InitLifeInv
<1>2. LifeInv /\ [LifeNext]_lifeVars => LifeInv'
  BY StepLifeInv
<1>3. LifeInv /\ [LifeNext]_lifeVars =>
        [ IsDoc(taskFile) /\ ~crowded =>
            \/ HandEdit \/ Requested
            \/ /\ IsDoc(taskFile')
               /\ taskFile'.task # taskFile.task => taskFile.gate = "done"
               /\ taskFile'.task = taskFile.task => /\ rank(taskFile'.gate) >= rank(taskFile.gate)
                                                    /\ taskFile.pack => taskFile'.pack ]_lifeVars
  BY StepsAreForward DEF LifeInv, Forward
<1>4. LifeInv /\ [LifeNext]_lifeVars =>
        [ \A c \in Calls : ~crowded /\ owner = c /\ Rename1(c) /\ call[c].kind = "reset" /\ ~call[c].kept
            => "namespace" \notin holdings[call[c].doc.task] ]_lifeVars
  <2> SUFFICES ASSUME LifeInv, NEW c \in Calls, ~crowded, Rename1(c),
                      call[c].kind = "reset", ~call[c].kept
               PROVE  "namespace" \notin holdings[call[c].doc.task]
    OBVIOUS
  <2>1. call[c].at = "rename" /\ Part(c)
    BY DEF Rename1, LifeInv, Calm
  <2>2. QED
    BY <2>1 DEF Part, Writing
<1>5. QED
  BY <1>1, <1>2, <1>3, <1>4, PTL DEF LifeSpec, TaskLifeKept, NoTaskGoesBack, ResetLeavesNamespace

-----------------------------------------------------------------------------
(* What the state is like, whatever happens.                               *)

CrowdedTyped == crowded \in BOOLEAN

LEMMA LifeTypes == LifeSpec => []LifeTypeOK
<1>1. LifeInit => CrowdedTyped
  BY DEF LifeInit, CrowdedTyped
<1>2. ASSUME CrowdedTyped, [LifeNext]_lifeVars
      PROVE  CrowdedTyped'
  <2>1. CASE LifeNext
    <3>1. Crowd
      BY <2>1 DEF LifeNext
    <3>2. QED
      BY Zenon, <3>1 DEF Crowd, CrowdedTyped
  <2>2. CASE UNCHANGED crowded
    BY Zenon, <1>2, <2>2 DEF CrowdedTyped
  <2>3. QED
    BY <1>2, <2>1, <2>2 DEF lifeVars
<1>3. LifeInv /\ CrowdedTyped => LifeTypeOK
  BY Zenon DEF LifeInv, LifeShaped, LifeTyped, CrowdedTyped, LifeTypeOK
<1>4. QED
  BY <1>1, <1>2, <1>3, InitLifeInv, StepLifeInv, PTL DEF LifeSpec

-----------------------------------------------------------------------------
(***************************************************************************)
(* The boxes of spec.md follow the trace.                                  *)
(***************************************************************************)

ProgressTyped ==
  /\ events \in Seq(TraceEvents) /\ text \in SpecTexts
  /\ DOMAIN tick = Ticks
  /\ \A c \in Ticks : TickRunning(c) => tick[c] \in TickCalls

\* What a call has in hand is in the trace; alone, it is all there is.
TickPart(c) ==
  TickRunning(c) =>
    /\ tick[c].already \subseteq completedAcNumbers
    /\ tick[c].seen.ticked \subseteq completedAcNumbers
    /\ tick[c].alone =>
         /\ \A d \in Ticks \ {c} : ~TickRunning(d)
         /\ tick[c].already = completedAcNumbers
         /\ tick[c].at \in {"write", "digest"} => tick[c].seen = text
         /\ tick[c].at = "digest" => text.ticked = completedAcNumbers

ProgressInv ==
  /\ ProgressTyped
  /\ \A c \in Ticks : TickPart(c)
  /\ settled => \A c \in Ticks : ~TickRunning(c)
  /\ BoxesFollowTrace

-----------------------------------------------------------------------------
(* What an event adds, and who a step of one call concerns.                *)

LEMMA EventsComplete ==
  ASSUME ProgressTyped, NEW s \in ProgressSteps,
         NEW type \in {"step_complete", "loop_halt", "other"}, Append1(s, type)
  PROVE  /\ events' \in Seq(TraceEvents)
         /\ completedAcNumbers' =
              completedAcNumbers \cup { n \in Acs : n = s /\ type = "step_complete" }
<1> DEFINE e == [step |-> s, type |-> type]
<1>1. e \in TraceEvents /\ e.step = s /\ e.type = type
  BY DEF TraceEvents
<1>2. events \in Seq(TraceEvents) /\ events' = Append(events, e)
  BY DEF ProgressTyped, Append1
<1> HIDE DEF e
<1>3. /\ events' \in Seq(TraceEvents) /\ DOMAIN events' = DOMAIN events \cup {Len(events) + 1}
      /\ events'[Len(events) + 1] = e /\ \A i \in DOMAIN events : events'[i] = events[i]
  BY <1>1, <1>2
<1>4. ASSUME NEW n \in Acs
      PROVE  Completed(n)' <=> Completed(n) \/ (n = s /\ type = "step_complete")
  <2> DEFINE d == [step |-> n, type |-> "step_complete"]
  <2>1. d = e <=> n = s /\ type = "step_complete"
    BY <1>1 DEF e
  <2>2. Completed(n) <=> \E i \in DOMAIN events : events[i] = d
    BY DEF Completed, Where
  <2>3. Completed(n)' <=> \E i \in DOMAIN events' : events'[i] = d
    BY DEF Completed, Where
  <2> HIDE DEF d
  <2>4. QED
    BY <1>3, <2>1, <2>2, <2>3
<1>5. completedAcNumbers' = { n \in Acs : Completed(n)' }
  BY DEF completedAcNumbers, Acs
<1>6. QED
  BY <1>3, <1>4, <1>5 DEF completedAcNumbers

\* Nothing a call holds of the trace is lost, and beside one that runs none is alone.
LEMMA OtherTicksKeep ==
  ASSUME \A d \in Ticks : TickPart(d), NEW c \in Ticks, TickRunning(c),
         \A d \in Ticks \ {c} : tick'[d] = tick[d],
         completedAcNumbers \subseteq completedAcNumbers'
  PROVE  \A d \in Ticks \ {c} : TickPart(d)'
BY DEF TickPart, TickRunning

LEMMA CompletedStay ==
  ASSUME UNCHANGED events PROVE completedAcNumbers' = completedAcNumbers
BY DEF completedAcNumbers, Completed, Where, Acs

LEMMA OverEnds ==
  ASSUME ProgressInv, NEW c \in Ticks, TickRunning(c), tick' = [tick EXCEPT ![c] = Over],
         UNCHANGED <<events, text>>, settled' => FALSE
  PROVE  ProgressTyped' /\ (\A d \in Ticks : TickPart(d)') /\ text'.ticked \subseteq completedAcNumbers'
<1>1. /\ DOMAIN tick' = Ticks /\ tick'[c] = Over
      /\ \A d \in Ticks \ {c} : tick'[d] = tick[d]
  BY DEF ProgressInv, ProgressTyped
<1>2. completedAcNumbers' = completedAcNumbers
  BY CompletedStay
<1>3. TickPart(c)' /\ ~TickRunning(c)'
  BY <1>1 DEF TickPart, TickRunning
<1>4. ProgressTyped'
  BY <1>1, <1>3 DEF ProgressInv, ProgressTyped, TickRunning
<1>5. QED
  BY <1>1, <1>2, <1>3, <1>4, OtherTicksKeep DEF ProgressInv, BoxesFollowTrace

\* A step of one call that goes on.
LEMMA TickGoesOn ==
  ASSUME ProgressInv, NEW c \in Ticks, TickRunning(c), NEW new \in TickCalls,
         tick' = [tick EXCEPT ![c] = new], events' \in Seq(TraceEvents), text' \in SpecTexts,
         completedAcNumbers \subseteq completedAcNumbers', settled' = settled,
         text'.ticked \subseteq completedAcNumbers', TickPart(c)'
  PROVE  ProgressInv'
<1>1. /\ DOMAIN tick' = Ticks /\ tick'[c] = new
      /\ \A d \in Ticks \ {c} : tick'[d] = tick[d]
  BY DEF ProgressInv, ProgressTyped
<1>2. ProgressTyped'
  BY <1>1 DEF ProgressInv, ProgressTyped, TickRunning
<1>3. \A d \in Ticks : TickPart(d)'
  BY <1>1, OtherTicksKeep DEF ProgressInv
<1>4. ~settled
  BY DEF ProgressInv
<1>5. QED
  BY <1>2, <1>3, <1>4 DEF ProgressInv, BoxesFollowTrace

-----------------------------------------------------------------------------
(* complete-ac.                                                            *)

LEMMA StartKeeps ==
  ASSUME ProgressInv, NEW c \in Ticks, Start(c)
  PROVE  ProgressInv'
<1>1. PICK acs \in SUBSET Acs \ {{}} :
        tick' = [Disturbed EXCEPT ![c] = [at |-> "append", acs |-> acs, already |-> completedAcNumbers,
                                          seen |-> Blank, alone |-> ~\E d \in Ticks : TickRunning(d)]]
  BY DEF Start
<1> DEFINE alone == ~\E d \in Ticks : TickRunning(d)
           new == [at |-> "append", acs |-> acs, already |-> completedAcNumbers,
                   seen |-> Blank, alone |-> alone]
           met(d) == [tick[d] EXCEPT !.alone = FALSE]
<1>2. alone \in BOOLEAN /\ completedAcNumbers \subseteq Acs
  BY DEF completedAcNumbers
<1>3. Blank \in SpecTexts /\ Blank.ticked = {}
  BY ProgressAssumption DEF Blank, SpecTexts
<1>4. /\ new \in TickCalls /\ new.at = "append" /\ new.already = completedAcNumbers
      /\ new.seen = Blank /\ new.alone = alone
  <2> HIDE DEF alone
  <2>1. QED
    BY <1>2, <1>3 DEF TickCalls
<1>5. ASSUME NEW d \in Ticks, TickRunning(d)
      PROVE  /\ met(d) \in TickCalls /\ met(d).alone = FALSE /\ met(d).already = tick[d].already
             /\ met(d).seen = tick[d].seen
  <2>1. tick[d] \in TickCalls
    BY <1>5 DEF ProgressInv, ProgressTyped
  <2>2. QED
    BY <2>1 DEF TickCalls
<1>6. /\ DOMAIN tick' = Ticks /\ tick'[c] = new
      /\ \A d \in Ticks \ {c} : tick'[d] = IF TickRunning(d) THEN met(d) ELSE tick[d]
  <2> HIDE DEF new, met
  <2>1. Disturbed = [d \in Ticks |-> IF TickRunning(d) THEN met(d) ELSE tick[d]]
    BY DEF Disturbed, met
  <2>2. tick' = [Disturbed EXCEPT ![c] = new]
    BY <1>1 DEF new
  <2>3. QED
    BY <2>1, <2>2
<1>7. UNCHANGED <<events, text>> /\ ~settled' /\ completedAcNumbers' = completedAcNumbers
  BY CompletedStay DEF Start
<1> HIDE DEF new, met
<1>8. ProgressTyped'
  <2>1. \A d \in Ticks \ {c} : TickRunning(d)' => TickRunning(d) /\ tick'[d] = met(d)
    BY <1>6 DEF TickRunning
  <2>2. \A d \in Ticks : TickRunning(d)' => tick'[d] \in TickCalls
    BY <1>4, <1>5, <1>6, <2>1
  <2>3. QED
    BY <1>6, <1>7, <2>2 DEF ProgressInv, ProgressTyped
<1>9. \A d \in Ticks \ {c} : TickPart(d)'
  <2> SUFFICES ASSUME NEW d \in Ticks \ {c}, TickRunning(d)' PROVE TickPart(d)'
    BY DEF TickPart
  <2>1. TickRunning(d) /\ tick'[d] = met(d) /\ TickPart(d)
    BY <1>6 DEF TickRunning, ProgressInv
  <2>2. QED
    BY <1>5, <1>7, <2>1 DEF TickPart
<1>10. TickPart(c)'
  <2>1. alone => \A d \in Ticks \ {c} : ~TickRunning(d)'
    BY <1>6 DEF TickRunning
  <2>2. QED
    BY <1>3, <1>4, <1>6, <1>7, <2>1 DEF TickPart
<1>11. QED
  BY <1>7, <1>8, <1>9, <1>10 DEF ProgressInv, BoxesFollowTrace

LEMMA TickFields ==
  ASSUME NEW t \in TickCalls
  PROVE  /\ t.at \in {"append", "spec", "write", "digest", "over"} /\ t.acs \subseteq Acs
         /\ t.already \subseteq Acs /\ t.seen \in SpecTexts /\ t.alone \in BOOLEAN
         /\ t = [at |-> t.at, acs |-> t.acs, already |-> t.already, seen |-> t.seen,
                 alone |-> t.alone]
BY DEF TickCalls

LEMMA AppendAcKeeps ==
  ASSUME ProgressInv, NEW c \in Ticks, AppendAc(c)
  PROVE  ProgressInv'
<1> DEFINE left == tick[c].acs \ tick[c].already
<1>1. /\ TickRunning(c) /\ tick[c].at = "append" /\ tick[c] \in TickCalls /\ TickPart(c)
      /\ UNCHANGED <<text, settled>> /\ ~settled /\ ProgressTyped
  BY DEF AppendAc, ProgressInv, ProgressTyped
<1>2. CASE tick' = [tick EXCEPT ![c].at = "spec"] /\ UNCHANGED events
  <2> DEFINE new == [tick[c] EXCEPT !.at = "spec"]
  <2>1. /\ new \in TickCalls /\ new.at = "spec" /\ new.already = tick[c].already
        /\ new.seen = tick[c].seen /\ new.alone = tick[c].alone
    BY <1>1 DEF TickCalls
  <2>2. tick' = [tick EXCEPT ![c] = new]
    BY <1>2
  <2> HIDE DEF new
  <2>3. tick'[c] = new /\ \A d \in Ticks \ {c} : tick'[d] = tick[d]
    BY <1>1, <2>2 DEF ProgressTyped
  <2>4. completedAcNumbers' = completedAcNumbers
    BY <1>2, CompletedStay
  <2>5. TickPart(c)'
    BY <1>1, <2>1, <2>3, <2>4 DEF TickPart, TickRunning
  <2>6. events' \in Seq(TraceEvents) /\ text' \in SpecTexts /\ text'.ticked \subseteq completedAcNumbers'
    BY <1>1, <1>2, <2>4 DEF ProgressInv, ProgressTyped, BoxesFollowTrace
  <2>7. QED
    BY <1>1, <2>1, <2>2, <2>4, <2>5, <2>6, TickGoesOn
<1>3. ASSUME NEW n \in left, Append1(n, "step_complete"), tick' = [tick EXCEPT ![c].already = @ \cup {n}]
      PROVE  ProgressInv'
  <2> DEFINE new == [tick[c] EXCEPT !.already = @ \cup {n}]
  <2>1. n \in Acs /\ n \in ProgressSteps
    BY <1>1, TickFields DEF ProgressSteps
  <2>2. /\ new \in TickCalls /\ new.at = "append" /\ new.already = tick[c].already \cup {n}
        /\ new.seen = tick[c].seen /\ new.alone = tick[c].alone
    BY <1>1, <2>1 DEF TickCalls
  <2>3. tick' = [tick EXCEPT ![c] = new]
    BY <1>3
  <2> HIDE DEF new
  <2>4. tick'[c] = new /\ \A d \in Ticks \ {c} : tick'[d] = tick[d]
    BY <1>1, <2>3 DEF ProgressTyped
  <2>5. events' \in Seq(TraceEvents) /\ completedAcNumbers' = completedAcNumbers \cup {n}
    BY <1>1, <1>3, <2>1, EventsComplete
  <2>6. TickPart(c)'
    BY <1>1, <2>2, <2>4, <2>5 DEF TickPart, TickRunning
  <2>7. text' \in SpecTexts /\ text'.ticked \subseteq completedAcNumbers'
    BY <1>1, <2>5 DEF ProgressInv, ProgressTyped, BoxesFollowTrace
  <2>8. QED
    BY <1>1, <2>2, <2>3, <2>5, <2>6, <2>7, TickGoesOn
<1>4. CASE tick' = [tick EXCEPT ![c] = Over] /\ UNCHANGED events
  BY <1>1, <1>4, OverEnds DEF ProgressInv, BoxesFollowTrace
<1>5. QED
  BY <1>2, <1>3, <1>4 DEF AppendAc

LEMMA ReadSpecKeeps ==
  ASSUME ProgressInv, NEW c \in Ticks, ReadSpec(c)
  PROVE  ProgressInv'
<1>1. /\ TickRunning(c) /\ tick[c] \in TickCalls /\ TickPart(c) /\ ProgressTyped
      /\ UNCHANGED <<events, text, settled>> /\ completedAcNumbers' = completedAcNumbers
      /\ text.ticked \subseteq completedAcNumbers
  BY CompletedStay DEF ReadSpec, ProgressInv, ProgressTyped, BoxesFollowTrace
<1> DEFINE new == [tick[c] EXCEPT !.seen = text, !.at = "write"]
<1>2. /\ new \in TickCalls /\ new.at = "write" /\ new.already = tick[c].already
      /\ new.seen = text /\ new.alone = tick[c].alone
  BY <1>1 DEF TickCalls, ProgressTyped
<1>3. tick' = [tick EXCEPT ![c] = new]
  BY DEF ReadSpec
<1> HIDE DEF new
<1>4. tick'[c] = new /\ \A d \in Ticks \ {c} : tick'[d] = tick[d]
  BY <1>1, <1>3 DEF ProgressTyped
<1>5. TickPart(c)'
  BY <1>1, <1>2, <1>4 DEF TickPart, TickRunning
<1>6. events' \in Seq(TraceEvents) /\ text' \in SpecTexts
  BY <1>1 DEF ProgressTyped
<1>7. QED
  BY <1>1, <1>2, <1>3, <1>5, <1>6, TickGoesOn

\* Whatever is ticked is in the trace; alone, all of it is.
LEMMA WriteSpecKeeps ==
  ASSUME ProgressInv, NEW c \in Ticks, WriteSpec(c)
  PROVE  ProgressInv'
<1> DEFINE next == renderCheckedSpec(tick[c].seen, tick[c].already)
<1>1. /\ TickRunning(c) /\ tick[c].at = "write" /\ tick[c] \in TickCalls /\ TickPart(c)
      /\ ProgressTyped /\ text \in SpecTexts
      /\ UNCHANGED <<events, settled>> /\ completedAcNumbers' = completedAcNumbers
      /\ text' = (IF next = tick[c].seen THEN text ELSE next)
      /\ text.ticked \subseteq completedAcNumbers
  BY CompletedStay DEF WriteSpec, ProgressInv, ProgressTyped, BoxesFollowTrace
<1>2. tick[c].already \subseteq Acs /\ tick[c].seen \in SpecTexts
  BY <1>1, TickFields
<1>3. next \in SpecTexts /\ next.ticked = tick[c].seen.ticked \cup tick[c].already
  BY <1>2 DEF renderCheckedSpec, SpecTexts
<1>4. next.ticked \subseteq completedAcNumbers
  BY <1>1, <1>3 DEF TickPart
<1>5. tick[c].alone => text' = next /\ next.ticked = completedAcNumbers
  BY <1>1, <1>3, <1>4 DEF TickPart
<1>6. tick' = [tick EXCEPT ![c].seen = next, ![c].at = "digest"]
  BY DEF WriteSpec
<1> HIDE DEF next
<1> DEFINE new == [tick[c] EXCEPT !.seen = next, !.at = "digest"]
<1>7. /\ new \in TickCalls /\ new.at = "digest" /\ new.already = tick[c].already
      /\ new.seen = next /\ new.alone = tick[c].alone
  BY <1>1, <1>3 DEF TickCalls
<1>8. tick' = [tick EXCEPT ![c] = new]
  BY <1>6
<1> HIDE DEF new
<1>9. tick'[c] = new /\ \A d \in Ticks \ {c} : tick'[d] = tick[d]
  BY <1>1, <1>8 DEF ProgressTyped
<1>10. TickPart(c)'
  BY <1>1, <1>4, <1>5, <1>7, <1>9 DEF TickPart, TickRunning
<1>11. /\ events' \in Seq(TraceEvents) /\ text' \in SpecTexts
       /\ text'.ticked \subseteq completedAcNumbers'
  BY <1>1, <1>3, <1>4 DEF ProgressTyped
<1>12. QED
  BY <1>1, <1>7, <1>8, <1>10, <1>11, TickGoesOn

LEMMA RecordDigestKeeps ==
  ASSUME ProgressInv, NEW c \in Ticks, RecordDigest(c)
  PROVE  ProgressInv'
<1>1. /\ TickRunning(c) /\ tick[c].at = "digest" /\ TickPart(c) /\ ProgressTyped
      /\ UNCHANGED <<events, text>> /\ completedAcNumbers' = completedAcNumbers
      /\ recorded' = tick[c].seen /\ settled' = tick[c].alone
      /\ tick' = [tick EXCEPT ![c] = Over]
  BY CompletedStay DEF RecordDigest, ProgressInv
<1>2. DOMAIN tick' = Ticks /\ tick'[c] = Over /\ \A d \in Ticks \ {c} : tick'[d] = tick[d]
  BY <1>1 DEF ProgressTyped
<1>3. TickPart(c)' /\ ~TickRunning(c)'
  BY <1>2 DEF TickPart, TickRunning
<1>4. \A d \in Ticks : TickPart(d)'
  BY <1>1, <1>2, <1>3, OtherTicksKeep DEF ProgressInv
<1>5. ProgressTyped'
  BY <1>1, <1>2, <1>3 DEF ProgressTyped, TickRunning
<1>6. settled' => \A d \in Ticks : ~TickRunning(d)'
  BY <1>1, <1>2, <1>3 DEF TickPart, TickRunning
<1>7. BoxesFollowTrace'
  BY <1>1 DEF ProgressInv, BoxesFollowTrace, TickPart
<1>8. QED
  BY <1>4, <1>5, <1>6, <1>7 DEF ProgressInv

LEMMA TickDiesKeeps ==
  ASSUME ProgressInv, NEW c \in Ticks, TickDies(c)
  PROVE  ProgressInv'
<1>1. ~settled
  BY DEF TickDies, ProgressInv
<1>2. QED
  BY <1>1, OverEnds DEF TickDies, ProgressInv, BoxesFollowTrace

LEMMA EditSpecKeeps ==
  ASSUME ProgressInv, EditSpec
  PROVE  ProgressInv'
<1> DEFINE met(d) == [tick[d] EXCEPT !.alone = FALSE]
<1>1. ASSUME NEW d \in Ticks, TickRunning(d)
      PROVE  /\ met(d) \in TickCalls /\ met(d).alone = FALSE /\ met(d).already = tick[d].already
             /\ met(d).seen = tick[d].seen
  <2>1. tick[d] \in TickCalls
    BY <1>1 DEF ProgressInv, ProgressTyped
  <2>2. QED
    BY <2>1 DEF TickCalls
<1>2. /\ tick' = [d \in Ticks |-> IF TickRunning(d) THEN met(d) ELSE tick[d]]
      /\ UNCHANGED events /\ ~settled' /\ completedAcNumbers' = completedAcNumbers
  BY CompletedStay DEF EditSpec, Disturbed
<1>3. text' \in SpecTexts /\ text'.ticked = text.ticked
  BY ProgressAssumption DEF EditSpec, ProgressInv, ProgressTyped, SpecTexts
<1> HIDE DEF met
<1>4. ProgressTyped'
  BY <1>1, <1>2, <1>3 DEF ProgressInv, ProgressTyped, TickRunning
<1>5. \A d \in Ticks : TickPart(d)'
  BY <1>1, <1>2 DEF ProgressInv, TickPart, TickRunning
<1>6. QED
  BY <1>2, <1>3, <1>4, <1>5 DEF ProgressInv, BoxesFollowTrace

\* What happens beside the calls, the criteria complete as they were.
LEMMA BesidesKeeps ==
  ASSUME ProgressInv, UNCHANGED <<text, recorded, tick, settled>>,
         events' \in Seq(TraceEvents), completedAcNumbers' = completedAcNumbers
  PROVE  ProgressInv'
<1>1. \A d \in Ticks : TickPart(d)'
  BY DEF ProgressInv, TickPart, TickRunning
<1>2. ProgressTyped' /\ BoxesFollowTrace'
  BY DEF ProgressInv, ProgressTyped, BoxesFollowTrace, TickRunning
<1>3. QED
  BY <1>1, <1>2 DEF ProgressInv, TickRunning

LEMMA TraceOtherKeeps ==
  ASSUME ProgressInv, NEW s \in {WorkStep, FreshStep},
         NEW type \in {"step_complete", "loop_halt", "other"}, Append1(s, type),
         UNCHANGED <<text, recorded, tick, settled>>
  PROVE  ProgressInv'
<1>1. s \in ProgressSteps /\ s \notin Acs
  BY ProgressAssumption DEF ProgressSteps, Acs
<1>2. events' \in Seq(TraceEvents) /\ completedAcNumbers' = completedAcNumbers
  BY <1>1, EventsComplete DEF ProgressInv
<1>3. QED
  BY <1>2, BesidesKeeps

LEMMA InitProgressInv == ProgressInit => ProgressInv
<1> SUFFICES ASSUME ProgressInit PROVE ProgressInv
  OBVIOUS
<1>1. /\ events = << [step |-> GateStep, type |-> "other"] >> /\ text = Blank /\ recorded = Blank
      /\ tick = [c \in Ticks |-> NoStep] /\ settled = FALSE
  BY DEF ProgressInit
<1>2. Blank \in SpecTexts /\ Blank.ticked = {}
  BY ProgressAssumption DEF Blank, SpecTexts
<1>3. [step |-> GateStep, type |-> "other"] \in TraceEvents
  BY DEF TraceEvents, ProgressSteps
<1>4. events \in Seq(TraceEvents)
  BY <1>1, <1>3
<1>5. \A c \in Ticks : ~TickRunning(c)
  BY <1>1 DEF TickRunning
<1>6. QED
  BY <1>1, <1>2, <1>4, <1>5 DEF ProgressInv, ProgressTyped, TickPart, BoxesFollowTrace

LEMMA StepProgressInv == ProgressInv /\ [ProgressNext]_progressVars => ProgressInv'
<1> SUFFICES ASSUME ProgressInv, [ProgressNext]_progressVars PROVE ProgressInv'
  OBVIOUS
<1>1. ASSUME UNCHANGED <<events, text, recorded, tick, settled>> PROVE ProgressInv'
  <2>1. events' \in Seq(TraceEvents)
    BY <1>1 DEF ProgressInv, ProgressTyped
  <2>2. QED
    BY <1>1, <2>1, CompletedStay, BesidesKeeps
<1>2. CASE TraceOther
  BY <1>2, TraceOtherKeeps DEF TraceOther
<1>3. CASE appendStrategyChange
  BY <1>3, TraceOtherKeeps DEF appendStrategyChange
<1>4. CASE TraceMalformed \/ Resume \/ captureHandoff \/ UNCHANGED progressVars
  BY <1>1, <1>4 DEF TraceMalformed, Resume, captureHandoff, progressVars
<1>5. QED
  BY <1>2, <1>3, <1>4, StartKeeps, AppendAcKeeps, ReadSpecKeeps, WriteSpecKeeps,
     RecordDigestKeeps, TickDiesKeeps, EditSpecKeeps
  DEF ProgressNext

\* Whatever calls of complete-ac overlap, fail or die, no box is ticked for a
\* criterion the trace has not got complete; and one that met no other and no edit
\* leaves every recorded one ticked, and the digest of the text on record.
THEOREM BoxesFollowTraceHolds == ProgressSpec => []BoxesFollowTrace
<1>1. ProgressInv => BoxesFollowTrace
  BY DEF ProgressInv
<1>2. QED
  BY <1>1, InitProgressInv, StepProgressInv, PTL DEF ProgressSpec

-----------------------------------------------------------------------------
(* What the state is like, whatever happens.                               *)

\* What ProgressTyped leaves out.
ReportTyped ==
  /\ Len(events) <= MaxEvents
  /\ recorded \in SpecTexts /\ report \in Reports \cup {NoStep}

ProgressFlags == malformed \in BOOLEAN /\ settled \in BOOLEAN

LEMMA EventsAre ==
  ASSUME ProgressTyped
  PROVE  /\ Len(events) \in Nat /\ DOMAIN events = 1 .. Len(events)
         /\ \A i \in DOMAIN events : events[i] \in TraceEvents /\ events[i].step \in ProgressSteps
<1>1. Len(events) \in Nat /\ DOMAIN events = 1 .. Len(events)
      /\ \A i \in DOMAIN events : events[i] \in TraceEvents
  BY DEF ProgressTyped
<1>2. QED
  BY <1>1 DEF TraceEvents

\* The step reported is one of the trace's.
LEMMA StepsReported ==
  ASSUME ProgressTyped
  PROVE  /\ currentBlocked \in ProgressSteps \cup {NoStep}
         /\ firstIncompleteStep \in ProgressSteps \cup {NoStep}
         /\ nextAcNumber \in Acs \cup {NoStep}
<1>1. /\ Len(events) \in Nat /\ DOMAIN events = 1 .. Len(events)
      /\ \A i \in DOMAIN events : events[i].step \in ProgressSteps
  BY EventsAre
<1>2. Halts \in SUBSET (0 .. Len(events)) /\ Halts \in SUBSET DOMAIN events
      /\ Incomplete \in SUBSET (0 .. Len(events)) /\ Incomplete \in SUBSET DOMAIN events
  BY <1>1 DEF Halts, Incomplete
<1>3. currentBlocked \in ProgressSteps \cup {NoStep}
  <2>1. CASE Halts = {}
    BY <2>1 DEF currentBlocked
  <2>2. CASE Halts # {}
    <3>1. \E i \in Halts : \A j \in Halts : j <= i
      BY <1>1, <1>2, <2>2, MinFromMax
    <3> DEFINE last == CHOOSE i \in Halts : \A j \in Halts : j <= i
    <3>2. last \in Halts
      BY <3>1
    <3>3. currentBlocked = events[last].step
      BY <2>2 DEF currentBlocked
    <3> HIDE DEF last
    <3>4. QED
      BY <1>1, <1>2, <3>2, <3>3
  <2>3. QED
    BY <2>1, <2>2
<1>4. firstIncompleteStep \in ProgressSteps \cup {NoStep}
  <2>1. CASE Incomplete = {}
    BY <2>1 DEF firstIncompleteStep
  <2>2. CASE Incomplete # {}
    <3>1. \E i \in Incomplete : \A j \in Incomplete : i <= j
      BY <1>1, <1>2, <2>2, MinFromMax
    <3> DEFINE first == CHOOSE i \in Incomplete : \A j \in Incomplete : i <= j
    <3>2. first \in Incomplete
      BY <3>1
    <3>3. firstIncompleteStep = events[first].step
      BY <2>2 DEF firstIncompleteStep
    <3> HIDE DEF first
    <3>4. QED
      BY <1>1, <1>2, <3>2, <3>3
  <2>3. QED
    BY <2>1, <2>2
<1>5. nextAcNumber \in Acs \cup {NoStep}
  <2> DEFINE missing == Acs \ completedAcNumbers
  <2>1. nextAcNumber = IF missing = {} THEN NoStep
                       ELSE CHOOSE n \in missing : \A m \in missing : n <= m
    BY DEF nextAcNumber
  <2>2. missing \in SUBSET (0 .. MaxAc) /\ missing \in SUBSET Acs /\ MaxAc \in Nat
    BY ProgressAssumption DEF ProgressAssumption, Acs
  <2> HIDE DEF missing
  <2>3. missing # {} => \E n \in missing : \A m \in missing : n <= m
    BY <2>2, MinFromMax
  <2>4. missing # {} => (CHOOSE n \in missing : \A m \in missing : n <= m) \in missing
    BY <2>3
  <2>5. QED
    BY <2>1, <2>2, <2>4
<1>6. QED
  BY <1>3, <1>4, <1>5

LEMMA PlanIsReport ==
  ASSUME ProgressTyped, NEW declared
  PROVE  buildResumePlan(declared) \in Reports
<1> DEFINE blocked == currentBlocked
           first == firstIncompleteStep
           nextAc == IF declared THEN nextAcNumber ELSE NoStep
           done == Incomplete = {}
           corrected == done /\ blocked = NoStep /\ nextAc # NoStep
           a == IF blocked # NoStep THEN "blocked_halt"
                ELSE IF corrected THEN "proceed"
                ELSE IF done THEN "already_complete"
                ELSE IF malformed THEN "confirm_needed"
                ELSE "proceed"
           n == IF blocked # NoStep THEN blocked ELSE IF corrected THEN nextAc ELSE first
<1>1. /\ blocked \in ProgressSteps \cup {NoStep} /\ first \in ProgressSteps \cup {NoStep}
      /\ nextAc \in Acs \cup {NoStep}
  BY StepsReported
<1>2. a \in {"blocked_halt", "already_complete", "confirm_needed", "proceed", "handoff"}
  BY Zenon
<1>3. n \in ProgressSteps \cup {NoStep}
  BY <1>1, Zenon DEF ProgressSteps
<1>4. buildResumePlan(declared) = [action |-> a, next |-> n, nextAc |-> nextAc]
  BY Zenon DEF buildResumePlan
<1> HIDE DEF blocked, first, nextAc, done, corrected, a, n
<1>5. QED
  BY <1>1, <1>2, <1>3, <1>4 DEF Reports

LEMMA ProgressStepTyped ==
  ASSUME ProgressTyped, ReportTyped, ProgressNext
  PROVE  ReportTyped'
<1>1. Len(events) \in Nat
  BY EventsAre
<1>2. ASSUME NEW s, NEW type, Append1(s, type) PROVE Len(events') <= MaxEvents
  <2>1. events' = Append(events, [step |-> s, type |-> type]) /\ Len(events) < MaxEvents
    BY <1>2 DEF Append1
  <2>2. events \in Seq(TraceEvents)
    BY DEF ProgressTyped
  <2>3. Len(events') = Len(events) + 1
    BY <2>1, <2>2
  <2>4. QED
    BY <1>1, <2>1, <2>3, ProgressAssumption DEF ProgressAssumption
<1>3. Len(events') <= MaxEvents
  <2>1. CASE UNCHANGED events
    BY <2>1 DEF ReportTyped
  <2>2. QED
    BY <1>2, <2>1 DEF ProgressNext, Start, AppendAc, ReadSpec, WriteSpec, RecordDigest, TickDies,
       EditSpec, TraceOther, TraceMalformed, Resume, appendStrategyChange, captureHandoff
<1>4. recorded' \in SpecTexts
  <2>1. ASSUME NEW c \in Ticks, RecordDigest(c) PROVE recorded' \in SpecTexts
    <3>1. tick[c] \in TickCalls
      BY <2>1 DEF RecordDigest, ProgressTyped
    <3>2. QED
      BY <2>1, <3>1 DEF RecordDigest, TickCalls
  <2>2. CASE UNCHANGED recorded
    BY <2>2 DEF ReportTyped
  <2>3. QED
    BY <2>1, <2>2 DEF ProgressNext, Start, AppendAc, ReadSpec, WriteSpec, TickDies,
       EditSpec, TraceOther, TraceMalformed, Resume, appendStrategyChange, captureHandoff
<1>5. report' \in Reports \cup {NoStep}
  <2>1. CASE Resume
    BY <2>1, PlanIsReport DEF Resume
  <2>2. CASE captureHandoff
    <3>1. report' = [action |-> "handoff", next |-> currentBlocked, nextAc |-> NoStep]
      BY <2>2 DEF captureHandoff
    <3>2. QED
      BY <3>1, StepsReported DEF Reports
  <2>3. CASE report' = NoStep
    BY <2>3
  <2>4. QED
    BY <2>1, <2>2, <2>3 DEF ProgressNext, Unreported, Start, AppendAc, ReadSpec, WriteSpec, RecordDigest,
       TickDies, EditSpec, TraceOther, TraceMalformed, appendStrategyChange
<1>6. QED
  BY <1>3, <1>4, <1>5 DEF ReportTyped

LEMMA ProgressTypes == ProgressSpec => []ProgressTypeOK
<1>1. ProgressInit => ReportTyped /\ ProgressFlags
  <2>1. ProgressInit => ProgressFlags
    BY DEF ProgressInit, ProgressFlags
  <2>2. ASSUME ProgressInit PROVE ReportTyped
    <3>1. Len(events) = 1
      BY <2>2 DEF ProgressInit
    <3>2. Blank \in SpecTexts /\ MaxEvents >= 1
      BY ProgressAssumption DEF ProgressAssumption, Blank, SpecTexts
    <3>3. QED
      BY <2>2, <3>1, <3>2 DEF ProgressInit, ReportTyped
  <2>3. QED
    BY <2>1, <2>2
<1>2. ReportTyped /\ UNCHANGED progressVars => ReportTyped'
  BY DEF ReportTyped, progressVars
<1>3. ASSUME ProgressInv, ProgressFlags, [ProgressNext]_progressVars
      PROVE  ProgressFlags'
  <2>1. ASSUME NEW c \in Ticks, RecordDigest(c) PROVE ProgressFlags'
    <3>1. tick[c] \in TickCalls
      BY <1>3, <2>1 DEF RecordDigest, ProgressInv, ProgressTyped
    <3>2. tick[c].alone \in BOOLEAN
      BY <3>1 DEF TickCalls
    <3>3. QED
      BY Zenon, <1>3, <2>1, <3>2 DEF RecordDigest, ProgressFlags
  <2>2. CASE (malformed' = TRUE \/ UNCHANGED malformed) /\ (settled' = FALSE \/ UNCHANGED settled)
    BY Zenon, <1>3, <2>2 DEF ProgressFlags
  <2>3. QED
    BY Zenon, <1>3, <2>1, <2>2 DEF ProgressNext, progressVars, Start, AppendAc, ReadSpec, WriteSpec,
       TickDies, EditSpec, TraceOther, TraceMalformed, Resume, appendStrategyChange, captureHandoff
<1>4. ProgressInv /\ ReportTyped /\ ProgressFlags => ProgressTypeOK
  <2> SUFFICES ASSUME ProgressInv, ReportTyped, ProgressFlags PROVE ProgressTypeOK
    OBVIOUS
  <2>1. Over \in TickCalls
    BY ProgressAssumption DEF ProgressAssumption, Over, TickCalls, Blank, SpecTexts
  <2>2. \A c \in Ticks : tick[c] = NoStep \/ tick[c] \in TickCalls
    BY <2>1 DEF ProgressInv, ProgressTyped, TickRunning
  <2>3. QED
    BY Zenon, <2>2 DEF ProgressInv, ProgressTyped, ReportTyped, ProgressFlags, ProgressTypeOK
<1>5. ProgressInv => ProgressTyped
  BY DEF ProgressInv
<1>6. QED
  BY <1>1, <1>2, <1>3, <1>4, <1>5, ProgressStepTyped, InitProgressInv, StepProgressInv, PTL DEF ProgressSpec

-----------------------------------------------------------------------------
(***************************************************************************)
(* The brief that is found is the latest of its task.                      *)
(***************************************************************************)

BriefDocs == [taskId : BriefTasks, stamp : Nat, nextAction : Nat]

CompactionCalls ==
  [at : {"idle", "trace", "write", "rename", "over"}, brief : BriefDocs \cup {NoBrief}, begun : Nat]

Steps(trace) == { i \in DOMAIN trace : trace[i] = "step_complete" }
HasLast(trace) == Steps(trace) = {} \/ \E i \in Steps(trace) : \A j \in Steps(trace) : j <= i

BriefTyped ==
  /\ ongoing \in BriefTasks /\ now \in Nat
  /\ traceOf \in [BriefTasks -> Seq(TracedKinds)]
  /\ compaction \in [Compactions -> CompactionCalls]
  /\ \A p \in Compactions : compaction[p].at \in {"trace", "write", "rename"} =>
                              compaction[p].brief \in BriefDocs
  /\ halfway \subseteq BriefDocs /\ briefs \subseteq BriefDocs
  /\ told \in [BriefTasks -> Nat]
  /\ \A b \in halfway \cup briefs : b.stamp <= now

\* What CHOOSE is asked for is there.
LastsExist ==
  /\ \A t \in BriefTasks : HasLast(traceOf[t])
  /\ briefs # {} => \E b \in briefs : \A c \in briefs : SortsAfter(b, c)

OneAtATime ==
  \A p \in Compactions : \A q \in Compactions \ {p} :
    /\ compaction[p].brief # NoBrief /\ compaction[q].brief # NoBrief
    /\ compaction[p].brief.taskId = compaction[q].brief.taskId
    => compaction[p].brief.taskId \in crossed

\* What a compaction that meets none of its task has learnt, and will put last.
Learnt(p) ==
  LET brief == compaction[p].brief
      at == compaction[p].at
  IN  at \in {"trace", "write", "rename"} /\ brief.taskId \notin crossed =>
        /\ at = "trace" => compaction[p].begun <= NextAction(traceOf[brief.taskId])
        /\ at \in {"write", "rename"} => compaction[p].begun <= brief.nextAction
        /\ at = "rename" =>
             /\ \A b \in halfway : SameName(b, brief) => b = brief
             /\ \A c \in briefs : c.taskId = brief.taskId => c.stamp <= brief.stamp

LatestTells ==
  \A b \in briefs :
    /\ b.taskId \notin crossed
    /\ \A c \in briefs : c.taskId = b.taskId => c.stamp <= b.stamp
    => told[b.taskId] <= b.nextAction

BriefInv ==
  /\ BriefTyped /\ LastsExist /\ OneAtATime
  /\ \A p \in Compactions : Learnt(p)
  /\ LatestTells

-----------------------------------------------------------------------------
(* The last step of a trace.                                               *)

LEMMA NextActionIs ==
  ASSUME NEW trace \in Seq(TracedKinds), HasLast(trace)
  PROVE  /\ NextAction(trace) \in Nat
         /\ Steps(trace) = {} => NextAction(trace) = 0
         /\ Steps(trace) # {} => /\ NextAction(trace) \in Steps(trace)
                                 /\ \A j \in Steps(trace) : j <= NextAction(trace)
<1>1. NextAction(trace) = IF Steps(trace) = {} THEN 0
                          ELSE CHOOSE i \in Steps(trace) : \A j \in Steps(trace) : j <= i
  BY DEF NextAction, Steps
<1>2. Steps(trace) \subseteq Nat
  BY DEF Steps
<1>3. Steps(trace) # {} =>
        LET last == CHOOSE i \in Steps(trace) : \A j \in Steps(trace) : j <= i
        IN  last \in Steps(trace) /\ \A j \in Steps(trace) : j <= last
  BY DEF HasLast
<1>4. QED
  BY <1>1, <1>2, <1>3

LEMMA TraceGrows ==
  ASSUME NEW trace \in Seq(TracedKinds), HasLast(trace), NEW kind \in TracedKinds
  PROVE  /\ Append(trace, kind) \in Seq(TracedKinds) /\ HasLast(Append(trace, kind))
         /\ NextAction(trace) <= NextAction(Append(trace, kind))
<1> DEFINE more == Append(trace, kind)
<1>1. /\ more \in Seq(TracedKinds) /\ DOMAIN more = 1 .. Len(trace) + 1
      /\ DOMAIN trace = 1 .. Len(trace) /\ Len(trace) \in Nat
      /\ more[Len(trace) + 1] = kind /\ \A i \in DOMAIN trace : more[i] = trace[i]
  OBVIOUS
<1> HIDE DEF more
<1>2. Steps(more) = Steps(trace) \cup { i \in {Len(trace) + 1} : kind = "step_complete" }
  BY <1>1 DEF Steps
<1>3. \A i \in Steps(trace) : i \in Nat /\ i < Len(trace) + 1
  BY <1>1 DEF Steps
<1>4. CASE kind = "step_complete"
  <2>1. /\ Len(trace) + 1 \in Steps(more)
        /\ \A j \in Steps(more) : j <= Len(trace) + 1
    BY <1>1, <1>2, <1>3, <1>4
  <2>2. HasLast(more)
    BY <2>1 DEF HasLast
  <2>3. NextAction(more) \in Steps(more) /\ Len(trace) + 1 <= NextAction(more)
    BY <1>1, <2>1, <2>2, NextActionIs
  <2>4. NextAction(trace) \in Nat /\ NextAction(trace) <= Len(trace) + 1
    BY <1>1, <1>3, NextActionIs
  <2>5. NextAction(more) \in Nat
    BY <1>1, <2>2, NextActionIs
  <2>6. QED
    BY <1>1, <2>2, <2>3, <2>4, <2>5 DEF more
<1>5. CASE kind # "step_complete"
  <2>1. Steps(more) = Steps(trace)
    BY <1>2, <1>5
  <2>2. HasLast(more) /\ NextAction(more) = NextAction(trace)
    BY <2>1 DEF HasLast, NextAction, Steps
  <2>3. QED
    BY <1>1, <2>2, NextActionIs DEF more
<1>6. QED
  BY <1>4, <1>5

-----------------------------------------------------------------------------
(* The work goes on.                                                       *)

LEMMA TracedKeeps == BriefInv /\ Traced => BriefInv'
<1> SUFFICES ASSUME BriefInv, Traced PROVE BriefInv'
  OBVIOUS
<1>1. PICK kind \in TracedKinds : traceOf' = [traceOf EXCEPT ![ongoing] = Append(@, kind)]
  BY DEF Traced
<1>2. UNCHANGED <<ongoing, gone, now, compaction, halfway, briefs, told, crossed>>
  BY DEF Traced, briefFiles
<1>3. \A t \in BriefTasks :
        /\ traceOf'[t] \in Seq(TracedKinds) /\ HasLast(traceOf'[t])
        /\ NextAction(traceOf[t]) \in Nat /\ NextAction(traceOf'[t]) \in Nat
        /\ NextAction(traceOf[t]) <= NextAction(traceOf'[t])
  <2> TAKE t \in BriefTasks
  <2>1. traceOf[t] \in Seq(TracedKinds) /\ HasLast(traceOf[t])
    BY DEF BriefInv, BriefTyped, LastsExist
  <2>2. traceOf'[t] = IF t = ongoing THEN Append(traceOf[t], kind) ELSE traceOf[t]
    BY <1>1 DEF BriefInv, BriefTyped
  <2>3. traceOf'[t] \in Seq(TracedKinds) /\ HasLast(traceOf'[t])
    BY <2>1, <2>2, TraceGrows
  <2>4. NextAction(traceOf[t]) \in Nat /\ NextAction(traceOf'[t]) \in Nat
    BY <2>1, <2>3, NextActionIs
  <2>5. CASE t = ongoing
    BY <2>1, <2>2, <2>3, <2>4, <2>5, TraceGrows
  <2>6. CASE t # ongoing
    BY <2>2, <2>3, <2>4, <2>6
  <2>7. QED
    BY <2>5, <2>6
<1>4. BriefTyped'
  BY <1>1, <1>2, <1>3 DEF BriefInv, BriefTyped
<1>5. LastsExist'
  BY <1>2, <1>3 DEF BriefInv, LastsExist, SortsAfter
<1>6. ASSUME NEW p \in Compactions PROVE Learnt(p)'
  <2>1. Learnt(p)
    BY DEF BriefInv
  <2>2. compaction[p].begun \in Nat
    BY DEF BriefInv, BriefTyped, CompactionCalls
  <2>3. compaction[p].at = "trace" => compaction[p].brief.taskId \in BriefTasks
    BY DEF BriefInv, BriefTyped, BriefDocs
  <2>4. compaction[p].at = "trace" /\ compaction[p].brief.taskId \notin crossed =>
          compaction[p].begun <= NextAction(traceOf'[compaction[p].brief.taskId])
    BY <1>3, <2>1, <2>2, <2>3 DEF Learnt
  <2>5. QED
    BY <1>2, <2>1, <2>4 DEF Learnt
<1>7. OneAtATime' /\ LatestTells'
  BY <1>2 DEF BriefInv, OneAtATime, LatestTells
<1>8. QED
  BY <1>4, <1>5, <1>6, <1>7 DEF BriefInv

LEMMA TimeGoesOn ==
  ASSUME BriefInv, NextTask \/ Later \/ UNCHANGED briefVars
  PROVE  BriefInv'
<1>1. /\ ongoing' \in BriefTasks /\ now' \in Nat /\ now <= now' /\ now \in Nat
      /\ UNCHANGED <<traceOf, compaction, halfway, briefs, told, crossed>>
  BY DEF NextTask, Later, briefVars, briefFiles, BriefInv, BriefTyped
<1>2. \A b \in halfway \cup briefs : b.stamp <= now'
  BY <1>1 DEF BriefInv, BriefTyped, BriefDocs
<1>3. BriefTyped'
  BY <1>1, <1>2 DEF BriefInv, BriefTyped
<1>4. QED
  BY <1>1, <1>3 DEF BriefInv, LastsExist, OneAtATime, Learnt, LatestTells

-----------------------------------------------------------------------------
(* The compactions.                                                        *)

LEMMA OneCompacts ==
  ASSUME BriefInv, NEW p \in Compactions, NEW new \in CompactionCalls,
         compaction' = [compaction EXCEPT ![p] = new],
         new.at \in {"trace", "write", "rename"} => new.brief \in BriefDocs
  PROVE  /\ compaction' \in [Compactions -> CompactionCalls] /\ compaction'[p] = new
         /\ \A q \in Compactions \ {p} : compaction'[q] = compaction[q]
         /\ \A q \in Compactions : compaction'[q].at \in {"trace", "write", "rename"} =>
                                     compaction'[q].brief \in BriefDocs
<1>1. /\ compaction' \in [Compactions -> CompactionCalls] /\ compaction'[p] = new
      /\ \A q \in Compactions \ {p} : compaction'[q] = compaction[q]
  BY DEF BriefInv, BriefTyped
<1>2. QED
  BY <1>1 DEF BriefInv, BriefTyped

\* A call goes on with the brief it is about, or ends.
LEMMA StillOneAtATime ==
  ASSUME BriefInv, NEW p \in Compactions, NEW new \in CompactionCalls,
         \/ new.brief = NoBrief
         \/ /\ compaction[p].brief # NoBrief
            /\ new.brief.taskId = compaction[p].brief.taskId,
         compaction'[p] = new, \A q \in Compactions \ {p} : compaction'[q] = compaction[q],
         crossed' = crossed
  PROVE  OneAtATime'
BY DEF BriefInv, OneAtATime

LEMMA CompactionBeginsKeeps ==
  ASSUME BriefInv, NEW p \in Compactions, CompactionBegins(p)
  PROVE  BriefInv'
<1> DEFINE b == [taskId |-> ongoing, stamp |-> 0, nextAction |-> 0]
           new == [at |-> "trace", begun |-> NextAction(traceOf[ongoing]), brief |-> b]
<1>1. /\ compaction' = [compaction EXCEPT ![p] = new]
      /\ crossed' = (IF OfTask(ongoing) = {} THEN crossed ELSE crossed \cup {ongoing})
      /\ UNCHANGED <<ongoing, gone, traceOf, now, halfway, briefs, told>>
  BY DEF CompactionBegins, briefFiles
<1>2. NextAction(traceOf[ongoing]) \in Nat
  BY NextActionIs DEF BriefInv, BriefTyped, LastsExist
<1>3. b \in BriefDocs /\ b.taskId = ongoing
  BY DEF BriefDocs, BriefInv, BriefTyped
<1> HIDE DEF b
<1>4. /\ new \in CompactionCalls /\ new.at = "trace" /\ new.brief = b
      /\ new.begun = NextAction(traceOf[ongoing])
  BY <1>2, <1>3 DEF CompactionCalls
<1> HIDE DEF new
<1>5. /\ compaction' \in [Compactions -> CompactionCalls] /\ compaction'[p] = new
      /\ \A q \in Compactions \ {p} : compaction'[q] = compaction[q]
      /\ \A q \in Compactions : compaction'[q].at \in {"trace", "write", "rename"} =>
                                  compaction'[q].brief \in BriefDocs
  BY <1>1, <1>3, <1>4, OneCompacts
<1>6. BriefTyped' /\ LastsExist'
  BY <1>1, <1>5 DEF BriefInv, BriefTyped, LastsExist
<1>7. OneAtATime'
  <2>1. \A q \in Compactions \ {p} :
          compaction[q].brief # NoBrief /\ compaction[q].brief.taskId = ongoing => ongoing \in crossed'
    BY <1>1 DEF OfTask
  <2>2. crossed \subseteq crossed'
    BY <1>1
  <2>3. QED
    BY <1>3, <1>4, <1>5, <2>1, <2>2 DEF BriefInv, OneAtATime
<1>8. ASSUME NEW q \in Compactions PROVE Learnt(q)'
  <2>1. CASE q = p
    BY <1>1, <1>2, <1>3, <1>4, <1>5, <2>1 DEF Learnt
  <2>2. CASE q # p
    BY <1>1, <1>5, <2>2 DEF Learnt, BriefInv
  <2>3. QED
    BY <2>1, <2>2
<1>9. LatestTells'
  BY <1>1 DEF BriefInv, LatestTells
<1>10. QED
  BY <1>6, <1>7, <1>8, <1>9 DEF BriefInv

LEMMA buildCompactionArtifactKeeps ==
  ASSUME BriefInv, NEW p \in Compactions, buildCompactionArtifact(p)
  PROVE  BriefInv'
<1> DEFINE brief == compaction[p].brief
           action == NextAction(traceOf[brief.taskId])
           b == [brief EXCEPT !.nextAction = action]
           new == [compaction[p] EXCEPT !.at = "write", !.brief = b]
<1>1. /\ compaction[p].at = "trace" /\ compaction' = [compaction EXCEPT ![p] = new]
      /\ UNCHANGED <<ongoing, gone, traceOf, now, halfway, briefs, told, crossed>>
  BY DEF buildCompactionArtifact, briefFiles
<1>2. compaction[p] \in CompactionCalls /\ brief \in BriefDocs /\ Learnt(p)
  BY <1>1 DEF BriefInv, BriefTyped
<1>3. action \in Nat
  BY <1>2, NextActionIs DEF BriefInv, BriefTyped, LastsExist, BriefDocs
<1>4. b \in BriefDocs /\ b.taskId = brief.taskId /\ b.nextAction = action
  BY <1>2, <1>3 DEF BriefDocs
<1>5. brief # NoBrief
  BY <1>2, BriefAssumption DEF BriefDocs
<1>6. brief.taskId \notin crossed => compaction[p].begun <= action
  BY <1>1, <1>2 DEF Learnt
<1> HIDE DEF b, action
<1>7. /\ new \in CompactionCalls /\ new.at = "write" /\ new.brief = b
      /\ new.begun = compaction[p].begun
  BY <1>2, <1>4 DEF CompactionCalls
<1> HIDE DEF new
<1>8. /\ compaction' \in [Compactions -> CompactionCalls] /\ compaction'[p] = new
      /\ \A q \in Compactions \ {p} : compaction'[q] = compaction[q]
      /\ \A q \in Compactions : compaction'[q].at \in {"trace", "write", "rename"} =>
                                  compaction'[q].brief \in BriefDocs
  BY <1>1, <1>4, <1>7, OneCompacts
<1>9. BriefTyped' /\ LastsExist'
  BY <1>1, <1>8 DEF BriefInv, BriefTyped, LastsExist
<1>10. OneAtATime'
  BY <1>1, <1>4, <1>5, <1>7, <1>8, StillOneAtATime
<1>11. ASSUME NEW q \in Compactions PROVE Learnt(q)'
  <2>1. CASE q = p
    BY <1>1, <1>4, <1>6, <1>7, <1>8, <2>1 DEF Learnt
  <2>2. CASE q # p
    BY <1>1, <1>8, <2>2 DEF Learnt, BriefInv
  <2>3. QED
    BY <2>1, <2>2
<1>12. LatestTells'
  BY <1>1 DEF BriefInv, LatestTells
<1>13. QED
  BY <1>9, <1>10, <1>11, <1>12 DEF BriefInv

LEMMA ReplacedIs ==
  ASSUME NEW files, NEW b, NEW c
  PROVE  c \in Replaced(files, b) <=> c = b \/ (c \in files /\ ~SameName(c, b))
BY DEF Replaced, SameName

LEMMA WriteTmpBriefKeeps ==
  ASSUME BriefInv, NEW p \in Compactions, WriteTmpBrief(p)
  PROVE  BriefInv'
<1> DEFINE brief == compaction[p].brief
           b == [brief EXCEPT !.stamp = now]
           new == [compaction[p] EXCEPT !.at = "rename", !.brief = b]
<1>1. /\ compaction[p].at = "write" /\ compaction' = [compaction EXCEPT ![p] = new]
      /\ halfway' = Replaced(halfway, b)
      /\ UNCHANGED <<ongoing, gone, traceOf, now, briefs, told, crossed>>
  BY DEF WriteTmpBrief
<1>2. /\ compaction[p] \in CompactionCalls /\ brief \in BriefDocs /\ Learnt(p)
      /\ now \in Nat /\ halfway \subseteq BriefDocs /\ briefs \subseteq BriefDocs
      /\ \A c \in halfway \cup briefs : c.stamp <= now
  BY <1>1 DEF BriefInv, BriefTyped
<1>3. /\ b \in BriefDocs /\ b.taskId = brief.taskId /\ b.nextAction = brief.nextAction
      /\ b.stamp = now
  BY <1>2 DEF BriefDocs
<1>4. brief # NoBrief /\ b # NoBrief
  BY <1>2, <1>3, BriefAssumption DEF BriefDocs
<1>5. brief.taskId \notin crossed => compaction[p].begun <= brief.nextAction
  BY <1>1, <1>2 DEF Learnt
<1> HIDE DEF b
<1>6. /\ new \in CompactionCalls /\ new.at = "rename" /\ new.brief = b
      /\ new.begun = compaction[p].begun
  BY <1>2, <1>3 DEF CompactionCalls
<1> HIDE DEF new
<1>7. /\ compaction' \in [Compactions -> CompactionCalls] /\ compaction'[p] = new
      /\ \A q \in Compactions \ {p} : compaction'[q] = compaction[q]
      /\ \A q \in Compactions : compaction'[q].at \in {"trace", "write", "rename"} =>
                                  compaction'[q].brief \in BriefDocs
  BY <1>1, <1>3, <1>6, OneCompacts
<1>8. \A c \in halfway' : c = b \/ (c \in halfway /\ ~SameName(c, b))
  BY <1>1, ReplacedIs
<1>9. BriefTyped'
  <2>1. halfway' \subseteq BriefDocs /\ \A c \in halfway' \cup briefs' : c.stamp <= now'
    BY <1>1, <1>2, <1>3, <1>8
  <2>2. QED
    BY <1>1, <1>7, <2>1 DEF BriefInv, BriefTyped
<1>10. LastsExist'
  BY <1>1 DEF BriefInv, LastsExist
<1>11. OneAtATime'
  BY <1>1, <1>3, <1>4, <1>6, <1>7, StillOneAtATime
<1>12. ASSUME NEW q \in Compactions PROVE Learnt(q)'
  <2>1. CASE q = p
    <3>1. \A c \in briefs' : c.stamp <= b.stamp
      BY <1>1, <1>2, <1>3
    <3>2. QED
      BY <1>1, <1>3, <1>5, <1>6, <1>7, <1>8, <2>1, <3>1 DEF Learnt
  <2>2. CASE q # p
    <3> DEFINE other == compaction[q].brief
    <3> SUFFICES ASSUME compaction[q].at \in {"trace", "write", "rename"}, other.taskId \notin crossed
                 PROVE  Learnt(q)'
      BY <1>1, <1>7, <2>2 DEF Learnt
    <3>1. other \in BriefDocs /\ other # NoBrief
      BY BriefAssumption DEF BriefInv, BriefTyped, BriefDocs
    <3>2. other.taskId # brief.taskId
      BY <1>4, <2>2, <3>1 DEF BriefInv, OneAtATime
    <3>3. ~SameName(b, other)
      BY <1>3, <3>2 DEF SameName
    <3>4. Learnt(q)
      BY DEF BriefInv
    <3>5. QED
      BY <1>1, <1>7, <1>8, <2>2, <3>3, <3>4 DEF Learnt
  <2>3. QED
    BY <2>1, <2>2
<1>13. LatestTells'
  BY <1>1 DEF BriefInv, LatestTells
<1>14. QED
  BY <1>9, <1>10, <1>11, <1>12, <1>13 DEF BriefInv

LEMMA FinishedIs == Finished \in CompactionCalls /\ Finished.at = "over" /\ Finished.brief = NoBrief
BY DEF Finished, Resting, CompactionCalls

\* The last of the names after a brief is added in place of one of its name.
LEMMA ReplacedHasLast ==
  ASSUME NEW files \in SUBSET BriefDocs, NEW b \in BriefDocs,
         files # {} => \E m \in files : \A c \in files : SortsAfter(m, c)
  PROVE  \E m \in Replaced(files, b) : \A c \in Replaced(files, b) : SortsAfter(m, c)
<1>1. \A c \in BriefDocs : c.taskId \in Nat /\ c.stamp \in Nat
  BY BriefAssumption DEF BriefDocs
<1>2. b \in Replaced(files, b) /\ \A c \in Replaced(files, b) : c = b \/ c \in files
  BY ReplacedIs
<1>3. SortsAfter(b, b)
  BY <1>1 DEF SortsAfter
<1>4. CASE files = {}
  BY <1>2, <1>3, <1>4
<1>5. CASE files # {}
  <2>1. PICK m \in files : \A c \in files : SortsAfter(m, c)
    BY <1>5
  <2>2. CASE SortsAfter(b, m)
    <3>1. \A c \in files : SortsAfter(b, c)
      BY <1>1, <2>1, <2>2 DEF SortsAfter
    <3>2. QED
      BY <1>2, <1>3, <3>1
  <2>3. CASE ~SortsAfter(b, m)
    <3>1. SortsAfter(m, b) /\ ~SameName(m, b)
      BY <1>1, <2>1, <2>3 DEF SortsAfter, SameName
    <3>2. m \in Replaced(files, b)
      BY <2>1, <3>1, ReplacedIs
    <3>3. QED
      BY <1>2, <2>1, <3>1, <3>2
  <2>4. QED
    BY <2>2, <2>3
<1>6. QED
  BY <1>4, <1>5

LEMMA writeCompactionArtifactKeeps ==
  ASSUME BriefInv, NEW p \in Compactions, writeCompactionArtifact(p)
  PROVE  BriefInv'
<1> DEFINE brief == compaction[p].brief
<1>1. PICK b \in halfway :
        /\ SameName(b, brief) /\ halfway' = halfway \ {b} /\ briefs' = Replaced(briefs, b)
        /\ told' = [told EXCEPT ![b.taskId] = compaction[p].begun]
  BY DEF writeCompactionArtifact
<1>2. /\ compaction[p].at = "rename" /\ compaction' = [compaction EXCEPT ![p] = Finished]
      /\ UNCHANGED <<ongoing, gone, traceOf, now, crossed>>
  BY DEF writeCompactionArtifact
<1>3. /\ brief \in BriefDocs /\ b \in BriefDocs /\ compaction[p].begun \in Nat /\ Learnt(p)
      /\ briefs \subseteq BriefDocs /\ halfway \subseteq BriefDocs
      /\ told \in [BriefTasks -> Nat] /\ brief # NoBrief
  BY <1>2, BriefAssumption DEF BriefInv, BriefTyped, CompactionCalls, BriefDocs
<1>4. b.taskId = brief.taskId /\ b.taskId \in BriefTasks
  BY <1>1, <1>3 DEF SameName, BriefDocs
<1>5. \A c \in BriefDocs : c.taskId \in BriefTasks /\ c.stamp \in Nat /\ c.nextAction \in Nat
  BY DEF BriefDocs
<1>6. /\ compaction' \in [Compactions -> CompactionCalls] /\ compaction'[p] = Finished
      /\ \A q \in Compactions \ {p} : compaction'[q] = compaction[q]
      /\ \A q \in Compactions : compaction'[q].at \in {"trace", "write", "rename"} =>
                                  compaction'[q].brief \in BriefDocs
  BY <1>2, FinishedIs, OneCompacts
<1>7. \A c \in briefs' : c = b \/ (c \in briefs /\ ~SameName(c, b))
  BY <1>1, ReplacedIs
<1>8. BriefTyped'
  <2>1. /\ briefs' \subseteq BriefDocs /\ halfway' \subseteq BriefDocs
        /\ told' \in [BriefTasks -> Nat]
    BY <1>1, <1>3, <1>7
  <2>2. \A c \in halfway' \cup briefs' : c.stamp <= now
    BY <1>1, <1>7 DEF BriefInv, BriefTyped
  <2>3. QED
    BY <1>2, <1>6, <2>1, <2>2 DEF BriefInv, BriefTyped
<1>9. LastsExist'
  <2>1. \E m \in briefs' : \A c \in briefs' : SortsAfter(m, c)
    BY <1>1, <1>3, ReplacedHasLast DEF BriefInv, LastsExist
  <2>2. QED
    BY <1>2, <2>1 DEF BriefInv, LastsExist, SortsAfter
<1>10. OneAtATime'
  BY <1>2, <1>6, FinishedIs, StillOneAtATime
<1>11. ASSUME NEW q \in Compactions PROVE Learnt(q)'
  <2>1. CASE q = p
    BY <1>6, <2>1, FinishedIs DEF Learnt
  <2>2. CASE q # p
    <3> DEFINE other == compaction[q].brief
    <3> SUFFICES ASSUME compaction[q].at \in {"trace", "write", "rename"}, other.taskId \notin crossed
                 PROVE  Learnt(q)'
      BY <1>2, <1>6, <2>2 DEF Learnt
    <3>1. other \in BriefDocs /\ other # NoBrief
      BY BriefAssumption DEF BriefInv, BriefTyped, BriefDocs
    <3>2. other.taskId # b.taskId
      BY <1>3, <1>4, <2>2, <3>1 DEF BriefInv, OneAtATime
    <3>3. \A c \in briefs' : c.taskId = other.taskId => c \in briefs
      BY <1>7, <3>2
    <3>4. Learnt(q)
      BY DEF BriefInv
    <3>5. QED
      BY <1>1, <1>2, <1>6, <2>2, <3>3, <3>4 DEF Learnt
  <2>3. QED
    BY <2>1, <2>2
<1>12. LatestTells'
  <2> SUFFICES ASSUME NEW x \in briefs', x.taskId \notin crossed,
                      \A c \in briefs' : c.taskId = x.taskId => c.stamp <= x.stamp
               PROVE  told'[x.taskId] <= x.nextAction
    BY <1>2 DEF LatestTells
  <2>1. b \in briefs'
    BY <1>1 DEF Replaced
  <2>2. CASE x.taskId = b.taskId
    <3>1. b = brief /\ compaction[p].begun <= b.nextAction
      BY <1>1, <1>2, <1>3, <1>4, <2>2 DEF Learnt
    <3>2. ASSUME x # b PROVE FALSE
      <4>1. x \in briefs /\ ~SameName(x, b)
        BY <1>7, <3>2
      <4>2. x.stamp <= b.stamp /\ b.stamp <= x.stamp
        BY <1>2, <1>3, <1>4, <2>1, <2>2, <3>1, <4>1 DEF Learnt
      <4>3. QED
        BY <1>3, <1>5, <2>2, <4>1, <4>2 DEF SameName
    <3>3. told'[x.taskId] = compaction[p].begun
      BY <1>1, <1>3, <1>4, <2>2
    <3>4. QED
      BY <3>1, <3>2, <3>3
  <2>3. CASE x.taskId # b.taskId
    <3>1. x \in briefs
      BY <1>7, <2>3
    <3>2. \A c \in briefs : c.taskId = x.taskId => c \in briefs'
      BY <1>1, <2>3 DEF Replaced, SameName
    <3>3. told[x.taskId] <= x.nextAction
      BY <3>1, <3>2 DEF BriefInv, LatestTells
    <3>4. told'[x.taskId] = told[x.taskId]
      BY <1>1, <1>3, <1>5, <2>3, <3>1
    <3>5. QED
      BY <3>3, <3>4
  <2>4. QED
    BY <2>2, <2>3
<1>13. QED
  BY <1>8, <1>9, <1>10, <1>11, <1>12 DEF BriefInv

LEMMA CompactionFailsKeeps ==
  ASSUME BriefInv, NEW p \in Compactions, CompactionFails(p)
  PROVE  BriefInv'
<1>1. /\ compaction' = [compaction EXCEPT ![p] = Finished]
      /\ UNCHANGED <<ongoing, gone, traceOf, now, halfway, briefs, told, crossed>>
  BY DEF CompactionFails, briefFiles
<1>2. /\ compaction' \in [Compactions -> CompactionCalls] /\ compaction'[p] = Finished
      /\ \A q \in Compactions \ {p} : compaction'[q] = compaction[q]
      /\ \A q \in Compactions : compaction'[q].at \in {"trace", "write", "rename"} =>
                                  compaction'[q].brief \in BriefDocs
  BY <1>1, FinishedIs, OneCompacts
<1>3. BriefTyped' /\ LastsExist'
  BY <1>1, <1>2 DEF BriefInv, BriefTyped, LastsExist
<1>4. OneAtATime'
  BY <1>1, <1>2, FinishedIs, StillOneAtATime
<1>5. \A q \in Compactions : Learnt(q)'
  BY <1>1, <1>2, FinishedIs DEF BriefInv, Learnt
<1>6. LatestTells'
  BY <1>1 DEF BriefInv, LatestTells
<1>7. QED
  BY <1>3, <1>4, <1>5, <1>6 DEF BriefInv

LEMMA InitBriefInv == BriefInit => BriefInv
<1> SUFFICES ASSUME BriefInit PROVE BriefInv
  OBVIOUS
<1>1. /\ ongoing \in BriefTasks /\ now = 0 /\ traceOf = [t \in BriefTasks |-> << >>]
      /\ compaction = [p \in Compactions |-> Resting] /\ halfway = {} /\ briefs = {}
      /\ told = [t \in BriefTasks |-> 0] /\ crossed = {}
  BY DEF BriefInit
<1>2. Resting \in CompactionCalls /\ Resting.at = "idle" /\ Resting.brief = NoBrief
  BY DEF Resting, CompactionCalls
<1>3. << >> \in Seq(TracedKinds) /\ HasLast(<< >>)
  BY DEF HasLast, Steps
<1>4. BriefTyped
  BY <1>1, <1>2, <1>3 DEF BriefTyped
<1>5. QED
  BY <1>1, <1>2, <1>3, <1>4 DEF BriefInv, LastsExist, OneAtATime, Learnt, LatestTells

LEMMA StepBriefInv == BriefInv /\ [BriefNext]_briefVars => BriefInv'
BY TracedKeeps, TimeGoesOn, CompactionBeginsKeeps, buildCompactionArtifactKeeps,
   WriteTmpBriefKeeps, writeCompactionArtifactKeeps, CompactionFailsKeeps
DEF BriefNext

LEMMA BriefInvTells == BriefInv => BriefIsLatest
<1> SUFFICES ASSUME BriefInv, briefs # {} PROVE BriefIsLatest
  BY DEF BriefIsLatest
<1> DEFINE b == loadCompactionArtifact
<1>1. b \in briefs /\ \A c \in briefs : SortsAfter(b, c)
  BY DEF BriefInv, LastsExist, loadCompactionArtifact
<1>2. \A c \in briefs : /\ c.taskId \in Nat /\ c.taskId \in BriefTasks /\ c.stamp \in Nat
                        /\ c.nextAction \in Nat
  BY BriefAssumption DEF BriefInv, BriefTyped, BriefDocs
<1>3. told \in [BriefTasks -> Nat]
  BY DEF BriefInv, BriefTyped
<1> HIDE DEF b
<1>4. \A c \in briefs : c.taskId = b.taskId => c.stamp <= b.stamp
  BY <1>1, <1>2 DEF SortsAfter
<1>5. b.taskId \notin crossed => b.nextAction >= told[b.taskId]
  BY <1>1, <1>2, <1>3, <1>4 DEF BriefInv, LatestTells
<1>6. (\E c \in briefs : c.taskId = ongoing) => b.taskId >= ongoing
  BY <1>1, <1>2 DEF SortsAfter
<1>7. QED
  BY <1>5, <1>6 DEF b, BriefIsLatest

\* A resume that takes a brief of a task learns of every step completed before the
\* task's last finished compaction began, unless two compactions of it overlapped;
\* and it takes one of its own task when no task of a later name has left any.
THEOREM BriefIsLatestHolds == BriefSpec => []BriefIsLatest
BY InitBriefInv, StepBriefInv, BriefInvTells, PTL DEF BriefSpec

-----------------------------------------------------------------------------
(* What the state is like, whatever happens.                               *)

\* What BriefTyped leaves out: the bounds.
CallBounded(k) == (k.brief = NoBrief \/ k.brief \in Briefs) /\ k.begun \in 0 .. MaxTrace

BriefBounds ==
  /\ gone \subseteq BriefTasks \ {ongoing}
  /\ \A t \in BriefTasks : Len(traceOf[t]) <= MaxTrace
  /\ now \in 0 .. MaxNow
  /\ \A p \in Compactions : CallBounded(compaction[p])
  /\ halfway \subseteq Briefs /\ briefs \subseteq Briefs
  /\ told \in [BriefTasks -> 0 .. MaxTrace] /\ crossed \subseteq BriefTasks

LEMMA BoundsAre == 0 \in 0 .. MaxTrace /\ 0 \in 0 .. MaxNow /\ MaxTrace \in Nat /\ MaxNow \in Nat
BY BriefAssumption DEF BriefAssumption

LEMMA NextActionBounded ==
  ASSUME BriefInv, BriefBounds, NEW t \in BriefTasks
  PROVE  NextAction(traceOf[t]) \in 0 .. MaxTrace
<1>1. traceOf[t] \in Seq(TracedKinds) /\ HasLast(traceOf[t]) /\ Len(traceOf[t]) <= MaxTrace
  BY DEF BriefInv, BriefTyped, LastsExist, BriefBounds
<1>2. /\ NextAction(traceOf[t]) \in Nat
      /\ Steps(traceOf[t]) = {} => NextAction(traceOf[t]) = 0
      /\ Steps(traceOf[t]) # {} => NextAction(traceOf[t]) \in Steps(traceOf[t])
  BY <1>1, NextActionIs
<1>3. Steps(traceOf[t]) \subseteq 1 .. Len(traceOf[t]) /\ Len(traceOf[t]) \in Nat
  BY <1>1 DEF Steps
<1>4. QED
  BY <1>1, <1>2, <1>3, BoundsAre

LEMMA CompactionBounded ==
  ASSUME BriefInv, BriefBounds, NEW p \in Compactions, NEW k, CallBounded(k),
         compaction' = [compaction EXCEPT ![p] = k]
  PROVE  \A q \in Compactions : CallBounded(compaction'[q])
<1>1. DOMAIN compaction = Compactions
  BY DEF BriefInv, BriefTyped
<1>2. \A q \in Compactions : compaction'[q] = IF q = p THEN k ELSE compaction[q]
  BY <1>1
<1>3. QED
  BY <1>2 DEF BriefBounds

LEMMA FinishedBounded == CallBounded(Resting) /\ CallBounded(Finished)
BY BoundsAre DEF CallBounded, Resting, Finished

LEMMA BriefStepBounds ==
  ASSUME BriefInv, BriefBounds, BriefNext
  PROVE  BriefBounds'
<1>1. ongoing \in BriefTasks /\ \A t \in BriefTasks : traceOf[t] \in Seq(TracedKinds)
  BY DEF BriefInv, BriefTyped
<1>2. CASE Traced
  <2>1. PICK kind \in TracedKinds : traceOf' = [traceOf EXCEPT ![ongoing] = Append(@, kind)]
    BY <1>2 DEF Traced
  <2>2. DOMAIN traceOf = BriefTasks
    BY DEF BriefInv, BriefTyped
  <2>3. \A t \in BriefTasks : Len(traceOf'[t]) <= MaxTrace
    <3>1. TAKE t \in BriefTasks
    <3>2. CASE t = ongoing
      <4>1. traceOf'[t] = Append(traceOf[t], kind) /\ Len(traceOf[t]) < MaxTrace
        BY <1>1, <1>2, <2>1, <2>2, <3>2 DEF Traced
      <4>2. Len(traceOf'[t]) = Len(traceOf[t]) + 1 /\ Len(traceOf[t]) \in Nat
        BY <1>1, <4>1
      <4>3. QED
        BY <4>1, <4>2, BoundsAre
    <3>3. CASE t # ongoing
      BY <2>1, <2>2, <3>3 DEF BriefBounds
    <3>4. QED
      BY <3>2, <3>3
  <2>4. QED
    BY <1>2, <2>3 DEF Traced, BriefBounds, briefFiles, CallBounded
<1>3. CASE NextTask
  BY <1>1, <1>3 DEF NextTask, BriefBounds, briefFiles, CallBounded
<1>4. CASE Later
  BY <1>4, BoundsAre DEF Later, BriefBounds, briefFiles, CallBounded
<1>5. ASSUME NEW p \in Compactions, CompactionBegins(p) PROVE BriefBounds'
  <2> DEFINE b == [taskId |-> ongoing, stamp |-> 0, nextAction |-> 0]
             n == NextAction(traceOf[ongoing])
             k == [at |-> "trace", begun |-> n, brief |-> b]
  <2>1. b \in Briefs /\ n \in 0 .. MaxTrace
    BY <1>1, NextActionBounded, BoundsAre DEF Briefs
  <2>2. compaction' = [compaction EXCEPT ![p] = k]
    BY <1>5 DEF CompactionBegins
  <2> HIDE DEF b, n
  <2>3. CallBounded(k)
    BY <2>1 DEF CallBounded
  <2>4. \A q \in Compactions : CallBounded(compaction'[q])
    BY <2>2, <2>3, CompactionBounded
  <2>5. crossed' \subseteq BriefTasks
    BY <1>1, <1>5 DEF CompactionBegins, BriefBounds
  <2>6. QED
    BY <1>5, <2>4, <2>5 DEF CompactionBegins, BriefBounds, briefFiles
<1>6. ASSUME NEW p \in Compactions, compaction[p].at \in {"trace", "write", "rename"}
      PROVE  /\ compaction[p].brief \in Briefs /\ compaction[p].brief.taskId \in BriefTasks
             /\ compaction[p].begun \in 0 .. MaxTrace
             /\ compaction[p] = [at |-> compaction[p].at, brief |-> compaction[p].brief, begun |-> compaction[p].begun]
  <2>1. compaction[p] \in CompactionCalls /\ compaction[p].brief \in BriefDocs /\ CallBounded(compaction[p])
    BY <1>6 DEF BriefInv, BriefTyped, BriefBounds
  <2>2. NoBrief \notin BriefDocs
    BY BriefAssumption DEF BriefAssumption, BriefDocs
  <2>3. compaction[p].brief \in Briefs
    BY <2>1, <2>2 DEF CallBounded
  <2>4. QED
    BY <2>1, <2>3 DEF Briefs, CompactionCalls, CallBounded
<1>7. ASSUME NEW p \in Compactions, buildCompactionArtifact(p) PROVE BriefBounds'
  <2> DEFINE c == compaction[p]
             n == NextAction(traceOf[c.brief.taskId])
             b == [c.brief EXCEPT !.nextAction = n]
             k == [at |-> "write", brief |-> b, begun |-> c.begun]
  <2>1. /\ c.brief \in Briefs /\ n \in 0 .. MaxTrace /\ c.begun \in 0 .. MaxTrace
        /\ c = [at |-> c.at, brief |-> c.brief, begun |-> c.begun]
    BY <1>6, <1>7, NextActionBounded DEF buildCompactionArtifact
  <2>2. compaction' = [compaction EXCEPT ![p].at = "write", ![p].brief.nextAction = n]
    BY <1>7 DEF buildCompactionArtifact
  <2>3. b \in Briefs
    BY <2>1 DEF Briefs
  <2>4. compaction'[p] = k /\ \A q \in Compactions : q # p => compaction'[q] = compaction[q]
    BY <2>1, <2>2 DEF BriefInv, BriefTyped
  <2> HIDE DEF b, n
  <2>5. CallBounded(k)
    BY <2>1, <2>3 DEF CallBounded
  <2> HIDE DEF c, k
  <2>6. \A q \in Compactions : CallBounded(compaction'[q])
    BY <2>4, <2>5 DEF BriefBounds
  <2>7. QED
    BY <1>7, <2>6 DEF buildCompactionArtifact, BriefBounds, briefFiles
<1>8. ASSUME NEW p \in Compactions, WriteTmpBrief(p) PROVE BriefBounds'
  <2> DEFINE c == compaction[p]
             b == [c.brief EXCEPT !.stamp = now]
             k == [at |-> "rename", brief |-> b, begun |-> c.begun]
  <2>1. /\ c.brief \in Briefs /\ c.begun \in 0 .. MaxTrace
        /\ c = [at |-> c.at, brief |-> c.brief, begun |-> c.begun]
    BY <1>6, <1>8 DEF WriteTmpBrief
  <2>2. /\ compaction' = [compaction EXCEPT ![p].at = "rename", ![p].brief = b]
        /\ halfway' = Replaced(halfway, b)
    BY <1>8 DEF WriteTmpBrief
  <2>3. b \in Briefs
    BY <2>1 DEF Briefs, BriefBounds
  <2>4. compaction'[p] = k /\ \A q \in Compactions : q # p => compaction'[q] = compaction[q]
    BY <2>1, <2>2 DEF BriefInv, BriefTyped
  <2> HIDE DEF b
  <2>5. CallBounded(k)
    BY <2>1, <2>3 DEF CallBounded
  <2>6. halfway' \subseteq Briefs
    BY <2>2, <2>3 DEF Replaced, BriefBounds
  <2> HIDE DEF c, k
  <2>7. \A q \in Compactions : CallBounded(compaction'[q])
    BY <2>4, <2>5 DEF BriefBounds
  <2>8. QED
    BY <1>8, <2>6, <2>7 DEF WriteTmpBrief, BriefBounds, briefFiles
<1>9. ASSUME NEW p \in Compactions, writeCompactionArtifact(p) PROVE BriefBounds'
  <2>1. PICK b \in halfway :
          /\ halfway' = halfway \ {b} /\ briefs' = Replaced(briefs, b)
          /\ told' = [told EXCEPT ![b.taskId] = compaction[p].begun]
    BY <1>9 DEF writeCompactionArtifact
  <2>2. b \in Briefs /\ compaction[p].begun \in 0 .. MaxTrace
    BY <1>6, <1>9 DEF writeCompactionArtifact, BriefBounds
  <2>3. halfway' \subseteq Briefs /\ briefs' \subseteq Briefs /\ told' \in [BriefTasks -> 0 .. MaxTrace]
    BY <2>1, <2>2 DEF Replaced, BriefBounds
  <2>4. \A q \in Compactions : CallBounded(compaction'[q])
    BY <1>9, FinishedBounded, CompactionBounded DEF writeCompactionArtifact
  <2>5. QED
    BY <1>9, <2>3, <2>4 DEF writeCompactionArtifact, BriefBounds
<1>10. ASSUME NEW p \in Compactions, CompactionFails(p) PROVE BriefBounds'
  <2>1. \A q \in Compactions : CallBounded(compaction'[q])
    BY <1>10, FinishedBounded, CompactionBounded DEF CompactionFails
  <2>2. QED
    BY <1>10, <2>1 DEF CompactionFails, BriefBounds, briefFiles
<1>11. QED
  BY <1>2, <1>3, <1>4, <1>5, <1>7, <1>8, <1>9, <1>10 DEF BriefNext

LEMMA BriefTypes == BriefSpec => []BriefTypeOK
<1>1. ASSUME BriefInit PROVE BriefBounds
  <2>1. \A p \in Compactions : CallBounded(compaction[p])
    BY <1>1, FinishedBounded DEF BriefInit
  <2>2. QED
    BY <1>1, <2>1, BoundsAre DEF BriefInit, BriefBounds
<1>2. BriefBounds /\ UNCHANGED briefVars => BriefBounds'
  BY DEF BriefBounds, briefVars, CallBounded
<1>3. ASSUME BriefInv, BriefBounds PROVE BriefTypeOK
  <2>1. \A p \in Compactions :
          /\ compaction[p].at \in {"idle", "trace", "write", "rename", "over"}
          /\ compaction[p].brief \in Briefs \cup {NoBrief}
          /\ compaction[p].begun \in 0 .. MaxTrace
    BY <1>3 DEF BriefInv, BriefTyped, CompactionCalls, BriefBounds, CallBounded
  <2>2. QED
    BY <1>3, <2>1 DEF BriefInv, BriefTyped, BriefBounds, BriefTypeOK
<1>4. QED
  BY <1>1, <1>2, <1>3, BriefStepBounds, InitBriefInv, StepBriefInv, PTL DEF BriefSpec

-----------------------------------------------------------------------------
(***************************************************************************)
(* The evidence that is packed keeps to its budget.                        *)
(***************************************************************************)

\* t adds the costs up, one at a time.
Adds(t, costs, n) ==
  /\ t \in [0 .. n -> Int] /\ t[0] = 0
  /\ \A k \in 1 .. n : t[k] = t[k - 1] + costs[k]

LEMMA InAllAdds ==
  ASSUME NEW n \in Nat, NEW costs \in [1 .. n -> Int]
  PROVE  \E t : Adds(t, costs, n) /\ t[n] = InAll(costs)
<1> DEFINE taking == [vk \in Int \X (1 .. n) |-> vk[1] + costs[vk[2]]]
<1>1. taking \in [Int \X (1 .. n) -> Int]
  OBVIOUS
<1>2. \A v \in Int, k \in 1 .. n : taking[<<v, k>>] = v + costs[k]
  OBVIOUS
<1> HIDE DEF taking
<1>3. PICK f \in [SUBSET (1 .. n) -> Int] : Folding(f, n, 0, taking)
  BY <1>1, FoldExists, 0 \in Int
<1> DEFINE Adding(g) ==
       g = [s \in SUBSET (1 .. n) |-> IF s = {} THEN 0 ELSE g[s \ {Max(s)}] + costs[Max(s)]]
<1>4. Adding(f)
  <2>1. ASSUME NEW s \in SUBSET (1 .. n)
        PROVE  f[s] = IF s = {} THEN 0 ELSE f[s \ {Max(s)}] + costs[Max(s)]
    <3>1. CASE s = {}
      BY <1>3, <3>1 DEF Folding
    <3>2. CASE s # {}
      <4>1. f[s] = taking[<<f[s \ {Max(s)}], Max(s)>>]
        BY <1>3, <3>2 DEF Folding
      <4>2. Max(s) \in 1 .. n
        BY <3>2, LargestIn
      <4>3. f[s \ {Max(s)}] \in Int
        OBVIOUS
      <4>4. QED
        BY <1>2, <3>2, <4>1, <4>2, <4>3
    <3>3. QED
      BY <3>1, <3>2
  <2>2. QED
    BY <2>1
<1> DEFINE g == CHOOSE g : Adding(g)
<1>5. InAll(costs) = g[1 .. n]
  BY DEF InAll, FoldLeft, MapThenFoldSet
<1> HIDE DEF Adding
<1>6. Adding(g)
  BY <1>4
<1> HIDE DEF g
<1>7. g[{}] = 0
  BY <1>6 DEF Adding
<1>8. ASSUME NEW k \in 1 .. n, g[1 .. k - 1] \in Int
      PROVE  g[1 .. k] = taking[<<g[1 .. k - 1], k>>]
  <2>1. 1 .. k \in SUBSET (1 .. n) /\ k \in 1 .. k /\ (1 .. k) \ {k} = 1 .. k - 1 /\ k \in Nat
    OBVIOUS
  <2>2. Max(1 .. k) = k
    BY <2>1, LargestOf
  <2>3. g[1 .. k] = g[1 .. k - 1] + costs[k]
    BY <1>6, <2>1, <2>2 DEF Adding
  <2>4. QED
    BY <1>2, <1>8, <2>3
<1>9. PICK t \in [0 .. n -> Int] : Trace(t, n, 0, taking) /\ t[n] = g[1 .. n]
  <2>1. Along(g, n, Int, 0, taking)
    BY <1>7, <1>8 DEF Along
  <2>2. Reached(g, n, Int, 0, taking)
    BY <1>1, <2>1, FoldSteps, 0 \in Int
  <2>3. QED
    BY <2>2 DEF Reached
<1>10. \A k \in 1 .. n : t[k] = t[k - 1] + costs[k]
  <2>1. ASSUME NEW k \in 1 .. n PROVE t[k] = t[k - 1] + costs[k]
    <3>1. t[k - 1] \in Int
      BY <1>9
    <3>2. QED
      BY <1>2, <1>9, <3>1 DEF Trace
  <2>2. QED
    BY <2>1
<1>11. Adds(t, costs, n)
  BY <1>9, <1>10 DEF Adds, Trace
<1>12. QED
  BY <1>5, <1>9, <1>11

LEMMA AddsOnce ==
  ASSUME NEW n \in Nat, NEW costs, NEW t, NEW u, Adds(t, costs, n), Adds(u, costs, n)
  PROVE  \A k \in 0 .. n : t[k] = u[k]
<1> DEFINE G == { k \in 0 .. n : t[k] = u[k] }
<1>1. 0 \in G
  BY DEF Adds
<1>2. \A k \in 1 .. n : k - 1 \in G => k \in G
  BY DEF Adds
<1> HIDE DEF G
<1>3. \A k \in 0 .. n : k \in G
  BY <1>1, <1>2, CountUp
<1>4. QED
  BY <1>3 DEF G

LEMMA InAllIs ==
  ASSUME NEW n \in Nat, NEW costs \in [1 .. n -> Int], NEW t, Adds(t, costs, n)
  PROVE  InAll(costs) = t[n]
<1>1. PICK u : Adds(u, costs, n) /\ u[n] = InAll(costs)
  BY InAllAdds
<1>2. QED
  BY <1>1, AddsOnce

-----------------------------------------------------------------------------

\* o is the order in which the pointers are ranked.
OrderOf(o, n, pointers, ranked) ==
  /\ o \in [1 .. n -> 1 .. n]
  /\ \A j, k \in 1 .. n : o[j] = o[k] => j = k
  /\ \A i \in 1 .. n : \E k \in 1 .. n : o[k] = i
  /\ ranked = [k \in 1 .. n |-> pointers[o[k]]]
  /\ \A j, k \in 1 .. n : j < k => Value(pointers, ranked[j]) >= Value(pointers, ranked[k])

LEMMA ValueTyped ==
  ASSUME PackingAssumption, NEW n \in Nat, NEW pointers \in [1 .. n -> EvidencePointers],
         NEW i \in 1 .. n
  PROVE  Value(pointers, pointers[i]) \in Int
<1> DEFINE epochs == { pointers[j].freshness : j \in DOMAIN pointers }
<1>1. \A p \in EvidencePointers : p.confidence \in {0, 1} /\ p.freshness \in 0 .. 2
  BY DEF PackingAssumption
<1>2. epochs \in SUBSET (0 .. 2) /\ pointers[i].freshness \in epochs
  BY <1>1
<1>3. Min(epochs) \in 0 .. 2 /\ Max(epochs) \in 0 .. 2 /\ Min(epochs) <= Max(epochs)
  <2> HIDE DEF epochs
  <2>1. epochs # {} /\ 2 \in Nat
    BY <1>2
  <2>2. Min(epochs) \in epochs /\ Max(epochs) \in epochs /\ Min(epochs) <= Max(epochs)
    BY <1>2, <2>1, MinFromMax
  <2>3. QED
    BY <1>2, <2>2
<1>4. freshnessScorer(pointers, pointers[i]) \in Int
  <2> DEFINE a == Min(epochs)
             b == Max(epochs)
             x == pointers[i].freshness
  <2>1. a \in Int /\ b \in Int /\ x \in Int /\ a <= b
    BY <1>1, <1>3
  <2>2. freshnessScorer(pointers, pointers[i]) = IF b - a = 0 THEN 2 ELSE (2 * (x - a)) \div (b - a)
    BY DEF freshnessScorer
  <2> HIDE DEF a, b, x, epochs
  <2>3. QED
    BY <2>1, <2>2
<1>5. pointers[i].confidence \in Int
  BY <1>1
<1>6. QED
  BY <1>4, <1>5 DEF Value

LEMMA RankedByValue ==
  ASSUME PackingAssumption, NEW n \in Nat, NEW pointers \in [1 .. n -> EvidencePointers]
  PROVE  \E o : OrderOf(o, n, pointers, rankByValue(pointers))
<1> DEFINE S == 1 .. n
           o == InOrder(DOMAIN pointers, LAMBDA i, j : i # j /\ RanksBefore(pointers, i, j))
           R == { ij \in S \X S : ij[1] # ij[2] /\ RanksBefore(pointers, ij[1], ij[2]) }
           v == [i \in S |-> Value(pointers, pointers[i])]
           w == [i \in S |-> pointers[i].path]
<1>1. IsFiniteSet(S) /\ Cardinality(S) = n
  <2>1. Cardinality(1 .. n) = IF 1 > n THEN 0 ELSE n - 1 + 1
    BY FS_Interval
  <2>2. QED
    BY <2>1, FS_Interval
<1>2. v \in [S -> Int]
  BY ValueTyped
<1>3. w \in [S -> Nat]
  BY DEF PackingAssumption
<1>4. \A i, j \in S : <<i, j>> \in R <=>
        i # j /\ \/ v[i] > v[j]
                 \/ v[i] = v[j] /\ w[i] < w[j]
                 \/ v[i] = v[j] /\ w[i] = w[j] /\ i <= j
  BY DEF RanksBefore
<1>5. \A i, j \in S : (i # j /\ RanksBefore(pointers, i, j)) <=> <<i, j>> \in R
  OBVIOUS
<1> HIDE DEF R, v, w
<1>6. /\ \A x \in S : <<x, x>> \notin R
      /\ \A x, y \in S : x = y \/ <<x, y>> \in R \/ <<y, x>> \in R
  <2>1. \A x \in S : <<x, x>> \notin R
    BY <1>2, <1>4
  <2>2. ASSUME NEW x \in S, NEW y \in S, x # y PROVE <<x, y>> \in R \/ <<y, x>> \in R
    <3>1. v[x] \in Int /\ v[y] \in Int /\ w[x] \in Nat /\ w[y] \in Nat /\ x \in Nat /\ y \in Nat
      BY <1>2, <1>3
    <3>2. QED
      BY <1>4, <2>2, <3>1
  <2>3. QED
    BY <2>1, <2>2
<1>7. ASSUME NEW x \in S, NEW y \in S, NEW z \in S, <<x, y>> \in R, <<y, z>> \in R
      PROVE  <<x, z>> \in R
  <2>1. x # y /\ (v[x] > v[y] \/ (v[x] = v[y] /\ w[x] < w[y])
                   \/ (v[x] = v[y] /\ w[x] = w[y] /\ x <= y))
    BY <1>4, <1>7
  <2>2. y # z /\ (v[y] > v[z] \/ (v[y] = v[z] /\ w[y] < w[z])
                   \/ (v[y] = v[z] /\ w[y] = w[z] /\ y <= z))
    BY <1>4, <1>7
  <2>3. v[x] \in Int /\ v[y] \in Int /\ v[z] \in Int /\ w[x] \in Nat /\ w[y] \in Nat /\ w[z] \in Nat
    BY <1>2, <1>3
  <2>4. x # z /\ (v[x] > v[z] \/ (v[x] = v[z] /\ w[x] < w[z])
                   \/ (v[x] = v[z] /\ w[x] = w[z] /\ x <= z))
    BY <2>1, <2>2, <2>3
  <2>5. QED
    BY <1>4, <2>4
<1>8. \A k \in 1 .. n : \E x \in S : Cardinality(Below(S, R, x)) = k - 1
  BY <1>1, <1>6, <1>7, PlacesAreTaken
<1>9. \A x \in S : { y \in S : y # x /\ RanksBefore(pointers, y, x) } = Below(S, R, x)
  BY <1>5 DEF Below
<1> DEFINE at(k) == CHOOSE x \in S :
                      Cardinality({ y \in S : y # x /\ RanksBefore(pointers, y, x) }) = k - 1
<1>10. o = [k \in 1 .. n |-> at(k)]
  <2>1. DOMAIN pointers = S
    OBVIOUS
  <2>2. QED
    BY <1>1, <2>1 DEF InOrder
<1>11. ASSUME NEW k \in 1 .. n
       PROVE  o[k] \in S /\ Cardinality(Below(S, R, o[k])) = k - 1
  <2>1. o[k] = at(k)
    <3> HIDE DEF at, o
    <3>1. QED
      BY <1>10
  <2>2. \E x \in S : Cardinality({ y \in S : y # x /\ RanksBefore(pointers, y, x) }) = k - 1
    BY <1>8, <1>9
  <2>3. at(k) \in S /\ Cardinality({ y \in S : y # at(k) /\ RanksBefore(pointers, y, at(k)) }) = k - 1
    BY <2>2
  <2>4. QED
    BY <1>9, <2>1, <2>3
<1>12. rankByValue(pointers) = [k \in DOMAIN o |-> pointers[o[k]]]
  BY DEF rankByValue
<1>13. DOMAIN o = 1 .. n /\ o = [k \in 1 .. n |-> o[k]]
  <2> HIDE DEF at, o
  <2>1. QED
    BY <1>10
<1> HIDE DEF o, at
<1>14. /\ \A x \in S : \E k \in 1 .. n : o[k] = x
       /\ \A i, j \in 1 .. n : i < j => <<o[i], o[j]>> \in R /\ o[i] # o[j]
  <2> HIDE DEF S
  <2>1. \A k \in 1 .. Cardinality(S) : o[k] \in S /\ Cardinality(Below(S, R, o[k])) = k - 1
    BY <1>1, <1>11
  <2>2. /\ \A x \in S : \E k \in 1 .. Cardinality(S) : o[k] = x
        /\ \A i, j \in 1 .. Cardinality(S) : i < j => <<o[i], o[j]>> \in R /\ o[i] # o[j]
    BY <1>1, <1>6, <1>7, <2>1, Ordered
  <2>3. QED
    BY <1>1, <2>2
<1>15. \A j, k \in 1 .. n : j < k => v[o[j]] >= v[o[k]]
  <2>1. \A i, j \in S : <<i, j>> \in R => v[i] >= v[j]
    BY <1>2, <1>3, <1>4
  <2>2. QED
    BY <1>11, <1>14, <2>1
<1>16. \A j, k \in 1 .. n : o[j] = o[k] => j = k
  <2>1. ASSUME NEW j \in 1 .. n, NEW k \in 1 .. n, o[j] = o[k] PROVE j = k
    <3>1. ~(j < k) /\ ~(k < j)
      BY <1>14, <2>1
    <3>2. QED
      BY <3>1
  <2>2. QED
    BY <2>1
<1>17. o \in [1 .. n -> 1 .. n]
  BY <1>11, <1>13
<1> DEFINE ranked == rankByValue(pointers)
<1>18. ranked = [k \in 1 .. n |-> pointers[o[k]]]
  BY <1>12, <1>13
<1> HIDE DEF ranked
<1>19. \A k \in 1 .. n : Value(pointers, ranked[k]) = v[o[k]]
  BY <1>17, <1>18 DEF v
<1>20. \A j, k \in 1 .. n : j < k => Value(pointers, ranked[j]) >= Value(pointers, ranked[k])
  BY <1>15, <1>19
<1>21. OrderOf(o, n, pointers, ranked)
  BY <1>14, <1>16, <1>17, <1>18, <1>20 DEF OrderOf
<1>22. QED
  BY <1>21 DEF ranked

-----------------------------------------------------------------------------

Loads == [pointer : EvidencePointers, form : {"summary", "full"}]
Packs == [admitted : Seq(Loads), used : Nat]

CostsOf(admitted) == [i \in 1 .. Len(admitted) |-> Cost(admitted[i])]

LEMMA CostsArePositive ==
  ASSUME PackingAssumption, NEW p \in EvidencePointers
  PROVE  fullTokens(p) \in Nat \ {0} /\ p.summary \in Nat \ {0}
<1>1. TokensPerLine \in Nat \ {0} /\ DefaultFullTokens \in Nat \ {0}
      /\ p.summary \in Nat \ {0} /\ (p.lines = WholeFile \/ p.lines \in Int)
  BY DEF PackingAssumption
<1>2. CASE p.lines = WholeFile
  BY <1>1, <1>2 DEF fullTokens
<1>3. CASE p.lines # WholeFile
  <2> DEFINE a == Plus(1, p.lines)
  <2>1. a \in Nat \ {0}
    BY <1>1, <1>3 DEF Plus
  <2>2. fullTokens(p) = a * TokensPerLine
    BY <1>3 DEF fullTokens
  <2> HIDE DEF a
  <2>3. a * TokensPerLine \in Nat /\ a * TokensPerLine >= 1
    BY <1>1, <2>1
  <2>4. QED
    BY <1>1, <2>2, <2>3
<1>4. QED
  BY <1>2, <1>3

LEMMA CostTyped ==
  ASSUME PackingAssumption, NEW a \in Loads
  PROVE  Cost(a) \in Nat \ {0}
  BY CostsArePositive DEF Cost, Loads

\* h says which of the ranked is admitted, in their order.
Picks(h, admitted, ranked, k) ==
  /\ h \in [1 .. Len(admitted) -> 1 .. k]
  /\ \A i, j \in 1 .. Len(admitted) : i < j => h[i] < h[j]
  /\ \A i \in 1 .. Len(admitted) : admitted[i].pointer = ranked[h[i]]

\* After k of the ranked, with M tokens and N sources: what is not admitted was
\* too much, or all is used up.
Packed(pack, ranked, k, M, N, t, h) ==
  /\ pack.used <= M /\ Len(pack.admitted) <= N
  /\ Adds(t, CostsOf(pack.admitted), Len(pack.admitted)) /\ t[Len(pack.admitted)] = pack.used
  /\ Picks(h, pack.admitted, ranked, k)
  /\ \A j \in 1 .. k : \/ \E i \in 1 .. Len(pack.admitted) : h[i] = j
                       \/ Len(pack.admitted) >= N \/ M - pack.used <= 0
                       \/ ranked[j].summary > M - pack.used

LEMMA LoadKeeps ==
  ASSUME PackingAssumption, NEW n \in Nat, NEW ranked \in [1 .. n -> EvidencePointers],
         NEW M \in Nat, NEW N \in Nat, NEW k \in 1 .. n, NEW pack \in Packs, NEW t, NEW h,
         Packed(pack, ranked, k - 1, M, N, t, h),
         NEW form \in {"summary", "full"}, NEW cost,
         cost = Cost([pointer |-> ranked[k], form |-> form]),
         Len(pack.admitted) < N, cost <= M - pack.used
  PROVE  /\ Load(pack, ranked[k], form, cost) \in Packs
         /\ \E u, g : Packed(Load(pack, ranked[k], form, cost), ranked, k, M, N, u, g)
<1> DEFINE a == [pointer |-> ranked[k], form |-> form]
           new == Load(pack, ranked[k], form, cost)
           l == Len(pack.admitted)
<1>1. pack.admitted \in Seq(Loads) /\ pack.used \in Nat /\ l \in Nat
  BY DEF Packs
<1>2. a \in Loads
  BY DEF Loads
<1>3. cost \in Nat \ {0}
  BY <1>2, CostTyped
<1>4. new.admitted = Append(pack.admitted, a) /\ new.used = pack.used + cost
  BY DEF Load
<1>5. new \in Packs
  BY <1>1, <1>2, <1>3 DEF Load, Packs
<1>6. /\ Len(new.admitted) = l + 1
      /\ \A i \in 1 .. l : new.admitted[i] = pack.admitted[i]
      /\ new.admitted[l + 1] = a
  <2> HIDE DEF a, new
  <2>1. QED
    BY <1>1, <1>2, <1>4, AppendProperties
<1> DEFINE u == [i \in 0 .. l + 1 |-> IF i <= l THEN t[i] ELSE pack.used + cost]
           g == [i \in 1 .. l + 1 |-> IF i <= l THEN h[i] ELSE k]
<1>7. /\ pack.used <= M /\ l <= N
      /\ Adds(t, CostsOf(pack.admitted), l) /\ t[l] = pack.used
      /\ Picks(h, pack.admitted, ranked, k - 1)
      /\ \A j \in 1 .. k - 1 : \/ \E i \in 1 .. l : h[i] = j
                               \/ l >= N \/ M - pack.used <= 0
                               \/ ranked[j].summary > M - pack.used
  BY DEF Packed
<1> HIDE DEF a, new, l
<1>8. /\ \A i \in 1 .. l : CostsOf(new.admitted)[i] = CostsOf(pack.admitted)[i]
      /\ CostsOf(new.admitted)[l + 1] = cost
  <2>1. \A i \in 1 .. l : i \in 1 .. l + 1
    BY <1>1
  <2>2. l + 1 \in 1 .. l + 1
    BY <1>1
  <2>3. cost = Cost(a)
    BY DEF a
  <2>4. CostsOf(pack.admitted) = [i \in 1 .. l |-> Cost(pack.admitted[i])]
    BY DEF CostsOf, l
  <2>5. CostsOf(new.admitted) = [i \in 1 .. l + 1 |-> Cost(new.admitted[i])]
    BY <1>6 DEF CostsOf
  <2>6. QED
    BY <1>6, <2>1, <2>2, <2>3, <2>4, <2>5
<1>9. Adds(u, CostsOf(new.admitted), l + 1) /\ u[l + 1] = new.used
  <2>1. t \in [0 .. l -> Int] /\ t[0] = 0
        /\ \A i \in 1 .. l : t[i] = t[i - 1] + CostsOf(pack.admitted)[i]
    BY <1>7 DEF Adds
  <2>2. u \in [0 .. l + 1 -> Int] /\ u[0] = 0
    BY <1>1, <1>3, <2>1
  <2>3. ~(l + 1 <= l) /\ l + 1 \in 0 .. l + 1 /\ (l + 1) - 1 = l /\ l \in 0 .. l + 1 /\ l <= l
    BY <1>1
  <2>4. u[l + 1] = pack.used + cost /\ u[(l + 1) - 1] = pack.used
    BY <1>7, <2>3
  <2>5. ASSUME NEW i \in 1 .. l PROVE u[i] = u[i - 1] + CostsOf(new.admitted)[i]
    <3>1. i \in 0 .. l + 1 /\ i - 1 \in 0 .. l + 1 /\ i <= l /\ i - 1 <= l
      BY <1>1
    <3>2. u[i] = t[i] /\ u[i - 1] = t[i - 1]
      BY <3>1
    <3>3. QED
      BY <1>8, <2>1, <3>2
  <2>6. \A i \in 1 .. l + 1 : i \in 1 .. l \/ i = l + 1
    BY <1>1
  <2> HIDE DEF u
  <2>7. \A i \in 1 .. l + 1 : u[i] = u[i - 1] + CostsOf(new.admitted)[i]
    BY <1>8, <2>4, <2>5, <2>6
  <2>8. QED
    BY <1>4, <2>2, <2>4, <2>7 DEF Adds
<1>10. Picks(g, new.admitted, ranked, k)
  <2>1. /\ h \in [1 .. l -> 1 .. k - 1]
        /\ \A i, j \in 1 .. l : i < j => h[i] < h[j]
        /\ \A i \in 1 .. l : pack.admitted[i].pointer = ranked[h[i]]
    BY <1>7 DEF Picks, l
  <2>2. \A i \in 1 .. l + 1 : (i <= l /\ i \in 1 .. l) \/ (i = l + 1 /\ ~(i <= l))
    BY <1>1
  <2>3. \A i \in 1 .. l : i \in 1 .. l + 1 /\ i <= l
    BY <1>1
  <2>4. (\A i \in 1 .. l : g[i] = h[i]) /\ g[l + 1] = k
    BY <1>1, <2>2, <2>3
  <2>5. g \in [1 .. l + 1 -> 1 .. k]
    BY <2>1, <2>2
  <2> HIDE DEF g
  <2>6. ASSUME NEW i \in 1 .. l + 1, NEW j \in 1 .. l + 1, i < j
        PROVE  g[i] < g[j]
    <3>1. i \in 1 .. l
      BY <1>1, <2>6
    <3>2. CASE j \in 1 .. l
      BY <2>1, <2>4, <2>6, <3>1, <3>2
    <3>3. CASE j = l + 1
      <4>1. h[i] \in 1 .. k - 1
        BY <2>1, <3>1
      <4>2. QED
        BY <2>4, <3>1, <3>3, <4>1
    <3>4. QED
      BY <2>2, <3>2, <3>3
  <2>7. \A i \in 1 .. l + 1 : new.admitted[i].pointer = ranked[g[i]]
    <3>1. \A i \in 1 .. l : new.admitted[i].pointer = ranked[g[i]]
      BY <1>6, <2>1, <2>4
    <3>2. new.admitted[l + 1].pointer = ranked[g[l + 1]]
      BY <1>6, <2>4 DEF a
    <3>3. QED
      BY <2>2, <3>1, <3>2
  <2>8. QED
    BY <1>6, <2>5, <2>6, <2>7 DEF Picks
<1>11. ASSUME NEW j \in 1 .. k
       PROVE  \/ \E i \in 1 .. l + 1 : g[i] = j
              \/ l + 1 >= N \/ M - new.used <= 0
              \/ ranked[j].summary > M - new.used
  <2>1. CASE j = k
    <3>1. l + 1 \in 1 .. l + 1 /\ ~(l + 1 <= l)
      BY <1>1
    <3>2. g[l + 1] = j
      BY <2>1, <3>1
    <3>3. QED
      BY <3>1, <3>2
  <2>2. CASE j # k
    <3>1. j \in 1 .. k - 1
      BY <2>2
    <3>2. CASE \E i \in 1 .. l : h[i] = j
      <4>1. PICK i \in 1 .. l : h[i] = j
        BY <3>2
      <4>2. i \in 1 .. l + 1 /\ i <= l
        BY <1>1
      <4>3. g[i] = j
        BY <4>1, <4>2
      <4>4. QED
        BY <4>2, <4>3
    <3>3. CASE l >= N
      BY <1>1, <3>3
    <3>4. CASE M - pack.used <= 0
      BY <1>1, <1>3, <1>4, <3>4
    <3>5. CASE ranked[j].summary > M - pack.used
      <4>1. j \in 1 .. n
        BY <3>1
      <4>2. ranked[j].summary \in Nat
        BY <4>1, CostsArePositive
      <4>3. QED
        BY <1>1, <1>3, <1>4, <3>5, <4>2
    <3>6. QED
      BY <1>7, <3>1, <3>2, <3>3, <3>4, <3>5
  <2>3. QED
    BY <2>1, <2>2
<1>12. new.used <= M /\ l + 1 <= N
  <2>1. cost <= M - pack.used /\ l < N
    BY DEF l
  <2>2. QED
    BY <1>1, <1>3, <1>4, <2>1
<1> HIDE DEF u, g
<1>13. Packed(new, ranked, k, M, N, u, g)
  BY <1>6, <1>9, <1>10, <1>11, <1>12 DEF Packed
<1>14. QED
  BY <1>5, <1>13 DEF new

LEMMA OfferKeeps ==
  ASSUME PackingAssumption, NEW n \in Nat, NEW ranked \in [1 .. n -> EvidencePointers],
         NEW M \in Nat, NEW N \in Nat, NEW k \in 1 .. n, NEW pack \in Packs, NEW t, NEW h,
         Packed(pack, ranked, k - 1, M, N, t, h)
  PROVE  \E u, g : Packed(Offer(pack, ranked[k], M, N), ranked, k, M, N, u, g)
<1> DEFINE p == ranked[k]
           remaining == M - pack.used
           full == 5 * remaining > M /\ fullTokens(p) <= remaining
           l == Len(pack.admitted)
<1>1. p \in EvidencePointers /\ pack.admitted \in Seq(Loads) /\ pack.used \in Nat
      /\ l \in Nat /\ k \in Nat
  BY DEF Packs
<1>2. fullTokens(p) \in Nat /\ p.summary \in Nat
  BY <1>1, CostsArePositive
<1>3. Cost([pointer |-> p, form |-> "full"]) = fullTokens(p)
      /\ Cost([pointer |-> p, form |-> "summary"]) = p.summary
  BY DEF Cost
<1>4. ASSUME \/ l >= N \/ remaining <= 0 \/ p.summary > remaining
      PROVE  Packed(pack, ranked, k, M, N, t, h)
  <2>1. Picks(h, pack.admitted, ranked, k - 1)
    BY DEF Packed
  <2>2. Picks(h, pack.admitted, ranked, k)
    <3>1. \A j \in 1 .. k - 1 : j \in 1 .. k
      OBVIOUS
    <3>2. QED
      BY <2>1, <3>1 DEF Picks
  <2>3. \A j \in 1 .. k : j \in 1 .. k - 1 \/ j = k
    OBVIOUS
  <2>4. QED
    BY <1>4, <2>2, <2>3 DEF Packed
<1>5. CASE l >= N \/ remaining <= 0
  <2>1. Offer(pack, p, M, N) = pack
    BY <1>5 DEF Offer
  <2>2. QED
    BY <1>4, <1>5, <2>1
<1>6. CASE ~(l >= N \/ remaining <= 0) /\ full
  <2>1. Offer(pack, p, M, N) = Load(pack, p, "full", fullTokens(p))
    BY <1>6 DEF Offer
  <2> DEFINE c == fullTokens(p)
  <2>2. /\ Len(pack.admitted) < N /\ c <= M - pack.used
        /\ c = Cost([pointer |-> ranked[k], form |-> "full"]) /\ "full" \in {"summary", "full"}
    BY <1>1, <1>3, <1>6
  <2> HIDE DEF c, p, full, remaining, l
  <2>3. \E u, g : Packed(Load(pack, ranked[k], "full", c), ranked, k, M, N, u, g)
    BY <2>2, LoadKeeps
  <2>4. QED
    BY <2>1, <2>3 DEF c, p
<1>7. CASE ~(l >= N \/ remaining <= 0) /\ ~full /\ p.summary <= remaining
  <2>1. Offer(pack, p, M, N) = Load(pack, p, "summary", p.summary)
    BY <1>7 DEF Offer
  <2> DEFINE c == p.summary
  <2>2. /\ Len(pack.admitted) < N /\ c <= M - pack.used
        /\ c = Cost([pointer |-> ranked[k], form |-> "summary"]) /\ "summary" \in {"summary", "full"}
    BY <1>1, <1>3, <1>7
  <2> HIDE DEF c, p, full, remaining, l
  <2>3. \E u, g : Packed(Load(pack, ranked[k], "summary", c), ranked, k, M, N, u, g)
    BY <2>2, LoadKeeps
  <2>4. QED
    BY <2>1, <2>3 DEF c, p
<1>8. CASE ~(l >= N \/ remaining <= 0) /\ ~full /\ ~(p.summary <= remaining)
  <2>1. Offer(pack, p, M, N) = pack
    BY <1>8 DEF Offer
  <2>2. p.summary > remaining
    BY <1>1, <1>2, <1>8
  <2>3. QED
    BY <1>4, <2>1, <2>2
<1> HIDE DEF full, remaining, l, p
<1>9. QED
  BY <1>5, <1>6, <1>7, <1>8 DEF p

LEMMA OfferTyped ==
  ASSUME PackingAssumption, NEW pack \in Packs, NEW p \in EvidencePointers, NEW M, NEW N
  PROVE  Offer(pack, p, M, N) \in Packs
<1>1. fullTokens(p) \in Nat /\ p.summary \in Nat
  BY CostsArePositive
<1>2. pack.admitted \in Seq(Loads) /\ pack.used \in Nat
  BY DEF Packs
<1>3. [pointer |-> p, form |-> "full"] \in Loads /\ [pointer |-> p, form |-> "summary"] \in Loads
  BY DEF Loads
<1>4. Load(pack, p, "full", fullTokens(p)) \in Packs
  BY <1>1, <1>2, <1>3 DEF Load, Packs
<1>5. Load(pack, p, "summary", p.summary) \in Packs
  BY <1>1, <1>2, <1>3 DEF Load, Packs
<1>6. QED
  BY <1>4, <1>5 DEF Offer

\* The ranked are offered one at a time.
Offered(s, n, ranked, M, N) ==
  /\ s \in [0 .. n -> Packs] /\ s[0] = Nothing /\ s[n] = packAdditive(ranked, M, N)
  /\ \A k \in 1 .. n : s[k] = Offer(s[k - 1], ranked[k], M, N)

LEMMA OfferSteps ==
  ASSUME PackingAssumption, NEW n \in Nat, NEW ranked \in [1 .. n -> EvidencePointers],
         NEW M \in Nat, NEW N \in Nat
  PROVE  \E s : Offered(s, n, ranked, M, N)
<1> DEFINE taking == [vk \in Packs \X (1 .. n) |-> Offer(vk[1], ranked[vk[2]], M, N)]
<1>1. Nothing \in Packs
  BY DEF Nothing, Packs
<1>2. taking \in [Packs \X (1 .. n) -> Packs]
  BY OfferTyped
<1>3. \A v \in Packs, k \in 1 .. n : taking[<<v, k>>] = Offer(v, ranked[k], M, N)
  OBVIOUS
<1> HIDE DEF taking
<1>4. PICK f \in [SUBSET (1 .. n) -> Packs] : Folding(f, n, Nothing, taking)
  BY <1>1, <1>2, FoldExists
<1> DEFINE Packing(g) ==
       g = [s \in SUBSET (1 .. n) |->
              IF s = {} THEN Nothing ELSE Offer(g[s \ {Max(s)}], ranked[Max(s)], M, N)]
<1>5. Packing(f)
  <2>1. ASSUME NEW s \in SUBSET (1 .. n)
        PROVE  f[s] = IF s = {} THEN Nothing ELSE Offer(f[s \ {Max(s)}], ranked[Max(s)], M, N)
    <3>1. CASE s = {}
      BY <1>4, <3>1 DEF Folding
    <3>2. CASE s # {}
      <4>1. f[s] = taking[<<f[s \ {Max(s)}], Max(s)>>]
        BY <1>4, <3>2 DEF Folding
      <4>2. Max(s) \in 1 .. n
        BY <3>2, LargestIn
      <4>3. f[s \ {Max(s)}] \in Packs
        OBVIOUS
      <4>4. QED
        BY <1>3, <3>2, <4>1, <4>2, <4>3
    <3>3. QED
      BY <3>1, <3>2
  <2>2. QED
    BY <2>1
<1> DEFINE g == CHOOSE g : Packing(g)
<1>6. packAdditive(ranked, M, N) = g[1 .. n]
  BY DEF packAdditive, FoldLeft, MapThenFoldSet
<1> HIDE DEF Packing
<1>7. Packing(g)
  BY <1>5
<1> HIDE DEF g
<1>8. g[{}] = Nothing
  BY <1>7 DEF Packing
<1>9. ASSUME NEW k \in 1 .. n, g[1 .. k - 1] \in Packs
      PROVE  g[1 .. k] = taking[<<g[1 .. k - 1], k>>]
  <2>1. 1 .. k \in SUBSET (1 .. n) /\ k \in 1 .. k /\ (1 .. k) \ {k} = 1 .. k - 1 /\ k \in Nat
    OBVIOUS
  <2>2. Max(1 .. k) = k
    BY <2>1, LargestOf
  <2>3. g[1 .. k] = Offer(g[1 .. k - 1], ranked[k], M, N)
    BY <1>7, <2>1, <2>2 DEF Packing
  <2>4. QED
    BY <1>3, <1>9, <2>3
<1>10. PICK s \in [0 .. n -> Packs] : Trace(s, n, Nothing, taking) /\ s[n] = g[1 .. n]
  <2>1. Along(g, n, Packs, Nothing, taking)
    BY <1>8, <1>9 DEF Along
  <2>2. Reached(g, n, Packs, Nothing, taking)
    BY <1>1, <1>2, <2>1, FoldSteps
  <2>3. QED
    BY <2>2 DEF Reached
<1>11. \A k \in 1 .. n : s[k] = Offer(s[k - 1], ranked[k], M, N)
  <2>1. ASSUME NEW k \in 1 .. n PROVE s[k] = Offer(s[k - 1], ranked[k], M, N)
    <3>1. s[k - 1] \in Packs
      BY <1>10
    <3>2. QED
      BY <1>3, <1>10, <3>1 DEF Trace
  <2>2. QED
    BY <2>1
<1>12. Offered(s, n, ranked, M, N)
  BY <1>6, <1>10, <1>11 DEF Trace, Offered
<1>13. QED
  BY <1>12

LEMMA AdditivePacks ==
  ASSUME PackingAssumption, NEW n \in Nat, NEW ranked \in [1 .. n -> EvidencePointers],
         NEW M \in Nat, NEW N \in Nat
  PROVE  /\ packAdditive(ranked, M, N) \in Packs
         /\ \E t, h : Packed(packAdditive(ranked, M, N), ranked, n, M, N, t, h)
<1>1. PICK s : Offered(s, n, ranked, M, N)
  BY OfferSteps
<1>2. /\ s \in [0 .. n -> Packs] /\ s[0] = Nothing /\ s[n] = packAdditive(ranked, M, N)
      /\ \A k \in 1 .. n : s[k] = Offer(s[k - 1], ranked[k], M, N)
  BY <1>1 DEF Offered
<1> DEFINE Good(k) == \E t, h : Packed(s[k], ranked, k, M, N, t, h)
           G == { k \in 0 .. n : Good(k) }
<1>3. 0 \in G
  <2> DEFINE t == [i \in 0 .. 0 |-> 0]
             h == [i \in 1 .. 0 |-> 0]
  <2>1. Nothing.admitted = << >> /\ Nothing.used = 0 /\ Len(<< >>) = 0
    BY DEF Nothing
  <2>2. Adds(t, CostsOf(<< >>), 0) /\ t[0] = 0
    BY DEF Adds
  <2>3. Picks(h, << >>, ranked, 0)
    BY DEF Picks
  <2> HIDE DEF t, h
  <2>4. Packed(Nothing, ranked, 0, M, N, t, h)
    BY <2>1, <2>2, <2>3 DEF Packed
  <2>5. QED
    BY <1>2, <2>4
<1>4. ASSUME NEW k \in 1 .. n, k - 1 \in G
      PROVE  k \in G
  <2>1. k - 1 \in 0 .. n /\ k \in 0 .. n /\ s[k - 1] \in Packs
    BY <1>2
  <2>2. PICK t, h : Packed(s[k - 1], ranked, k - 1, M, N, t, h)
    BY <1>4
  <2>3. \E u, g : Packed(Offer(s[k - 1], ranked[k], M, N), ranked, k, M, N, u, g)
    BY <2>1, <2>2, OfferKeeps
  <2>4. Good(k)
    BY <1>2, <2>3
  <2> HIDE DEF Good
  <2>5. QED
    BY <2>1, <2>4
<1>5. n \in G
  <2> HIDE DEF G
  <2>1. \A k \in 1 .. n : k - 1 \in G => k \in G
    BY <1>4
  <2>2. \A k \in 0 .. n : k \in G
    BY <1>3, <2>1, CountUp
  <2>3. QED
    BY <2>2
<1>6. s[n] \in Packs /\ Good(n)
  <2> HIDE DEF Good
  <2>1. n \in 0 .. n
    OBVIOUS
  <2>2. s[n] \in Packs
    BY <1>2, <2>1
  <2>3. Good(n)
    BY <1>5
  <2>4. QED
    BY <2>2, <2>3
<1>7. QED
  BY <1>2, <1>6

PointersOf(admitted) == [k \in DOMAIN admitted |-> admitted[k].pointer]

NotPicked(p, n, ranked, l, h) == \E j \in 1 .. n : ranked[j] = p /\ \A i \in 1 .. l : h[i] # j

\* What is admitted was given, as often at most; what is dropped was not picked.
LEMMA PickedTimes ==
  ASSUME NEW n \in Nat, NEW pointers \in [1 .. n -> EvidencePointers], NEW ranked, NEW o,
         OrderOf(o, n, pointers, ranked), NEW admitted \in Seq(Loads), NEW h,
         Picks(h, admitted, ranked, n), NEW p
  PROVE  /\ TimesIn(PointersOf(admitted), p) <= TimesIn(pointers, p)
         /\ TimesIn(PointersOf(admitted), p) < TimesIn(pointers, p) <=>
              NotPicked(p, n, ranked, Len(admitted), h)
<1> DEFINE loaded == PointersOf(admitted)
<1> DEFINE l == Len(admitted)
           inLoad == { k \in 1 .. l : loaded[k] = p }
           inAsked == { k \in 1 .. n : pointers[k] = p }
           f == [i \in inLoad |-> o[h[i]]]
<1>1. l \in Nat /\ DOMAIN admitted = 1 .. l
  OBVIOUS
<1>2. DOMAIN loaded = 1 .. l /\ DOMAIN pointers = 1 .. n
      /\ \A i \in 1 .. l : loaded[i] = admitted[i].pointer
  BY <1>1 DEF PointersOf
<1> HIDE DEF loaded
<1>3. TimesIn(loaded, p) = Cardinality(inLoad) /\ TimesIn(pointers, p) = Cardinality(inAsked)
  BY <1>2 DEF TimesIn
<1>4. /\ h \in [1 .. l -> 1 .. n]
      /\ \A i, j \in 1 .. l : i < j => h[i] < h[j]
      /\ \A i \in 1 .. l : loaded[i] = ranked[h[i]]
  BY <1>2 DEF Picks
<1>5. /\ o \in [1 .. n -> 1 .. n]
      /\ \A j, k \in 1 .. n : o[j] = o[k] => j = k
      /\ \A i \in 1 .. n : \E k \in 1 .. n : o[k] = i
      /\ \A k \in 1 .. n : ranked[k] = pointers[o[k]]
  BY DEF OrderOf
<1> HIDE DEF l
<1>6. IsFiniteSet(inLoad) /\ IsFiniteSet(inAsked)
  <2>1. IsFiniteSet(1 .. l) /\ IsFiniteSet(1 .. n)
    BY <1>1, FS_Interval
  <2>2. inLoad \in SUBSET (1 .. l) /\ inAsked \in SUBSET (1 .. n)
    OBVIOUS
  <2> HIDE DEF inLoad, inAsked
  <2>3. QED
    BY <2>1, <2>2, FS_Subset
<1>7. Cardinality(inLoad) \in Nat /\ Cardinality(inAsked) \in Nat
  BY <1>6, FS_CardinalityType
<1>8. f \in Injection(inLoad, inAsked)
  <2>1. \A i \in inLoad : o[h[i]] \in inAsked
    BY <1>4, <1>5
  <2>2. f \in [inLoad -> inAsked]
    BY <2>1
  <2>3. ASSUME NEW i \in inLoad, NEW j \in inLoad, f[i] = f[j] PROVE i = j
    <3>1. h[i] \in 1 .. n /\ h[j] \in 1 .. n /\ i \in 1 .. l /\ j \in 1 .. l
      BY <1>4
    <3>2. h[i] = h[j]
      BY <1>5, <2>3, <3>1
    <3>3. ~(i < j) /\ ~(j < i)
      BY <1>4, <3>1, <3>2
    <3>4. QED
      BY <1>1, <3>1, <3>3
  <2> HIDE DEF f, inLoad, inAsked
  <2>4. QED
    BY <2>2, <2>3 DEF Injection, IsInjective
<1>9. /\ Cardinality(inLoad) <= Cardinality(inAsked)
      /\ Cardinality(inLoad) = Cardinality(inAsked) <=> f \in Surjection(inLoad, inAsked)
  <2> HIDE DEF f, inLoad, inAsked
  <2>1. QED
    BY <1>6, <1>8, FS_Injection
<1> DEFINE Missed(j) == ranked[j] = p /\ \A i \in 1 .. l : h[i] # j
<1>10. ASSUME NEW j \in 1 .. n, Missed(j)
       PROVE  f \notin Surjection(inLoad, inAsked)
  <2>1. o[j] \in inAsked
    BY <1>5, <1>10
  <2>2. \A i \in inLoad : f[i] # o[j]
    BY <1>4, <1>5, <1>10
  <2> HIDE DEF f, inLoad, inAsked
  <2>3. QED
    BY <2>1, <2>2 DEF Surjection
<1>11. ASSUME \A j \in 1 .. n : ~Missed(j)
       PROVE  f \in Surjection(inLoad, inAsked)
  <2>1. ASSUME NEW x \in inAsked PROVE \E i \in inLoad : f[i] = x
    <3>1. PICK j \in 1 .. n : o[j] = x
      BY <1>5
    <3>2. ranked[j] = p
      BY <1>5, <3>1
    <3>3. PICK i \in 1 .. l : h[i] = j
      BY <1>11, <3>2
    <3>4. i \in inLoad
      BY <1>4, <3>2, <3>3
    <3>5. f[i] = x
      BY <3>1, <3>3, <3>4
    <3>6. QED
      BY <3>4, <3>5
  <2>2. f \in [inLoad -> inAsked]
    BY <1>8 DEF Injection
  <2> HIDE DEF f, inLoad, inAsked
  <2>3. QED
    BY <2>1, <2>2 DEF Surjection
<1>12. Cardinality(inLoad) < Cardinality(inAsked) <=> \E j \in 1 .. n : Missed(j)
  <2> HIDE DEF f, inLoad, inAsked, Missed
  <2>1. QED
    BY <1>7, <1>9, <1>10, <1>11
<1> HIDE DEF inLoad, inAsked
<1>13. QED
  BY <1>3, <1>9, <1>12 DEF l, loaded, NotPicked

\* As many of the best in full as fit.
TopInFull(r, m, n, ranked, M, N) ==
  /\ m \in 0 .. n /\ r.admitted \in Seq(Loads) /\ Len(r.admitted) = m /\ m <= N
  /\ \A k \in 1 .. m : r.admitted[k] = [pointer |-> ranked[k], form |-> "full"]
  /\ r.used \in Int /\ r.used <= M /\ r.used = InAll(CostsOf(r.admitted))
  /\ m < n /\ m < N => r.used + fullTokens(ranked[m + 1]) > M

LEMMA SubtractivePacks ==
  ASSUME PackingAssumption, NEW n \in Nat, NEW ranked \in [1 .. n -> EvidencePointers],
         NEW M \in Nat, NEW N \in Nat, NEW r, r = packSubtractive(ranked, M, N)
  PROVE  \E m : TopInFull(r, m, n, ranked, M, N)
<1> DEFINE costs(k) == [i \in 1 .. k |-> fullTokens(ranked[i])]
           Total(k) == InAll(costs(k))
           fitting == { k \in 0 .. n : k <= N /\ Total(k) <= M }
           m == Max(fitting)
           full == [k \in 1 .. m |-> [pointer |-> ranked[k], form |-> "full"]]
<1>1. ranked \in Seq(EvidencePointers) /\ Len(ranked) = n
  OBVIOUS
<1>2. r = [admitted |-> full, used |-> Total(m)]
  BY <1>1 DEF packSubtractive
<1>3. \A i \in 1 .. n : ranked[i] \in EvidencePointers /\ fullTokens(ranked[i]) \in Nat
  BY CostsArePositive
<1>4. PICK t : Adds(t, costs(n), n)
  <2>1. costs(n) \in [1 .. n -> Int]
    BY <1>3
  <2> HIDE DEF costs
  <2>2. QED
    BY <2>1, InAllAdds
<1>5. /\ t \in [0 .. n -> Int] /\ t[0] = 0
      /\ \A k \in 1 .. n : t[k] = t[k - 1] + fullTokens(ranked[k])
  BY <1>4 DEF Adds
<1>6. ASSUME NEW k \in 0 .. n PROVE Total(k) = t[k]
  <2> DEFINE u == [i \in 0 .. k |-> t[i]]
             c == costs(k)
  <2>1. k \in Nat /\ \A i \in 1 .. k : i \in 1 .. n /\ i - 1 \in 0 .. k /\ i \in 0 .. k
    OBVIOUS
  <2>2. \A i \in 0 .. k : t[i] \in Int
    BY <1>5
  <2>3. c \in [1 .. k -> Int]
    BY <1>3, <2>1
  <2>4. u \in [0 .. k -> Int] /\ u[0] = 0 /\ u[k] = t[k]
    BY <1>5, <2>1, <2>2
  <2>5. \A i \in 1 .. k : u[i] = u[i - 1] + c[i]
    BY <1>5, <2>1
  <2> HIDE DEF u, c
  <2>6. Adds(u, c, k)
    BY <2>4, <2>5 DEF Adds
  <2>7. InAll(c) = u[k]
    BY <2>1, <2>3, <2>6, InAllIs
  <2>8. QED
    BY <2>4, <2>7 DEF c
<1> HIDE DEF costs
<1>7. \A k \in 0 .. n : k \in fitting <=> k <= N /\ t[k] <= M
  BY <1>6
<1>8. m \in 0 .. n /\ m <= N /\ t[m] <= M /\ \A k \in 0 .. n : k <= N /\ t[k] <= M => k <= m
  <2>1. 0 \in fitting
    BY <1>5, <1>7
  <2>2. fitting \in SUBSET (0 .. n)
    OBVIOUS
  <2> HIDE DEF fitting
  <2>3. m \in fitting /\ \A k \in fitting : k <= m
    BY <2>1, <2>2, MinFromMax
  <2> HIDE DEF m
  <2>4. QED
    BY <1>7, <2>2, <2>3
<1>9. Total(m) = t[m] /\ t[m] \in Int
  <2> HIDE DEF Total, m
  <2>1. QED
    BY <1>5, <1>6, <1>8
<1> HIDE DEF m, fitting, Total
<1>10. /\ full \in Seq(Loads) /\ Len(full) = m
       /\ \A k \in 1 .. m : full[k] = [pointer |-> ranked[k], form |-> "full"]
  <2>1. m \in Nat /\ \A k \in 1 .. m : k \in 1 .. n
    BY <1>8
  <2>2. \A k \in 1 .. m : [pointer |-> ranked[k], form |-> "full"] \in Loads
    BY <1>3, <2>1 DEF Loads
  <2>3. QED
    BY <2>1, <2>2
<1>11. Total(m) = InAll(CostsOf(full))
  <2>1. \A k \in 1 .. m : Cost(full[k]) = fullTokens(ranked[k])
    BY <1>10 DEF Cost
  <2> HIDE DEF full
  <2>2. CostsOf(full) = [k \in 1 .. m |-> fullTokens(ranked[k])]
    BY <1>10, <2>1 DEF CostsOf
  <2>3. QED
    BY <2>2 DEF Total, costs
<1>12. ASSUME m < n, m < N
       PROVE  t[m] + fullTokens(ranked[m + 1]) > M
  <2>1. m + 1 \in 1 .. n /\ m + 1 \in 0 .. n /\ m + 1 <= N /\ ~(m + 1 <= m) /\ (m + 1) - 1 = m
    BY <1>8, <1>12
  <2>2. t[m + 1] = t[m] + fullTokens(ranked[m + 1])
    <3>1. t[m + 1] = t[(m + 1) - 1] + fullTokens(ranked[m + 1])
      BY <1>5, <2>1
    <3>2. QED
      BY <2>1, <3>1
  <2>3. ~(t[m + 1] <= M)
    BY <1>8, <2>1
  <2>4. t[m + 1] \in Int
    BY <1>5, <2>1
  <2>5. QED
    BY <2>2, <2>3, <2>4
<1>13. r.admitted = full /\ r.used = t[m]
  BY <1>2, <1>9
<1> HIDE DEF full
<1>14. r.used = InAll(CostsOf(r.admitted))
  BY <1>9, <1>11, <1>13
<1>15. /\ r.admitted \in Seq(Loads) /\ Len(r.admitted) = m
       /\ \A k \in 1 .. m : r.admitted[k] = [pointer |-> ranked[k], form |-> "full"]
       /\ r.used \in Int /\ r.used <= M
       /\ m < n /\ m < N => r.used + fullTokens(ranked[m + 1]) > M
  BY <1>8, <1>9, <1>10, <1>12, <1>13
<1>16. TopInFull(r, m, n, ranked, M, N)
  BY <1>8, <1>14, <1>15 DEF TopInFull
<1>17. QED
  BY <1>16

-----------------------------------------------------------------------------

\* The inductive invariant: a plan is what packEvidence makes of its inputs.
Planned ==
  plan # NoPlan =>
    \E n \in 0 .. MaxPointers : \E pointers \in [1 .. n -> EvidencePointers], budget \in Budgets :
      plan = [pointers |-> pointers, budget |-> budget, result |-> packEvidence(pointers, budget)]

\* What is admitted of the ranked, and what it costs.
Admits(r, n, ranked, M, N, h) ==
  /\ r.admitted \in Seq(Loads) /\ Len(r.admitted) <= N
  /\ r.used \in Int /\ r.used <= M /\ r.used = InAll(CostsOf(r.admitted))
  /\ Picks(h, r.admitted, ranked, n)

\* What is not picked was too much, or all is used up.
NoRoom(r, n, ranked, M, N, h) ==
  \A j \in 1 .. n : \/ \E i \in 1 .. Len(r.admitted) : h[i] = j
                    \/ Len(r.admitted) >= N \/ M - r.used <= 0
                    \/ ranked[j].summary > M - r.used

\* The first are picked, and one more would have been too much.
FirstOnes(r, n, ranked, M, N, h) ==
  /\ \A i \in 1 .. Len(r.admitted) : h[i] = i
  /\ Len(r.admitted) < n /\ Len(r.admitted) < N =>
       r.used + fullTokens(ranked[Len(r.admitted) + 1]) > M

LEMMA AdditiveAdmits ==
  ASSUME PackingAssumption, NEW n \in Nat, NEW ranked \in [1 .. n -> EvidencePointers],
         NEW M \in Nat, NEW N \in Nat, NEW r, r = packAdditive(ranked, M, N)
  PROVE  \E h : Admits(r, n, ranked, M, N, h) /\ NoRoom(r, n, ranked, M, N, h)
<1>1. r \in Packs /\ \E t, h : Packed(r, ranked, n, M, N, t, h)
  BY AdditivePacks
<1>2. PICK t, h : Packed(r, ranked, n, M, N, t, h)
  BY <1>1
<1> DEFINE l == Len(r.admitted)
           c == CostsOf(r.admitted)
<1>3. r.admitted \in Seq(Loads) /\ r.used \in Nat /\ l \in Nat
  BY <1>1 DEF Packs
<1>4. c \in [1 .. l -> Int]
  <2>1. \A i \in 1 .. l : r.admitted[i] \in Loads
    BY <1>3
  <2>2. \A i \in 1 .. l : Cost(r.admitted[i]) \in Int
    BY <2>1, CostTyped
  <2>3. QED
    BY <2>2 DEF CostsOf
<1>5. Adds(t, c, l) /\ t[l] = r.used
  BY <1>2 DEF Packed
<1> HIDE DEF c, l
<1>6. InAll(c) = r.used
  BY <1>3, <1>4, <1>5, InAllIs
<1>7. Admits(r, n, ranked, M, N, h)
  BY <1>2, <1>3, <1>6 DEF Admits, Packed, c
<1>8. NoRoom(r, n, ranked, M, N, h)
  BY <1>2 DEF Packed, NoRoom
<1>9. QED
  BY <1>7, <1>8

LEMMA SubtractiveAdmits ==
  ASSUME PackingAssumption, NEW n \in Nat, NEW ranked \in [1 .. n -> EvidencePointers],
         NEW M \in Nat, NEW N \in Nat, NEW r, r = packSubtractive(ranked, M, N)
  PROVE  \E h : Admits(r, n, ranked, M, N, h) /\ FirstOnes(r, n, ranked, M, N, h)
<1>1. PICK m : TopInFull(r, m, n, ranked, M, N)
  BY SubtractivePacks
<1>2. /\ m \in 0 .. n /\ r.admitted \in Seq(Loads) /\ Len(r.admitted) = m /\ m <= N
      /\ \A k \in 1 .. m : r.admitted[k] = [pointer |-> ranked[k], form |-> "full"]
      /\ r.used \in Int /\ r.used <= M /\ r.used = InAll(CostsOf(r.admitted))
      /\ m < n /\ m < N => r.used + fullTokens(ranked[m + 1]) > M
  BY <1>1 DEF TopInFull
<1> DEFINE h == [i \in 1 .. m |-> i]
<1>3. h \in [1 .. m -> 1 .. n] /\ \A i \in 1 .. m : h[i] = i
  BY <1>2
<1> HIDE DEF h
<1>4. Picks(h, r.admitted, ranked, n)
  <2>1. \A i, j \in 1 .. m : i < j => h[i] < h[j]
    BY <1>3
  <2>2. ASSUME NEW i \in 1 .. m PROVE r.admitted[i].pointer = ranked[h[i]]
    <3>1. r.admitted[i] = [pointer |-> ranked[i], form |-> "full"] /\ h[i] = i
      BY <1>2, <1>3
    <3>2. QED
      BY <3>1
  <2>3. QED
    BY <1>2, <1>3, <2>1, <2>2 DEF Picks
<1>5. Admits(r, n, ranked, M, N, h)
  BY <1>2, <1>4 DEF Admits
<1>6. FirstOnes(r, n, ranked, M, N, h)
  BY <1>2, <1>3 DEF FirstOnes
<1>7. QED
  BY <1>5, <1>6

LEMMA PlanKeepsBudget == ASSUME PackingAssumption, Planned PROVE PackKeepsBudget
<1>1. SUFFICES ASSUME plan # NoPlan PROVE PackKeepsBudget
  BY DEF PackKeepsBudget
<1>2. PICK n \in 0 .. MaxPointers :
        \E pointers \in [1 .. n -> EvidencePointers], budget \in Budgets :
          plan = [pointers |-> pointers, budget |-> budget, result |-> packEvidence(pointers, budget)]
  BY <1>1 DEF Planned
<1>3. PICK pointers \in [1 .. n -> EvidencePointers], budget \in Budgets :
        plan = [pointers |-> pointers, budget |-> budget, result |-> packEvidence(pointers, budget)]
  BY <1>2
<1> DEFINE M == Plus(0, budget.maxTokens)
           N == Plus(0, budget.maxSources)
           ranked == rankByValue(pointers)
           r == packEvidence(pointers, budget)
           l == Len(r.admitted)
<1>4. plan.pointers = pointers /\ plan.budget = budget /\ plan.result = r /\ Admitted = r.admitted
  BY <1>3 DEF Admitted
<1>5. n \in Nat
  BY DEF PackingAssumption
<1>6. M \in Nat /\ N \in Nat /\ budget.maxSources \in Int /\ budget.maxSources <= N
  BY DEF PackingAssumption, Plus
<1>7. r = IF budget.mode = "subtractive" THEN packSubtractive(ranked, M, N)
          ELSE packAdditive(ranked, M, N)
  BY DEF packEvidence
<1> HIDE DEF M, N, r
<1>8. PICK o : OrderOf(o, n, pointers, ranked)
  BY <1>5, RankedByValue
<1> HIDE DEF ranked
<1>9. ranked \in [1 .. n -> EvidencePointers]
  BY <1>8 DEF OrderOf
<1>10. PICK h :
        /\ Admits(r, n, ranked, M, N, h)
        /\ budget.mode = "subtractive" => FirstOnes(r, n, ranked, M, N, h)
        /\ budget.mode # "subtractive" => NoRoom(r, n, ranked, M, N, h)
  <2>1. CASE budget.mode = "subtractive"
    <3>1. r = packSubtractive(ranked, M, N)
      BY <1>7, <2>1
    <3>2. \E h : Admits(r, n, ranked, M, N, h) /\ FirstOnes(r, n, ranked, M, N, h)
      BY <1>5, <1>6, <1>9, <3>1, SubtractiveAdmits
    <3>3. QED
      BY <2>1, <3>2
  <2>2. CASE budget.mode # "subtractive"
    <3>1. r = packAdditive(ranked, M, N)
      BY <1>7, <2>2
    <3>2. \E h : Admits(r, n, ranked, M, N, h) /\ NoRoom(r, n, ranked, M, N, h)
      BY <1>5, <1>6, <1>9, <3>1, AdditiveAdmits
    <3>3. QED
      BY <2>2, <3>2
  <2>3. QED
    BY <2>1, <2>2
<1>11. /\ r.admitted \in Seq(Loads) /\ l \in Nat /\ DOMAIN r.admitted = 1 .. l /\ l <= N
       /\ r.used \in Int /\ r.used <= M /\ r.used = InAll(CostsOf(r.admitted))
       /\ Picks(h, r.admitted, ranked, n)
  BY <1>10 DEF Admits
<1> HIDE DEF l
<1>12. /\ h \in [1 .. l -> 1 .. n]
       /\ \A i, j \in 1 .. l : i < j => h[i] < h[j]
       /\ \A i \in 1 .. l : r.admitted[i].pointer = ranked[h[i]]
  BY <1>11 DEF Picks, l
<1>13. Loaded = [k \in DOMAIN r.admitted |-> r.admitted[k].pointer]
  BY <1>4 DEF Loaded
<1>14. \A i \in 1 .. l : Loaded[i] = ranked[h[i]]
  <2>1. \A i \in 1 .. l : i \in DOMAIN r.admitted
    BY <1>11
  <2>2. QED
    BY <1>12, <1>13, <2>1
<1>15. \A p : /\ TimesIn(Loaded, p) <= TimesIn(pointers, p)
              /\ TimesIn(Loaded, p) < TimesIn(pointers, p) <=> NotPicked(p, n, ranked, l, h)
  <2>1. Loaded = PointersOf(r.admitted)
    BY <1>13 DEF PointersOf
  <2>2. r.admitted \in Seq(Loads) /\ Picks(h, r.admitted, ranked, n)
    BY <1>11
  <2>3. QED
    BY <1>5, <1>8, <2>1, <2>2, PickedTimes DEF l
<1>16. /\ \A j \in 1 .. n : ranked[j] \in EvidencePointers
       /\ \A j, k \in 1 .. n : j < k => Value(pointers, ranked[j]) >= Value(pointers, ranked[k])
  BY <1>8, <1>9 DEF OrderOf
<1>17. \A k \in 1 .. l - 1 : Value(pointers, Loaded[k]) >= Value(pointers, Loaded[k + 1])
  <2>1. ASSUME NEW k \in 1 .. l - 1
        PROVE  Value(pointers, Loaded[k]) >= Value(pointers, Loaded[k + 1])
    <3>1. k \in 1 .. l /\ k + 1 \in 1 .. l /\ k < k + 1
      BY <1>11
    <3>2. h[k] \in 1 .. n /\ h[k + 1] \in 1 .. n /\ h[k] < h[k + 1]
      BY <1>12, <3>1
    <3>3. QED
      BY <1>14, <1>16, <3>1, <3>2
  <2>2. QED
    BY <2>1
<1>18. Spent = r.used
  <2>1. CostsOf(r.admitted) = [k \in DOMAIN r.admitted |-> Cost(r.admitted[k])]
    BY <1>11 DEF CostsOf, l
  <2>2. QED
    BY <1>4, <1>11, <2>1 DEF Spent
<1>19. Left = M - r.used /\ Left >= 0
  <2>1. Left = M - r.used
    BY <1>4, <1>18 DEF Left, M
  <2>2. QED
    BY <1>6, <1>11, <2>1
\* What is dropped is among the ranked, at a place that was not picked.
<1>20. \A p \in EvidencePointers : p \in Dropped <=>
         \E j \in 1 .. n : ranked[j] = p /\ \A i \in 1 .. l : h[i] # j
  BY <1>4, <1>15 DEF Dropped, NotPicked
<1>21. ASSUME Dropped # {}, l < budget.maxSources, budget.mode = "subtractive"
       PROVE  \E p \in Dropped :
                /\ fullTokens(p) > Left
                /\ \A q \in Dropped : Value(pointers, q) <= Value(pointers, p)
  <2>1. /\ \A i \in 1 .. l : h[i] = i
        /\ l < n /\ l < N => r.used + fullTokens(ranked[l + 1]) > M
    BY <1>10, <1>21 DEF l, FirstOnes
  <2>2. Dropped \subseteq EvidencePointers
    BY DEF Dropped
  <2>3. ASSUME NEW q \in Dropped
        PROVE  \E j \in 1 .. n : ranked[j] = q /\ j > l
    <3>1. PICK j \in 1 .. n : ranked[j] = q /\ \A i \in 1 .. l : h[i] # j
      BY <1>20, <2>2
    <3>2. j \notin 1 .. l
      BY <2>1, <3>1
    <3>3. QED
      BY <1>11, <3>1, <3>2
  <2>4. l < n /\ l + 1 \in 1 .. n
    <3>1. PICK q \in Dropped : TRUE
      BY <1>21
    <3>2. PICK j \in 1 .. n : j > l
      BY <2>3
    <3>3. QED
      BY <1>5, <1>11, <3>2
  <2> DEFINE p == ranked[l + 1]
  <2>5. p \in Dropped
    <3>1. \A i \in 1 .. l : h[i] # l + 1
      BY <1>11, <2>1
    <3>2. QED
      BY <1>16, <1>20, <2>4, <3>1
  <2>6. fullTokens(p) > Left
    <3>1. l < N
      BY <1>6, <1>11, <1>21
    <3>2. p \in EvidencePointers
      BY <1>16, <2>4
    <3>3. fullTokens(p) \in Nat
      BY <3>2, CostsArePositive
    <3>4. r.used + fullTokens(p) > M
      BY <2>1, <2>4, <3>1
    <3> HIDE DEF p
    <3>5. QED
      BY <1>6, <1>11, <1>19, <3>3, <3>4
  <2>7. ASSUME NEW q \in Dropped PROVE Value(pointers, q) <= Value(pointers, p)
    <3>1. PICK j \in 1 .. n : ranked[j] = q /\ j > l
      BY <2>3
    <3>2. Value(pointers, ranked[j]) \in Int /\ Value(pointers, p) \in Int
      <4>1. \A k \in 1 .. n : Value(pointers, ranked[k]) \in Int
        <5>1. \A k \in 1 .. n : o[k] \in 1 .. n /\ ranked[k] = pointers[o[k]]
          BY <1>8 DEF OrderOf
        <5>2. QED
          BY <1>5, <5>1, ValueTyped
      <4>2. QED
        BY <2>4, <4>1
    <3>3. CASE j = l + 1
      BY <3>1, <3>2, <3>3
    <3>4. CASE j # l + 1
      <4>1. l + 1 < j
        BY <1>11, <3>1, <3>4
      <4>2. Value(pointers, p) >= Value(pointers, ranked[j])
        BY <1>16, <2>4, <4>1
      <4> HIDE DEF p
      <4>3. QED
        BY <3>1, <3>2, <4>2
    <3>5. QED
      BY <3>3, <3>4
  <2> HIDE DEF p
  <2>8. QED
    BY <2>5, <2>6, <2>7
<1>22. ASSUME Dropped # {}, l < budget.maxSources, budget.mode # "subtractive"
       PROVE  Left = 0 \/ \A p \in Dropped : p.summary > Left
  <2>1. \A j \in 1 .. n : \/ \E i \in 1 .. l : h[i] = j
                          \/ l >= N \/ M - r.used <= 0
                          \/ ranked[j].summary > M - r.used
    BY <1>10, <1>22 DEF l, NoRoom
  <2>2. ~(l >= N)
    BY <1>6, <1>11, <1>22
  <2>3. CASE M - r.used <= 0
    BY <1>6, <1>11, <1>19, <2>3
  <2>4. CASE ~(M - r.used <= 0)
    <3>1. ASSUME NEW p \in Dropped PROVE p.summary > Left
      <4>1. p \in EvidencePointers
        BY DEF Dropped
      <4>2. PICK j \in 1 .. n : ranked[j] = p /\ \A i \in 1 .. l : h[i] # j
        BY <1>20, <4>1
      <4>3. QED
        BY <1>19, <2>1, <2>2, <2>4, <4>2
    <3>2. QED
      BY <3>1
  <2>5. QED
    BY <2>3, <2>4
<1>23. /\ \A p \in EvidencePointers : TimesIn(Loaded, p) <= TimesIn(plan.pointers, p)
       /\ \A k \in 1 .. Len(Admitted) - 1 :
            Value(plan.pointers, Loaded[k]) >= Value(plan.pointers, Loaded[k + 1])
       /\ plan.result.used = Spent /\ Left >= 0
       /\ Len(Admitted) <= Plus(0, plan.budget.maxSources)
  BY <1>4, <1>11, <1>15, <1>17, <1>18, <1>19 DEF l, N
<1>24. Dropped # {} /\ Len(Admitted) < plan.budget.maxSources =>
         IF plan.budget.mode = "subtractive"
         THEN \E p \in Dropped :
                /\ fullTokens(p) > Left
                /\ \A q \in Dropped : Value(plan.pointers, q) <= Value(plan.pointers, p)
         ELSE Left = 0 \/ \A p \in Dropped : p.summary > Left
  BY <1>4, <1>21, <1>22 DEF l
<1>25. QED
  BY <1>23, <1>24 DEF PackKeepsBudget

(***************************************************************************)
(* The evidence that is loaded keeps to its budget, and what is dropped    *)
(* did not fit, for any pointers and any budget.                           *)
(***************************************************************************)
THEOREM PackKeepsBudgetHolds == PackingSpec => []PackKeepsBudget
<1>1. PackingInit => Planned
  BY DEF PackingInit, Planned
<1>2. Planned /\ [PackEvidence]_plan => Planned'
  <2>1. ASSUME Planned, PackEvidence PROVE Planned'
    BY <2>1 DEF PackEvidence, Planned
  <2>2. ASSUME Planned, UNCHANGED plan PROVE Planned'
    BY <2>2 DEF Planned
  <2>3. QED
    BY <2>1, <2>2
<1>3. Planned => PackKeepsBudget
  BY PlanKeepsBudget, PackingAssumption
<1>4. QED
  BY <1>1, <1>2, <1>3, PTL DEF PackingSpec

-----------------------------------------------------------------------------
(* What the state is like, whatever happens.                               *)

\* A sum of what is not negative is not.
LEMMA InAllIsNatural ==
  ASSUME NEW n \in Nat, NEW costs \in [1 .. n -> Nat]
  PROVE  InAll(costs) \in Nat
<1>1. costs \in [1 .. n -> Int]
  OBVIOUS
<1>2. PICK t : Adds(t, costs, n) /\ t[n] = InAll(costs)
  BY <1>1, InAllAdds
<1> DEFINE G == { k \in 0 .. n : t[k] \in Nat }
<1>3. 0 \in G
  BY <1>2 DEF Adds
<1>4. \A k \in 1 .. n : k - 1 \in G => k \in G
  <2>1. ASSUME NEW k \in 1 .. n, t[k - 1] \in Nat PROVE t[k] \in Nat
    <3>1. t[k] = t[k - 1] + costs[k] /\ costs[k] \in Nat
      BY <1>2 DEF Adds
    <3>2. QED
      BY <2>1, <3>1
  <2>2. QED
    BY <2>1
<1> HIDE DEF G
<1>5. \A k \in 0 .. n : k \in G
  BY <1>3, <1>4, CountUp
<1>6. QED
  BY <1>2, <1>5 DEF G

LEMMA PackTyped ==
  ASSUME PackingAssumption, NEW n \in Nat, NEW pointers \in [1 .. n -> EvidencePointers],
         NEW budget \in Budgets
  PROVE  packEvidence(pointers, budget).admitted \in Seq(Loads) /\ packEvidence(pointers, budget).used \in Nat
<1> DEFINE M == Plus(0, budget.maxTokens)
           N == Plus(0, budget.maxSources)
           ranked == rankByValue(pointers)
           r == packEvidence(pointers, budget)
<1>1. M \in Nat /\ N \in Nat
  BY DEF PackingAssumption, Plus
<1>2. r = IF budget.mode = "subtractive" THEN packSubtractive(ranked, M, N)
          ELSE packAdditive(ranked, M, N)
  BY DEF packEvidence
<1> HIDE DEF M, N, r
<1>3. PICK o : OrderOf(o, n, pointers, ranked)
  BY RankedByValue
<1> HIDE DEF ranked
<1>4. ranked \in [1 .. n -> EvidencePointers]
  BY <1>3 DEF OrderOf
<1>5. \E h : Admits(r, n, ranked, M, N, h)
  <2>1. CASE budget.mode = "subtractive"
    <3>1. r = packSubtractive(ranked, M, N)
      BY <1>2, <2>1
    <3>2. QED
      BY <1>1, <1>4, <3>1, SubtractiveAdmits
  <2>2. CASE budget.mode # "subtractive"
    <3>1. r = packAdditive(ranked, M, N)
      BY <1>2, <2>2
    <3>2. QED
      BY <1>1, <1>4, <3>1, AdditiveAdmits
  <2>3. QED
    BY <2>1, <2>2
<1>6. r.admitted \in Seq(Loads) /\ r.used = InAll(CostsOf(r.admitted))
  BY <1>5 DEF Admits
<1> DEFINE l == Len(r.admitted)
<1>7. l \in Nat /\ CostsOf(r.admitted) \in [1 .. l -> Nat]
  <2>1. l \in Nat /\ \A i \in 1 .. l : r.admitted[i] \in Loads
    BY <1>6
  <2>2. \A i \in 1 .. l : Cost(r.admitted[i]) \in Nat
    BY <2>1, CostTyped
  <2>3. QED
    BY <2>1, <2>2 DEF CostsOf
<1>8. r.used \in Nat
  BY <1>6, <1>7, InAllIsNatural
<1>9. QED
  BY <1>6, <1>8 DEF r

LEMMA PackingTypes == PackingSpec => []PackingTypeOK
<1>1. PackingInit => Planned
  BY DEF PackingInit, Planned
<1>2. ASSUME Planned, [PackEvidence]_plan PROVE Planned'
  <2>1. CASE PackEvidence
    BY <2>1 DEF PackEvidence, Planned
  <2>2. CASE UNCHANGED plan
    BY <1>2, <2>2 DEF Planned
  <2>3. QED
    BY <1>2, <2>1, <2>2
<1>3. ASSUME Planned, plan # NoPlan PROVE PackingTypeOK
  <2>1. PICK n \in 0 .. MaxPointers :
          \E pointers \in [1 .. n -> EvidencePointers], budget \in Budgets :
            plan = [pointers |-> pointers, budget |-> budget, result |-> packEvidence(pointers, budget)]
    BY <1>3 DEF Planned
  <2>2. PICK pointers \in [1 .. n -> EvidencePointers], budget \in Budgets :
          plan = [pointers |-> pointers, budget |-> budget, result |-> packEvidence(pointers, budget)]
    BY <2>1
  <2> DEFINE r == packEvidence(pointers, budget)
  <2>3. n \in Nat
    BY PackingAssumption DEF PackingAssumption
  <2>4. r.admitted \in Seq(Loads) /\ r.used \in Nat
    BY <2>3, PackTyped, PackingAssumption
  <2> HIDE DEF r
  <2>5. plan.result = r /\ plan.budget \in Budgets
    BY <2>2 DEF r
  <2>6. \A k \in DOMAIN r.admitted : r.admitted[k] \in Loads
    BY <2>4
  <2>7. QED
    BY <2>4, <2>5, <2>6 DEF PackingTypeOK, Loads
<1>4. Planned => PackingTypeOK
  BY <1>3 DEF PackingTypeOK
<1>5. QED
  BY <1>1, <1>2, <1>4, PTL DEF PackingSpec

-----------------------------------------------------------------------------
(***************************************************************************)
(* The returns: what the matcher finds is what a match is, and so a worker *)
(* answers for its own files.                                              *)
(***************************************************************************)

\* The end of a cut, from its place i on: a wild segment covers any stretch, and
\* another the one place it fits.
EndsFrom(i, n, m, wild, fit) ==
  { cut \in [i .. n -> 0 .. m] :
      /\ cut[n] = m
      /\ \A l \in i + 1 .. n :
           /\ cut[l - 1] <= cut[l]
           /\ l \notin wild => cut[l] = cut[l - 1] + 1 /\ <<l, cut[l]>> \in fit }

EndAt(i, j, n, m, wild, fit) == \E cut \in EndsFrom(i, n, m, wild, fit) : cut[i] = j

LEMMA EndOfCut ==
  ASSUME NEW n \in Nat, NEW m \in Nat, NEW wild, NEW fit, NEW i \in 0 .. n, i < n, NEW j \in 0 .. m
  PROVE  EndAt(i, j, n, m, wild, fit) <=>
           \E k \in j .. m :
             /\ i + 1 \notin wild => k = j + 1 /\ <<i + 1, k>> \in fit
             /\ EndAt(i + 1, k, n, m, wild, fit)
<1>1. ASSUME NEW cut \in EndsFrom(i, n, m, wild, fit), cut[i] = j
      PROVE  \E k \in j .. m :
               /\ i + 1 \notin wild => k = j + 1 /\ <<i + 1, k>> \in fit
               /\ \E end \in EndsFrom(i + 1, n, m, wild, fit) : end[i + 1] = k
  <2> DEFINE end == [l \in i + 1 .. n |-> cut[l]]
  <2>1. cut \in [i .. n -> 0 .. m] /\ cut[n] = m
    BY DEF EndsFrom
  <2>2. \A l \in i + 1 .. n :
           /\ cut[l - 1] <= cut[l]
           /\ l \notin wild => cut[l] = cut[l - 1] + 1 /\ <<l, cut[l]>> \in fit
    BY DEF EndsFrom
  <2>3. i + 1 \in i + 1 .. n /\ (i + 1) - 1 = i /\ i + 1 \in i .. n /\ n \in i + 1 .. n
    OBVIOUS
  <2>4. cut[i + 1] \in j .. m
    <3>1. cut[i] <= cut[i + 1] /\ cut[i + 1] \in 0 .. m
      BY <2>1, <2>2, <2>3
    <3>2. QED
      BY <1>1, <3>1
  <2>5. i + 1 \notin wild => cut[i + 1] = j + 1 /\ <<i + 1, cut[i + 1]>> \in fit
    BY <1>1, <2>2, <2>3
  <2>6. end \in [i + 1 .. n -> 0 .. m] /\ end[n] = m /\ end[i + 1] = cut[i + 1]
    <3>1. \A l \in i + 1 .. n : l \in i .. n
      OBVIOUS
    <3>2. QED
      BY <2>1, <2>3, <3>1
  <2>7. ASSUME NEW l \in (i + 1) + 1 .. n
        PROVE  /\ end[l - 1] <= end[l]
               /\ l \notin wild => end[l] = end[l - 1] + 1 /\ <<l, end[l]>> \in fit
    <3>1. l \in i + 1 .. n /\ l - 1 \in i + 1 .. n
      OBVIOUS
    <3>2. QED
      BY <2>2, <3>1
  <2> HIDE DEF end
  <2>8. end \in EndsFrom(i + 1, n, m, wild, fit)
    BY <2>6, <2>7 DEF EndsFrom
  <2>9. QED
    BY <2>4, <2>5, <2>6, <2>8
<1>2. ASSUME NEW k \in j .. m,
             i + 1 \notin wild => k = j + 1 /\ <<i + 1, k>> \in fit,
             NEW end \in EndsFrom(i + 1, n, m, wild, fit), end[i + 1] = k
      PROVE  \E cut \in EndsFrom(i, n, m, wild, fit) : cut[i] = j
  <2> DEFINE cut == [l \in i .. n |-> IF l = i THEN j ELSE end[l]]
  <2>1. end \in [i + 1 .. n -> 0 .. m] /\ end[n] = m
    BY DEF EndsFrom
  <2>2. \A l \in (i + 1) + 1 .. n :
           /\ end[l - 1] <= end[l]
           /\ l \notin wild => end[l] = end[l - 1] + 1 /\ <<l, end[l]>> \in fit
    BY DEF EndsFrom
  <2>3. cut[i] = j /\ \A l \in i + 1 .. n : cut[l] = end[l]
    <3>1. i \in i .. n /\ \A l \in i + 1 .. n : l \in i .. n /\ l # i
      OBVIOUS
    <3>2. QED
      BY <3>1
  <2>4. cut \in [i .. n -> 0 .. m]
    <3>1. \A l \in i .. n : l # i => l \in i + 1 .. n
      OBVIOUS
    <3>2. QED
      BY <2>1, <3>1
  <2> HIDE DEF cut
  <2>5. cut[n] = m
    BY <2>1, <2>3
  <2>6. ASSUME NEW l \in i + 1 .. n
        PROVE  /\ cut[l - 1] <= cut[l]
               /\ l \notin wild => cut[l] = cut[l - 1] + 1 /\ <<l, cut[l]>> \in fit
    <3>1. CASE l = i + 1
      <4>1. l - 1 = i /\ cut[l] = k
        BY <1>2, <2>3, <3>1
      <4>2. QED
        BY <1>2, <2>3, <3>1, <4>1
    <3>2. CASE l # i + 1
      <4>1. l \in (i + 1) + 1 .. n /\ l - 1 \in i + 1 .. n
        BY <3>2
      <4>2. QED
        BY <2>2, <2>3, <4>1
    <3>3. QED
      BY <3>1, <3>2
  <2>7. cut \in EndsFrom(i, n, m, wild, fit)
    BY <2>4, <2>5, <2>6 DEF EndsFrom
  <2>8. QED
    BY <2>3, <2>7
<1>3. QED
  BY <1>1, <1>2 DEF EndAt

LEMMA LastOfCut ==
  ASSUME NEW n \in Nat, NEW m \in Nat, NEW wild, NEW fit, NEW j \in 0 .. m
  PROVE  EndAt(n, j, n, m, wild, fit) <=> j = m
<1>1. ASSUME NEW cut \in EndsFrom(n, n, m, wild, fit), cut[n] = j
      PROVE  j = m
  BY <1>1 DEF EndsFrom
<1>2. ASSUME j = m
      PROVE  \E cut \in EndsFrom(n, n, m, wild, fit) : cut[n] = j
  <2> DEFINE cut == [l \in n .. n |-> m]
  <2>1. cut \in [n .. n -> 0 .. m] /\ cut[n] = m
    BY n \in n .. n
  <2> HIDE DEF cut
  <2>2. n + 1 .. n = {}
    OBVIOUS
  <2>3. cut \in EndsFrom(n, n, m, wild, fit)
    BY <2>1, <2>2 DEF EndsFrom
  <2>4. QED
    BY <1>2, <2>1, <2>3
<1>3. QED
  BY <1>1, <1>2 DEF EndAt

\* The worklist's equation, which matchSegment and matchGlob solve.
Solves(places, n, m, wild, fit) ==
  places = [i \in 0 .. n |->
    IF i = n THEN {m}
    ELSE IF i + 1 \in wild
         THEN { j \in 0 .. m : \E k \in j .. m : k \in places[i + 1] }
         ELSE { j \in 0 .. m - 1 : <<i + 1, j + 1>> \in fit /\ j + 1 \in places[i + 1] }]

PlacesOfEnds(n, m, wild, fit) ==
  [i \in 0 .. n |-> { j \in 0 .. m : EndAt(i, j, n, m, wild, fit) }]

LEMMA EndsSolve ==
  ASSUME NEW n \in Nat, NEW m \in Nat, NEW wild, NEW fit
  PROVE  Solves(PlacesOfEnds(n, m, wild, fit), n, m, wild, fit)
<1> DEFINE places == PlacesOfEnds(n, m, wild, fit)
<1>1. ASSUME NEW i \in 0 .. n, NEW j
      PROVE  j \in places[i] <=> j \in 0 .. m /\ EndAt(i, j, n, m, wild, fit)
  BY DEF PlacesOfEnds
<1>2. places = [i \in 0 .. n |-> places[i]]
  BY DEF PlacesOfEnds
<1> HIDE DEF places
<1>3. places[n] = {m}
  <2>1. \A j : j \in places[n] <=> j \in 0 .. m /\ j = m
    BY <1>1, LastOfCut, n \in 0 .. n
  <2>2. QED
    BY <2>1
<1>4. ASSUME NEW i \in 0 .. n, i # n, i + 1 \in wild
      PROVE  places[i] = { j \in 0 .. m : \E k \in j .. m : k \in places[i + 1] }
  <2>1. ASSUME NEW j \in 0 .. m
        PROVE  j \in places[i] <=> \E k \in j .. m : k \in places[i + 1]
    <3>1. i < n /\ i + 1 \in 0 .. n
      BY <1>4
    <3>2. \A k \in j .. m : k \in 0 .. m
      OBVIOUS
    <3>3. j \in places[i] <=> \E k \in j .. m : EndAt(i + 1, k, n, m, wild, fit)
      BY <1>1, <1>4, <3>1, EndOfCut
    <3>4. \A k \in j .. m :
            k \in places[i + 1] <=> EndAt(i + 1, k, n, m, wild, fit)
      BY <1>1, <3>1, <3>2
    <3>5. QED
      BY <3>3, <3>4
  <2>2. places[i] \subseteq 0 .. m
    BY <1>1
  <2>3. QED
    BY <2>1, <2>2
<1>5. ASSUME NEW i \in 0 .. n, i # n, i + 1 \notin wild
      PROVE  places[i] = { j \in 0 .. m - 1 : <<i + 1, j + 1>> \in fit /\ j + 1 \in places[i + 1] }
  <2>1. ASSUME NEW j \in 0 .. m
        PROVE  j \in places[i] <=>
                 j \in 0 .. m - 1 /\ <<i + 1, j + 1>> \in fit /\ j + 1 \in places[i + 1]
    <3>1. i < n /\ i + 1 \in 0 .. n
      BY <1>5
    <3>2. j + 1 \in j .. m <=> j \in 0 .. m - 1
      OBVIOUS
    <3>3. j + 1 \in 0 .. m <=> j \in 0 .. m - 1
      OBVIOUS
    <3>4. j \in places[i] <=>
            \E k \in j .. m :
              /\ k = j + 1 /\ <<i + 1, k>> \in fit
              /\ EndAt(i + 1, k, n, m, wild, fit)
      BY <1>1, <1>5, <3>1, EndOfCut
    <3>5. j \in places[i] <=>
            /\ j + 1 \in j .. m /\ <<i + 1, j + 1>> \in fit
            /\ EndAt(i + 1, j + 1, n, m, wild, fit)
      BY <3>4
    <3>6. QED
      BY <1>1, <3>1, <3>2, <3>3, <3>5
  <2>2. places[i] \subseteq 0 .. m
    BY <1>1
  <2>3. \A j \in 0 .. m - 1 : j \in 0 .. m
    OBVIOUS
  <2>4. QED
    BY <2>1, <2>2, <2>3
<1>6. \A i \in 0 .. n : places[i] =
        IF i = n THEN {m}
        ELSE IF i + 1 \in wild
             THEN { j \in 0 .. m : \E k \in j .. m : k \in places[i + 1] }
             ELSE { j \in 0 .. m - 1 : <<i + 1, j + 1>> \in fit /\ j + 1 \in places[i + 1] }
  BY <1>3, <1>4, <1>5
<1>7. Solves(places, n, m, wild, fit)
  BY <1>2, <1>6 DEF Solves
<1>8. QED
  BY <1>7 DEF places

LEMMA OneSolves ==
  ASSUME NEW n \in Nat, NEW m \in Nat, NEW wild, NEW fit,
         NEW f, Solves(f, n, m, wild, fit), NEW g, Solves(g, n, m, wild, fit)
  PROVE  f = g
<1> DEFINE T == { d \in 0 .. n : f[n - d] # g[n - d] }
<1>1. T = {}
  <2>1. SUFFICES ASSUME T # {} PROVE FALSE
    OBVIOUS
  <2>2. PICK d \in T : \A e \in T : d <= e
    <3>1. T \in SUBSET Nat
      OBVIOUS
    <3> HIDE DEF T
    <3>2. QED
      BY <2>1, <3>1, LeastNatural
  <2>3. d # 0
    BY DEF Solves
  <2>4. d - 1 \in 0 .. n /\ d - 1 \notin T
    BY <2>2, <2>3
  <2>5. f[(n - d) + 1] = g[(n - d) + 1]
    BY <2>4
  <2>6. n - d \in 0 .. n
    OBVIOUS
  <2>7. f[n - d] = g[n - d]
    <3>1. \A i \in 0 .. n : f[i + 1] = g[i + 1] => f[i] = g[i]
      <4>1. ASSUME NEW i \in 0 .. n, f[i + 1] = g[i + 1]
            PROVE  f[i] = g[i]
        <5>1. f[i] = IF i = n THEN {m}
                ELSE IF i + 1 \in wild
                     THEN { j \in 0 .. m : \E k \in j .. m : k \in f[i + 1] }
                     ELSE { j \in 0 .. m - 1 : <<i + 1, j + 1>> \in fit /\ j + 1 \in f[i + 1] }
          BY Zenon DEF Solves
        <5>2. g[i] = IF i = n THEN {m}
                ELSE IF i + 1 \in wild
                     THEN { j \in 0 .. m : \E k \in j .. m : k \in g[i + 1] }
                     ELSE { j \in 0 .. m - 1 : <<i + 1, j + 1>> \in fit /\ j + 1 \in g[i + 1] }
          BY Zenon DEF Solves
        <5>3. QED
          BY <4>1, <5>1, <5>2, Zenon
      <4>2. QED
        BY <4>1
    <3>2. QED
      BY <2>5, <2>6, <3>1
  <2>8. QED
    BY <2>7
<1>2. \A i \in 0 .. n : f[i] = g[i]
  <2>1. ASSUME NEW i \in 0 .. n PROVE f[i] = g[i]
    <3>1. n - i \in 0 .. n /\ n - (n - i) = i
      OBVIOUS
    <3>2. n - i \notin T
      BY <1>1
    <3>3. QED
      BY <3>1, <3>2
  <2>2. QED
    BY <2>1
<1>3. f = [i \in 0 .. n |-> f[i]] /\ g = [i \in 0 .. n |-> g[i]]
  BY DEF Solves
<1>4. QED
  BY <1>2, <1>3

LEMMA SolutionFindsCuts ==
  ASSUME NEW n \in Nat, NEW m \in Nat, NEW wild, NEW fit,
         NEW f, Solves(f, n, m, wild, fit)
  PROVE  0 \in f[0] <=>
           \E cut \in Cuts(n, m) : \A i \in 1 .. n :
             i \notin wild => cut[i] = cut[i - 1] + 1 /\ <<i, cut[i]>> \in fit
<1>1. f = PlacesOfEnds(n, m, wild, fit)
  BY EndsSolve, OneSolves
<1>2. 0 \in f[0] <=> \E cut \in EndsFrom(0, n, m, wild, fit) : cut[0] = 0
  BY <1>1, 0 \in 0 .. n, 0 \in 0 .. m DEF PlacesOfEnds, EndAt
<1>3. \A cut : (cut \in EndsFrom(0, n, m, wild, fit) /\ cut[0] = 0) <=>
        /\ cut \in Cuts(n, m)
        /\ \A i \in 1 .. n :
             i \notin wild => cut[i] = cut[i - 1] + 1 /\ <<i, cut[i]>> \in fit
  <2>1. 0 + 1 = 1
    OBVIOUS
  <2>2. QED
    BY <2>1 DEF EndsFrom, Cuts
<1>4. QED
  BY <1>2, <1>3

\* A segment is matched just if its characters can be cut into stretches that the
\* pattern's own cover (matchSegment, lib/gate-guard-core.mjs).
THEOREM MatchSegmentCovers ==
  ASSUME NEW pattern, NEW segment, Len(pattern) \in Nat, Len(segment) \in Nat
  PROVE  matchSegment(pattern, segment) <=> SegmentCovered(pattern, segment)
<1> DEFINE n == Len(pattern)
           m == Len(segment)
           wild == { i \in 1 .. n : pattern[i] = Star }
           fit == { p \in (1 .. n) \X (1 .. m) : pattern[p[1]] \in {One, segment[p[2]]} }
           Equation(accepts) == accepts =
             [i \in 0 .. n |->
               IF i = n THEN {m}
               ELSE IF pattern[i + 1] = Star
                    THEN { j \in 0 .. m : \E k \in j .. m : k \in accepts[i + 1] }
                    ELSE { j \in 0 .. m - 1 : /\ pattern[i + 1] \in {One, segment[j + 1]}
                                              /\ j + 1 \in accepts[i + 1] }]
           f == CHOOSE accepts : Equation(accepts)
<1>1. matchSegment(pattern, segment) <=> 0 \in f[0]
  BY DEF matchSegment
<1>2. n \in Nat /\ m \in Nat
  OBVIOUS
<1>3. \A i \in 1 .. n : i \in wild <=> pattern[i] = Star
  OBVIOUS
<1>4. \A i \in 1 .. n : \A k \in 1 .. m : <<i, k>> \in fit <=> pattern[i] \in {One, segment[k]}
  OBVIOUS
<1>5. SegmentCovered(pattern, segment) <=>
        \E cut \in Cuts(n, m) : \A i \in 1 .. n :
          pattern[i] # Star => cut[i] = cut[i - 1] + 1 /\ pattern[i] \in {One, segment[cut[i]]}
  BY DEF SegmentCovered
<1> HIDE DEF n, m, wild, fit
<1>6. ASSUME NEW places
      PROVE  Equation(places) <=> Solves(places, n, m, wild, fit)
  <2>1. ASSUME NEW i \in 0 .. n, i # n
        PROVE  /\ pattern[i + 1] = Star <=> i + 1 \in wild
               /\ { j \in 0 .. m - 1 : /\ pattern[i + 1] \in {One, segment[j + 1]}
                                       /\ j + 1 \in places[i + 1] }
                    = { j \in 0 .. m - 1 : <<i + 1, j + 1>> \in fit /\ j + 1 \in places[i + 1] }
    <3>1. i + 1 \in 1 .. n /\ \A j \in 0 .. m - 1 : j + 1 \in 1 .. m
      BY <1>2, <2>1
    <3>2. QED
      BY <1>3, <1>4, <3>1
  <2>2. QED
    BY <2>1 DEF Solves
<1>7. Solves(f, n, m, wild, fit)
  <2> HIDE DEF Equation
  <2>1. Equation(PlacesOfEnds(n, m, wild, fit))
    BY <1>2, <1>6, EndsSolve
  <2>2. Equation(f)
    BY <2>1
  <2>3. QED
    BY <1>6, <2>2
<1> HIDE DEF f
<1>8. 0 \in f[0] <=>
        \E cut \in Cuts(n, m) : \A i \in 1 .. n :
          i \notin wild => cut[i] = cut[i - 1] + 1 /\ <<i, cut[i]>> \in fit
  BY <1>2, <1>7, SolutionFindsCuts
<1>9. ASSUME NEW cut \in Cuts(n, m), NEW i \in 1 .. n
      PROVE  (i \notin wild => cut[i] = cut[i - 1] + 1 /\ <<i, cut[i]>> \in fit) <=>
               (pattern[i] # Star =>
                  cut[i] = cut[i - 1] + 1 /\ pattern[i] \in {One, segment[cut[i]]})
  <2>1. cut[i] \in 0 .. m /\ cut[i - 1] \in 0 .. m
    BY <1>2 DEF Cuts
  <2>2. cut[i] = cut[i - 1] + 1 => cut[i] \in 1 .. m
    BY <1>2, <2>1
  <2>3. QED
    BY <1>3, <1>4, <2>2
<1>10. QED
  BY <1>1, <1>5, <1>8, <1>9

\* A path is matched just if its segments can be cut into stretches that the glob's
\* own cover, a "**" any number of them (matchGlob, lib/gate-guard-core.mjs).
THEOREM MatchGlobCovers ==
  ASSUME NEW pattern, NEW path, Len(pattern) \in Nat, Len(path) \in Nat,
         \A i \in 1 .. Len(pattern) : pattern[i] # Deep => Len(pattern[i]) \in Nat,
         \A j \in 1 .. Len(path) : Len(path[j]) \in Nat
  PROVE  matchGlob(pattern, path) <=> PathCovered(pattern, path)
<1> DEFINE n == Len(pattern)
           m == Len(path)
           wild == { i \in 1 .. n : pattern[i] = Deep }
           fit == { p \in (1 .. n) \X (1 .. m) : matchSegment(pattern[p[1]], path[p[2]]) }
           Equation(matches) == matches =
             [i \in 0 .. n |->
               IF i = n THEN {m}
               ELSE IF pattern[i + 1] = Deep
                    THEN { j \in 0 .. m : \E k \in j .. m : k \in matches[i + 1] }
                    ELSE { j \in 0 .. m - 1 : /\ matchSegment(pattern[i + 1], path[j + 1])
                                              /\ j + 1 \in matches[i + 1] }]
           f == CHOOSE matches : Equation(matches)
<1>1. matchGlob(pattern, path) <=> 0 \in f[0]
  BY DEF matchGlob
<1>2. n \in Nat /\ m \in Nat
  OBVIOUS
<1>3. \A i \in 1 .. n : i \in wild <=> pattern[i] = Deep
  OBVIOUS
<1>4. \A i \in 1 .. n : \A k \in 1 .. m : <<i, k>> \in fit <=> matchSegment(pattern[i], path[k])
  OBVIOUS
<1>5. PathCovered(pattern, path) <=>
        \E cut \in Cuts(n, m) : \A i \in 1 .. n :
          pattern[i] # Deep => cut[i] = cut[i - 1] + 1 /\ SegmentCovered(pattern[i], path[cut[i]])
  BY DEF PathCovered
<1>6. \A i \in 1 .. n : \A k \in 1 .. m :
        pattern[i] # Deep =>
          (matchSegment(pattern[i], path[k]) <=> SegmentCovered(pattern[i], path[k]))
  BY MatchSegmentCovers
<1> HIDE DEF n, m, wild, fit
<1>7. ASSUME NEW places
      PROVE  Equation(places) <=> Solves(places, n, m, wild, fit)
  <2>1. ASSUME NEW i \in 0 .. n, i # n
        PROVE  /\ pattern[i + 1] = Deep <=> i + 1 \in wild
               /\ { j \in 0 .. m - 1 : /\ matchSegment(pattern[i + 1], path[j + 1])
                                       /\ j + 1 \in places[i + 1] }
                    = { j \in 0 .. m - 1 : <<i + 1, j + 1>> \in fit /\ j + 1 \in places[i + 1] }
    <3>1. i + 1 \in 1 .. n /\ \A j \in 0 .. m - 1 : j + 1 \in 1 .. m
      BY <1>2, <2>1
    <3>2. QED
      BY <1>3, <1>4, <3>1
  <2>2. QED
    BY <2>1 DEF Solves
<1>8. Solves(f, n, m, wild, fit)
  <2> HIDE DEF Equation
  <2>1. Equation(PlacesOfEnds(n, m, wild, fit))
    BY <1>2, <1>7, EndsSolve
  <2>2. Equation(f)
    BY <2>1
  <2>3. QED
    BY <1>7, <2>2
<1> HIDE DEF f
<1>9. 0 \in f[0] <=>
        \E cut \in Cuts(n, m) : \A i \in 1 .. n :
          i \notin wild => cut[i] = cut[i - 1] + 1 /\ <<i, cut[i]>> \in fit
  BY <1>2, <1>8, SolutionFindsCuts
<1>10. ASSUME NEW cut \in Cuts(n, m), NEW i \in 1 .. n
       PROVE  (i \notin wild => cut[i] = cut[i - 1] + 1 /\ <<i, cut[i]>> \in fit) <=>
                (pattern[i] # Deep =>
                   cut[i] = cut[i - 1] + 1 /\ SegmentCovered(pattern[i], path[cut[i]]))
  <2>1. cut[i] \in 0 .. m /\ cut[i - 1] \in 0 .. m
    BY <1>2 DEF Cuts
  <2>2. cut[i] = cut[i - 1] + 1 => cut[i] \in 1 .. m
    BY <1>2, <2>1
  <2>3. QED
    BY <1>3, <1>4, <1>6, <2>2
<1>11. QED
  BY <1>1, <1>5, <1>9, <1>10

IsGlob(glob) ==
  IsSequence(glob) /\ \A i \in DOMAIN glob : glob[i] # Deep => IsSequence(glob[i])

LEMMA GlobMatchesPath ==
  ASSUME NEW glob, IsGlob(glob), NEW path, IsPath(path)
  PROVE  matchGlob(glob, path) <=> PathCovered(glob, path)
<1>1. Len(glob) \in Nat /\ DOMAIN glob = 1 .. Len(glob)
  BY DEF IsGlob, IsSequence
<1>2. Len(path) \in Nat /\ DOMAIN path = 1 .. Len(path)
  BY DEF IsPath, IsSequence
<1>3. \A i \in 1 .. Len(glob) : glob[i] # Deep => Len(glob[i]) \in Nat
  BY <1>1 DEF IsGlob, IsSequence
<1>4. \A j \in 1 .. Len(path) : Len(path[j]) \in Nat
  BY <1>2 DEF IsPath, IsSequence
<1>5. QED
  BY <1>1, <1>2, <1>3, <1>4, MatchGlobCovers

LEMMA RestOfPath ==
  ASSUME NEW file, IsPath(file), NEW root, IsPath(root), Len(file) > Len(root)
  PROVE  IsPath(SubSeq(file, Len(root) + 1, Len(file)))
<1> DEFINE rest == SubSeq(file, Len(root) + 1, Len(file))
<1>1. file \in Seq({ file[i] : i \in DOMAIN file }) /\ Len(file) \in Nat /\ Len(root) \in Nat
  BY DEF IsPath, IsSequence
<1>2. /\ rest = [i \in 1 .. Len(file) - Len(root) |-> file[i + Len(root)]]
      /\ Len(rest) = Len(file) - Len(root)
  BY <1>1
<1>3. DOMAIN rest = 1 .. Len(file) - Len(root)
  BY <1>2
<1>4. \A i \in DOMAIN rest : rest[i] = file[i + Len(root)] /\ i + Len(root) \in DOMAIN file
  BY <1>1, <1>2, <1>3
<1>5. IsSequence(rest)
  <2>1. rest \in [1 .. Len(file) - Len(root) -> { rest[i] : i \in DOMAIN rest }]
    BY <1>2, <1>3
  <2>2. Len(file) - Len(root) \in Nat
    BY <1>1
  <2> HIDE DEF rest
  <2>3. QED
    BY <2>1, <2>2 DEF IsSequence
<1>6. QED
  BY <1>4, <1>5 DEF IsPath

\* The root is the path's beginning just if the path is the root and a rest.
LEMMA BelowRoot ==
  ASSUME NEW file, IsPath(file), NEW root, IsPath(root)
  PROVE  LET rest == SubSeq(file, Len(root) + 1, Len(file))
         IN  Len(file) > Len(root) /\ SubSeq(file, 1, Len(root)) = root
               <=> rest # <<>> /\ file = root \o rest
<1> DEFINE rest == SubSeq(file, Len(root) + 1, Len(file))
           S == { file[i] : i \in DOMAIN file } \cup { root[i] : i \in DOMAIN root }
<1>1. file \in Seq(S) /\ root \in Seq(S)
  <2>1. \A T, U : T \subseteq U => Seq(T) \subseteq Seq(U)
    OBVIOUS
  <2>2. QED
    BY <2>1 DEF IsPath, IsSequence
<1> HIDE DEF S
<1>2. Len(file) \in Nat /\ Len(root) \in Nat
  BY <1>1
<1>3. rest \in Seq(S)
  BY <1>1, <1>2
<1>4. Len(rest) = IF Len(root) + 1 <= Len(file) THEN Len(file) - Len(root) ELSE 0
  BY <1>1, <1>2
<1>5. rest # <<>> <=> Len(file) > Len(root)
  <2>1. rest # <<>> <=> Len(rest) > 0
    BY <1>3
  <2>2. QED
    BY <1>2, <1>4, <2>1
<1>6. ASSUME Len(file) > Len(root)
      PROVE  SubSeq(file, 1, Len(root)) = root <=> file = root \o rest
  <2>1. \A i \in 1 .. Len(rest) : rest[i] = file[i + Len(root)]
    BY <1>1, <1>2, <1>4, <1>6
  <2>2. /\ SubSeq(file, 1, Len(root)) = [i \in 1 .. Len(root) |-> file[i]]
        /\ root = [i \in 1 .. Len(root) |-> root[i]]
    BY <1>1, <1>2, <1>6
  <2>3. /\ root \o rest = [i \in 1 .. Len(file) |->
                             IF i <= Len(root) THEN root[i] ELSE rest[i - Len(root)]]
        /\ file = [i \in 1 .. Len(file) |-> file[i]]
    BY <1>1, <1>2, <1>3, <1>4, <1>6
  <2>4. \A i \in 1 .. Len(file) : i > Len(root) => rest[i - Len(root)] = file[i]
    <3>1. \A i \in 1 .. Len(file) : i > Len(root) =>
            i - Len(root) \in 1 .. Len(rest) /\ (i - Len(root)) + Len(root) = i
      BY <1>2, <1>4, <1>6
    <3>2. QED
      BY <2>1, <3>1
  <2> HIDE DEF rest
  <2>5. SubSeq(file, 1, Len(root)) = root <=> \A i \in 1 .. Len(root) : file[i] = root[i]
    BY <2>2
  <2>6. file = root \o rest <=>
          \A i \in 1 .. Len(file) :
            file[i] = IF i <= Len(root) THEN root[i] ELSE rest[i - Len(root)]
    BY <2>3
  <2>7. \A i : i \in 1 .. Len(root) <=> i \in 1 .. Len(file) /\ i <= Len(root)
    BY <1>2, <1>6
  <2>8. QED
    BY <1>2, <2>4, <2>5, <2>6, <2>7
<1>7. QED
  BY <1>5, <1>6

LEMMA GlobsCover ==
  ASSUME NEW c, NEW persona, IsPath(c[persona].repo), NEW file, IsPath(file),
         NEW globs, \A glob \in globs : IsGlob(glob)
  PROVE  personaGlobMatch(persona, file, globs, c) <=> Covered(file, globs, c[persona].repo)
<1> DEFINE root == c[persona].repo
           rest == SubSeq(file, Len(root) + 1, Len(file))
           below == root # <<>> /\ Len(file) > Len(root) /\ SubSeq(file, 1, Len(root)) = root
           under == root # <<>> /\ rest # <<>> /\ file = root \o rest
<1>1. personaGlobMatch(persona, file, globs, c) <=>
        \E glob \in globs : matchGlob(glob, file) \/ (below /\ matchGlob(glob, rest))
  BY DEF personaGlobMatch
<1>2. Covered(file, globs, root) <=>
        \E glob \in globs : PathCovered(glob, file) \/ (under /\ PathCovered(glob, rest))
  <2>1. Covered(file, globs, root) <=>
          \E glob \in globs :
            \/ PathCovered(glob, file)
            \/ root # <<>> /\ rest # <<>> /\ file = root \o rest /\ PathCovered(glob, rest)
    BY Zenon DEF Covered
  <2>2. \A glob :
          (root # <<>> /\ rest # <<>> /\ file = root \o rest /\ PathCovered(glob, rest)) <=>
            (under /\ PathCovered(glob, rest))
    OBVIOUS
  <2> HIDE DEF rest, root, under
  <2>3. QED
    BY <2>1, <2>2, Zenon
<1>3. below <=> under
  <2>1. IsPath(root)
    OBVIOUS
  <2> HIDE DEF root
  <2>2. Len(file) > Len(root) /\ SubSeq(file, 1, Len(root)) = root <=> rest # <<>> /\ file = root \o rest
    BY <2>1, BelowRoot
  <2>3. QED
    BY <2>2
<1>4. below => IsPath(rest)
  BY RestOfPath
<1> HIDE DEF below, under, rest
<1>5. QED
  BY <1>1, <1>2, <1>3, <1>4, GlobMatchesPath

LEMMA OutsideIsForeign ==
  ASSUME NEW c \in Configs, NEW persona \in Personas
  PROVE  Outside[c][persona] = Foreign[c][persona]
<1> DEFINE Editable(p, file) == Covered(file, c[p].editableGlobs, c[p].repo)
           OffLimits(p, file) == Covered(file, c[p].offLimitsGlobs, c[p].repo)
<1>1. ASSUME NEW file \in Files, NEW p \in Personas
      PROVE  /\ personaGlobMatch(p, file, c[p].editableGlobs, c) <=> Editable(p, file)
             /\ personaGlobMatch(p, file, c[p].offLimitsGlobs, c) <=> OffLimits(p, file)
  <2>1. IsPath(file) /\ IsPath(c[p].repo)
    BY ReturnAssumption
  <2>2. /\ \A glob \in c[p].editableGlobs : IsGlob(glob)
        /\ \A glob \in c[p].offLimitsGlobs : IsGlob(glob)
    BY ReturnAssumption DEF IsGlob
  <2>3. QED
    BY <2>1, <2>2, GlobsCover
<1>2. Foreign[c][persona] =
        { file \in Files :
            \/ OffLimits(persona, file)
            \/ /\ ~Editable(persona, file)
               /\ \E p \in Personas : Editable(p, file) /\ ~OffLimits(p, file) }
  BY DEF Foreign
<1>3. Outside[c][persona] = filesOutsidePersonaScope(persona, Files, c)
  BY DEF Outside
<1> HIDE DEF Editable, OffLimits
<1>4. \A file \in Files : \A p \in Personas :
        ownsFile(p, file, c) <=> Editable(p, file) /\ ~OffLimits(p, file)
  BY <1>1 DEF ownsFile
<1>5. filesOutsidePersonaScope(persona, Files, c) =
        { file \in Files :
            /\ ~ownsFile(persona, file, c)
            /\ \/ personaGlobMatch(persona, file, c[persona].offLimitsGlobs, c)
               \/ \E other \in Personas \ {persona} : ownsFile(other, file, c) }
  BY DEF filesOutsidePersonaScope
<1>6. \A file \in Files :
        (/\ ~ownsFile(persona, file, c)
         /\ \/ personaGlobMatch(persona, file, c[persona].offLimitsGlobs, c)
            \/ \E other \in Personas \ {persona} : ownsFile(other, file, c)) <=>
        (\/ OffLimits(persona, file)
         \/ /\ ~Editable(persona, file)
            /\ \E p \in Personas : Editable(p, file) /\ ~OffLimits(p, file))
  BY <1>1, <1>4
<1>7. QED
  BY <1>2, <1>3, <1>5, <1>6

ReturnInv ==
  /\ ReturnTypeOK
  /\ \A w \in Workers : worker[w].at = "working" => worker[w].persona \in Personas
  /\ AnswersForItsOwn

\* An honest answer, of the step that gives it.
LEMMA HonestAnswer ==
  ASSUME NEW w \in Workers, config \in Configs, worker[w].persona \in Personas, mode # "off",
         NEW answer \in Answers(w), answer.honest
  PROVE  LET breach == worker[w].changed \cap Foreign[config][worker[w].persona] # {}
         IN  /\ answer.verdict = "persona_scope_violation" <=> breach
             /\ breach => Halting(answer.verdict) = (mode = "block")
<1> DEFINE breach == worker[w].changed \cap Foreign[config][worker[w].persona] # {}
<1>1. PICK reply \in Replies, hasId \in BOOLEAN, indexed \in BOOLEAN, loads \in BOOLEAN :
        answer = [verdict |-> Verdict(w, reply, subagentReturn(reply, hasId, indexed), loads),
                  honest |-> /\ marked /\ loads /\ reply.form = "json" /\ reply.signed
                             /\ reply.persona = worker[w].persona /\ reply.changedFiles = "own"]
  BY DEF Answers
<1>2. /\ marked /\ loads /\ reply.form = "json" /\ reply.signed
      /\ reply.persona = worker[w].persona /\ reply.changedFiles = "own"
  BY <1>1
<1>3. subagentReturn(reply, hasId, indexed)
  BY <1>2 DEF subagentReturn
<1>4. reply.persona # Unsaid /\ reply.changedFiles # Unsaid
  BY <1>2, ReturnAssumption
<1>5. assertPersonaScope(reply.persona, Changed(w, reply))
        = worker[w].changed \cap Foreign[config][worker[w].persona]
  BY <1>2, OutsideIsForeign DEF assertPersonaScope, Changed
<1>6. answer.verdict = Verdict(w, reply, subagentReturn(reply, hasId, indexed), loads)
  BY <1>1
<1>7. answer.verdict = "persona_scope_violation" <=> breach
  BY <1>2, <1>3, <1>4, <1>5, <1>6 DEF Verdict
<1>8. breach => Halting(answer.verdict) = (mode = "block")
  BY <1>7 DEF Halting
<1>9. QED
  BY <1>7, <1>8

LEMMA ReturnInvInit ==
  ASSUME ReturnInit
  PROVE  ReturnInv
<1>1. Fresh \in Worker
  BY DEF Fresh, Worker, Verdicts
<1>2. \A w \in Workers : worker[w] = Fresh /\ Fresh.at = "idle"
  BY DEF ReturnInit, Fresh
<1>3. ReturnTypeOK
  BY <1>1 DEF ReturnInit, ReturnTypeOK
<1>4. AnswersForItsOwn
  BY <1>2 DEF AnswersForItsOwn
<1>5. QED
  BY <1>2, <1>3, <1>4 DEF ReturnInv

\* One worker's record is replaced: the others answer as before.
LEMMA OneWorkerMoves ==
  ASSUME ReturnInv, NEW w \in Workers, NEW new \in Worker,
         worker' = [worker EXCEPT ![w] = new],
         UNCHANGED <<config, mode>>, marked' \in BOOLEAN, tested' \subseteq Tests,
         new.at = "working" => new.persona \in Personas,
         new.at = "judged" /\ new.honest /\ mode # "off" =>
           LET breach == new.changed \cap Foreign[config][new.persona] # {}
           IN  /\ new.verdict = "persona_scope_violation" <=> breach
               /\ breach => new.halts = (mode = "block")
  PROVE  ReturnInv'
<1>1. /\ worker' \in [Workers -> Worker] /\ worker'[w] = new
      /\ \A u \in Workers \ {w} : worker'[u] = worker[u]
  BY DEF ReturnInv, ReturnTypeOK
<1>2. ReturnTypeOK'
  BY <1>1 DEF ReturnInv, ReturnTypeOK
<1>3. \A u \in Workers : worker'[u].at = "working" => worker'[u].persona \in Personas
  BY <1>1 DEF ReturnInv
<1>4. AnswersForItsOwn'
  <2>1. ASSUME NEW u \in Workers, worker'[u].at = "judged" /\ worker'[u].honest /\ mode # "off"
        PROVE  LET breach == worker'[u].changed \cap Foreign[config][worker'[u].persona] # {}
               IN  /\ worker'[u].verdict = "persona_scope_violation" <=> breach
                   /\ breach => worker'[u].halts = (mode = "block")
    <3>1. CASE u = w
      BY <1>1, <2>1, <3>1
    <3>2. CASE u # w
      BY <1>1, <2>1, <3>2 DEF ReturnInv, AnswersForItsOwn
    <3>3. QED
      BY <3>1, <3>2
  <2>2. QED
    BY <2>1 DEF AnswersForItsOwn
<1>5. QED
  BY <1>2, <1>3, <1>4 DEF ReturnInv

LEMMA ReturnStep ==
  ASSUME ReturnInv, NEW w \in Workers, Return(w)
  PROVE  ReturnInv'
<1>1. PICK answer \in Answers(w) :
        worker' = [worker EXCEPT ![w] =
          [at |-> "judged", honest |-> answer.honest,
           verdict |-> answer.verdict, halts |-> Halting(answer.verdict),
           persona |-> IF answer.honest THEN worker[w].persona ELSE Unsaid,
           changed |-> IF answer.honest THEN worker[w].changed ELSE {}]]
  BY DEF Return
<1> DEFINE new == [at |-> "judged", honest |-> answer.honest,
                   verdict |-> answer.verdict, halts |-> Halting(answer.verdict),
                   persona |-> IF answer.honest THEN worker[w].persona ELSE Unsaid,
                   changed |-> IF answer.honest THEN worker[w].changed ELSE {}]
<1>2. worker[w] \in Worker /\ worker[w].persona \in Personas
  BY DEF ReturnInv, ReturnTypeOK, Return
<1>3. answer.honest \in BOOLEAN /\ answer.verdict \in Verdicts
  <2>1. PICK reply \in Replies, hasId \in BOOLEAN, indexed \in BOOLEAN, loads \in BOOLEAN :
          answer = [verdict |-> Verdict(w, reply, subagentReturn(reply, hasId, indexed), loads),
                    honest |-> /\ marked /\ loads /\ reply.form = "json" /\ reply.signed
                               /\ reply.persona = worker[w].persona /\ reply.changedFiles = "own"]
    BY DEF Answers
  <2>2. Verdict(w, reply, subagentReturn(reply, hasId, indexed), loads) \in Verdicts
    BY DEF Verdict, Verdicts
  <2>3. QED
    BY <2>1, <2>2
<1>4. Halting(answer.verdict) \in BOOLEAN
  BY DEF Halting
<1>5. new \in Worker
  BY <1>2, <1>3, <1>4 DEF Worker
<1>6. /\ new.at = "judged" /\ new.honest = answer.honest /\ new.verdict = answer.verdict
      /\ new.halts = Halting(answer.verdict)
      /\ answer.honest => new.persona = worker[w].persona /\ new.changed = worker[w].changed
  OBVIOUS
<1> HIDE DEF new
<1>7. new.honest /\ mode # "off" =>
        LET breach == new.changed \cap Foreign[config][new.persona] # {}
        IN  /\ new.verdict = "persona_scope_violation" <=> breach
            /\ breach => new.halts = (mode = "block")
  <2>1. SUFFICES ASSUME answer.honest, mode # "off"
                 PROVE  LET breach == new.changed \cap Foreign[config][new.persona] # {}
                        IN  /\ new.verdict = "persona_scope_violation" <=> breach
                            /\ breach => new.halts = (mode = "block")
    BY <1>6
  <2>2. config \in Configs
    BY DEF ReturnInv, ReturnTypeOK
  <2>3. LET breach == worker[w].changed \cap Foreign[config][worker[w].persona] # {}
        IN  /\ answer.verdict = "persona_scope_violation" <=> breach
            /\ breach => Halting(answer.verdict) = (mode = "block")
    BY <1>2, <2>1, <2>2, HonestAnswer
  <2>4. /\ new.persona = worker[w].persona /\ new.changed = worker[w].changed
        /\ new.verdict = answer.verdict /\ new.halts = Halting(answer.verdict)
    BY <1>6, <2>1
  <2>5. QED
    BY <2>3, <2>4, Zenon
<1>8. /\ UNCHANGED <<config, mode>> /\ marked' \in BOOLEAN /\ tested' \subseteq Tests
  BY DEF Return, ReturnInv, ReturnTypeOK
<1>9. worker' = [worker EXCEPT ![w] = new]
  BY <1>1 DEF new
<1>10. QED
  BY <1>5, <1>6, <1>7, <1>8, <1>9, OneWorkerMoves

LEMMA WorkerStep ==
  ASSUME ReturnInv, NEW w \in Workers, Dispatch1(w) \/ WorkerEdits(w)
  PROVE  ReturnInv'
<1>1. worker[w] \in Worker /\ marked \in BOOLEAN /\ tested \subseteq Tests
  BY DEF ReturnInv, ReturnTypeOK
<1>2. CASE Dispatch1(w)
  <2>1. PICK p \in Personas :
          worker' = [worker EXCEPT ![w] = [worker[w] EXCEPT !.at = "working", !.persona = p]]
    BY <1>2 DEF Dispatch1
  <2> DEFINE new == [worker[w] EXCEPT !.at = "working", !.persona = p]
  <2>2. new \in Worker /\ new.at = "working" /\ new.persona = p
    BY <1>1 DEF Worker
  <2> HIDE DEF new
  <2>3. worker' = [worker EXCEPT ![w] = new]
    BY <2>1 DEF new
  <2>4. UNCHANGED <<config, mode>> /\ marked' \in BOOLEAN /\ tested' \subseteq Tests
    BY <1>1, <1>2 DEF Dispatch1
  <2>5. QED
    BY <2>2, <2>3, <2>4, OneWorkerMoves
<1>3. CASE WorkerEdits(w)
  <2>1. PICK file \in Files :
          /\ worker' = [worker EXCEPT ![w] = [worker[w] EXCEPT !.changed = worker[w].changed \cup {file}]]
          /\ tested' \in {tested} \cup IF marked THEN {tested \cup ({file} \cap Tests)} ELSE {}
    BY <1>1, <1>3 DEF WorkerEdits, ReturnInv, ReturnTypeOK
  <2> DEFINE new == [worker[w] EXCEPT !.changed = worker[w].changed \cup {file}]
  <2>2. new \in Worker /\ new.at = "working" /\ new.persona = worker[w].persona
    BY <1>1, <1>3 DEF Worker, WorkerEdits
  <2> HIDE DEF new
  <2>3. worker' = [worker EXCEPT ![w] = new]
    BY <2>1 DEF new
  <2>4. UNCHANGED <<config, mode>> /\ marked' \in BOOLEAN /\ tested' \subseteq Tests
    BY <1>1, <1>3, <2>1 DEF WorkerEdits
  <2>5. worker[w].persona \in Personas
    BY <1>3 DEF WorkerEdits, ReturnInv
  <2>6. QED
    BY <2>2, <2>3, <2>4, <2>5, OneWorkerMoves
<1>4. QED
  BY <1>2, <1>3

\* What the ledger and the mark are told of, no worker is.
LEMMA LedgerStep ==
  ASSUME ReturnInv, DiscoveryCites \/ LedgerPromoted \/ MarkReaped \/ UNCHANGED returnVars
  PROVE  ReturnInv'
<1>1. UNCHANGED <<config, mode, worker>> /\ marked' \in BOOLEAN /\ tested' \subseteq Tests
  BY DEF DiscoveryCites, LedgerPromoted, MarkReaped, returnVars, ReturnInv, ReturnTypeOK
<1>2. ReturnTypeOK'
  BY <1>1 DEF ReturnInv, ReturnTypeOK
<1>3. AnswersForItsOwn'
  BY <1>1 DEF ReturnInv, AnswersForItsOwn
<1>4. QED
  BY <1>1, <1>2, <1>3 DEF ReturnInv

\* The invariant the answers are proved from.
THEOREM ReturnInvHolds == ReturnSpec => []ReturnInv
<1>1. ReturnInit => ReturnInv
  BY ReturnInvInit
<1>2. ReturnInv /\ [ReturnNext]_returnVars => ReturnInv'
  BY ReturnStep, WorkerStep, LedgerStep DEF ReturnNext
<1>3. QED
  BY <1>1, <1>2, PTL DEF ReturnSpec

\* A return that is signed and names its persona and its files is a scope
\* violation just if one of them is foreign to it (hooks/post-tool-use.mjs).
THEOREM AnswersForItsOwnHolds == ReturnSpec => []AnswersForItsOwn
<1>1. ReturnInv => AnswersForItsOwn
  BY DEF ReturnInv
<1>2. QED
  BY <1>1, ReturnInvHolds, PTL

-----------------------------------------------------------------------------
(***************************************************************************)
(* The parts together, in a session that moves one of them at a time.      *)
(***************************************************************************)

\* A step of the session is a step of one part and leaves the others alone: what
\* is proved of a part is so of it among the others.
THEOREM SessionMovesParts ==
  SessionSpec =>
    /\ RosterSpec /\ BudgetSpec /\ LoopSpec /\ MemorySpec /\ ProgressSpec /\ LifeSpec
    /\ ReturnSpec /\ BriefSpec /\ PackingSpec
<1> DEFINE vars == <<moving, rosterVars, budgetVars, loopVars, memoryVars, progressVars, lifeVars,
                     returnVars, briefVars, plan>>
<1>1. SessionInit =>
        /\ RosterInit /\ BudgetInit /\ LoopInit /\ MemoryInit /\ ProgressInit /\ LifeInit
        /\ ReturnInit /\ BriefInit /\ PackingInit
  BY DEF SessionInit
<1>2. [SessionNext]_vars =>
        /\ [RosterNext]_rosterVars /\ [BudgetNext]_budgetVars /\ [LoopNext]_loopVars
        /\ [MemoryNext]_memoryVars /\ [ProgressNext]_progressVars /\ [LifeNext]_lifeVars
        /\ [ReturnNext]_returnVars /\ [BriefNext]_briefVars /\ [PackEvidence]_plan
  BY DEF SessionNext
<1>3. QED
  BY <1>1, <1>2, PTL
     DEF SessionSpec, RosterSpec, BudgetSpec, LoopSpec, MemorySpec, ProgressSpec, LifeSpec,
         ReturnSpec, BriefSpec, PackingSpec

\* What a later session is told of the work: the boxes it reads follow the trace,
\* and the brief it takes is the latest (scripts/complete-ac.mjs, lib/resume/plan.mjs).
THEOREM ProgressIsToldHolds == SessionSpec => []ProgressIsTold
<1>1. BoxesFollowTrace /\ BriefIsLatest => ProgressIsTold
  BY DEF ProgressIsTold
<1>2. QED
  BY <1>1, SessionMovesParts, BoxesFollowTraceHolds, BriefIsLatestHolds, PTL

\* The edits of a session nobody disturbed are not blocked, and the evidence loaded
\* keeps to its budget (lib/context/context-meter.mjs, lib/context/evidence-pack.mjs).
THEOREM ContextInBoundsHolds == SessionSpec => []ContextInBounds
<1>1. UndisturbedNeverBlocks /\ PackKeepsBudget => ContextInBounds
  BY DEF ContextInBounds
<1>2. QED
  BY <1>1, SessionMovesParts, UndisturbedNeverBlocksHolds, PackKeepsBudgetHolds, PTL

\* The state of each part is what its module says it is, whatever happens.
THEOREM SessionTypeOKHolds == SessionSpec => []SessionTypeOK
<1>1. RosterInv => RosterTypeOK
  BY DEF RosterInv
<1>2. ReturnInv => ReturnTypeOK
  BY DEF ReturnInv
<1>3. /\ RosterTypeOK /\ BudgetTypeOK /\ LoopTypeOK /\ MemoryTypeOK /\ ProgressTypeOK /\ LifeTypeOK
      /\ ReturnTypeOK /\ BriefTypeOK /\ PackingTypeOK
      => SessionTypeOK
  BY DEF SessionTypeOK
<1>4. QED
  BY <1>1, <1>2, <1>3, SessionMovesParts, RosterInvHolds, BudgetTypes, LoopTypes, MemoryTypes, ProgressTypes,
     LifeTypes, ReturnInvHolds, BriefTypes, PackingTypes, PTL
=============================================================================
