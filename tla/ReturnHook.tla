---------------------------- MODULE ReturnHook ----------------------------
(***************************************************************************)
(* The return of an implementation worker, and what the post-tool-use hook *)
(* makes of it: whether the files it changed stay in its persona's         *)
(* territory, and whether a test was touched.                              *)
(*                                                                         *)
(* Workers run side by side.  Every edit is a fact of the task's one       *)
(* ledger; only the worker's own reply tells which files were its own.     *)
(* (Keeping the return for the join is DiscoveryReturns'; the events the   *)
(* hook adds to the trace are left out.)                                   *)
(***************************************************************************)
EXTENDS GlobMatch

CONSTANTS
  Workers,       \* the dispatches of @fullstack
  Personas,      \* those the configuration declares
  Files,         \* paths of the repository
  Configs,       \* persona -> its globs and its repository's root
  Undeclared,    \* a persona the configuration does not know
  Unsaid        \* a field the reply lacks

IsSequence(s) == s \in Seq({ s[i] : i \in DOMAIN s })
IsPath(path) == IsSequence(path) /\ \A i \in DOMAIN path : IsSequence(path[i])

ASSUME ReturnAssumption ==
  /\ Unsaid \notin Personas \cup {"own", "none"}
  /\ \A file \in Files : IsPath(file)
  /\ \A c \in Configs : \A p \in Personas :
       /\ IsPath(c[p].repo)
       /\ \A glob \in c[p].editableGlobs \cup c[p].offLimitsGlobs :
            /\ IsSequence(glob)
            /\ \A i \in DOMAIN glob : glob[i] # Deep => IsSequence(glob[i])

-----------------------------------------------------------------------------
(* lib/gate-guard-core.mjs: who owns a file.                               *)

\* A glob is tried on the path and, below the persona's repository, on the rest.
personaGlobMatch(persona, file, globs, c) ==
  LET root == c[persona].repo
      below == root # <<>> /\ Len(file) > Len(root) /\ SubSeq(file, 1, Len(root)) = root
  IN  \E glob \in globs :
        \/ matchGlob(glob, file)
        \/ below /\ matchGlob(glob, SubSeq(file, Len(root) + 1, Len(file)))

ownsFile(persona, file, c) ==
  /\ personaGlobMatch(persona, file, c[persona].editableGlobs, c)
  /\ ~personaGlobMatch(persona, file, c[persona].offLimitsGlobs, c)

\* A file nobody owns is left to scope.md.
filesOutsidePersonaScope(persona, changed, c) ==
  { file \in changed :
      /\ ~ownsFile(persona, file, c)
      /\ \/ personaGlobMatch(persona, file, c[persona].offLimitsGlobs, c)
         \/ \E other \in Personas \ {persona} : ownsFile(other, file, c) }

\* It goes file by file: those of all, once for a configuration.
Outside == [c \in Configs |-> [p \in Personas |-> filesOutsidePersonaScope(p, Files, c)]]
TestsOf == [c \in Configs |-> [p \in Personas |->
              { file \in Files : \E glob \in c[p].testGlobs : matchGlob(glob, file) }]]
Tests == UNION { TestsOf[c][p] : c \in Configs, p \in Personas }

-----------------------------------------------------------------------------

VARIABLES
  config,    \* devmate.config.json
  mode,      \* its personaScope
  marked,    \* the session is known as devmate's
  tested,    \* the tests among the sources of the facts in the task's ledger
  worker     \* the workers

returnVars == <<config, mode, marked, tested, worker>>

Verdicts == {"none", "unseen", "persona_missing", "persona_scope_violation", "tdd_skipped", "passed"}
Worker ==
  [at : {"idle", "working", "judged"}, persona : Personas \cup {Unsaid}, changed : SUBSET Files,
   honest : BOOLEAN, verdict : Verdicts, halts : BOOLEAN]

ReturnTypeOK ==
  /\ config \in Configs /\ mode \in {"off", "warn", "block"} /\ marked \in BOOLEAN
  /\ tested \subseteq Tests
  /\ worker \in [Workers -> Worker]

Fresh == [at |-> "idle", persona |-> Unsaid, changed |-> {},
          honest |-> FALSE, verdict |-> "none", halts |-> FALSE]

ReturnInit ==
  /\ config \in Configs /\ mode \in {"off", "warn", "block"}
  /\ marked = FALSE /\ tested = {}
  /\ worker = [w \in Workers |-> Fresh]

-----------------------------------------------------------------------------
(* lib/workflow/orchestrator.mjs and hooks/post-tool-use.mjs.              *)

\* An undeclared persona is a usage error, which has no violations.
assertPersonaScope(persona, changed) ==
  IF persona \in Personas THEN changed \cap Outside[config][persona] ELSE {}

assertTestFileTouched(persona) ==
  persona \in Personas /\ config[persona].testGlobs # {} =>
    tested \cap TestsOf[config][persona] # {}

-----------------------------------------------------------------------------
(* The workers.                                                            *)

\* The start marks the session, which may fail.
Dispatch1(w) ==
  /\ worker[w].at = "idle"
  /\ \E p \in Personas : worker' = [worker EXCEPT ![w] = [@ EXCEPT !.at = "working", !.persona = p]]
  /\ marked' \in {marked, TRUE}
  /\ UNCHANGED <<config, mode, tested>>

\* An edit, and its fact: none in a session that is not devmate's, or if the
\* ledger's lock is not had in time.
WorkerEdits(w) ==
  /\ worker[w].at = "working"
  /\ \E file \in Files :
       /\ worker' = [worker EXCEPT ![w].changed = @ \cup {file}]
       /\ tested' \in {tested} \cup IF marked THEN {tested \cup ({file} \cap Tests)} ELSE {}
  /\ UNCHANGED <<config, mode, marked>>

\* The facts of a discovery name the files they cite.
DiscoveryCites ==
  /\ \E file \in Tests : tested' = tested \cup {file}
  /\ UNCHANGED <<config, mode, marked, worker>>

\* At a compaction the ledger is promoted, and gone.
LedgerPromoted ==
  /\ tested' = {}
  /\ UNCHANGED <<config, mode, marked, worker>>

\* The temporary directory is cleaned, or the mark is a week old.
MarkReaped ==
  /\ marked' = FALSE
  /\ UNCHANGED <<config, mode, tested, worker>>

-----------------------------------------------------------------------------
(* lib/hooks/agent-result.mjs and hooks/post-tool-use.mjs.                 *)

Replies ==
  [form : {"json"}, signed : BOOLEAN, persona : Personas \cup {Undeclared, Unsaid},
   changedFiles : {"own", "none", Unsaid}]
  \cup [form : {"empty", "prose"}, signed : {FALSE}, persona : {Unsaid}, changedFiles : {Unsaid}]

\* Mutant: a return no tool_use_id keys is not judged either.
subagentReturnKeyed(reply, hasId, indexed) ==
  reply.form = "json" /\ hasId /\ (indexed \/ reply.signed)

\* The reply is attributed: by the name the sub-agent index has under its
\* tool_use_id, or by the one it is signed with.
subagentReturn(reply, hasId, indexed) ==
  reply.form = "json" /\ ((hasId /\ indexed) \/ reply.signed)

Changed(w, reply) ==
  IF reply.changedFiles = "own" THEN worker[w].changed ELSE {}

\* The answer to the host.  loads: the task and the configuration are readable.
Verdict(w, reply, attributed, loads) ==
  IF ~marked \/ ~loads \/ ~attributed THEN "unseen"
  ELSE IF mode # "off" /\ reply.persona = Unsaid THEN "persona_missing"
  ELSE IF /\ mode # "off" /\ reply.changedFiles # Unsaid
          /\ assertPersonaScope(reply.persona, Changed(w, reply)) # {} THEN "persona_scope_violation"
  ELSE IF reply.persona # Unsaid /\ ~assertTestFileTouched(reply.persona) THEN "tdd_skipped"
  ELSE "passed"

Halting(verdict) ==
  \/ verdict = "tdd_skipped"
  \/ verdict \in {"persona_missing", "persona_scope_violation"} /\ mode = "block"

\* What the hook may answer, and whether to a reply that told all: signed,
\* its own persona and the files it changed.
Answers(w) ==
  { [verdict |-> Verdict(w, reply, subagentReturn(reply, hasId, indexed), loads),
     honest |-> /\ marked /\ loads /\ reply.form = "json" /\ reply.signed
                /\ reply.persona = worker[w].persona /\ reply.changedFiles = "own"] :
    reply \in Replies, hasId \in BOOLEAN, indexed \in BOOLEAN, loads \in BOOLEAN }

Return(w) ==
  /\ worker[w].at = "working"
  /\ \E answer \in Answers(w) :
       worker' = [worker EXCEPT ![w] =
         [at |-> "judged", honest |-> answer.honest,
          verdict |-> answer.verdict, halts |-> Halting(answer.verdict),
          persona |-> IF answer.honest THEN worker[w].persona ELSE Unsaid,
          changed |-> IF answer.honest THEN worker[w].changed ELSE {}]]
  /\ UNCHANGED <<config, mode, marked, tested>>

ReturnNext ==
  \/ \E w \in Workers : Dispatch1(w) \/ WorkerEdits(w) \/ Return(w)
  \/ DiscoveryCites \/ LedgerPromoted \/ MarkReaped

ReturnSpec == ReturnInit /\ [][ReturnNext]_returnVars

-----------------------------------------------------------------------------
(***************************************************************************)
(* hooks/post-tool-use.mjs: a worker answers for its own files.  A return  *)
(* that is signed and names its persona and the files it changed, in a     *)
(* session known as devmate's, is a scope violation exactly if one of them *)
(* is off its limits or in another persona's territory alone, by what the  *)
(* globs mean: whatever the workers beside it edit, whatever the index and *)
(* the ledger have lost, and with or without a tool_use_id.  It halts in   *)
(* block mode and never in warn.                                           *)
(***************************************************************************)
Covered(file, globs, root) ==
  LET rest == SubSeq(file, Len(root) + 1, Len(file))
  IN  \E glob \in globs :
        \/ PathCovered(glob, file)
        \/ root # <<>> /\ rest # <<>> /\ file = root \o rest /\ PathCovered(glob, rest)

Foreign == [c \in Configs |-> [persona \in Personas |->
  LET Editable(p, file) == Covered(file, c[p].editableGlobs, c[p].repo)
      OffLimits(p, file) == Covered(file, c[p].offLimitsGlobs, c[p].repo)
  IN  { file \in Files :
          \/ OffLimits(persona, file)
          \/ /\ ~Editable(persona, file)
             /\ \E p \in Personas : Editable(p, file) /\ ~OffLimits(p, file) }]]

AnswersForItsOwn ==
  \A w \in Workers : worker[w].at = "judged" /\ worker[w].honest /\ mode # "off" =>
    LET breach == worker[w].changed \cap Foreign[config][worker[w].persona] # {}
    IN  /\ worker[w].verdict = "persona_scope_violation" <=> breach
        /\ breach => worker[w].halts = (mode = "block")
=============================================================================
