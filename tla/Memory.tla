------------------------------- MODULE Memory -------------------------------
(***************************************************************************)
(* The memory: facts are written to the task's ledger by the PostToolUse   *)
(* hook (writeFact) and by merge-discovery (writeDiscoveryFacts),          *)
(* compacted, promoted into the repository's ledger and rendered into      *)
(* MEMORY.md, by calls that overlap.  Each ledger has a lock file that     *)
(* nobody recovers from a process that died with it.                       *)
(*                                                                         *)
(* Abstracted: a ledger is the set of its lines, whose order only breaks   *)
(* ties of a time; a line's summary, tags and lane are left out; content   *)
(* is part of a fact's key.  One task; the policy is keep-incoming, the    *)
(* one every caller but an explicit option uses.                           *)
(***************************************************************************)
EXTENDS Integers, FiniteSets

CONSTANTS
  Callers,           \* processes, each of which makes one call
  Sources,           \* the files facts are about
  MaxClock,          \* bound: the millisecond clock
  TargetEntries,     \* what a compaction leaves
  Unlocked           \* nobody holds a lock

ASSUME MemoryAssumption ==
  MaxClock \in Nat /\ TargetEntries \in Nat /\ Unlocked \notin Callers

VARIABLES
  ledger,      \* the lines of the task's ledger
  archive,     \* the facts in the archive
  repo,        \* the facts in the repository's ledger
  memoryMd,    \* the facts rendered in MEMORY.md
  locks,       \* who holds the lock file of each ledger
  clock,       \* Date.now()
  caller,      \* of each process: where it is and what it has read
  due,         \* history: the last facts acknowledged of each source
  spoiled      \* history: a promotion overlapped, a call failed or died, or
               \* two facts were written in the same millisecond

memoryVars == <<ledger, archive, repo, memoryMd, locks, clock, caller, due, spoiled>>

Fact(c, s, tool, key, ts) ==
  [event |-> "fact", by |-> c, source |-> s, tool |-> tool, key |-> key, ts |-> ts]
Stale(s, ts) == [event |-> "stale", source |-> s, ts |-> ts]
LockTimeout == [event |-> "lock_timeout"]
PointerSummary == [event |-> "pointer_summary"]

FactsIn(lines) == {e \in lines : e.event = "fact"}
StalesIn(lines) == {e \in lines : e.event = "stale"}
Times(es) == {e.ts : e \in es}

\* A fact is staled by its time alone.
collectActiveFacts(lines) == {f \in FactsIn(lines) : f.ts \notin Times(StalesIn(lines))}

DiscoveryFacts(facts) == {f \in facts : f.tool = "discovery-merge"}

NoCall == [at |-> "idle", source |-> CHOOSE s \in Sources : TRUE, read |-> {}]

MemoryInit ==
  /\ ledger = {} /\ archive = {} /\ repo = {} /\ memoryMd = {}
  /\ locks = [l \in {"task", "repo"} |-> Unlocked]
  /\ clock = 0
  /\ caller = [c \in Callers |-> NoCall]
  /\ due = {} /\ spoiled = FALSE

Tick ==
  /\ clock < MaxClock /\ clock' = clock + 1
  /\ UNCHANGED <<ledger, archive, repo, memoryMd, locks, caller, due, spoiled>>

Moves(c, at) == caller' = [caller EXCEPT ![c].at = at]
Reads(c, at, read) == caller' = [caller EXCEPT ![c].at = at, ![c].read = read]
Ends(c) == caller' = [caller EXCEPT ![c] = [NoCall EXCEPT !.at = "ended"]]

Capturing == {"promote", "unlink", "render", "renderWrite"}
InCapture(d) == caller[d].at \in Capturing
Busy(d) == caller[d].at \notin {"idle", "ended"}

\* Whether a fact is there of the time of one about to be written.
Clash(facts) == Times(facts) \cap Times(FactsIn(ledger) \cup archive \cup repo) # {}

\* A call starts; promotions and renderings that overlap others are noted.
Starts(c, call) ==
  /\ caller[c].at = "idle"
  /\ caller' = [caller EXCEPT ![c] = call]
  /\ spoiled' = (spoiled \/ \E d \in Callers \ {c} :
                              InCapture(d) \/ (Busy(d) /\ call.at \in Capturing))

Acquires(c, l) == locks[l] = Unlocked /\ locks' = [locks EXCEPT ![l] = c]
Releases(c, l) == locks' = [locks EXCEPT ![l] = Unlocked]

\* acquireLock gives up: a line that says so is appended without the lock, and
\* the call fails; a promotion goes on to render.
AcquireTimesOut(c) ==
  /\ \/ /\ caller[c].at \in {"edit", "merge", "compact"} /\ locks["task"] # Unlocked
        /\ ledger' = ledger \cup {LockTimeout}
        /\ Ends(c)
     \/ /\ caller[c].at = "promote" /\ locks["repo"] # Unlocked
        /\ Moves(c, "render")
        /\ UNCHANGED ledger
  /\ spoiled' = TRUE
  /\ UNCHANGED <<archive, repo, memoryMd, locks, clock, due>>

---------------------------------------------------------------------------
\* writeFact: the active facts of the file are staled, then its own is added.
StartEdit(c, s) ==
  /\ Starts(c, [at |-> "edit", source |-> s, read |-> {}])
  /\ UNCHANGED <<ledger, archive, repo, memoryMd, locks, clock, due>>

\* The times of the file's facts that no stale line of the file refers to.
scanActiveFactTimestamps(s) ==
  Times({f \in FactsIn(ledger) : f.source = s}) \ Times({e \in StalesIn(ledger) : e.source = s})

markStale(c) ==
  /\ caller[c].at = "edit" /\ Acquires(c, "task")
  /\ LET s == caller[c].source
     IN  ledger' = ledger \cup {Stale(s, t) : t \in scanActiveFactTimestamps(s)}
  /\ Moves(c, "append")
  /\ UNCHANGED <<archive, repo, memoryMd, clock, due, spoiled>>

\* The key ends in the content's digest, or in the time when there is none.
writeFact(c, hasContent) ==
  /\ caller[c].at = "append"
  /\ LET s == caller[c].source
         f == Fact(c, s, "edit", <<s, IF hasContent THEN "content" ELSE "time",
                                   IF hasContent THEN 0 ELSE clock>>, clock)
     IN  /\ ledger' = ledger \cup {f}
         /\ due' = {g \in due : g.source # s} \cup {f}
         /\ spoiled' = (spoiled \/ Clash({f}))
  /\ Releases(c, "task") /\ Ends(c)
  /\ UNCHANGED <<archive, repo, memoryMd, clock>>

---------------------------------------------------------------------------
\* writeDiscoveryFacts: times count up from the moment it was called.
Claims == {<<>>} \cup {<<s>> : s \in Sources} \cup {p \in Sources \X Sources : p[1] # p[2]}

StartMerge(c, claims) ==
  /\ Starts(c, [at |-> "merge", source |-> NoCall.source,
                read |-> {Fact(c, claims[i], "discovery-merge", <<claims[i], "claim", 0>>,
                               clock + i - 1) : i \in DOMAIN claims}])
  /\ UNCHANGED <<ledger, archive, repo, memoryMd, locks, clock, due>>

StalePrior(c) ==
  /\ caller[c].at = "merge" /\ Acquires(c, "task")
  /\ ledger' = ledger \cup {Stale(f.source, f.ts) :
                              f \in DiscoveryFacts(collectActiveFacts(ledger))}
  /\ Moves(c, "claims")
  /\ UNCHANGED <<archive, repo, memoryMd, clock, due, spoiled>>

writeDiscoveryFacts(c) ==
  /\ caller[c].at = "claims"
  /\ ledger' = ledger \cup caller[c].read
  /\ due' = (due \ DiscoveryFacts(due)) \cup caller[c].read
  /\ spoiled' = (spoiled \/ Clash(caller[c].read))
  /\ Releases(c, "task") /\ Ends(c)
  /\ UNCHANGED <<archive, repo, memoryMd, clock>>

\* An append fails: some of the lines are there, and the call reports it.
AppendFails(c) ==
  /\ \/ caller[c].at = "append" /\ UNCHANGED ledger
     \/ /\ caller[c].at = "claims"
        /\ \E some \in SUBSET caller[c].read : ledger' = ledger \cup some
  /\ Releases(c, "task") /\ Ends(c)
  /\ spoiled' = TRUE
  /\ UNCHANGED <<archive, repo, memoryMd, clock, due>>

---------------------------------------------------------------------------
\* compactLedger.  What is kept: facts neither staled nor expired, the oldest
\* of them replaced by a summary when there are too many; a stale line as long
\* as a fact of its time was there; every other line.
StartCompact(c) ==
  /\ Starts(c, [NoCall EXCEPT !.at = "compact"])
  /\ UNCHANGED <<ledger, archive, repo, memoryMd, locks, clock, due>>

Kept(lines, active, old) ==
  (active \ old)
    \cup {e \in StalesIn(lines) : e.ts \in Times(FactsIn(lines))}
    \cup {e \in lines : e.event \in {"lock_timeout", "pointer_summary"}}
    \cup (IF old = {} THEN {} ELSE {PointerSummary})

\* Mutant: every line that is dropped is archived.
ArchiveEveryLine(c, expiryCutoff) ==
  /\ caller[c].at = "compact" /\ Acquires(c, "task")
  /\ archive' = archive \cup (ledger \ collectActiveFacts(ledger))
  /\ Reads(c, "rename", Kept(ledger, collectActiveFacts(ledger), {}))
  /\ UNCHANGED <<ledger, repo, memoryMd, clock, due, spoiled>>

\* Mutant: what is only summarised is not archived.
ArchiveStaledOnly(c, expiryCutoff) ==
  /\ caller[c].at = "compact" /\ Acquires(c, "task")
  /\ LET active == {f \in collectActiveFacts(ledger) : f.ts >= expiryCutoff}
         excess == Cardinality(active) - TargetEntries
     IN  \E old \in SUBSET active :
           /\ Cardinality(old) = (IF excess > 0 THEN excess ELSE 0)
           /\ \A f \in old, g \in active \ old : f.ts <= g.ts
           /\ archive' = archive \cup (FactsIn(ledger) \ active)
           /\ Reads(c, "rename", Kept(ledger, active, old))
  /\ UNCHANGED <<ledger, repo, memoryMd, clock, due, spoiled>>

\* The archive first; the caller says what counts as expired.
appendArchive(c, expiryCutoff) ==
  /\ caller[c].at = "compact" /\ Acquires(c, "task")
  /\ LET active == {f \in collectActiveFacts(ledger) : f.ts >= expiryCutoff}
         excess == Cardinality(active) - TargetEntries
     IN  \E old \in SUBSET active :
           /\ Cardinality(old) = (IF excess > 0 THEN excess ELSE 0)
           /\ \A f \in old, g \in active \ old : f.ts <= g.ts
           /\ archive' = archive \cup (FactsIn(ledger) \ (active \ old))
           /\ Reads(c, "rename", Kept(ledger, active, old))
  /\ UNCHANGED <<ledger, repo, memoryMd, clock, due, spoiled>>

compactLedger(c) ==
  /\ caller[c].at = "rename"
  /\ \/ ledger' = caller[c].read
     \/ UNCHANGED ledger
  /\ Releases(c, "task") /\ Ends(c)
  /\ UNCHANGED <<archive, repo, memoryMd, clock, due, spoiled>>

---------------------------------------------------------------------------
\* captureMemory: promotion reads the task's ledger without its lock.
captureMemory(c) ==
  /\ Starts(c, [NoCall EXCEPT !.at = IF ledger = {} THEN "render" ELSE "promote",
                              !.read = collectActiveFacts(ledger)])
  /\ UNCHANGED <<ledger, archive, repo, memoryMd, locks, clock, due>>

Keys(facts) == {f.key : f \in facts}

\* promoteLedger up to the read-back, under the lock of the repository's
\* ledger: a fact of the key of a promoted one is replaced.  When the lines of
\* the task are not as many as were written now, it fails with them in place.
promoteLedger(c) ==
  /\ caller[c].at = "promote" /\ locks["repo"] = Unlocked
  /\ repo' = {f \in repo : f.key \notin Keys(caller[c].read)} \cup caller[c].read
  /\ IF Cardinality(repo') = Cardinality(caller[c].read)
     THEN locks' = [locks EXCEPT !["repo"] = c] /\ Moves(c, "unlink")
     ELSE UNCHANGED locks /\ Moves(c, "render")
  /\ UNCHANGED <<ledger, archive, memoryMd, clock, due, spoiled>>

RenameFails(c) ==
  /\ caller[c].at = "promote" /\ locks["repo"] = Unlocked
  /\ Moves(c, "render")
  /\ UNCHANGED <<ledger, archive, repo, memoryMd, locks, clock, due, spoiled>>

\* An unlink that fails is not an error.
UnlinkLedger(c) ==
  /\ caller[c].at = "unlink"
  /\ ledger' = {} \/ UNCHANGED ledger
  /\ Releases(c, "repo") /\ Moves(c, "render")
  /\ UNCHANGED <<archive, repo, memoryMd, clock, due, spoiled>>

renderMemory(c) ==
  /\ caller[c].at = "render"
  /\ Reads(c, "renderWrite", DiscoveryFacts(repo))
  /\ UNCHANGED <<ledger, archive, repo, memoryMd, locks, clock, due, spoiled>>

WriteMemoryMd(c) ==
  /\ caller[c].at = "renderWrite"
  /\ memoryMd' = caller[c].read
  /\ Ends(c)
  /\ UNCHANGED <<ledger, archive, repo, locks, clock, due, spoiled>>

\* A process dies; a lock file it holds stays.
CallerDies(c) ==
  /\ Busy(c) /\ Ends(c)
  /\ spoiled' = TRUE
  /\ UNCHANGED <<ledger, archive, repo, memoryMd, locks, clock, due>>

MemoryNext ==
  \/ Tick
  \/ \E c \in Callers :
       \/ \E s \in Sources : StartEdit(c, s)
       \/ markStale(c) \/ (\E hasContent \in BOOLEAN : writeFact(c, hasContent))
       \/ \E claims \in Claims : StartMerge(c, claims)
       \/ StalePrior(c) \/ writeDiscoveryFacts(c) \/ AppendFails(c) \/ AcquireTimesOut(c)
       \/ StartCompact(c) \/ (\E t \in 0..MaxClock : appendArchive(c, t)) \/ compactLedger(c)
       \/ captureMemory(c) \/ promoteLedger(c) \/ RenameFails(c) \/ UnlinkLedger(c)
       \/ renderMemory(c) \/ WriteMemoryMd(c)
       \/ CallerDies(c)

MemorySpec == MemoryInit /\ [][MemoryNext]_memoryVars

---------------------------------------------------------------------------
\* diagnoseMemory: the facts of a ledger are counted by their times.
firstBrokenStage ==
  LET activeCount(facts) == Cardinality(Times(facts))
  IN  IF repo = {} /\ collectActiveFacts(ledger) = {} /\ memoryMd = {} THEN "collection"
      ELSE IF collectActiveFacts(ledger) # {} /\ repo = {} THEN "promotion"
      ELSE IF activeCount(DiscoveryFacts(repo)) # Cardinality(memoryMd) THEN "render"
      ELSE "none"

MemoryTypeOK ==
  /\ \A e \in ledger : e.event \in {"fact", "stale", "lock_timeout", "pointer_summary"}
  /\ \A e \in archive \cup repo \cup memoryMd \cup due : e.event = "fact"
  /\ \A l \in {"task", "repo"} : locks[l] \in Callers \cup {Unlocked}
  /\ \A c \in Callers :
       caller[c].at \in {"idle", "ended", "edit", "append", "merge", "claims", "compact",
                         "rename", "promote", "unlink", "render", "renderWrite"}

(***************************************************************************)
(* While promotions overlap nothing, no call fails and no two facts share  *)
(* a millisecond, the memory keeps the last fact of each source: active in *)
(* the task's ledger, in the archive, or promoted; no older fact is active *)
(* in its place; and between calls MEMORY.md never lags a promotion.       *)
(***************************************************************************)
MemoryKeepsLast ==
  ~spoiled =>
    /\ \A f \in due : f \in archive \cup repo
                      \/ \/ f \in collectActiveFacts(ledger)
                         \/ \E c \in Callers : caller[c].at \in {"append", "claims"}
    /\ collectActiveFacts(ledger) \subseteq due
    /\ (\A c \in Callers : ~Busy(c)) =>
         memoryMd = DiscoveryFacts(repo) /\ firstBrokenStage # "render"

(***************************************************************************)
(* What discovery-facts.mjs:173 says of writing the facts of a merge, that *)
(* "Edit facts are never touched": none becomes inactive by it.            *)
(***************************************************************************)
EditFactsUntouched ==
  [][(\E c \in Callers : caller[c].at = "merge" /\ caller'[c].at = "claims") =>
       \A f \in collectActiveFacts(ledger) :
         f.tool = "edit" => f \in collectActiveFacts(ledger')]_memoryVars

=============================================================================
