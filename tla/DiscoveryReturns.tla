-------------------------- MODULE DiscoveryReturns --------------------------
(***************************************************************************)
(* What comes back from subagents: the SubagentStart hook indexes who was  *)
(* dispatched, the PostToolUse hooks attribute and persist each return,    *)
(* and every discovery return has all of them merged again into            *)
(* discovery-merged.json.  A return has two PostToolUse hooks:             *)
(* gate-advance files and merges it, post-tool-use files it too, and both  *)
(* write the one file in place.  Neither the index, nor a return, nor the  *)
(* merged artifact has a lock, and hooks overlap.                          *)
(*                                                                         *)
(* Abstracted: a reply is what extractAgentResult makes of it; a fact is a *)
(* number, near-duplicates being neighbours and the longer text the larger *)
(* one; an anchor is one line.  Only claims are merged here: the           *)
(* unverified items pass through.  The two hooks of a return name it       *)
(* alike: they would not if the index lost its dispatch between them.      *)
(***************************************************************************)
EXTENDS Integers, FiniteSets, Functions, SequencesExt, Ranking

CONSTANTS
  Waves,             \* dispatches, numbered; their ids sort in this order
  Artifacts,         \* sequences of claims a discovery worker may return
  MAX_ENTRIES,       \* of the index
  MaxClaims,         \* max_context_sources
  NoReturn           \* nothing persisted; nothing merged; no name

Dispatched == 1..Waves
AgentTypes == {"discovery", "fullstack"}
Claims == [file : STRING, anchor : Nat, fact : Int, conf : {"high", "low"}]
IndexEntries == [id : Dispatched, type : AgentTypes]

\* A reply: the name it gives itself, if any, and an artifact, which may be
\* no artifact a merge accepts.
Replies == [named : {"discovery", NoReturn}, artifact : Artifacts \cup {NoReturn}]
Returns == [name : AgentTypes, whole : BOOLEAN, reply : Replies]

\* What a merge makes of claims, and of all there are.
MergedClaims == [file : STRING, anchor : Nat, fact : Int, conf : {"high", "low"},
                 sources : SUBSET Dispatched, needsReview : BOOLEAN]
Merges == [from : SUBSET Dispatched, claims : SUBSET MergedClaims, dropped : SUBSET MergedClaims]

ASSUME ReturnsAssumption ==
  /\ Waves \in Nat /\ MAX_ENTRIES \in Nat /\ MaxClaims \in Nat \ {0}
  /\ Artifacts \subseteq Seq(Claims)
  /\ NoReturn \notin AgentTypes \cup Replies \cup Returns \cup Merges

VARIABLES
  index,       \* subagent-index.json: the dispatches with their types, in order
  returns,     \* worker-returns: the file of each dispatch
  mergedFacts, \* discovery-merged.json
  hook,        \* of each dispatch: where its start hook and then gate-advance is,
               \* and what it has read
  copy,        \* of each dispatch: where post-tool-use is with its return
  crossed      \* history: "start", hooks of two starts overlapped; "merge", those
               \* of two returns did, a merge met a copy, or one of them failed

returnsVars == <<index, returns, mergedFacts, hook, copy, crossed>>

NewHook == [at |-> "idle", type |-> "discovery", reply |-> NoReturn, name |-> NoReturn,
            index |-> <<>>, merged |-> NoReturn]

ReturnsInit ==
  /\ index = <<>> /\ mergedFacts = NoReturn /\ crossed = {}
  /\ returns = [d \in Dispatched |-> NoReturn]
  /\ hook = [d \in Dispatched |-> NewHook]
  /\ copy = [d \in Dispatched |-> "due"]

Others(d, ats) == \E e \in Dispatched \ {d} : hook[e].at \in ats

---------------------------------------------------------------------------
\* recordSubagentStart, before anything is decided about the dispatch.
ReadIndex(d, type) ==
  /\ hook[d].at = "idle"
  /\ hook' = [hook EXCEPT ![d].at = "indexing", ![d].type = type, ![d].index = index]
  /\ crossed' = IF Others(d, {"indexing"}) THEN crossed \cup {"start"} ELSE crossed
  /\ UNCHANGED <<index, returns, mergedFacts, copy>>

Newest(n, s) == IF Len(s) > n THEN SubSeq(s, Len(s) - n + 1, Len(s)) ELSE s

recordSubagentStart(d) ==
  /\ hook[d].at = "indexing"
  /\ index' = Newest(MAX_ENTRIES, Append(hook[d].index, [id |-> d, type |-> hook[d].type]))
  /\ hook' = [hook EXCEPT ![d].at = "running", ![d].index = <<>>]
  /\ UNCHANGED <<returns, mergedFacts, copy, crossed>>

\* A failure to write it is swallowed.
IndexWriteFails(d) ==
  /\ hook[d].at = "indexing"
  /\ hook' = [hook EXCEPT ![d].at = "running", ![d].index = <<>>]
  /\ crossed' = crossed \cup {"start"}
  /\ UNCHANGED <<index, returns, mergedFacts, copy>>

resolveAgentName(d) ==
  LET named == {e \in Range(index) : e.id = d}
  IN  IF named = {} THEN NoReturn ELSE (CHOOSE e \in named : TRUE).type

---------------------------------------------------------------------------
Attributed(d, reply) == IF resolveAgentName(d) # NoReturn THEN resolveAgentName(d) ELSE reply.named

\* A subagent returns.  A return that nobody can be named for, or with no object
\* in it, is reported and not filed.
Return(d, reply) ==
  /\ hook[d].at = "running"
  /\ hook' = IF Attributed(d, reply) = NoReturn
             THEN [hook EXCEPT ![d].at = "refused"]
             ELSE [hook EXCEPT ![d].at = "returned", ![d].reply = reply,
                               ![d].name = Attributed(d, reply)]
  /\ UNCHANGED <<index, returns, mergedFacts, copy, crossed>>

EmptyReply(d) ==
  /\ hook[d].at = "running"
  /\ hook' = [hook EXCEPT ![d].at = "refused"]
  /\ UNCHANGED <<index, returns, mergedFacts, copy, crossed>>

\* A write in place: the file is torn when opened, whole once written.
File(d, whole) ==
  returns' = [returns EXCEPT ![d] = [name |-> hook[d].name, whole |-> whole, reply |-> hook[d].reply]]

\* gate-advance files it, and projects it even if it could not be filed.
Onward(d) == IF hook[d].name = "discovery" THEN "merging" ELSE "done"

persistWorkerReturn(d) ==
  /\ hook[d].at = "returned"
  /\ File(d, FALSE)
  /\ hook' = [hook EXCEPT ![d].at = "persisting"]
  /\ crossed' = IF Others(d, {"persisting", "merging", "writing"})
                THEN crossed \cup {"merge"} ELSE crossed
  /\ UNCHANGED <<index, mergedFacts, copy>>

ReturnWritten(d) ==
  /\ hook[d].at = "persisting"
  /\ File(d, TRUE)
  /\ hook' = [hook EXCEPT ![d].at = Onward(d)]
  /\ UNCHANGED <<index, mergedFacts, copy, crossed>>

PersistFails(d) ==
  /\ hook[d].at \in {"returned", "persisting"}
  /\ hook' = [hook EXCEPT ![d].at = Onward(d)]
  /\ crossed' = crossed \cup {"merge"}
  /\ UNCHANGED <<index, returns, mergedFacts, copy>>

\* post-tool-use files it as well, before, during or after that.
CopyReturn(d) ==
  /\ copy[d] = "due" /\ hook[d].name # NoReturn
  /\ File(d, FALSE)
  /\ copy' = [copy EXCEPT ![d] = "writing"]
  /\ UNCHANGED <<index, mergedFacts, hook, crossed>>

CopyWritten(d) ==
  /\ copy[d] = "writing"
  /\ File(d, TRUE)
  /\ copy' = [copy EXCEPT ![d] = "done"]
  /\ UNCHANGED <<index, mergedFacts, hook, crossed>>

CopyFails(d) ==
  /\ copy[d] = "writing"
  /\ copy' = [copy EXCEPT ![d] = "done"]
  /\ crossed' = crossed \cup {"merge"}
  /\ UNCHANGED <<index, returns, mergedFacts, hook>>

---------------------------------------------------------------------------
\* readDiscoveryReturns: by file name, which starts with the agent's; a file
\* that does not parse is left out, and so is a return that does not name itself.
Sorts(d, e) ==
  IF returns[d].name = returns[e].name THEN d < e ELSE returns[d].name = "discovery"
readDiscoveryReturns ==
  InOrder({d \in Dispatched : /\ returns[d] # NoReturn
                              /\ returns[d].whole /\ returns[d].reply.named = "discovery"},
          Sorts)

\* Only one of two anchors, or none, asks for nothing but a similar fact.
Near(f, g) == f - g \in -1..1
Eligible(k, c) ==
  /\ k.file = c.file /\ Near(k.fact, c.fact)
  /\ k.anchor # 0 /\ c.anchor # 0 => k.anchor = c.anchor

findMergeTarget(clusters, c) ==
  LET fit == {i \in DOMAIN clusters : Eligible(clusters[i], c)}
  IN  IF fit = {} THEN 0 ELSE CHOOSE i \in fit : \A j \in fit : i <= j

Cluster(c, from) ==
  [file |-> c.file, anchor |-> c.anchor, fact |-> c.fact, conf |-> c.conf, sources |-> {from}]

\* Mutant: a near-duplicate replaces the cluster it falls into.
AbsorbReplaces(clusters, c, from) ==
  LET i == findMergeTarget(clusters, c)
  IN  IF i = 0 THEN Append(clusters, Cluster(c, from))
      ELSE [clusters EXCEPT ![i] = Cluster(c, from)]

\* The text, its anchor with it, of the longer of two near-duplicates is kept.
Absorb(clusters, c, from) ==
  LET i == findMergeTarget(clusters, c)
      longer == c.fact > clusters[i].fact
  IN  IF i = 0 THEN Append(clusters, Cluster(c, from))
      ELSE [clusters EXCEPT ![i].sources = @ \cup {from},
                            ![i].conf = IF c.conf = "high" THEN "high" ELSE @,
                            ![i].fact = IF longer THEN c.fact ELSE @,
                            ![i].anchor = IF longer THEN c.anchor ELSE @]

\* Two sources corroborate each other; two clusters about one file conflict.
Judged(clusters) ==
  [i \in DOMAIN clusters |->
     [file |-> clusters[i].file, anchor |-> clusters[i].anchor, fact |-> clusters[i].fact,
      conf |-> IF Cardinality(clusters[i].sources) >= 2 THEN "high" ELSE clusters[i].conf,
      sources |-> clusters[i].sources,
      needsReview |-> \E j \in DOMAIN clusters \ {i} : clusters[j].file = clusters[i].file]]

Outranks(clusters, i, j) ==
  LET m == Cardinality(clusters[i].sources)
      n == Cardinality(clusters[j].sources)
  IN  \/ m > n
      \/ m = n /\ clusters[i].conf = "high" /\ clusters[j].conf = "low"
      \/ m = n /\ clusters[i].conf = clusters[j].conf /\ i < j

\* A return that is not a valid artifact is counted and skipped.
ClaimsOf(d) == IF returns[d].reply.artifact = NoReturn THEN <<>> ELSE returns[d].reply.artifact
Into(clusters, d) == FoldLeft(LAMBDA k, c : Absorb(k, c, d), clusters, ClaimsOf(d))
Clusters(from) == FoldLeft(Into, <<>>, from)
RankedClusters(clusters) == InOrder(DOMAIN clusters, LAMBDA i, j : Outranks(clusters, i, j))

\* What is dropped by the cap is named among the unverified items.
mergeDiscoveryArtifacts(from) ==
  LET clusters == Judged(Clusters(from))
      ranked == RankedClusters(clusters)
  IN  [from |-> Range(from),
       claims |-> {clusters[ranked[i]] : i \in DOMAIN ranked \cap 1..MaxClaims},
       dropped |-> {clusters[ranked[i]] : i \in DOMAIN ranked \ 1..MaxClaims}]

\* The projection of a discovery return: everything on disk is merged again.
MergeRead(d) ==
  /\ hook[d].at = "merging"
  /\ hook' = IF readDiscoveryReturns = <<>>
             THEN [hook EXCEPT ![d].at = "done"]
             ELSE [hook EXCEPT ![d].at = "writing",
                               ![d].merged = mergeDiscoveryArtifacts(readDiscoveryReturns)]
  /\ crossed' = IF \E e \in Dispatched : copy[e] = "writing"
                THEN crossed \cup {"merge"} ELSE crossed
  /\ UNCHANGED <<index, returns, mergedFacts, copy>>

MergeWrite(d) ==
  /\ hook[d].at = "writing"
  /\ mergedFacts' = hook[d].merged
  /\ hook' = [hook EXCEPT ![d].at = "done", ![d].merged = NoReturn]
  /\ UNCHANGED <<index, returns, copy, crossed>>

\* gate-advance dies, or the write of the artifact fails.
ReturnHookDies(d) ==
  /\ hook[d].at \in {"returned", "persisting", "merging", "writing"}
  /\ hook' = [hook EXCEPT ![d].at = "refused", ![d].merged = NoReturn]
  /\ crossed' = crossed \cup {"merge"}
  /\ UNCHANGED <<index, returns, mergedFacts, copy>>

ReturnsNext ==
  \E d \in Dispatched :
    \/ \E type \in AgentTypes : ReadIndex(d, type)
    \/ recordSubagentStart(d)
    \/ IndexWriteFails(d)
    \/ \E reply \in Replies : Return(d, reply)
    \/ EmptyReply(d)
    \/ persistWorkerReturn(d) \/ ReturnWritten(d) \/ PersistFails(d)
    \/ CopyReturn(d) \/ CopyWritten(d) \/ CopyFails(d)
    \/ MergeRead(d)
    \/ MergeWrite(d)
    \/ ReturnHookDies(d)

ReturnsSpec == ReturnsInit /\ [][ReturnsNext]_returnsVars

---------------------------------------------------------------------------
ReturnsTypeOK ==
  /\ index \in Seq(IndexEntries) /\ Len(index) <= MAX_ENTRIES
  /\ returns \in [Dispatched -> Returns \cup {NoReturn}]
  /\ hook \in [Dispatched -> [at : {"idle", "indexing", "running", "refused", "returned",
                                   "persisting", "merging", "writing", "done"},
                             type : AgentTypes, reply : Replies \cup {NoReturn},
                             name : AgentTypes \cup {NoReturn}, index : Seq(IndexEntries),
                             merged : Merges \cup {NoReturn}]]
  /\ \A d \in Dispatched : hook[d].at = "writing" => hook[d].merged # NoReturn
  /\ copy \in [Dispatched -> {"due", "writing", "done"}]
  /\ crossed \subseteq {"start", "merge"}
  /\ mergedFacts \in Merges \cup {NoReturn}

Returned(d) == /\ returns[d] # NoReturn
               /\ returns[d].name = "discovery" /\ returns[d].reply.named = "discovery"

\* Merging loses no worker's voice and invents no certainty: every claim of a
\* merged return is behind a claim about its file that names the worker, kept or
\* named as dropped by the cap; a high claim was high to one of its workers or
\* has two; one that is not flagged for review is alone about its file; and none
\* that was dropped has more workers behind it than one that was kept.
MergeKeepsEveryVoice ==
  mergedFacts # NoReturn =>
    LET said(w) == Range(ClaimsOf(w))
        all == mergedFacts.claims \cup mergedFacts.dropped
    IN  /\ \A d \in mergedFacts.from : \A c \in said(d) :
             \E k \in all : k.file = c.file /\ d \in k.sources
        /\ \A k \in all :
             /\ k.conf = "high" => \/ Cardinality(k.sources) >= 2
                                   \/ \E e \in k.sources : \E c \in said(e) :
                                        c.file = k.file /\ c.conf = "high"
             /\ ~k.needsReview => \A other \in all \ {k} : other.file # k.file
        /\ \A k \in mergedFacts.claims, x \in mergedFacts.dropped :
             Cardinality(k.sources) >= Cardinality(x.sources)

\* While start hooks do not overlap and none fails, a return is filed under the
\* type it was dispatched as, whatever name it gives itself, as long as the index
\* has room.  While no two returns are filed and merged at once, no merge reads
\* while a return is being copied, and no write fails, the merged artifact has
\* every discovery return that names itself and whose hook is done, however many
\* are about to be filed.
ReturnsAttributedAndMerged ==
  /\ "start" \notin crossed /\ Cardinality({d \in Dispatched : hook[d].at # "idle"}) <= MAX_ENTRIES
       => \A d \in Dispatched : returns[d] # NoReturn => returns[d].name = hook[d].type
  /\ /\ "merge" \notin crossed
     /\ \A e \in Dispatched : hook[e].at \notin {"persisting", "merging", "writing"}
     => \A d \in Dispatched : Returned(d) /\ hook[d].at = "done" =>
          mergedFacts # NoReturn /\ d \in mergedFacts.from

\* The join: nothing a worker said is lost, and nothing is joined that it did not say.
ReturnsJoined == MergeKeepsEveryVoice /\ ReturnsAttributedAndMerged

\* "One merged artifact over many worker files, so each return re-merges the
\* whole set [...] and the artifact always reflects every worker that has come
\* back" (gate-advance.mjs): two hooks that merge at once leave the older merge,
\* and one that merges while post-tool-use rewrites the same return leaves it out.
ArtifactReflectsEveryWorker ==
  (\A e \in Dispatched : hook[e].at \in {"idle", "indexing", "running", "done"})
  => \A d \in Dispatched : Returned(d) => mergedFacts # NoReturn /\ d \in mergedFacts.from
=============================================================================
