--------------------------------- MODULE Dedup --------------------------------
(***************************************************************************)
(* Ellie's search for duplicate memories, a phase of the migration.  A run *)
(* lists the pairs of similar active memories that were not reviewed, cuts *)
(* them into clusters, and has a model decide on the clusters past the     *)
(* cursor, in their order: keep one and deprecate others, or merge all.    *)
(* Each write is a transaction of its own: the merged memory, the          *)
(* deprecation, each reviewed pair, the cursor.  A run that reviews no     *)
(* cluster takes the cursor back to the start; the phase is complete when  *)
(* a run finds no pair.  Meanwhile memories are extracted, imported,       *)
(* embedded, and those extracted from chats are deleted by a reset.        *)
(* One run is under way at a time.                                         *)
(***************************************************************************)
EXTENDS Naturals, Sequences, FiniteSets, FiniteSetsExt

CONSTANTS
    Extracted,          \* memories extracted from chats,
    FromElsewhere,      \* memories imported or added by hand,
    Merged,             \* and memories that merges may create
    Similar,            \* the pairs {a, b} above the threshold, the most similar first
    PairLimit,          \* the most pairs that a run looks at, reviewed or not
    MaxClustersPerRun,
    MaxDedupFaults      \* bound: runs cut short, resets and restarts of the phase

Memory == Extracted \cup FromElsewhere \cup Merged

ASSUME DedupAssumption ==
    /\ Memory \subseteq Nat \ {0}
    /\ Extracted \cap FromElsewhere = {} /\ Merged \cap (Extracted \cup FromElsewhere) = {}
    /\ Similar \in Seq({S \in SUBSET Memory : Cardinality(S) = 2})
    /\ PairLimit \in Nat \ {0} /\ MaxClustersPerRun \in Nat \ {0} /\ MaxDedupFaults \in Nat

VARIABLES
    mem,            \* per memory: its row
    reviewedPairs,  \* pairs in ellie_dedup_reviewed
    lastKey,        \* the cursor's cluster, {} for NULL
    run,            \* the run under way
    complete,       \* the phase is complete
    wiped,          \* memories whose successor was deleted by a reset
    dedupFaults

dedupVars == <<mem, reviewedPairs, lastKey, run, complete, wiped, dedupFaults>>

MemStatus == {"absent", "plain", "active", "deprecated", "deleted"}

\* A row: active and not embedded ("plain"), active and embedded, or deprecated; `by' is
\* superseded_by, or 0.
NoMemory == [status |-> "absent", by |-> 0]

NoRun == [pc |-> "idle"]

\* A run that found no memory has completed the phase.
DedupInit ==
    /\ mem = [i \in Memory |-> NoMemory]
    /\ reviewedPairs = {} /\ lastKey = {}
    /\ run = NoRun
    /\ complete \in BOOLEAN
    /\ wiped = {} /\ dedupFaults = 0

IsActive(i) == mem[i].status \in {"plain", "active"}

Deprecated == {i \in Memory : mem[i].status = "deprecated"}

Exists(i) == IsActive(i) \/ i \in Deprecated

-----------------------------------------------------------------------------
(* Mutants *)

\* The keeper may be deprecated too.
DecisionsUnchecked(C) == [keep : C, gone : SUBSET C]

\* A run that reviewed nothing leaves the cursor where it is.
CursorKept == lastKey

\* Only a decision that changed memories is recorded.
PairsOfChanged(C, gone) == IF gone = {} THEN {} ELSE {p \in SUBSET C : Cardinality(p) = 2}

-----------------------------------------------------------------------------
(* Clusters *)

\* The places in the order of similarity of pairs of active memories that are embedded.
Ranks == {n \in DOMAIN Similar : \A i \in Similar[n] : mem[i].status = "active"}

\* ListCandidatePairs and IsPairReviewed: the limit comes before the reviews.
OpenPairs ==
    {Similar[n] : n \in {n \in Ranks : Cardinality({k \in Ranks : k <= n}) <= PairLimit}}
        \ reviewedPairs

\* No pair leaves S.
Closed(S, pairs) == \A p \in pairs : p \cap S # {} => p \subseteq S

\* ClusterEllieDedupPairs: the connected components.
Clusters(pairs) ==
    LET closed == {S \in SUBSET UNION pairs : S # {} /\ Closed(S, pairs)} IN
    {S \in closed : \A T \in closed : T \subseteq S => T = S}

\* The order of the keys, which are the sorted identifiers joined: where two keys first
\* differ, the smaller one has the smaller identifier or has ended.
KeyAfter(C, K) ==
    /\ C # K
    /\ LET d == Min((C \ K) \cup (K \ C)) IN
        IF d \in K THEN \E i \in C : i > d ELSE \A i \in K : i < d

\* The clusters come in the order of their first members.
NextCluster(todo) == {C \in todo : \A D \in todo : Min(C) <= Min(D)}

-----------------------------------------------------------------------------
(* A run *)

Running(pc) == run.pc = pc

\* The run ends with an error, is cancelled, or its server stops.
RunEnds == run' = NoRun

Turn(todo, count) == [pc |-> "next", todo |-> todo, count |-> count]

\* The pairs, those that were reviewed, and the cursor are read; without any pair the run is
\* over and the phase complete.
StartRun ==
    /\ Running("idle") /\ ~ complete
    /\ LET pairs == OpenPairs IN
        IF pairs = {}
        THEN complete' = TRUE /\ lastKey' = {} /\ UNCHANGED run
        ELSE /\ run' = Turn({C \in Clusters(pairs) : lastKey # {} => KeyAfter(C, lastKey)}, 0)
             /\ UNCHANGED <<complete, lastKey>>
    /\ UNCHANGED <<mem, reviewedPairs, wiped, dedupFaults>>

\* The decisions without a merge that ValidateEllieDedupDecision accepts.
Decisions(C) == {d \in [keep : C, gone : SUBSET C] : d.keep \notin d.gone}

\* The identifiers that a merge may get; without one (a bound) no merge is decided.
Spare == {i \in Merged : mem[i] = NoMemory}

\* The model decides on the next cluster.
Review ==
    /\ Running("next")
    /\ \E C \in NextCluster(run.todo) :
        \/ /\ Spare # {}
           /\ run' = [pc |-> "merge", todo |-> run.todo, count |-> run.count, cluster |-> C]
        \/ \E d \in Decisions(C) :
            run' = [pc |-> IF d.gone = {} THEN "record" ELSE "deprecate", todo |-> run.todo,
                    count |-> run.count, cluster |-> C, gone |-> d.gone, by |-> d.keep]
    /\ UNCHANGED <<mem, reviewedPairs, lastKey, complete, wiped, dedupFaults>>

\* CreateMergedMemory.
CreateMerged ==
    /\ Running("merge")
    /\ \E i \in Spare :
        /\ mem' = [mem EXCEPT ![i].status = "plain"]
        /\ run' = [pc |-> "deprecate", todo |-> run.todo, count |-> run.count,
                   cluster |-> run.cluster, gone |-> run.cluster, by |-> i]
    /\ UNCHANGED <<reviewedPairs, lastKey, complete, wiped, dedupFaults>>

\* DeprecateMemories: one statement, refused if the successor of a row was deleted.
Deprecate ==
    /\ Running("deprecate")
    /\ LET rows == {i \in run.gone : IsActive(i)} IN
        IF rows = {} \/ Exists(run.by)
        THEN /\ mem' = [i \in Memory |-> IF i \in rows THEN [status |-> "deprecated", by |-> run.by]
                                                      ELSE mem[i]]
             /\ run' = [run EXCEPT !.pc = "record"]
        ELSE UNCHANGED mem /\ RunEnds
    /\ UNCHANGED <<reviewedPairs, lastKey, complete, wiped, dedupFaults>>

\* ellieDedupAllPairCombinations
PairsToRecord(C, gone) == {p \in SUBSET C : Cardinality(p) = 2}

\* RecordReviewedPair for each pair of the cluster; a memory that was deleted fails it.
Record ==
    /\ Running("record")
    /\ LET pairs == PairsToRecord(run.cluster, run.gone) IN
        IF \A i \in run.cluster : Exists(i)
        THEN reviewedPairs' = reviewedPairs \cup pairs /\ run' = [run EXCEPT !.pc = "cursor"]
        ELSE /\ \E some \in SUBSET {p \in pairs : \A i \in p : Exists(i)} :
                    reviewedPairs' = reviewedPairs \cup some
             /\ RunEnds
    /\ UNCHANGED <<mem, lastKey, complete, wiped, dedupFaults>>

\* UpsertCursor, and the limit of a run.
MoveCursor ==
    /\ Running("cursor")
    /\ lastKey' = run.cluster
    /\ run' = IF run.count + 1 < MaxClustersPerRun
              THEN Turn(run.todo \ {run.cluster}, run.count + 1) ELSE NoRun
    /\ UNCHANGED <<mem, reviewedPairs, complete, wiped, dedupFaults>>

AfterNothing == {}

\* No cluster is left; if none was reviewed the cursor starts over.
EndDedupRun ==
    /\ Running("next") /\ run.todo = {}
    /\ lastKey' = IF run.count = 0 THEN AfterNothing ELSE lastKey
    /\ RunEnds
    /\ UNCHANGED <<mem, reviewedPairs, complete, wiped, dedupFaults>>

DedupStep ==
    \/ StartRun \/ Review \/ CreateMerged \/ Deprecate \/ Record \/ MoveCursor \/ EndDedupRun

-----------------------------------------------------------------------------
(* Around a run *)

Spend == dedupFaults < MaxDedupFaults /\ dedupFaults' = dedupFaults + 1

\* A call fails, the model answers nothing that is accepted, or the server stops; of the pairs
\* some may have been recorded.
RunFails ==
    /\ ~ Running("idle")
    /\ Spend
    /\ RunEnds
    /\ \E some \in SUBSET (IF Running("record") THEN PairsToRecord(run.cluster, run.gone) ELSE {}) :
        /\ \A i \in UNION some : Exists(i)
        /\ reviewedPairs' = reviewedPairs \cup some
    /\ UNCHANGED <<mem, lastKey, complete, wiped>>

\* A memory is extracted or imported, and one is embedded.
Add(i) ==
    /\ i \in Extracted \cup FromElsewhere /\ mem[i] = NoMemory
    /\ mem' = [mem EXCEPT ![i].status = "plain"]
    /\ UNCHANGED <<reviewedPairs, lastKey, run, complete, wiped, dedupFaults>>

Embed(i) ==
    /\ mem[i].status = "plain"
    /\ mem' = [mem EXCEPT ![i].status = "active"]
    /\ UNCHANGED <<reviewedPairs, lastKey, run, complete, wiped, dedupFaults>>

\* ResetMemoryExtractionState: memories from chats, reviews and cursor are deleted, and the
\* phase is no longer complete.
ResetExtraction ==
    /\ Spend
    /\ LET deleted == {i \in Extracted : Exists(i)} IN
        /\ mem' = [i \in Memory |->
                    IF i \in deleted THEN [status |-> "deleted", by |-> 0]
                    ELSE IF mem[i].by \in deleted THEN [mem[i] EXCEPT !.by = 0] ELSE mem[i]]
        /\ wiped' = wiped \cup {i \in Deprecated \ deleted : mem[i].by \in deleted}
    /\ reviewedPairs' = {} /\ lastKey' = {} /\ complete' = FALSE
    /\ UNCHANGED run

\* The reset of the whole migration deletes all memories, and with them the reviews; the cursor
\* stays.
ResetAll ==
    /\ Spend
    /\ mem' = [i \in Memory |-> IF Exists(i) THEN [status |-> "deleted", by |-> 0] ELSE mem[i]]
    /\ reviewedPairs' = {} /\ complete' = FALSE
    /\ UNCHANGED <<lastKey, run, wiped>>

DedupNext ==
    \/ DedupStep
    \/ RunFails
    \/ ResetExtraction
    \/ ResetAll
    \/ \E i \in Memory : Add(i) \/ Embed(i)

DedupSpec == DedupInit /\ [][DedupNext]_dedupVars

-----------------------------------------------------------------------------
(* Properties *)

DedupTypeOK ==
    /\ mem \in [Memory -> [status : MemStatus, by : Memory \cup {0}]]
    /\ reviewedPairs \subseteq SUBSET Memory /\ lastKey \subseteq Memory
    /\ complete \in BOOLEAN /\ wiped \subseteq Memory /\ dedupFaults \in Nat

\* A deprecated memory has a successor that is there, unless a reset deleted it ...
SuccessorsExist ==
    \A i \in Deprecated \ wiped : mem[i].by # 0 /\ Exists(mem[i].by)

\* ... and no deprecated memories supersede each other in a circle.
NoCircle ==
    \A S \in SUBSET Deprecated : S # {} => \E i \in S : mem[i].by \notin S

\* Whatever the model decides and wherever a run is cut short, what a deprecated memory says is
\* in an active one, found by following superseded_by.
NoFactIsLost == SuccessorsExist /\ NoCircle

\* The phase completes, although each run reviews few clusters, memories that come in between
\* change the clusters and so their keys, and clusters behind the cursor are passed over.
DedupCompletes == []<>complete
=============================================================================
