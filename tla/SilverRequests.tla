--------------------------- MODULE SilverRequests ---------------------------
(***************************************************************************)
(* build_silver_requests of src/lakehouse/silver.py: bronze rows of the    *)
(* request stream are deduplicated, reduced to one row per request and     *)
(* merged into silver_service_requests.                                    *)
(*                                                                         *)
(* An event is a lifecycle message; its request and updated_at are fixed.  *)
(* A bronze row is <<event, offset>>: a replayed batch writes the same row *)
(* again, an event sent twice has rows at two offsets.  All events of a    *)
(* request are on one partition (the producer keys by request_id), so      *)
(* offsets of rows that are ever compared are offsets of one log.  A       *)
(* silver row is known by its event: silver selects no Kafka column.       *)
(***************************************************************************)
EXTENDS Integers, FiniteSets

CONSTANTS
    Events,         \* event_ids
    Requests,       \* request_ids
    MaxTime,        \* bound: updated_at is in 0 .. MaxTime
    MaxOffset,      \* bound: rows that reach bronze
    MaxCrashes      \* bound: builds that die

ASSUME SilverAssumption ==
    /\ MaxTime \in Nat
    /\ MaxOffset \in Nat
    /\ MaxCrashes \in Nat

Times == 0 .. MaxTime
Rows  == Events \X (0 .. MaxOffset - 1)

VARIABLES
    request,    \* event -> its request_id
    updated,    \* event -> its updated_at
    bronze,     \* rows of bronze_service_requests
    next,       \* the next offset of the topic
    pc,         \* "idle", or "merge" between the read and the write of a build
    source,     \* the staged rows of the build under way
    reading,    \* the bronze rows that build has read
    exists,     \* the silver table has been created
    silver,     \* its rows
    built,      \* bronze as the last finished build had read it
    crashes     \* builds that died (bounded by MaxCrashes)

eventVars  == <<request, updated>>
bronzeVars == <<bronze, next>>
buildVars  == <<pc, source, reading>>
silverVars == <<exists, silver, built>>
vars == <<eventVars, bronzeVars, buildVars, silverVars, crashes>>

EmptyTables ==
    /\ bronze = {}
    /\ next = 0
    /\ pc = "idle"
    /\ source = {}
    /\ reading = {}
    /\ exists = FALSE
    /\ silver = {}
    /\ built = {}
    /\ crashes = 0

Init ==
    /\ request \in [Events -> Requests]
    /\ updated \in [Events -> Times]
    /\ EmptyTables

-----------------------------------------------------------------------------
(***************************************************************************)
(* unique(subset=["event_id"], keep="first"): one row of each event.       *)
(* Delta returns rows in no particular order, so any of them may be first. *)
(***************************************************************************)
EventsOf(R) == {x[1] : x \in R}

Deduplicated(R, D) ==
    /\ D \subseteq R
    /\ \A x, y \in D : x[1] = y[1] => x = y
    /\ EventsOf(D) = EventsOf(R)

\* Mutant of Newer: the offset alone decides.
NewerByOffset(x, y) == x[2] > y[2]

\* The order of _stage_latest_per_request: updated_at, then the offset.
Newer(x, y) ==
    \/ updated[x[1]] > updated[y[1]]
    \/ updated[x[1]] = updated[y[1]] /\ x[2] > y[2]

\* Mutant of Latest: all rows with the highest updated_at.
LatestWithTies(D) ==
    {x \in D : \A y \in D : request[y[1]] = request[x[1]] => updated[y[1]] <= updated[x[1]]}

\* _stage_latest_per_request: the last row of each request in that order.
Latest(D) ==
    {x \in D : \A y \in D : request[y[1]] = request[x[1]] => y = x \/ Newer(x, y)}

(***************************************************************************)
(* The MERGE on request_id of the staged events S into the table T.        *)
(***************************************************************************)
Matches(e, d) == request[e] = request[d]

Updating(T, S) ==
    {e \in S : \E d \in T : Matches(e, d) /\ updated[e] > updated[d]}

\* Mutant of Inserting: nothing.
InsertingNothing(T, S) == {}

Inserting(T, S) == {e \in S : \A d \in T : ~ Matches(e, d)}

\* Mutant of Untouched: a matched row goes whether or not it is updated.
UnmatchedOnly(T, S) == {d \in T : \A e \in S : ~ Matches(e, d)}

Untouched(T, S) ==
    {d \in T : \A e \in S : ~ (Matches(e, d) /\ updated[e] > updated[d])}

\* Mutants of Merged: an unconditional update; no update clause.
MergedReplacing(T, S)  == UnmatchedOnly(T, S) \cup S
MergedInsertOnly(T, S) == T \cup Inserting(T, S)

Merged(T, S) == Untouched(T, S) \cup Updating(T, S) \cup Inserting(T, S)

-----------------------------------------------------------------------------
\* The ingestion appends a row of event e: a first one, or another copy.
Ingest(e) ==
    /\ next < MaxOffset
    /\ bronze' = bronze \cup {<<e, next>>}
    /\ next' = next + 1
    /\ UNCHANGED <<eventVars, buildVars, silverVars, crashes>>

\* build_silver_requests reads bronze (an error when there is none yet),
\* deduplicates it and stages the latest row of each request.
BuildRead ==
    /\ pc = "idle"
    /\ bronze # {}
    /\ \E D \in SUBSET bronze : Deduplicated(bronze, D) /\ source' = Latest(D)
    /\ reading' = bronze
    /\ pc' = "merge"
    /\ UNCHANGED <<eventVars, bronzeVars, silverVars, crashes>>

Finish ==
    /\ built' = reading
    /\ pc' = "idle"
    /\ source' = {}
    /\ reading' = {}
    /\ UNCHANGED <<eventVars, bronzeVars, crashes>>

\* No silver table yet: the staged rows become it.
FirstLoad ==
    /\ pc = "merge"
    /\ ~ exists
    /\ exists' = TRUE
    /\ silver' = EventsOf(source)
    /\ Finish

\* The table is there: one atomic Delta MERGE.
Merge ==
    /\ pc = "merge"
    /\ exists
    /\ silver' = Merged(silver, EventsOf(source))
    /\ UNCHANGED exists
    /\ Finish

\* The build dies between its read and its write.
Crash ==
    /\ pc = "merge"
    /\ crashes < MaxCrashes
    /\ crashes' = crashes + 1
    /\ pc' = "idle"
    /\ source' = {}
    /\ reading' = {}
    /\ UNCHANGED <<eventVars, bronzeVars, silverVars>>

Next ==
    \/ \E e \in Events : Ingest(e)
    \/ BuildRead \/ FirstLoad \/ Merge \/ Crash

Spec == Init /\ [][Next]_vars

\* Builds are run again and again, and a build that does not die ends.
Fairness == WF_vars(BuildRead) /\ WF_vars(FirstLoad \/ Merge)

FairSpec == Spec /\ Fairness

-----------------------------------------------------------------------------
TypeOK ==
    /\ request \in [Events -> Requests]
    /\ updated \in [Events -> Times]
    /\ bronze \subseteq Rows
    /\ next \in 0 .. MaxOffset
    /\ pc \in {"idle", "merge"}
    /\ source \subseteq Rows
    /\ reading \subseteq Rows
    /\ exists \in BOOLEAN
    /\ silver \subseteq Events
    /\ built \subseteq Rows
    /\ crashes \in 0 .. MaxCrashes

SourceIsUnambiguous == \A x, y \in source : request[x[1]] = request[y[1]] => x = y
SilverIsUnambiguous == \A d, e \in silver : request[d] = request[e] => d = e

(***************************************************************************)
(* "one row per request holding its CURRENT state": silver never has two   *)
(* rows of a request, after any sequence of replays, builds and crashes,   *)
(* and the staged rows never match one target row twice ("Multiple source  *)
(* rows matched the same target row"), whatever copies and ties there are. *)
(***************************************************************************)
OneRowPerRequest == SourceIsUnambiguous /\ SilverIsUnambiguous

Untied == \A d, e \in Events : d # e /\ request[d] = request[e] => updated[d] # updated[e]

(***************************************************************************)
(* Silver is what staging the bronze of the last finished build gives:     *)
(* merging increments onto an old table comes to the same rows as staging  *)
(* everything at once, where updated_at alone orders the events of a       *)
(* request, as it does for everything the producer makes.  (With ties it   *)
(* need not: staging breaks them by offset, the merge keeps the old row.)  *)
(***************************************************************************)
UntiedSilverEqualsStaging ==
    Untied => \E D \in SUBSET built : Deduplicated(built, D) /\ silver = EventsOf(Latest(D))

(***************************************************************************)
(* "a replayed older event must not resurrect a stale status": a request   *)
(* in silver stays there, and its updated_at never goes back.              *)
(***************************************************************************)
SilverNeverRegresses ==
    [][\A d \in silver : \E e \in silver' :
           request[e] = request[d] /\ updated[e] >= updated[d]]_vars

(***************************************************************************)
(* Building again from the same bronze changes nothing, even where the     *)
(* choice among copies and ties falls differently the second time.         *)
(***************************************************************************)
RebuildChangesNothing ==
    [][pc = "merge" /\ exists /\ reading = built => silver' = silver]_vars

(***************************************************************************)
(* A request whose event reached bronze is in silver in the end, in a      *)
(* state at least as recent, if only finitely many builds die.             *)
(***************************************************************************)
EveryEventIsReflected ==
    \A e \in Events : e \in EventsOf(bronze) ~>
        \E d \in silver : request[d] = request[e] /\ updated[d] >= updated[e]

=============================================================================
