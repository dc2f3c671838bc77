---------------------------- MODULE SilverProofs ----------------------------
(***************************************************************************)
(* Proofs about SilverRequests, for all events, requests and update times, *)
(* with ties or without, and any number of rows, builds and crashes; and   *)
(* about RequestFlow, which implements it, for all draws and runs; only    *)
(* there are the assumptions of the flow and of its durations used.        *)
(***************************************************************************)
EXTENDS RequestFlow, NaturalsInduction, WellFoundedInduction, TLAPS

\* The inductive invariant.  A source can only be used as the merge expects
\* it if the staging left one row per request, and the merge keeps silver
\* that way only if it was.
SilverInv ==
    /\ TypeOK
    /\ SourceIsUnambiguous
    /\ SilverIsUnambiguous
    /\ exists \/ silver = {}

-----------------------------------------------------------------------------
(* The staging order cannot put two rows before each other. *)
LEMMA NewerIsAsymmetric ==
    ASSUME TypeOK, NEW x \in Rows, NEW y \in Rows, Newer(x, y)
    PROVE  ~ Newer(y, x)
<1>1. /\ updated[x[1]] \in Int /\ updated[y[1]] \in Int
      /\ x[2] \in Int /\ y[2] \in Int
  BY SilverAssumption DEF TypeOK, Rows, Times
<1>2. QED
  BY <1>1 DEF Newer

(* Staging leaves one row of each request. *)
LEMMA LatestIsUnambiguous ==
    ASSUME TypeOK, NEW D \in SUBSET Rows, NEW x \in Latest(D), NEW y \in Latest(D),
           request[x[1]] = request[y[1]]
    PROVE  x = y
<1>1. x \in D /\ y \in D
  BY DEF Latest
<1>2. (y = x \/ Newer(x, y)) /\ (x = y \/ Newer(y, x))
  BY <1>1 DEF Latest
<1>3. QED
  BY <1>1, <1>2, NewerIsAsymmetric

(* The events of an unambiguous set of rows are one per request. *)
LEMMA UnambiguousEvents ==
    ASSUME SourceIsUnambiguous, NEW d \in EventsOf(source), NEW e \in EventsOf(source),
           request[d] = request[e]
    PROVE  d = e
BY DEF EventsOf, SourceIsUnambiguous

(* Merging one event per request into one row per request keeps it so. *)
LEMMA MergedIsUnambiguous ==
    ASSUME NEW T, NEW U,
           \A d, e \in T : request[d] = request[e] => d = e,
           \A d, e \in U : request[d] = request[e] => d = e
    PROVE  \A d, e \in Merged(T, U) : request[d] = request[e] => d = e
<1> SUFFICES ASSUME NEW d \in Merged(T, U), NEW e \in Merged(T, U), request[d] = request[e]
             PROVE  d = e
  OBVIOUS
<1> USE DEF Merged, Untouched, Updating, Inserting, Matches
<1>1. CASE d \in T /\ e \in T
  BY <1>1
<1>2. CASE d \in U /\ e \in U
  BY <1>2
<1>3. CASE d \in Untouched(T, U) /\ e \in Updating(T, U)
  <2>1. PICK c \in T : Matches(e, c) /\ updated[e] > updated[c]
    BY <1>3
  <2>2. c = d
    BY <1>3, <2>1
  <2>3. QED
    BY <1>3, <2>1, <2>2
<1>4. CASE d \in Updating(T, U) /\ e \in Untouched(T, U)
  <2>1. PICK c \in T : Matches(d, c) /\ updated[d] > updated[c]
    BY <1>4
  <2>2. c = e
    BY <1>4, <2>1
  <2>3. QED
    BY <1>4, <2>1, <2>2
<1>5. CASE d \in Untouched(T, U) /\ e \in Inserting(T, U)
  BY <1>5
<1>6. CASE d \in Inserting(T, U) /\ e \in Untouched(T, U)
  BY <1>6
<1>7. QED
  BY <1>1, <1>2, <1>3, <1>4, <1>5, <1>6

(* Merging never removes a request and never takes it back in time. *)
LEMMA MergedKeepsUp ==
    ASSUME TypeOK, NEW U \in SUBSET Events, NEW d \in silver
    PROVE  \E e \in Merged(silver, U) : request[e] = request[d] /\ updated[e] >= updated[d]
<1>1. d \in Events /\ updated[d] \in Int
  BY SilverAssumption DEF TypeOK, Times
<1>2. CASE d \in Untouched(silver, U)
  BY <1>1, <1>2 DEF Merged
<1>3. CASE d \notin Untouched(silver, U)
  <2>1. PICK e \in U : Matches(e, d) /\ updated[e] > updated[d]
    BY <1>3 DEF Untouched
  <2>2. updated[e] \in Int
    BY SilverAssumption DEF TypeOK, Times
  <2>3. e \in Merged(silver, U) /\ request[e] = request[d]
    BY <2>1 DEF Merged, Updating, Matches
  <2>4. updated[e] >= updated[d]
    BY <1>1, <2>1, <2>2
  <2>5. QED
    BY <2>3, <2>4
<1>4. QED
  BY <1>2, <1>3

-----------------------------------------------------------------------------
(* The initial state satisfies the invariant. *)
LEMMA SilverInitInv == Init => SilverInv
<1> SUFFICES ASSUME Init PROVE SilverInv
  OBVIOUS
<1>1. 0 \in 0 .. MaxOffset /\ 0 \in 0 .. MaxCrashes
  BY SilverAssumption
<1>2. TypeOK
  BY <1>1 DEF Init, EmptyTables, TypeOK
<1>3. QED
  BY <1>2 DEF Init, EmptyTables, SilverInv, SourceIsUnambiguous, SilverIsUnambiguous

(* Every step preserves the invariant. *)
LEMMA SilverNextInv == SilverInv /\ [Next]_vars => SilverInv'
<1> SUFFICES ASSUME SilverInv, [Next]_vars PROVE SilverInv'
  OBVIOUS
<1> USE SilverAssumption DEF SilverInv, eventVars, bronzeVars, buildVars, silverVars
<1>1. CASE \E e \in Events : Ingest(e)
  <2>1. PICK e \in Events : Ingest(e)
    BY <1>1
  <2>2. bronze' \subseteq Rows /\ next' \in 0 .. MaxOffset
    <3>1. next \in 0 .. MaxOffset - 1
      BY <2>1 DEF Ingest, TypeOK
    <3>2. <<e, next>> \in Rows
      BY <3>1 DEF Rows
    <3>3. QED
      BY <2>1, <3>1, <3>2 DEF Ingest, TypeOK
  <2>3. QED
    BY <2>1, <2>2 DEF Ingest, TypeOK, SourceIsUnambiguous, SilverIsUnambiguous
<1>2. CASE BuildRead
  <2>1. PICK D \in SUBSET bronze : source' = Latest(D)
    BY <1>2 DEF BuildRead
  <2>2. D \in SUBSET Rows /\ source' \subseteq Rows
    BY <2>1 DEF TypeOK, Latest
  <2>3. SourceIsUnambiguous'
    BY <1>2, <2>1, <2>2, LatestIsUnambiguous DEF BuildRead, SourceIsUnambiguous
  <2>4. QED
    BY <1>2, <2>2, <2>3 DEF BuildRead, TypeOK, SilverIsUnambiguous
<1>3. CASE FirstLoad
  <2>1. EventsOf(source) \subseteq Events
    BY DEF TypeOK, EventsOf, Rows
  <2>2. SilverIsUnambiguous'
    BY <1>3, UnambiguousEvents DEF FirstLoad, Finish, SilverIsUnambiguous
  <2>3. QED
    BY <1>3, <2>1, <2>2 DEF FirstLoad, Finish, TypeOK, SourceIsUnambiguous
<1>4. CASE Merge
  <2>1. EventsOf(source) \subseteq Events
    BY DEF TypeOK, EventsOf, Rows
  <2>2. Merged(silver, EventsOf(source)) \subseteq Events
    BY <2>1 DEF TypeOK, Merged, Untouched, Updating, Inserting
  <2>3. SilverIsUnambiguous'
    BY <1>4, UnambiguousEvents, MergedIsUnambiguous DEF Merge, Finish, SilverIsUnambiguous
  <2>4. QED
    BY <1>4, <2>2, <2>3 DEF Merge, Finish, TypeOK, SourceIsUnambiguous
<1>5. CASE Crash
  BY <1>5 DEF Crash, TypeOK, SourceIsUnambiguous, SilverIsUnambiguous
<1>6. CASE UNCHANGED vars
  BY <1>6 DEF vars, TypeOK, SourceIsUnambiguous, SilverIsUnambiguous
<1>7. QED
  BY <1>1, <1>2, <1>3, <1>4, <1>5, <1>6 DEF Next

(* The invariant holds of every behaviour. *)
THEOREM SilverInvariant == Spec => []SilverInv
BY SilverInitInv, SilverNextInv, PTL DEF Spec

(* Silver never holds two rows of one request, and the staged rows never    *)
(* match one target row twice.                                              *)
THEOREM SilverHasOneRowPerRequest == Spec => []OneRowPerRequest
<1>1. SilverInv => OneRowPerRequest
  BY DEF SilverInv, OneRowPerRequest
<1>2. QED
  BY <1>1, SilverInvariant, PTL

(* No request leaves silver or goes back to an earlier updated_at, whatever *)
(* rows are replayed and whatever builds die.                               *)
THEOREM SilverOnlyMovesForward == Spec => SilverNeverRegresses
<1> DEFINE Forward == \A d \in silver : \E e \in silver' :
                         request[e] = request[d] /\ updated[e] >= updated[d]
<1>1. SilverInv /\ [Next]_vars => [Forward]_vars
  <2> SUFFICES ASSUME SilverInv, Next PROVE Forward
    OBVIOUS
  <2>1. \A d \in silver : updated[d] \in Int
    BY SilverAssumption DEF SilverInv, TypeOK, Times
  <2>2. CASE UNCHANGED silver
    BY <2>1, <2>2
  <2>3. CASE FirstLoad
    BY <2>3 DEF FirstLoad, SilverInv
  <2>4. CASE Merge
    <3>1. EventsOf(source) \in SUBSET Events
      BY DEF SilverInv, TypeOK, EventsOf, Rows
    <3>2. QED
      BY <2>4, <3>1, MergedKeepsUp DEF Merge, SilverInv
  <2>5. QED
    BY <2>2, <2>3, <2>4 DEF Next, Ingest, BuildRead, Crash, silverVars
<1>2. QED
  BY <1>1, SilverInvariant, PTL DEF Spec, SilverNeverRegresses

-----------------------------------------------------------------------------
(***************************************************************************)
(* What silver is, in terms of the bronze it was built from.  A set S of   *)
(* events covers the rows R if for each event of R it has one of the same  *)
(* request that is at least as recent.                                     *)
(***************************************************************************)
Covers(S, R) ==
    \A e \in EventsOf(R) : \E d \in S : request[d] = request[e] /\ updated[d] >= updated[e]

\* Ties in updated_at are broken by offset, so a latest row exists only as
\* long as no two rows have the same offset.
OffsetsAreUnique ==
    /\ \A x \in bronze : x[2] < next
    /\ \A x, y \in bronze : x[2] = y[2] => x = y

\* A build starts from no less than the one before it had read.
ReadsGrow ==
    /\ reading \subseteq bronze
    /\ built \subseteq bronze
    /\ pc = "merge" => built \subseteq reading

SourceIsLatest ==
    pc = "merge" => /\ EventsOf(source) \subseteq EventsOf(reading)
                    /\ Covers(EventsOf(source), reading)

SilverIsLatest ==
    /\ silver \subseteq EventsOf(built)
    /\ Covers(silver, built)
    /\ ~ exists => built = {}

\* The inductive invariant of the two properties that relate silver to bronze.
StagingInv ==
    /\ SilverInv
    /\ OffsetsAreUnique
    /\ ReadsGrow
    /\ SourceIsLatest
    /\ SilverIsLatest

-----------------------------------------------------------------------------
(* A bounded nonempty set of naturals has a greatest element. *)
LEMMA HasGreatest ==
    ASSUME NEW N \in Nat, NEW S \in SUBSET (0 .. N), S # {}
    PROVE  \E m \in S : \A s \in S : s <= m
<1> DEFINE gaps == {N - s : s \in S}
<1>1. gaps \subseteq Nat /\ gaps # {}
  OBVIOUS
<1>2. PICK g \in gaps : \A h \in gaps : <<h, g>> \notin OpToRel(<, Nat)
  BY <1>1, NatLessThanWellFounded, WFMin
<1>3. PICK m \in S : g = N - m
  OBVIOUS
<1>4. ASSUME NEW s \in S PROVE s <= m
  <2>1. N - s \in gaps /\ N - s \in Nat /\ g \in Nat
    BY <1>1
  <2>2. ~ (N - s < g)
    BY <1>2, <2>1 DEF OpToRel
  <2>3. s \in Int /\ m \in Int
    OBVIOUS
  <2>4. QED
    BY <1>3, <2>2, <2>3
<1>5. QED
  BY <1>4

(* Among rows with different offsets, each request has a latest one. *)
LEMMA LatestCovers ==
    ASSUME TypeOK, NEW D \in SUBSET Rows, \A x, y \in D : x[2] = y[2] => x = y
    PROVE  Covers(EventsOf(Latest(D)), D) /\ EventsOf(Latest(D)) \subseteq EventsOf(D)
<1>1. \A x \in Rows : /\ x[1] \in Events
                      /\ updated[x[1]] \in 0 .. MaxTime
                      /\ x[2] \in 0 .. MaxOffset
  BY SilverAssumption DEF TypeOK, Rows, Times
<1>2. ASSUME NEW z \in D
      PROVE  \E x \in Latest(D) : request[x[1]] = request[z[1]] /\ updated[x[1]] >= updated[z[1]]
  <2> DEFINE mates == {x \in D : request[x[1]] = request[z[1]]}
             times == {updated[x[1]] : x \in mates}
  <2>1. times \in SUBSET (0 .. MaxTime) /\ times # {}
    BY <1>1
  <2>2. PICK t \in times : \A s \in times : s <= t
    BY <2>1, SilverAssumption, HasGreatest
  <2> DEFINE newest == {x \in mates : updated[x[1]] = t}
             offsets == {x[2] : x \in newest}
  <2>3. offsets \in SUBSET (0 .. MaxOffset) /\ offsets # {}
    BY <1>1
  <2>4. PICK o \in offsets : \A p \in offsets : p <= o
    BY <2>3, SilverAssumption, HasGreatest
  <2>5. PICK x \in newest : x[2] = o
    OBVIOUS
  <2>6. ASSUME NEW y \in D, request[y[1]] = request[x[1]], y # x
        PROVE  Newer(x, y)
    <3>1. y \in mates /\ x \in D /\ x \in Rows /\ y \in Rows
      BY <2>6
    <3>2. updated[y[1]] <= t /\ updated[x[1]] = t
      BY <2>2, <3>1
    <3>3. updated[y[1]] \in Int /\ t \in Int /\ x[2] \in Int /\ y[2] \in Int
      BY <1>1, <3>1, <3>2
    <3>4. CASE updated[y[1]] = t
      <4>1. y[2] <= x[2]
        BY <2>4, <2>5, <3>1, <3>4
      <4>2. y[2] # x[2]
        BY <2>6, <3>1
      <4>3. QED
        BY <3>2, <3>3, <3>4, <4>1, <4>2 DEF Newer
    <3>5. QED
      BY <3>2, <3>3, <3>4 DEF Newer
  <2>7. x \in Latest(D)
    BY <2>6 DEF Latest
  <2>8. updated[z[1]] <= t /\ updated[x[1]] = t /\ updated[z[1]] \in Int /\ t \in Int
    BY <1>1, <2>2
  <2>9. QED
    BY <2>7, <2>8
<1>3. QED
  BY <1>2 DEF Covers, EventsOf, Latest

(* The rows left by removing duplicates have the same events, so what       *)
(* covers them covers the rows they were taken from.                        *)
LEMMA DeduplicatedCovers ==
    ASSUME NEW R, NEW D, Deduplicated(R, D), NEW S, Covers(S, D)
    PROVE  Covers(S, R)
BY DEF Deduplicated, Covers

(* One event per request that covers the rows leaves the merge nothing to   *)
(* choose: what is merged into any table covers them too.                   *)
LEMMA MergedCovers ==
    ASSUME TypeOK, NEW R \in SUBSET Rows, NEW S \in SUBSET Events, Covers(S, R)
    PROVE  Covers(Merged(silver, S), R)
<1> SUFFICES ASSUME NEW e \in EventsOf(R)
             PROVE  \E d \in Merged(silver, S) :
                        request[d] = request[e] /\ updated[d] >= updated[e]
  BY DEF Covers
<1>1. PICK c \in S : request[c] = request[e] /\ updated[c] >= updated[e]
  BY DEF Covers
<1>2. e \in Events
  BY DEF EventsOf, Rows
<1>3. \A f \in Events : updated[f] \in Int
  BY SilverAssumption DEF TypeOK, Times
<1>4. CASE c \in Inserting(silver, S)
  BY <1>1, <1>4 DEF Merged
<1>5. CASE c \notin Inserting(silver, S)
  <2>1. PICK d \in silver : Matches(c, d)
    BY <1>5 DEF Inserting
  <2>2. CASE updated[c] > updated[d]
    BY <1>1, <2>1, <2>2 DEF Merged, Updating
  <2>3. CASE ~ (updated[c] > updated[d])
    <3>1. d \in Events
      BY DEF TypeOK
    <3>2. PICK b \in Merged(silver, S) : request[b] = request[d] /\ updated[b] >= updated[d]
      BY MergedKeepsUp
    <3>3. b \in Events
      BY DEF TypeOK, Merged, Untouched, Updating, Inserting
    <3>4. updated[b] >= updated[e]
      BY <1>1, <1>2, <1>3, <2>3, <3>1, <3>2, <3>3
    <3>5. request[b] = request[e]
      BY <1>1, <2>1, <3>2 DEF Matches
    <3>6. QED
      BY <3>4, <3>5
  <2>4. QED
    BY <2>2, <2>3
<1>6. QED
  BY <1>4, <1>5

(* What covers a table of one row per request leaves it as it is.           *)
LEMMA MergingWhatIsCovered ==
    ASSUME TypeOK, SilverIsUnambiguous, NEW R \in SUBSET Rows, Covers(silver, R),
           NEW S \in SUBSET EventsOf(R)
    PROVE  Merged(silver, S) = silver
<1>1. S \subseteq Events /\ silver \subseteq Events
  BY DEF TypeOK, EventsOf, Rows
<1>2. \A f \in Events : updated[f] \in Int
  BY SilverAssumption DEF TypeOK, Times
<1>3. ASSUME NEW e \in S, NEW d \in silver, Matches(e, d)
      PROVE  ~ (updated[e] > updated[d])
  <2>1. PICK c \in silver : request[c] = request[e] /\ updated[c] >= updated[e]
    BY DEF Covers
  <2>2. c = d
    BY <1>3, <2>1 DEF Matches, SilverIsUnambiguous
  <2>3. QED
    BY <1>1, <1>2, <2>1, <2>2
<1>4. \A e \in S : \E d \in silver : Matches(e, d)
  BY DEF Covers, Matches
<1>5. Untouched(silver, S) = silver /\ Updating(silver, S) = {} /\ Inserting(silver, S) = {}
  BY <1>3, <1>4 DEF Untouched, Updating, Inserting
<1>6. QED
  BY <1>5 DEF Merged

-----------------------------------------------------------------------------
(* The initial state satisfies the staging invariant. *)
LEMMA StagingInitInv == Init => StagingInv
<1> SUFFICES ASSUME Init PROVE StagingInv
  OBVIOUS
<1>1. bronze = {} /\ reading = {} /\ built = {} /\ silver = {} /\ pc = "idle"
  BY DEF Init, EmptyTables
<1>2. EventsOf(built) = {}
  BY <1>1 DEF EventsOf
<1>3. SilverInv
  BY SilverInitInv
<1>4. QED
  BY <1>1, <1>2, <1>3 DEF StagingInv, OffsetsAreUnique, ReadsGrow, SourceIsLatest,
                          SilverIsLatest, Covers

(* Every step preserves the staging invariant. *)
LEMMA StagingNextInv == StagingInv /\ [Next]_vars => StagingInv'
<1> SUFFICES ASSUME StagingInv, [Next]_vars PROVE StagingInv'
  OBVIOUS
<1> USE DEF eventVars, bronzeVars, buildVars, silverVars
<1>1. SilverInv /\ SilverInv'
  BY SilverNextInv DEF StagingInv
<1>2. TypeOK /\ SilverIsUnambiguous /\ SourceIsUnambiguous
  BY <1>1 DEF SilverInv
<1>3. OffsetsAreUnique /\ ReadsGrow /\ SourceIsLatest /\ SilverIsLatest
  BY DEF StagingInv
<1>4. request' = request /\ updated' = updated
  BY DEF Next, Ingest, BuildRead, FirstLoad, Merge, Finish, Crash, vars
<1>5. CASE \E e \in Events : Ingest(e)
  <2>1. PICK e \in Events : Ingest(e)
    BY <1>5
  <2>2. bronze' = bronze \cup {<<e, next>>} /\ next' = next + 1 /\ next \in Int
    BY <1>2, <2>1, SilverAssumption DEF Ingest, TypeOK
  <2>3. \A x \in bronze : x[2] \in Int
    BY <1>2, SilverAssumption DEF TypeOK, Rows
  <2>4. OffsetsAreUnique'
    <3>1. \A x \in bronze : x[2] < next
      BY <1>3 DEF OffsetsAreUnique
    <3>2. \A x \in bronze' : x[2] < next'
      BY <2>2, <2>3, <3>1
    <3>3. \A x, y \in bronze' : x[2] = y[2] => x = y
      BY <1>3, <2>2, <2>3, <3>1 DEF OffsetsAreUnique
    <3>4. QED
      BY <3>2, <3>3 DEF OffsetsAreUnique
  <2>5. ReadsGrow'
    BY <1>3, <2>1 DEF Ingest, ReadsGrow
  <2>6. SourceIsLatest' /\ SilverIsLatest'
    BY <1>3, <2>1 DEF Ingest, SourceIsLatest, SilverIsLatest, Covers, EventsOf
  <2>7. QED
    BY <1>1, <2>4, <2>5, <2>6 DEF StagingInv
<1>6. CASE BuildRead
  <2>1. PICK D \in SUBSET bronze : Deduplicated(bronze, D) /\ source' = Latest(D)
    BY <1>6 DEF BuildRead
  <2>2. D \in SUBSET Rows /\ \A x, y \in D : x[2] = y[2] => x = y
    BY <1>2, <1>3 DEF TypeOK, OffsetsAreUnique
  <2>3. /\ Covers(EventsOf(Latest(D)), bronze)
        /\ EventsOf(Latest(D)) \subseteq EventsOf(bronze)
    BY <1>2, <2>1, <2>2, LatestCovers, DeduplicatedCovers DEF Deduplicated
  <2>4. reading' = bronze
    BY <1>6 DEF BuildRead
  <2>5. SourceIsLatest'
    BY <1>4, <2>1, <2>3, <2>4 DEF SourceIsLatest, Covers, EventsOf
  <2>6. OffsetsAreUnique' /\ ReadsGrow' /\ SilverIsLatest'
    BY <1>3, <1>6 DEF BuildRead, OffsetsAreUnique, ReadsGrow, SilverIsLatest, Covers, EventsOf
  <2>7. QED
    BY <1>1, <2>5, <2>6 DEF StagingInv
<1>7. CASE FirstLoad \/ Merge
  <2>1. Finish /\ pc = "merge" /\ bronze' = bronze /\ next' = next
    BY <1>7 DEF FirstLoad, Merge, Finish
  <2>2. EventsOf(source) \in SUBSET Events /\ reading \in SUBSET Rows
    BY <1>2 DEF TypeOK, EventsOf, Rows
  <2>3. silver' \subseteq EventsOf(reading) /\ Covers(silver', reading)
    <3>1. CASE FirstLoad
      BY <1>3, <2>1, <3>1 DEF FirstLoad, SourceIsLatest
    <3>2. CASE Merge
      <4>1. silver' = Merged(silver, EventsOf(source))
        BY <3>2 DEF Merge
      <4>2. silver' \subseteq silver \cup EventsOf(source)
        BY <4>1 DEF Merged, Untouched, Updating, Inserting
      <4>3. silver \subseteq EventsOf(reading) /\ EventsOf(source) \subseteq EventsOf(reading)
        BY <1>3, <2>1 DEF SilverIsLatest, SourceIsLatest, ReadsGrow, EventsOf
      <4>4. Covers(EventsOf(source), reading)
        BY <1>3, <2>1 DEF SourceIsLatest
      <4>5. Covers(silver', reading)
        BY <1>2, <2>2, <4>1, <4>4, MergedCovers
      <4>6. QED
        BY <4>2, <4>3, <4>5
    <3>3. QED
      BY <1>7, <3>1, <3>2
  <2>4. SilverIsLatest'
    <3>1. built' = reading /\ exists'
      BY <1>7 DEF FirstLoad, Merge, Finish
    <3>2. QED
      BY <1>4, <2>3, <3>1 DEF SilverIsLatest, Covers, EventsOf
  <2>5. SourceIsLatest' /\ ReadsGrow' /\ OffsetsAreUnique'
    BY <1>3, <2>1 DEF Finish, SourceIsLatest, ReadsGrow, OffsetsAreUnique
  <2>6. QED
    BY <1>1, <2>4, <2>5 DEF StagingInv
<1>8. CASE Crash
  <2>1. OffsetsAreUnique' /\ ReadsGrow' /\ SourceIsLatest' /\ SilverIsLatest'
    BY <1>3, <1>8 DEF Crash, OffsetsAreUnique, ReadsGrow, SourceIsLatest, SilverIsLatest,
                      Covers, EventsOf
  <2>2. QED
    BY <1>1, <2>1 DEF StagingInv
<1>9. CASE UNCHANGED vars
  <2>1. OffsetsAreUnique' /\ ReadsGrow' /\ SourceIsLatest' /\ SilverIsLatest'
    BY <1>3, <1>9 DEF vars, OffsetsAreUnique, ReadsGrow, SourceIsLatest, SilverIsLatest,
                      Covers, EventsOf
  <2>2. QED
    BY <1>1, <2>1 DEF StagingInv
<1>10. QED
  BY <1>5, <1>6, <1>7, <1>8, <1>9 DEF Next

(* The staging invariant holds of every behaviour. *)
THEOREM StagingInvariant == Spec => []StagingInv
BY StagingInitInv, StagingNextInv, PTL DEF Spec

(* Where the updates of a request are never tied, the rows that cover R     *)
(* without repeating a request are determined by R alone.                   *)
LEMMA UntiedCoverIsUnique ==
    ASSUME TypeOK, Untied, NEW R \in SUBSET Rows,
           NEW S \in SUBSET EventsOf(R), Covers(S, R), \A d, e \in S : request[d] = request[e] => d = e,
           NEW T \in SUBSET EventsOf(R), Covers(T, R)
    PROVE  S \subseteq T
<1> SUFFICES ASSUME NEW e \in S PROVE e \in T
  OBVIOUS
<1>1. EventsOf(R) \subseteq Events /\ \A f \in Events : updated[f] \in Int
  BY SilverAssumption DEF EventsOf, Rows, TypeOK, Times
<1>2. PICK d \in T : request[d] = request[e] /\ updated[d] >= updated[e]
  BY DEF Covers
<1>3. PICK c \in S : request[c] = request[d] /\ updated[c] >= updated[d]
  BY DEF Covers
<1>4. c = e
  BY <1>2, <1>3
<1>5. updated[d] = updated[e]
  BY <1>1, <1>2, <1>3, <1>4
<1>6. d = e
  BY <1>1, <1>2, <1>5 DEF Untied
<1>7. QED
  BY <1>6

(* Duplicates can be removed from any set of rows. *)
LEMMA DeduplicatedExists ==
    ASSUME NEW R
    PROVE  \E D \in SUBSET R : Deduplicated(R, D)
<1> DEFINE row(e) == CHOOSE x \in R : x[1] = e
           D == {row(e) : e \in EventsOf(R)}
<1>1. \A e \in EventsOf(R) : row(e) \in R /\ row(e)[1] = e
  BY DEF EventsOf
<1> HIDE DEF row
<1>2. D \subseteq R
  BY <1>1
<1>3. \A x, y \in D : x[1] = y[1] => x = y
  BY <1>1
<1>4. EventsOf(D) = EventsOf(R)
  <2>1. \A e \in EventsOf(R) : e \in EventsOf(D)
    BY <1>1 DEF EventsOf
  <2>2. \A e \in EventsOf(D) : e \in EventsOf(R)
    BY <1>1 DEF EventsOf
  <2>3. QED
    BY <2>1, <2>2
<1>5. QED
  BY <1>2, <1>3, <1>4 DEF Deduplicated

(* Merging build after build comes to the same rows as staging all of the   *)
(* bronze at once, where updated_at alone orders the events of a request.   *)
THEOREM SilverIsTheStagingOfBronze == Spec => []UntiedSilverEqualsStaging
<1>1. StagingInv => UntiedSilverEqualsStaging
  <2> SUFFICES ASSUME StagingInv, Untied
               PROVE  \E D \in SUBSET built : Deduplicated(built, D) /\ silver = EventsOf(Latest(D))
    BY DEF UntiedSilverEqualsStaging
  <2>1. TypeOK /\ SilverIsUnambiguous /\ SilverIsLatest /\ built \in SUBSET Rows
    BY DEF StagingInv, SilverInv, TypeOK
  <2>2. PICK D \in SUBSET built : Deduplicated(built, D)
    BY DeduplicatedExists
  <2> DEFINE S == EventsOf(Latest(D))
  <2>3. D \in SUBSET Rows /\ \A x, y \in D : x[2] = y[2] => x = y
    BY <2>1 DEF StagingInv, OffsetsAreUnique, ReadsGrow
  <2>4. Covers(S, built) /\ S \in SUBSET EventsOf(built)
    BY <2>1, <2>2, <2>3, LatestCovers, DeduplicatedCovers DEF Deduplicated
  <2>5. \A d, e \in S : request[d] = request[e] => d = e
    <3> SUFFICES ASSUME NEW d \in S, NEW e \in S, request[d] = request[e] PROVE d = e
      OBVIOUS
    <3>1. PICK x \in Latest(D) : x[1] = d
      BY DEF EventsOf
    <3>2. PICK y \in Latest(D) : y[1] = e
      BY DEF EventsOf
    <3>3. x = y
      BY <2>1, <2>3, <3>1, <3>2, LatestIsUnambiguous
    <3>4. QED
      BY <3>1, <3>2, <3>3
  <2>6. silver \in SUBSET EventsOf(built) /\ Covers(silver, built)
    BY <2>1 DEF SilverIsLatest
  <2>7. \A d, e \in silver : request[d] = request[e] => d = e
    BY <2>1 DEF SilverIsUnambiguous
  <2> HIDE DEF S
  <2>8. silver \subseteq S
    BY <2>1, <2>4, <2>6, <2>7, UntiedCoverIsUnique
  <2>9. S \subseteq silver
    BY <2>1, <2>4, <2>5, <2>6, UntiedCoverIsUnique
  <2>10. silver = S
    BY <2>8, <2>9
  <2>11. QED
    BY <2>2, <2>10 DEF S
<1>2. QED
  BY <1>1, StagingInvariant, PTL

(* Building again from the bronze already built from leaves silver as it is,*)
(* ties and copies notwithstanding.                                         *)
THEOREM RebuildingIsIdempotent == Spec => RebuildChangesNothing
<1> DEFINE Again == pc = "merge" /\ exists /\ reading = built => silver' = silver
<1>1. StagingInv /\ [Next]_vars => [Again]_vars
  <2> SUFFICES ASSUME StagingInv, Next, pc = "merge", exists, reading = built
               PROVE  silver' = silver
    OBVIOUS
  <2>1. CASE Merge
    <3>1. TypeOK /\ SilverIsUnambiguous /\ built \in SUBSET Rows
      BY DEF StagingInv, SilverInv, TypeOK
    <3>2. Covers(silver, built) /\ EventsOf(source) \in SUBSET EventsOf(built)
      BY DEF StagingInv, SilverIsLatest, SourceIsLatest
    <3>3. Merged(silver, EventsOf(source)) = silver
      BY <3>1, <3>2, MergingWhatIsCovered
    <3>4. QED
      BY <2>1, <3>3 DEF Merge
  <2>2. CASE ~ Merge
    BY <2>2 DEF Next, Ingest, BuildRead, FirstLoad, Crash, silverVars
  <2>3. QED
    BY <2>1, <2>2
<1>2. QED
  BY <1>1, StagingInvariant, PTL DEF Spec, RebuildChangesNothing

-----------------------------------------------------------------------------
(***************************************************************************)
(* The request stream end to end.                                          *)
(***************************************************************************)
\* No duration is longer.
Span == MaxTime \div 4

LEMMA DurationsFit ==
    /\ Span \in Nat /\ 4 * Span <= MaxTime
    /\ \A m \in Minutes : m \in Nat /\ 1 <= m /\ m <= Span
<1>1. MaxTime \in Nat
  BY SilverAssumption
<1>2. Span \in Nat /\ 4 * Span <= MaxTime
  BY <1>1 DEF Span
<1>3. ASSUME NEW m \in Minutes PROVE m \in Nat /\ 1 <= m /\ m <= Span
  <2>1. m \in Nat \ {0} /\ 4 * m <= MaxTime
    BY MinutesAssumption, TimeAssumption
  <2>2. QED
    BY <1>1, <2>1 DEF Span
<1>4. QED
  BY <1>2, <1>3

(* State is what it is meant to be: the constructor's object, and one       *)
(* advance after the other.                                                *)
LEMMA StateFollows ==
    ASSUME NEW d
    PROVE  /\ State(d, 0) = NewRequest
           /\ \A k \in 1 .. 4 : State(d, k) = Advanced(State(d, k - 1), d)
<1> DEFINE next1(q) == Advanced(q, d)
           s0 == NewRequest
           s1 == next1(s0)
           s2 == next1(s1)
           s3 == next1(s2)
           s4 == next1(s3)
           s(i) == IF i = 0 THEN s0 ELSE IF i = 1 THEN s1 ELSE IF i = 2 THEN s2
                   ELSE IF i = 3 THEN s3 ELSE s4
           Run(k, g) == g = [i \in 0 .. k |-> IF i = 0 THEN s0 ELSE next1(g[i - 1])]
<1> HIDE DEF next1, s0
<1>1. \A i \in 1 .. 4 : s(i) = next1(s(i - 1))
  <2>1. s(1) = next1(s(0)) /\ s(2) = next1(s(1)) /\ s(3) = next1(s(2)) /\ s(4) = next1(s(3))
    OBVIOUS
  <2> HIDE DEF s
  <2>2. \A i \in 1 .. 4 : i = 1 \/ i = 2 \/ i = 3 \/ i = 4
    OBVIOUS
  <2>3. QED
    BY <2>1, <2>2
<1>2. s(0) = s0
  OBVIOUS
<1> HIDE DEF s
<1>3. ASSUME NEW k \in 0 .. 4
      PROVE  State(d, k) = s(k)
  <2> DEFINE w == [i \in 0 .. k |-> s(i)]
             c == CHOOSE g : Run(k, g)
  <2>1. \A i \in 0 .. k : i # 0 => i \in 1 .. 4 /\ i - 1 \in 0 .. k
    OBVIOUS
  <2>2. Run(k, w)
    <3>1. \A i \in 0 .. k : s(i) = IF i = 0 THEN s0 ELSE next1(w[i - 1])
      BY <1>1, <1>2, <2>1
    <3>2. QED
      BY <3>1
  <2>3. Run(k, c)
    BY <2>2
  <2>4. State(d, k) = c[k]
    BY DEF State, s0, next1
  <2> HIDE DEF c
  <2>5. \A i \in 0 .. k : c[i] = IF i = 0 THEN s0 ELSE next1(c[i - 1])
    BY <2>3
  <2>6. c[0] = s(0) /\ \A i \in 1 .. 4 : i \in 0 .. k => c[i] = next1(c[i - 1]) /\ s(i) = next1(s(i - 1))
    BY <1>1, <1>2, <2>5
  <2>7. /\ 1 \in 0 .. k => c[1] = s(1)
        /\ 2 \in 0 .. k => c[2] = s(2)
        /\ 3 \in 0 .. k => c[3] = s(3)
        /\ 4 \in 0 .. k => c[4] = s(4)
    <3>1. 1 \in 0 .. k => c[1] = s(1)
      BY <2>6
    <3>2. 2 \in 0 .. k => c[2] = s(2)
      BY <2>6, <3>1
    <3>3. 3 \in 0 .. k => c[3] = s(3)
      BY <2>6, <3>2
    <3>4. 4 \in 0 .. k => c[4] = s(4)
      BY <2>6, <3>3
    <3>5. QED
      BY <3>1, <3>2, <3>3, <3>4
  <2>8. c[k] = s(k)
    <3>1. k = 0 \/ k = 1 \/ k = 2 \/ k = 3 \/ k = 4
      OBVIOUS
    <3>2. k \in 0 .. k
      OBVIOUS
    <3>3. QED
      BY <2>6, <2>7, <3>1, <3>2
  <2>9. QED
    BY <2>4, <2>8
<1>4. State(d, 0) = s0
  BY <1>2, <1>3
<1>5. ASSUME NEW k \in 1 .. 4
      PROVE  State(d, k) = next1(State(d, k - 1))
  <2>1. k \in 0 .. 4 /\ k - 1 \in 0 .. 4
    OBVIOUS
  <2>2. QED
    BY <1>1, <1>3, <2>1
<1>6. QED
  BY <1>4, <1>5 DEF s0, next1

RequestShape ==
    [status_index : 0 .. 4, cancelled : BOOLEAN, updated_at : Nat,
     resolved_at : SUBSET Nat, crew_id : {None, {"crew"}}]

\* A request after k advances none of which has cancelled it.
Living(q, k) ==
    /\ q \in RequestShape
    /\ q.status_index = k /\ q.cancelled = FALSE
    /\ q.updated_at <= k * Span

(* An advance takes time, but not more than a span, and it cancels the      *)
(* request at its drawn step and at no other.                              *)
LEMMA AdvanceOfLiving ==
    ASSUME NEW i \in 0 .. 3, NEW q, Living(q, i), NEW d \in Draws
    PROVE  /\ q.updated_at < Advanced(q, d).updated_at
           /\ Advanced(q, d).updated_at \in Nat
           /\ Advanced(q, d).updated_at <= (i + 1) * Span
           /\ d.cancel # i + 1 => Living(Advanced(q, d), i + 1)
<1> DEFINE u == q.updated_at
           bound == (i + 1) * Span
<1>1. /\ q \in RequestShape /\ q.status_index = i /\ q.cancelled = FALSE
      /\ u \in Nat /\ u <= i * Span
  BY DEF Living, RequestShape
<1>2. /\ d.response \in Nat /\ 1 <= d.response /\ d.response <= Span
      /\ d.resolution \in Nat /\ 1 <= d.resolution /\ d.resolution <= Span
      /\ d.delay \in Nat /\ 1 <= d.delay /\ d.delay <= Span
  BY DurationsFit DEF Draws
<1> HIDE DEF bound
<1>3. CASE d.cancel = i + 1
  <2> DEFINE n == [q EXCEPT !.cancelled = TRUE, !.updated_at = u + d.delay]
  <2>1. Advanced(q, d) = n
    BY <1>1, <1>3 DEF Advanced, Cancelled
  <2>2. u + d.delay \in Nat /\ u < u + d.delay /\ u + d.delay <= bound
    BY <1>1, <1>2, DurationsFit DEF bound
  <2>3. n.updated_at = u + d.delay
    BY <1>1 DEF RequestShape
  <2> HIDE DEF n
  <2>4. QED
    BY <1>3, <2>1, <2>2, <2>3 DEF bound
<1>4. CASE d.cancel # i + 1
  <2> DEFINE n == Progressed(q, d)
             s == LIFECYCLE[i + 2]
             solved == MaxOf(d.resolution, u + 1)
             later == CASE s = "ACKNOWLEDGED" -> d.response
                        [] s = "RESOLVED"     -> solved
                        [] OTHER              -> u + d.delay
  <2>1. Advanced(q, d) = n
    BY <1>1, <1>4 DEF Advanced
  <2>2. solved \in Nat /\ u < solved
    BY <1>1, <1>2 DEF MaxOf
  <2>3. /\ i = 0 => s = "ACKNOWLEDGED"
        /\ i = 1 => s = "DISPATCHED"
        /\ i = 2 => s = "ON_SITE"
        /\ i = 3 => s = "RESOLVED"
    BY DEF LIFECYCLE
  <2>4. i + 1 + 1 = i + 2
    OBVIOUS
  <2> HIDE DEF s, solved
  <2>5. later \in Nat /\ u < later /\ later <= bound
    <3>1. CASE i = 0
      BY <1>1, <1>2, <2>3, <3>1, DurationsFit DEF bound
    <3>2. CASE i = 1 \/ i = 2
      BY <1>1, <1>2, <2>3, <3>2, DurationsFit DEF bound
    <3>3. CASE i = 3
      <4>1. solved <= 4 * Span
        BY <1>1, <1>2, <3>3, DurationsFit DEF MaxOf, solved
      <4>2. QED
        BY <1>1, <2>2, <2>3, <3>3, <4>1 DEF bound
    <3>4. QED
      BY <3>1, <3>2, <3>3
  <2>6. n = [q EXCEPT !.status_index = i + 1,
                      !.crew_id = IF s = "DISPATCHED" THEN {"crew"} ELSE q.crew_id,
                      !.resolved_at = IF s = "RESOLVED" THEN {solved} ELSE q.resolved_at,
                      !.updated_at = later]
    BY <1>1, <2>4 DEF Progressed, s, solved
  <2> HIDE DEF n, later
  <2>7. n.status_index = i + 1 /\ n.cancelled = FALSE /\ n.updated_at = later
    BY <1>1, <2>6 DEF RequestShape
  <2>8. n \in RequestShape
    <3>1. i + 1 \in 0 .. 4 /\ {solved} \in SUBSET Nat
      BY <2>2
    <3>2. QED
      BY <1>1, <2>5, <2>6, <3>1 DEF RequestShape
  <2>9. Living(n, i + 1)
    BY <2>5, <2>7, <2>8 DEF Living, bound
  <2>10. QED
    BY <2>1, <2>5, <2>7, <2>9 DEF bound
<1>5. QED
  BY <1>3, <1>4

\* The last message of a request.
Last(d) == Length(d) - 1

LEMMA LastIs ==
    ASSUME NEW d \in Draws
    PROVE  /\ Last(d) \in 1 .. 4
           /\ d.cancel \in 0 .. 4
           /\ Last(d) = IF d.cancel = 0 THEN 4 ELSE d.cancel
BY DEF Last, Length, Draws, LastStep, LIFECYCLE

(* A request lives until its last message; each is later than the one       *)
(* before it, and within the bound.                                        *)
LEMMA LifeOfRequest ==
    ASSUME NEW d \in Draws
    PROVE  /\ \A k \in 0 .. Last(d) - 1 :
                 /\ Living(State(d, k), k)
                 /\ State(d, k).updated_at < State(d, k + 1).updated_at
           /\ \A k \in 0 .. Last(d) :
                 State(d, k).updated_at \in Nat /\ State(d, k).updated_at <= MaxTime
<1> DEFINE st(k) == State(d, k)
           l == Last(d)
<1>1. l \in 1 .. 4 /\ d.cancel \in 0 .. 4 /\ l = IF d.cancel = 0 THEN 4 ELSE d.cancel
  BY LastIs
<1>2. st(0) = NewRequest /\ \A k \in 1 .. 4 : st(k) = Advanced(st(k - 1), d)
  BY StateFollows
<1>3. Living(st(0), 0)
  <2>1. 0 <= 0 * Span
    BY DurationsFit
  <2>2. NewRequest \in RequestShape
    BY DEF RequestShape, NewRequest, None
  <2>3. NewRequest.status_index = 0 /\ NewRequest.cancelled = FALSE
        /\ NewRequest.updated_at = 0
    BY DEF NewRequest
  <2>4. QED
    BY <1>2, <2>1, <2>2, <2>3 DEF Living
<1> HIDE DEF st, l
<1>4. ASSUME NEW k \in 0 .. l - 1, Living(st(k), k)
      PROVE  /\ st(k).updated_at < st(k + 1).updated_at
             /\ st(k + 1).updated_at \in Nat
             /\ st(k + 1).updated_at <= (k + 1) * Span
             /\ k + 1 < l => Living(st(k + 1), k + 1)
  <2>1. k \in 0 .. 3 /\ k + 1 \in 1 .. 4 /\ k + 1 - 1 = k
    BY <1>1
  <2>2. st(k + 1) = Advanced(st(k), d)
    BY <1>2, <2>1
  <2>3. k + 1 < l => d.cancel # k + 1
    BY <1>1
  <2>4. QED
    BY <1>4, <2>1, <2>2, <2>3, AdvanceOfLiving
<1>5. \A k \in 0 .. l - 1 : Living(st(k), k)
  <2>1. 0 < l /\ (1 < l => Living(st(1), 1))
    BY <1>1, <1>3, <1>4
  <2>2. 2 < l => Living(st(2), 2)
    BY <1>1, <1>4, <2>1
  <2>3. 3 < l => Living(st(3), 3)
    BY <1>1, <1>4, <2>2
  <2>4. ASSUME NEW k \in 0 .. l - 1
        PROVE  k < l /\ (k = 0 \/ k = 1 \/ k = 2 \/ k = 3)
    <3>1. l \in 1 .. 4
      BY <1>1
    <3>2. QED
      BY <3>1
  <2>5. QED
    BY <1>3, <2>1, <2>2, <2>3, <2>4
<1>6. \A k \in 0 .. l - 1 : st(k).updated_at < st(k + 1).updated_at
  BY <1>4, <1>5
<1>7. ASSUME NEW k \in 0 .. l
      PROVE  st(k).updated_at \in Nat /\ st(k).updated_at <= MaxTime
  <2>1. CASE k = 0
    BY <1>3, <2>1, DurationsFit, SilverAssumption DEF Living, RequestShape
  <2>2. CASE k # 0
    <3>1. k - 1 \in 0 .. l - 1 /\ k - 1 + 1 = k /\ k \in 0 .. 4
      BY <1>1, <2>2
    <3>2. st(k).updated_at \in Nat /\ st(k).updated_at <= k * Span
      BY <1>4, <1>5, <3>1
    <3>3. k * Span <= 4 * Span
      BY <3>1, DurationsFit
    <3>4. QED
      BY <3>1, <3>2, <3>3, DurationsFit, SilverAssumption
  <2>3. QED
    BY <2>1, <2>2
<1>8. QED
  BY <1>5, <1>6, <1>7 DEF st, l

(* So its messages are in the order of updated_at, and only the last of     *)
(* them shows it RESOLVED or CANCELLED.                                    *)
LEMMA MessagesInOrder ==
    ASSUME NEW d \in Draws, NEW j \in 0 .. Last(d), NEW k \in 0 .. Last(d), j < k
    PROVE  /\ State(d, j).updated_at < State(d, k).updated_at
           /\ StatusOf(State(d, j)) \notin {"RESOLVED", "CANCELLED"}
<1> DEFINE u(i) == State(d, i).updated_at
           l == Last(d)
<1>1. /\ l \in 1 .. 4
      /\ \A i \in 0 .. l : u(i) \in Nat
      /\ \A i \in 0 .. l - 1 : u(i) < u(i + 1)
      /\ Living(State(d, j), j)
  <2>1. j \in 0 .. l - 1 /\ l \in 1 .. 4
    BY LastIs
  <2>2. QED
    BY <2>1, LifeOfRequest
<1>2. StatusOf(State(d, j)) \notin {"RESOLVED", "CANCELLED"}
  BY <1>1 DEF Living, StatusOf, LIFECYCLE
<1> HIDE DEF u, l
<1>3. /\ u(0) < u(1)
      /\ 2 <= l => u(1) < u(2)
      /\ 3 <= l => u(2) < u(3)
      /\ 4 <= l => u(3) < u(4)
  BY <1>1
<1>4. /\ u(0) \in Nat /\ u(1) \in Nat
      /\ 2 <= l => u(2) \in Nat
      /\ 3 <= l => u(3) \in Nat
      /\ 4 <= l => u(4) \in Nat
  BY <1>1
<1>5. (j = 0 \/ j = 1 \/ j = 2 \/ j = 3) /\ (k = 1 \/ k = 2 \/ k = 3 \/ k = 4) /\ k <= l
  BY <1>1 DEF l
<1>6. u(j) < u(k)
  <2>1. CASE j = 0
    <3>1. l \in 1 .. 4 /\ j = 0 /\ j < k
      BY <1>1, <2>1
    <3>2. QED
      BY <1>3, <1>4, <1>5, <3>1
  <2>2. CASE j = 1
    <3>1. l \in 1 .. 4 /\ j = 1 /\ j < k
      BY <1>1, <2>2
    <3>2. QED
      BY <1>3, <1>4, <1>5, <3>1
  <2>3. CASE j = 2
    <3>1. l \in 1 .. 4 /\ j = 2 /\ j < k
      BY <1>1, <2>3
    <3>2. QED
      BY <1>3, <1>4, <1>5, <3>1
  <2>4. CASE j = 3
    <3>1. l \in 1 .. 4 /\ j = 3 /\ j < k
      BY <1>1, <2>4
    <3>2. QED
      BY <1>3, <1>4, <1>5, <3>1
  <2>5. QED
    BY <1>5, <2>1, <2>2, <2>3, <2>4
<1>7. QED
  BY <1>2, <1>6 DEF u

-----------------------------------------------------------------------------
\* Every message carries what its draws make of its request, and what reached
\* bronze is a message that some run sent.
FlowInv ==
    /\ draw \in [Requests -> [Variants -> Draws]]
    /\ variant \in Variants
    /\ sent \in [Requests -> Nat]
    /\ request = [e \in Events |-> e[1]]
    /\ updated = [e \in Events |-> Shown(e).updated_at]
    /\ status = [e \in Events |-> StatusOf(Shown(e))]
    /\ \A x \in bronze : x[1] \in Events /\ x[1][3] <= Last(DrawOf(x[1]))

(* The draws of an event, and which of its request's states it shows. *)
LEMMA EventShows ==
    ASSUME draw \in [Requests -> [Variants -> Draws]], NEW e \in Events
    PROVE  /\ e[1] \in Requests /\ e[2] \in Variants /\ e[3] \in 0 .. 4
           /\ DrawOf(e) \in Draws
           /\ Shown(e) = State(DrawOf(e), IF e[3] <= Last(DrawOf(e)) THEN e[3]
                                                ELSE Last(DrawOf(e)))
<1>1. e[1] \in Requests /\ e[2] \in Variants /\ e[3] \in 0 .. 4
  BY FlowAssumption DEF Messages, LastStep, LIFECYCLE
<1>2. DrawOf(e) \in Draws
  BY <1>1 DEF DrawOf
<1>3. Last(DrawOf(e)) \in 1 .. 4 /\ Length(DrawOf(e)) = Last(DrawOf(e)) + 1
  BY <1>2, LastIs DEF Last, Length, Draws, LastStep, LIFECYCLE
<1>4. e[3] < Length(DrawOf(e)) <=> e[3] <= Last(DrawOf(e))
  BY <1>1, <1>3
<1>5. QED
  BY <1>1, <1>2, <1>4 DEF Shown, Last

(* The flow begins as the table does. *)
LEMMA FlowStarts ==
    ASSUME FlowInit
    PROVE  Init /\ FlowInv
<1>1. draw \in [Requests -> [Variants -> Draws]]
  BY DEF FlowInit
<1>2. /\ request = [e \in Events |-> e[1]]
      /\ updated = [e \in Events |-> Shown(e).updated_at]
      /\ status = [e \in Events |-> StatusOf(Shown(e))]
  BY DEF FlowInit
<1>3. ASSUME NEW e \in Events
      PROVE  e[1] \in Requests /\ Shown(e).updated_at \in Times
  <2> DEFINE d == DrawOf(e)
             k == IF e[3] <= Last(d) THEN e[3] ELSE Last(d)
  <2>1. e[1] \in Requests /\ e[3] \in 0 .. 4 /\ d \in Draws /\ Shown(e) = State(d, k)
    BY <1>1, EventShows
  <2>2. k \in 0 .. Last(d)
    BY <2>1, LastIs
  <2> HIDE DEF d, k
  <2>3. State(d, k).updated_at \in Nat /\ State(d, k).updated_at <= MaxTime
    BY <2>1, <2>2, LifeOfRequest
  <2>4. QED
    BY <2>1, <2>3, SilverAssumption DEF Times
<1>4. request \in [Events -> Requests] /\ updated \in [Events -> Times]
  BY <1>2, <1>3
<1>5. Init
  BY <1>4 DEF FlowInit, Init, EmptyTables
<1>6. FlowInv
  BY <1>1, <1>2 DEF FlowInit, EmptyTables, FlowInv
<1>7. QED
  BY <1>5, <1>6

(* What the runs do to the table is what the ingestion does, the builds are *)
(* the table's own, and the invariant is kept.                             *)
LEMMA FlowSteps ==
    ASSUME FlowInv, [FlowNext]_flowVars
    PROVE  [Next]_vars /\ FlowInv'
<1> USE DEF FlowInv
<1>f. ASSUME draw' = draw, NEW e
      PROVE  DrawOf(e)' = DrawOf(e) /\ Shown(e)' = Shown(e)
  BY <1>f DEF DrawOf, Shown
<1>k. ASSUME draw' = draw, UNCHANGED <<request, updated, status>>,
             variant' \in Variants, sent' \in [Requests -> Nat],
             \A x \in bronze' : x[1] \in Events /\ x[1][3] <= Last(DrawOf(x[1]))
      PROVE  FlowInv'
  BY <1>f, <1>k
<1>1. ASSUME NEW r \in Requests, SendAccepted(r)
      PROVE  Next /\ FlowInv'
  <2> DEFINE e == <<r, variant, sent[r]>>
  <2>1. /\ sent[r] < Length(draw[r][variant])
        /\ sent' = [sent EXCEPT ![r] = @ + 1]
        /\ UNCHANGED <<draw, runs, variant, status>>
        /\ Ingest(e)
    BY <1>1 DEF SendAccepted
  <2>2. DrawOf(e) = draw[r][variant] /\ draw[r][variant] \in Draws /\ sent[r] \in Nat
    BY DEF DrawOf
  <2>3. sent[r] <= Last(DrawOf(e)) /\ sent[r] \in 0 .. 4
    <3>1. Length(draw[r][variant]) \in Nat
      BY <2>2 DEF Length, Draws, LastStep, LIFECYCLE
    <3>2. sent[r] <= Last(DrawOf(e))
      BY <2>1, <2>2, <3>1 DEF Last
    <3>3. Last(DrawOf(e)) \in 1 .. 4
      BY <2>2, LastIs
    <3> HIDE DEF e
    <3>4. \A n \in Nat, l \in 1 .. 4 : n <= l => n \in 0 .. 4
      OBVIOUS
    <3>5. sent[r] \in 0 .. 4
      BY <2>2, <3>2, <3>3, <3>4
    <3>6. QED
      BY <3>2, <3>5
  <2>4. e \in Events
    BY <2>3, FlowAssumption DEF Messages, LastStep, LIFECYCLE
  <2>5. Next
    BY <2>1, <2>4 DEF Next
  <2>6. bronze' = bronze \cup {<<e, next>>} /\ UNCHANGED <<request, updated>>
    BY <2>1 DEF Ingest, eventVars
  <2>7. e[3] = sent[r] /\ <<e, next>>[1] = e
    OBVIOUS
  <2> HIDE DEF e
  <2>8. \A x \in bronze' : x[1] \in Events /\ x[1][3] <= Last(DrawOf(x[1]))
    BY <2>3, <2>4, <2>6, <2>7
  <2>9. sent' \in [Requests -> Nat]
    BY <2>1, <2>2
  <2>10. QED
    BY <1>k, <2>1, <2>5, <2>6, <2>8, <2>9
<1>2. ASSUME NEW r \in Requests, SendCorrupted(r)
      PROVE  UNCHANGED vars /\ FlowInv'
  <2>1. /\ sent' = [sent EXCEPT ![r] = @ + 1] /\ draw' = draw /\ variant' = variant
        /\ UNCHANGED <<request, updated, status>>
        /\ UNCHANGED vars
    BY <1>2 DEF SendCorrupted, vars, eventVars, bronzeVars,
                buildVars, silverVars
  <2>2. sent' \in [Requests -> Nat] /\ bronze' = bronze
    BY <2>1 DEF vars, bronzeVars
  <2>3. QED
    BY <1>k, <2>1, <2>2
<1>3. ASSUME NewRun
      PROVE  UNCHANGED vars /\ FlowInv'
  <2>1. /\ sent' = [r \in Requests |-> 0] /\ draw' = draw /\ variant' \in Variants
        /\ UNCHANGED <<request, updated, status>>
        /\ UNCHANGED vars
    BY <1>3 DEF NewRun, vars, eventVars, bronzeVars,
                buildVars, silverVars
  <2>2. sent' \in [Requests -> Nat] /\ bronze' = bronze
    BY <2>1 DEF vars, bronzeVars
  <2>3. QED
    BY <1>k, <2>1, <2>2
<1>4. ASSUME Build
      PROVE  Next /\ FlowInv'
  <2>1. BuildRead \/ FirstLoad \/ Merge \/ Crash
    BY <1>4 DEF Build
  <2>2. UNCHANGED <<draw, variant, sent, status>>
    BY <1>4 DEF Build, producerVars
  <2>3. UNCHANGED <<request, updated, bronze>>
    BY <2>1 DEF BuildRead, FirstLoad, Merge, Crash, Finish, eventVars, bronzeVars
  <2>4. QED
    BY <1>k, <2>1, <2>2, <2>3 DEF Next
<1>5. CASE UNCHANGED flowVars
  <2>1. UNCHANGED <<draw, variant, sent, request, updated, status, bronze>> /\ UNCHANGED vars
    BY <1>5 DEF flowVars, producerVars, vars, eventVars, bronzeVars,
                buildVars, silverVars
  <2>2. QED
    BY <1>k, <2>1
<1>6. QED
  BY <1>1, <1>2, <1>3, <1>4, <1>5 DEF FlowNext

(***************************************************************************)
(* The stream end to end implements the table: the runs of the producer    *)
(* are one way in which rows reach bronze, whatever is drawn, corrupted    *)
(* or repeated.  So what is proved of the table above holds of the stream. *)
(***************************************************************************)
THEOREM StreamImplementsTable ==
    FlowSpec => Spec /\ []FlowInv
<1>1. FlowInit => Init /\ FlowInv
  BY FlowStarts
<1>2. FlowInv /\ [FlowNext]_flowVars => [Next]_vars /\ FlowInv'
  BY FlowSteps
<1>3. QED
  BY <1>1, <1>2, PTL DEF FlowSpec, Spec

\* All runs are at one corruption rate: they continue the seed alike.
OneRate == \A v, w \in Variants : v = w

(* Of two messages of a request at one rate, both of which were sent, the   *)
(* one with the later updated_at is the later one.                         *)
LEMMA LaterIsFurther ==
    ASSUME OneRate, TypeOK, FlowInv, NEW x \in bronze, NEW y \in bronze,
           request[x[1]] = request[y[1]]
    PROVE  /\ updated[x[1]] <= updated[y[1]] => x[1][3] <= y[1][3]
           /\ status[x[1]] \in {"RESOLVED", "CANCELLED"} => updated[y[1]] <= updated[x[1]]
<1> DEFINE d == x[1]
           e == y[1]
           w == DrawOf(d)
<1>1. /\ d \in Events /\ e \in Events
      /\ d[3] <= Last(DrawOf(d)) /\ e[3] <= Last(DrawOf(e))
  BY DEF FlowInv
<1>2. draw \in [Requests -> [Variants -> Draws]]
  BY DEF FlowInv
<1>3. /\ d[1] \in Requests /\ d[2] \in Variants /\ d[3] \in 0 .. 4
      /\ e[1] \in Requests /\ e[2] \in Variants /\ e[3] \in 0 .. 4
      /\ DrawOf(d) \in Draws /\ DrawOf(e) \in Draws
      /\ Shown(d) = State(DrawOf(d), d[3])
      /\ Shown(e) = State(DrawOf(e), e[3])
  BY <1>1, <1>2, EventShows
<1>4. request[d] = d[1] /\ request[e] = e[1]
  BY <1>1 DEF FlowInv
<1>5. d[1] = e[1] /\ d[2] = e[2]
  BY <1>3, <1>4 DEF OneRate
<1>6. DrawOf(e) = w
  BY <1>5 DEF DrawOf
<1>7. /\ updated[d] = State(w, d[3]).updated_at
      /\ updated[e] = State(w, e[3]).updated_at
      /\ status[d] = StatusOf(State(w, d[3]))
  BY <1>1, <1>3, <1>6 DEF FlowInv
<1>8. w \in Draws /\ d[3] \in 0 .. Last(w) /\ e[3] \in 0 .. Last(w)
  <2>1. w \in Draws /\ Last(w) \in 1 .. 4
    BY <1>3, LastIs
  <2>2. QED
    BY <1>1, <1>3, <1>6, <2>1
<1>9. updated[d] \in Nat /\ updated[e] \in Nat
  BY <1>7, <1>8, LifeOfRequest
<1> HIDE DEF d, e, w
<1>10. e[3] < d[3] => updated[e] < updated[d]
  BY <1>7, <1>8, MessagesInOrder
<1>11. d[3] < e[3] => status[d] \notin {"RESOLVED", "CANCELLED"}
  BY <1>7, <1>8, MessagesInOrder
<1>12. d[3] = e[3] => updated[d] = updated[e]
  BY <1>7
<1>13. d[3] \in Int /\ e[3] \in Int
  BY <1>3
<1>14. updated[d] <= updated[e] => d[3] <= e[3]
  BY <1>9, <1>10, <1>13
<1>15. status[d] \in {"RESOLVED", "CANCELLED"} => updated[e] <= updated[d]
  BY <1>9, <1>10, <1>11, <1>12, <1>13
<1>16. QED
  BY <1>14, <1>15 DEF d, e

(***************************************************************************)
(* Silver shows the furthest state of each request that the contract let   *)
(* through, over any number of runs at one corruption rate, for all draws. *)
(***************************************************************************)
THEOREM SilverIsUpToDate ==
    ASSUME OneRate
    PROVE  FlowSpec => []SilverShowsFurthestState
<1>1. StagingInv /\ FlowInv => SilverShowsFurthestState
  <2> SUFFICES ASSUME StagingInv, FlowInv, NEW e \in EventsOf(built)
               PROVE  \E d \in silver : d[1] = e[1] /\ d[3] >= e[3]
    BY DEF SilverShowsFurthestState, EventsOf
  <2>1. TypeOK /\ built \subseteq bronze
    BY DEF StagingInv, SilverInv, ReadsGrow
  <2>2. PICK d \in silver : request[d] = request[e] /\ updated[d] >= updated[e]
    BY DEF StagingInv, SilverIsLatest, Covers
  <2>3. d \in EventsOf(built)
    BY DEF StagingInv, SilverIsLatest
  <2>4. PICK x \in bronze : x[1] = e
    BY <2>1 DEF EventsOf
  <2>5. PICK y \in bronze : y[1] = d
    BY <2>1, <2>3 DEF EventsOf
  <2>6. updated[e] \in Int /\ updated[d] \in Int
    <3>1. e \in Events /\ d \in Events
      BY <2>4, <2>5 DEF FlowInv
    <3>2. QED
      BY <2>1, <3>1, SilverAssumption DEF TypeOK, Times
  <2>7. updated[x[1]] <= updated[y[1]]
    BY <2>2, <2>4, <2>5, <2>6
  <2>8. e[3] <= d[3] /\ e[3] \in Int /\ d[3] \in Int
    <3>1. e[3] <= d[3]
      BY <2>1, <2>2, <2>4, <2>5, <2>7, LaterIsFurther
    <3>2. e \in Events /\ d \in Events
      BY <2>4, <2>5 DEF FlowInv
    <3>3. e[3] \in 0 .. 4 /\ d[3] \in 0 .. 4
      BY <3>2, EventShows DEF FlowInv
    <3>4. QED
      BY <3>1, <3>3
  <2>9. d[1] = e[1]
    BY <2>2, <2>4, <2>5 DEF FlowInv
  <2>10. QED
    BY <2>8, <2>9
<1>2. QED
  BY <1>1, StreamImplementsTable, StagingInvariant, PTL

(***************************************************************************)
(* A request that silver shows as RESOLVED or CANCELLED stays so, over any *)
(* number of further runs at the same corruption rate.                     *)
(***************************************************************************)
THEOREM TerminalStates ==
    ASSUME OneRate
    PROVE  FlowSpec => TerminalIsFinal
<1> DEFINE Kept == \A e \in silver : status[e] \in {"RESOLVED", "CANCELLED"} => e \in silver'
<1>1. StagingInv /\ FlowInv /\ [FlowNext]_flowVars => [Kept]_flowVars
  <2> SUFFICES ASSUME StagingInv, FlowInv, [FlowNext]_flowVars,
                      NEW e \in silver, status[e] \in {"RESOLVED", "CANCELLED"}
               PROVE  e \in silver'
    OBVIOUS
  <2>1. [Next]_vars
    BY FlowSteps
  <2>2. CASE FirstLoad
    BY <2>2 DEF FirstLoad, StagingInv, SilverInv
  <2>3. CASE Merge
    <3>1. TypeOK /\ reading \subseteq bronze /\ built \subseteq bronze /\ pc = "merge"
      BY <2>3 DEF Merge, StagingInv, SilverInv, ReadsGrow
    <3>2. PICK x \in bronze : x[1] = e
      BY <3>1 DEF StagingInv, SilverIsLatest, EventsOf
    <3>3. ASSUME NEW f \in EventsOf(source), Matches(f, e)
          PROVE  ~ (updated[f] > updated[e])
      <4>1. PICK y \in bronze : y[1] = f
        BY <3>1 DEF StagingInv, SourceIsLatest, EventsOf
      <4>2. updated[f] <= updated[e]
        BY <3>1, <3>2, <3>3, <4>1, LaterIsFurther DEF Matches
      <4>3. updated[f] \in Int /\ updated[e] \in Int
        BY <3>1, <3>2, <4>1, SilverAssumption DEF FlowInv, TypeOK, Times
      <4>4. QED
        BY <4>2, <4>3
    <3>4. e \in Untouched(silver, EventsOf(source))
      BY <3>3 DEF Untouched
    <3>5. QED
      BY <2>3, <3>4 DEF Merge, Merged
  <2>4. CASE ~ FirstLoad /\ ~ Merge
    <3>1. silver' = silver
      BY <2>1, <2>4 DEF Next, Ingest, BuildRead, Crash, vars, silverVars
    <3>2. QED
      BY <3>1
  <2>5. QED
    BY <2>2, <2>3, <2>4
<1>2. QED
  BY <1>1, StreamImplementsTable, StagingInvariant, PTL DEF FlowSpec, TerminalIsFinal

=============================================================================
