--------------------------- MODULE CopilotProofs ---------------------------
(***************************************************************************)
(* The copilot, for any corpus, models, processes that ask, edits and      *)
(* kills: the collection is one reading of the corpus, an answer stands on *)
(* what it cites, a prompt holds no chunk twice, and no model is given up  *)
(* early.                                                                  *)
(***************************************************************************)
EXTENDS Copilot, FiniteSetTheorems, TLAPS

AskerPlaces ==
    {"idle", "embed", "encode", "write vector", "dense", "sparse", "look up", "call", "write answer"}

\* Where `top` holds the passages for the prompt.
Generating == {"look up", "call", "write answer"}

-----------------------------------------------------------------------------
(***************************************************************************)
(* The index.                                                              *)
(***************************************************************************)
\* What a build indexes it has read, and it fills the collection it created.
IndexInv ==
    /\ corpus \subseteq Texts /\ corpus # {}
    /\ edits \in 0 .. MaxEdits
    /\ chunks \subseteq Texts
    /\ collection.points \subseteq Texts
    /\ indexer # "idle" => chunks \in readings
    /\ indexer = "upsert" => collection.points = {}
    /\ IndexIsOneReading

(***************************************************************************)
(* The processes that ask.                                                 *)
(***************************************************************************)
Replies == [kind : {"none", "answer", "degraded", "retrieval failed", "generation failed"},
            cited : SUBSET Texts, source : SUBSET Texts]

AskTypes ==
    /\ asker \in [Askers -> AskerPlaces]
    /\ bm25 \in [Askers -> SUBSET Texts]
    /\ dense \in [Askers -> SUBSET Texts]
    /\ top \in [Askers -> SUBSET Texts]
    /\ model \in [Askers -> Models]
    /\ refused \in [Askers -> [Models -> Nat]]
    /\ reply \in [Askers -> Replies]

\* A whole answer file was generated from passages with the ids of its key.
FilesMatchKeys ==
    /\ answers \in [Keys -> [state : FileStates, from : SUBSET Texts]]
    /\ \A k \in Keys : answers[k].state = "whole" => IdsOf(answers[k].from) = k[1]

\* Of the models before the present one all calls have failed, of those after it none was made.
Chain(a) ==
    /\ \A m \in Models :
          /\ m < model[a] => refused[a][m] = MaxRetries
          /\ m > model[a] => refused[a][m] = 0
    /\ refused[a][model[a]] < MaxRetries

Asking(a) ==
    /\ asker[a] \in Generating => top[a] # {}
    /\ asker[a] = "idle" => model[a] = 1
    /\ asker[a] # "idle" => Chain(a) /\ reply[a].kind = "none"
    /\ reply[a].kind \in {"answer", "degraded"} => reply[a].cited # {}
    /\ reply[a].kind = "answer" => IdsOf(reply[a].source) = IdsOf(reply[a].cited)
    /\ reply[a].kind = "degraded" => \A m \in Models : refused[a][m] = MaxRetries

AskInv ==
    /\ AskTypes
    /\ FilesMatchKeys
    /\ \A a \in Askers : Asking(a)

CopilotInv == IndexInv /\ AskInv

-----------------------------------------------------------------------------
\* There are finitely many texts.
LEMMA TextsAreFinite == IsFiniteSet(Texts)
<1>1. MaxEdits \in Nat /\ IsFiniteSet(Ids)
    BY CopilotAssumption
<1>2. IsFiniteSet(Versions)
    BY <1>1, FS_Interval DEF Versions
<1> QED
    BY <1>1, <1>2, FS_Product DEF Texts

\* The ids of texts are ids.
LEMMA IdsOfTexts == \A S \in SUBSET Texts : IdsOf(S) \subseteq Ids
BY DEF IdsOf, Texts

\* What ranks highest in a collection of texts that is not empty is some of them.
LEMMA SomeRankHighest ==
    ASSUME NEW S \in SUBSET Texts, S # {}, NEW n \in Nat \ {0}, NEW H \in Highest(S, n)
    PROVE  H # {} /\ H \in SUBSET Texts
<1>1. IsFiniteSet(S)
    BY TextsAreFinite, FS_Subset
<1>2. Cardinality(S) \in Nat /\ Cardinality(S) # 0
    BY <1>1, FS_CardinalityType, FS_EmptySet
<1>3. Cardinality(H) # 0 /\ H \subseteq S
    BY <1>2 DEF Highest
<1> QED
    BY <1>3, FS_EmptySet

\* The invariant holds before the first build.
LEMMA InitHolds == Init => CopilotInv
<1> SUFFICES ASSUME Init
             PROVE  CopilotInv
    OBVIOUS
<1>1. IndexInv
    <2>1. PICK id \in Ids : TRUE
        BY CopilotAssumption
    <2>2. <<id, 1>> \in Ids \X {1} /\ Ids \X {1} \subseteq Texts /\ 0 \in 0 .. MaxEdits
        BY CopilotAssumption DEF Texts, Versions
    <2> QED
        BY <2>2 DEF Init, IndexInv, IndexIsOneReading, Missing
<1>2. AskTypes
    BY CopilotAssumption, FS_CardinalityType, FS_EmptySet
    DEF Init, AskTypes, AskerPlaces, Replies, NotCalled, NoReply
<1>3. FilesMatchKeys
    BY DEF Init, FilesMatchKeys, File, FileStates
<1>4. \A a \in Askers : Asking(a)
    BY DEF Init, Asking, Generating, NoReply
<1> QED
    BY <1>1, <1>2, <1>3, <1>4 DEF CopilotInv, AskInv

-----------------------------------------------------------------------------
\* Every step keeps what is said of the index.
LEMMA IndexKeeps ==
    ASSUME IndexInv, [Next]_vars
    PROVE  IndexInv'
<1> USE DEF IndexInv, IndexIsOneReading
<1>1. ASSUME NEW id \in Ids, Edit(id)
      PROVE  IndexInv'
    <2>1. edits' = edits + 1 /\ edits' \in 0 .. MaxEdits
        BY <1>1, CopilotAssumption DEF Edit
    <2>2. <<id, edits' + 1>> \in Texts
        BY <2>1, CopilotAssumption DEF Texts, Versions
    <2>3. corpus' \subseteq Texts /\ corpus' # {}
        BY <1>1, <2>2 DEF Edit
    <2> QED
        BY <1>1, <2>1, <2>3 DEF Edit, indexVars
<1>2. CASE BuildRead \/ LoadVectors
    BY <1>2 DEF BuildRead, LoadVectors, BuildOver, corpusVars
<1>3. ASSUME NEW t \in Texts, OpenVector(t) \/ WriteVector(t)
      PROVE  IndexInv'
    BY <1>3 DEF OpenVector, WriteVector, corpusVars
<1>4. CASE DropCollection \/ CreateCollection
    BY <1>4 DEF DropCollection, CreateCollection, corpusVars, indexVars, Missing, Points
<1>5. CASE UpsertChunks
    BY <1>5 DEF UpsertChunks, BuildOver, corpusVars, Points
<1>6. CASE KillIndexer
    BY <1>6 DEF KillIndexer, BuildOver, corpusVars
<1>7. ASSUME NEW a \in Askers, Ask(a) \/ Answering(a) \/ Leave(a) \/ KillAsker(a)
      PROVE  IndexInv'
    BY <1>7 DEF Ask, Answering, Leave, KillAsker, LoadQuery, OpenQuery, WriteQuery, DenseSearch, SparseSearch,
       LookUp, CallSucceeds, WriteAnswer, CallFails, corpusVars, indexVars
<1>8. CASE UNCHANGED vars
    BY <1>8 DEF vars, corpusVars, indexVars
<1> QED
    BY <1>1, <1>2, <1>3, <1>4, <1>5, <1>6, <1>7, <1>8 DEF Next, Build

-----------------------------------------------------------------------------
\* Models are tried from the first.
LEMMA FirstModel ==
    1 \in Models /\ Models \subseteq Nat \ {0} /\ MaxRetries \in Nat \ {0} /\ Cardinality(Models) \in Nat
BY CopilotAssumption, FS_CardinalityType, FS_EmptySet

\* A process that does not move goes on as it was.
LEMMA AskingKept ==
    ASSUME NEW a \in Askers, Asking(a),
           asker'[a] = asker[a], top'[a] = top[a], model'[a] = model[a],
           refused'[a] = refused[a], reply'[a] = reply[a]
    PROVE  Asking(a)'
BY DEF Asking, Chain

\* A process that returns an answer that stands on what it cites, or an exception.
LEMMA ReturnKeeps ==
    ASSUME AskInv, NEW a \in Askers, NEW r \in Replies, Return(a, r), r.kind # "degraded",
           r.kind = "answer" => r.cited # {} /\ IdsOf(r.source) = IdsOf(r.cited)
    PROVE  AskTypes' /\ \A b \in Askers : Asking(b)'
<1> USE DEF AskInv
<1>1. NotCalled \in [Models -> Nat]
    BY DEF NotCalled
<1>2. AskTypes'
    BY <1>1, FirstModel DEF Return, AskTypes, AskerPlaces
<1>3. asker'[a] = "idle" /\ model'[a] = 1 /\ reply'[a] = r
    BY DEF Return, AskTypes
<1>4. Asking(a)'
    BY <1>3 DEF Asking, Generating
<1>5. \A b \in Askers \ {a} : Asking(b)'
    BY AskingKept DEF Return, AskTypes
<1> QED
    BY <1>2, <1>4, <1>5

\* A process that goes on to the next place p of its `ask`, with the passages P.
LEMMA GoOnKeeps ==
    ASSUME AskInv, NEW a \in Askers, asker[a] # "idle",
           NEW p \in AskerPlaces, p # "idle", asker' = [asker EXCEPT ![a] = p],
           NEW P \in SUBSET Texts, top' = [top EXCEPT ![a] = P], p \in Generating => P # {},
           bm25' \in [Askers -> SUBSET Texts], dense' \in [Askers -> SUBSET Texts],
           UNCHANGED <<model, refused, reply>>
    PROVE  AskTypes' /\ \A b \in Askers : Asking(b)'
<1> USE DEF AskInv
<1>1. AskTypes'
    BY DEF AskTypes
<1>2. asker'[a] = p /\ top'[a] = P
    BY DEF AskTypes
<1>3. Asking(a)'
    BY <1>2 DEF Asking, Chain
<1>4. \A b \in Askers \ {a} : Asking(b)'
    BY AskingKept DEF AskTypes
<1> QED
    BY <1>1, <1>3, <1>4

\* The key of the passages a process holds.
LEMMA KeyOfPassages == \A a \in Askers : AskTypes => Key(a) \in Keys /\ Key(a)[1] = IdsOf(top[a])
BY IdsOfTexts DEF AskTypes, Key, Keys

\* A question is asked: no model has been called.
LEMMA AskKeeps ==
    ASSUME AskInv, NEW a \in Askers, Ask(a)
    PROVE  AskInv'
<1> USE DEF AskInv
<1>1. AskTypes'
    BY DEF AskTypes, AskerPlaces, Replies, Ask, NotCalled, NoReply
<1>2. FilesMatchKeys'
    BY DEF FilesMatchKeys, Ask
<1>3. /\ asker'[a] = "embed" /\ top'[a] = top[a] /\ model'[a] = 1
      /\ refused'[a] = NotCalled /\ reply'[a] = NoReply
    BY DEF Ask, AskTypes, Asking
<1>4. \A m \in Models : m \in Nat /\ ~ (m < 1) /\ NotCalled[m] = 0
    BY FirstModel DEF NotCalled
<1>5. Chain(a)'
    <2>1. /\ \A m \in Models : m < 1 => NotCalled[m] = MaxRetries
          /\ \A m \in Models : m > 1 => NotCalled[m] = 0
        BY <1>4
    <2>2. NotCalled[1] < MaxRetries
        BY <1>4, FirstModel
    <2> QED
        BY <1>3, <2>1, <2>2 DEF Chain
<1>6. Asking(a)'
    <2>1. NoReply.kind = "none"
        BY DEF NoReply
    <2> QED
        BY <1>3, <1>5, <2>1 DEF Asking, Generating
<1>7. \A b \in Askers \ {a} : Asking(b)'
    BY AskingKept DEF Ask, AskTypes
<1> QED
    BY <1>1, <1>2, <1>6, <1>7

\* The vector of the question, and the dense search.
LEMMA RetrievalKeeps ==
    ASSUME IndexInv, AskInv, NEW a \in Askers,
           LoadQuery(a) \/ OpenQuery(a) \/ WriteQuery(a) \/ DenseSearch(a)
    PROVE  AskInv'
<1> USE DEF AskInv
<1>1. FilesMatchKeys'
    BY DEF FilesMatchKeys, LoadQuery, OpenQuery, WriteQuery, DenseSearch
<1>2. CASE LoadQuery(a) \/ DenseSearch(a)
    <2>1. CASE Return(a, Raised("retrieval failed"))
        <3>1. Raised("retrieval failed") \in Replies /\ Raised("retrieval failed").kind = "retrieval failed"
            BY DEF Raised, Replies
        <3> QED
            BY <1>1, <2>1, <3>1, ReturnKeeps
    <2>2. CASE ~ Return(a, Raised("retrieval failed"))
        <3>1. PICK p \in {"dense", "encode", "sparse"} :
                  asker' = [asker EXCEPT ![a] = p] /\ asker[a] # "idle"
            BY <1>2, <2>2 DEF LoadQuery, DenseSearch
        <3>2. /\ top' = [top EXCEPT ![a] = top[a]] /\ top[a] \in SUBSET Texts
              /\ UNCHANGED <<bm25, model, refused, reply>>
            BY <1>2, <2>2 DEF LoadQuery, DenseSearch, AskTypes
        <3>3. dense' \in [Askers -> SUBSET Texts] /\ bm25' \in [Askers -> SUBSET Texts]
            <4>1. CASE LoadQuery(a)
                BY <2>2, <4>1 DEF LoadQuery, AskTypes
            <4>2. CASE DenseSearch(a)
                <5>1. PICK hits \in Highest(collection.points, RetrieveTopK) : dense' = [dense EXCEPT ![a] = hits]
                    BY <2>2, <4>2 DEF DenseSearch
                <5>2. hits \in SUBSET Texts
                    BY <5>1 DEF Highest, IndexInv
                <5> QED
                    BY <2>2, <4>2, <5>1, <5>2 DEF DenseSearch, AskTypes
            <4> QED
                BY <1>2, <4>1, <4>2
        <3>4. p \in AskerPlaces /\ p # "idle" /\ p \notin Generating
            BY DEF AskerPlaces, Generating
        <3> QED
            BY <1>1, <3>1, <3>2, <3>3, <3>4, GoOnKeeps
    <2> QED
        BY <2>1, <2>2
<1>3. CASE OpenQuery(a) \/ WriteQuery(a)
    <2>1. PICK p \in {"write vector", "dense"} :
              asker' = [asker EXCEPT ![a] = p] /\ asker[a] # "idle"
        BY <1>3 DEF OpenQuery, WriteQuery
    <2>2. /\ top' = [top EXCEPT ![a] = top[a]] /\ top[a] \in SUBSET Texts
          /\ UNCHANGED <<bm25, dense, model, refused, reply>>
        BY <1>3 DEF OpenQuery, WriteQuery, AskTypes
    <2>3. dense' \in [Askers -> SUBSET Texts] /\ bm25' \in [Askers -> SUBSET Texts]
        BY <2>2 DEF AskTypes
    <2>4. p \in AskerPlaces /\ p # "idle" /\ p \notin Generating
        BY DEF AskerPlaces, Generating
    <2> QED
        BY <1>1, <2>1, <2>2, <2>3, <2>4, GoOnKeeps
<1> QED
    BY <1>2, <1>3

\* The sparse search has a corpus that is not empty, so there are passages for the prompt.
LEMMA SparseSearchKeeps ==
    ASSUME IndexInv, AskInv, NEW a \in Askers, SparseSearch(a)
    PROVE  AskInv'
<1> USE DEF AskInv
<1> DEFINE ranked == IF bm25[a] = {} THEN corpus ELSE bm25[a]
<1>1. ranked \in SUBSET Texts /\ ranked # {}
    BY DEF IndexInv, AskTypes
<1>2. PICK hits \in Highest(ranked, RetrieveTopK) :
          \E P \in Highest(Fused(dense[a], hits), RerankTopK) : top' = [top EXCEPT ![a] = P]
    BY DEF SparseSearch
<1>3. hits # {} /\ hits \in SUBSET Texts
    <2> HIDE DEF ranked
    <2> QED
        BY <1>1, <1>2, SomeRankHighest, CopilotAssumption
<1>4. Fused(dense[a], hits) # {} /\ Fused(dense[a], hits) \in SUBSET Texts
    BY <1>3 DEF Fused, AskTypes
<1>5. PICK P \in Highest(Fused(dense[a], hits), RerankTopK) : top' = [top EXCEPT ![a] = P]
    BY <1>2
<1>6. P # {} /\ P \in SUBSET Texts
    BY <1>4, <1>5, SomeRankHighest, CopilotAssumption
<1>7. bm25' \in [Askers -> SUBSET Texts] /\ dense' \in [Askers -> SUBSET Texts]
    BY <1>1 DEF SparseSearch, AskTypes
<1>8. "look up" \in AskerPlaces
    BY DEF AskerPlaces
<1>9. AskTypes' /\ \A b \in Askers : Asking(b)'
    BY <1>5, <1>6, <1>7, <1>8, GoOnKeeps DEF SparseSearch
<1>10. FilesMatchKeys'
    BY DEF SparseSearch, FilesMatchKeys
<1> QED
    BY <1>9, <1>10

\* A cached answer was generated from passages with the ids of those it is returned for.
LEMMA LookUpKeeps ==
    ASSUME AskInv, NEW a \in Askers, LookUp(a)
    PROVE  AskInv'
<1> USE DEF AskInv
<1>1. FilesMatchKeys'
    BY DEF LookUp, FilesMatchKeys
<1>2. top[a] # {} /\ top[a] \in SUBSET Texts
    BY DEF LookUp, Asking, Generating, AskTypes
<1>3. CASE Return(a, Raised("generation failed"))
    <2>1. Raised("generation failed") \in Replies /\ Raised("generation failed").kind = "generation failed"
        BY DEF Raised, Replies
    <2> QED
        BY <1>1, <1>3, <2>1, ReturnKeeps
<1>4. CASE answers[Key(a)].state = "whole" /\ Return(a, Answer(a, answers[Key(a)].from))
    <2>1. answers[Key(a)].from \in SUBSET Texts /\ IdsOf(answers[Key(a)].from) = IdsOf(top[a])
        BY <1>4, KeyOfPassages DEF FilesMatchKeys
    <2> DEFINE r == Answer(a, answers[Key(a)].from)
    <2>2. r \in Replies /\ r.kind = "answer" /\ r.cited = top[a] /\ r.source = answers[Key(a)].from
        BY <1>2, <2>1 DEF Answer, Replies
    <2>3. Return(a, r)
        BY <1>4
    <2> HIDE DEF r
    <2> QED
        BY <1>1, <1>2, <2>1, <2>2, <2>3, ReturnKeeps
<1>5. CASE asker' = [asker EXCEPT ![a] = "call"] /\ UNCHANGED <<useCache, bm25, dense, top, model, refused, reply>>
    <2>1. "call" \in AskerPlaces /\ top' = [top EXCEPT ![a] = top[a]]
        BY <1>5 DEF AskerPlaces, AskTypes
    <2>2. bm25' \in [Askers -> SUBSET Texts] /\ dense' \in [Askers -> SUBSET Texts]
        BY <1>5 DEF AskTypes
    <2> QED
        BY <1>1, <1>2, <1>5, <2>1, <2>2, GoOnKeeps DEF LookUp
<1> QED
    BY <1>3, <1>4, <1>5 DEF LookUp

\* A model answers: the file of the answer is opened, then written and the answer returned.
LEMMA AnswerKeeps ==
    ASSUME AskInv, NEW a \in Askers, CallSucceeds(a) \/ WriteAnswer(a)
    PROVE  AskInv'
<1> USE DEF AskInv
<1>1. top[a] # {} /\ top[a] \in SUBSET Texts
    BY DEF CallSucceeds, WriteAnswer, Asking, Generating, AskTypes
<1>2. Key(a) \in Keys /\ Key(a)[1] = IdsOf(top[a])
    BY KeyOfPassages
<1>3. CASE CallSucceeds(a)
    <2>1. FilesMatchKeys'
        <3>1. /\ File("torn", {}) \in [state : FileStates, from : SUBSET Texts]
              /\ File("torn", {}).state = "torn"
            BY DEF File, FileStates
        <3> HIDE DEF Key, Keys
        <3> QED
            BY <1>2, <1>3, <3>1 DEF FilesMatchKeys, CallSucceeds
    <2>2. "write answer" \in AskerPlaces /\ top' = [top EXCEPT ![a] = top[a]]
        BY <1>3 DEF AskerPlaces, AskTypes, CallSucceeds
    <2>3. bm25' \in [Askers -> SUBSET Texts] /\ dense' \in [Askers -> SUBSET Texts]
        BY <1>3 DEF AskTypes, CallSucceeds
    <2> QED
        BY <1>1, <1>3, <2>1, <2>2, <2>3, GoOnKeeps DEF CallSucceeds
<1>4. CASE WriteAnswer(a)
    <2>1. FilesMatchKeys'
        <3>1. /\ File("whole", top[a]) \in [state : FileStates, from : SUBSET Texts]
              /\ File("whole", top[a]).from = top[a]
            BY <1>1 DEF File, FileStates
        <3> HIDE DEF Key, Keys
        <3> QED
            BY <1>2, <1>4, <3>1 DEF FilesMatchKeys, WriteAnswer
    <2> DEFINE r == Answer(a, top[a])
    <2>2. r \in Replies /\ r.kind = "answer" /\ r.cited = top[a] /\ r.source = top[a]
        BY <1>1 DEF Answer, Replies
    <2>3. Return(a, r)
        BY <1>4 DEF WriteAnswer
    <2> HIDE DEF r
    <2> QED
        BY <1>1, <2>1, <2>2, <2>3, ReturnKeeps
<1> QED
    BY <1>3, <1>4

\* A call fails: the model is called again, the next one is, or all have been.
LEMMA CallFailsKeeps ==
    ASSUME AskInv, NEW a \in Askers, CallFails(a)
    PROVE  AskInv'
<1> USE DEF AskInv
<1>1. FilesMatchKeys'
    BY DEF CallFails, FilesMatchKeys
<1>2. /\ asker[a] = "call" /\ top[a] # {} /\ top[a] \in SUBSET Texts /\ Chain(a) /\ reply[a].kind = "none"
      /\ model[a] \in Models /\ refused[a] \in [Models -> Nat]
    BY DEF CallFails, Asking, Generating, AskTypes
<1>3. /\ refused' \in [Askers -> [Models -> Nat]]
      /\ refused'[a][model[a]] = refused[a][model[a]] + 1
      /\ \A m \in Models \ {model[a]} : refused'[a][m] = refused[a][m]
      /\ \A b \in Askers \ {a} : refused'[b] = refused[b]
    BY <1>2 DEF CallFails, AskTypes
<1>4. /\ model[a] \in Nat /\ refused[a][model[a]] \in Nat /\ refused[a][model[a]] < MaxRetries
      /\ MaxRetries \in Nat
    BY <1>2, FirstModel DEF Chain
<1>5. CASE ~ Exhausted(a) /\ UNCHANGED <<asker, useCache, dense, top, model, reply>>
    <2>1. AskTypes'
        BY <1>3, <1>5 DEF AskTypes, CallFails
    <2>2. refused'[a][model[a]] < MaxRetries
        <3>1. ~ (refused'[a][model[a]] >= MaxRetries)
            BY <1>5 DEF Exhausted
        <3>2. refused'[a][model[a]] = refused[a][model[a]] + 1
            BY <1>3
        <3> QED
            BY <1>4, <3>1, <3>2
    <2>3. Chain(a)'
        BY <1>2, <1>3, <1>5, <2>2, FirstModel DEF Chain
    <2>4. Asking(a)'
        BY <1>2, <1>5, <2>3 DEF Asking
    <2>5. \A b \in Askers \ {a} : Asking(b)'
        BY <1>3, <1>5, AskingKept
    <2> QED
        BY <1>1, <2>1, <2>4, <2>5
<1>6. CASE Exhausted(a) /\ FallThrough(a)
    <2>1. refused'[a][model[a]] = MaxRetries
        <3>1. refused'[a][model[a]] >= MaxRetries
            BY <1>6 DEF Exhausted
        <3>2. refused'[a][model[a]] = refused[a][model[a]] + 1
            BY <1>3
        <3> QED
            BY <1>4, <3>1, <3>2
    <2>2. \A b \in Askers \ {a} : Asking(b)'
        BY <1>3, <1>6, AskingKept DEF FallThrough, AskTypes
    <2>3. CASE model[a] < Cardinality(Models)
        <3>1. /\ model' = [model EXCEPT ![a] = @ + 1] /\ asker' = [asker EXCEPT ![a] = "look up"]
              /\ UNCHANGED <<useCache, dense, top, reply, bm25>>
            BY <1>6, <2>3 DEF FallThrough, CallFails
        <3>2. model[a] + 1 \in Models
            BY <1>2, <2>3, FirstModel, CopilotAssumption
        <3>3. AskTypes'
            BY <1>3, <3>1, <3>2 DEF AskTypes, AskerPlaces
        <3>4. model'[a] = model[a] + 1 /\ asker'[a] = "look up" /\ top'[a] = top[a] /\ reply'[a] = reply[a]
            BY <3>1 DEF AskTypes
        <3>5. Chain(a)'
            <4>1. ASSUME NEW m \in Models, m < model[a] + 1
                  PROVE  refused'[a][m] = MaxRetries
                <5>1. m = model[a] \/ (m # model[a] /\ m < model[a])
                    BY <1>4, <4>1, FirstModel
                <5> QED
                    BY <1>2, <1>3, <2>1, <5>1 DEF Chain
            <4>2. ASSUME NEW m \in Models, ~ (m < model[a] + 1)
                  PROVE  refused'[a][m] = 0
                <5>1. m # model[a] /\ m > model[a]
                    BY <1>4, <4>2, FirstModel
                <5>2. refused[a][m] = 0
                    BY <1>2, <5>1 DEF Chain
                <5> QED
                    BY <1>3, <5>1, <5>2
            <4>3. refused'[a][model[a] + 1] = 0 /\ \A m \in Models : m > model[a] + 1 => ~ (m < model[a] + 1)
                <5>1. ~ (model[a] + 1 < model[a] + 1)
                    BY <1>4
                <5>2. \A m \in Models : m > model[a] + 1 => ~ (m < model[a] + 1)
                    BY <1>4, FirstModel
                <5> QED
                    BY <3>2, <4>2, <5>1, <5>2
            <4>4. refused'[a][model'[a]] < MaxRetries
                <5>1. refused'[a][model'[a]] = 0
                    BY <3>4, <4>3, Zenon
                <5> QED
                    BY <5>1, FirstModel
            <4>5. \A m \in Models : m > model'[a] => refused'[a][m] = 0
                BY <3>4, <4>2, <4>3
            <4>6. \A m \in Models : m < model'[a] => refused'[a][m] = MaxRetries
                BY <3>4, <4>1
            <4> QED
                BY <4>4, <4>5, <4>6 DEF Chain
        <3>6. Asking(a)'
            BY <1>2, <3>4, <3>5 DEF Asking
        <3> QED
            BY <1>1, <2>2, <3>3, <3>6
    <2>4. CASE ~ (model[a] < Cardinality(Models))
        <3>1. /\ asker' = [asker EXCEPT ![a] = "idle"] /\ reply' = [reply EXCEPT ![a] = Degraded(a)]
              /\ dense' = [dense EXCEPT ![a] = {}] /\ top' = [top EXCEPT ![a] = {}]
              /\ model' = [model EXCEPT ![a] = 1] /\ bm25' = bm25
            BY <1>6, <2>4 DEF FallThrough, CallFails
        <3>2. Degraded(a) \in Replies /\ Degraded(a).kind = "degraded" /\ Degraded(a).cited = top[a]
            BY <1>2 DEF Degraded, Replies
        <3>3. AskTypes'
            <4> HIDE DEF Replies, Degraded
            <4> QED
                BY <1>3, <3>1, <3>2, FirstModel DEF AskTypes, AskerPlaces
        <3>4. asker'[a] = "idle" /\ model'[a] = 1 /\ reply'[a] = Degraded(a)
            BY <3>1 DEF AskTypes
        <3>5. \A m \in Models : m = model[a] \/ m < model[a]
            BY <1>2, <2>4, FirstModel, CopilotAssumption
        <3>6. \A m \in Models : refused'[a][m] = MaxRetries
            BY <1>2, <1>3, <2>1, <3>5 DEF Chain
        <3>7. Asking(a)'
            BY <1>2, <3>2, <3>4, <3>6 DEF Asking, Generating
        <3> QED
            BY <1>1, <2>2, <3>3, <3>7
    <2> QED
        BY <2>3, <2>4
<1> QED
    BY <1>5, <1>6 DEF CallFails

\* A process exits or is killed.
LEMMA LeaveKeeps ==
    ASSUME AskInv, NEW a \in Askers, Leave(a) \/ KillAsker(a)
    PROVE  AskInv'
<1> USE DEF AskInv
<1>1. FilesMatchKeys'
    BY DEF Leave, KillAsker, FilesMatchKeys
<1>2. CASE Leave(a)
    BY <1>1, <1>2, AskingKept DEF Leave, AskTypes
<1>3. CASE KillAsker(a)
    <2>1. AskTypes'
        BY <1>3, FirstModel DEF KillAsker, AskTypes, AskerPlaces, NotCalled
    <2>2. asker'[a] = "idle" /\ model'[a] = 1 /\ reply'[a] = reply[a] /\ reply[a].kind = "none"
        BY <1>3 DEF KillAsker, AskTypes, Asking
    <2>3. Asking(a)'
        BY <2>2 DEF Asking, Generating
    <2>4. \A b \in Askers \ {a} : Asking(b)'
        BY <1>3, AskingKept DEF KillAsker, AskTypes
    <2> QED
        BY <1>1, <2>1, <2>3, <2>4
<1> QED
    BY <1>2, <1>3

\* Every step keeps what is said of the processes that ask.
LEMMA AskersKeep ==
    ASSUME IndexInv, AskInv, [Next]_vars
    PROVE  AskInv'
<1>1. ASSUME NEW a \in Askers, Ask(a) \/ Answering(a) \/ Leave(a) \/ KillAsker(a)
      PROVE  AskInv'
    BY <1>1, AskKeeps, RetrievalKeeps, SparseSearchKeeps, LookUpKeeps, AnswerKeeps, CallFailsKeeps,
       LeaveKeeps DEF Answering
<1>2. CASE UNCHANGED askVars /\ UNCHANGED answers
    BY <1>2, AskingKept DEF askVars, AskInv, AskTypes, FilesMatchKeys
<1>3. (\E id \in Ids : Edit(id)) \/ Build \/ KillIndexer \/ UNCHANGED vars
         => UNCHANGED askVars /\ UNCHANGED answers
    BY DEF Edit, Build, BuildRead, LoadVectors, OpenVector, WriteVector, DropCollection, CreateCollection,
       UpsertChunks, KillIndexer, vars
<1> QED
    BY <1>1, <1>2, <1>3 DEF Next

-----------------------------------------------------------------------------
\* Whatever is edited, cut short or refused, the index and the processes that ask are sound.
THEOREM CopilotInvariant == Spec => []CopilotInv
<1>1. Init => CopilotInv
    BY InitHolds
<1>2. CopilotInv /\ [Next]_vars => CopilotInv'
    BY IndexKeeps, AskersKeep DEF CopilotInv
<1> QED
    BY <1>1, <1>2, PTL DEF Spec

\* The collection never mixes two states of the corpus, also after kills.
THEOREM CollectionIsOneReading == Spec => []IndexIsOneReading
<1>1. CopilotInv => IndexIsOneReading
    BY DEF CopilotInv, IndexInv
<1> QED
    BY CopilotInvariant, <1>1, PTL

\* An answer cites passages, and was generated from passages with the ids it cites.
THEOREM AnswersCiteTheirSources == Spec => []AnswersStandOnCitations
<1>1. CopilotInv => AnswersStandOnCitations
    BY DEF CopilotInv, AskInv, Asking, AnswersStandOnCitations
<1> QED
    BY CopilotInvariant, <1>1, PTL

\* A degraded answer comes after every call of every model has failed.
THEOREM DegradedComesLast == Spec => []DegradedMeansAllRefused
<1>1. CopilotInv => DegradedMeansAllRefused
    BY DEF CopilotInv, AskInv, Asking, DegradedMeansAllRefused
<1> QED
    BY CopilotInvariant, <1>1, PTL

-----------------------------------------------------------------------------
(***************************************************************************)
(* Types, and the passages of a prompt: chunk ids stand for texts one to   *)
(* one in everything a search ranks, so none is in a prompt twice.         *)
(***************************************************************************)
OneTextEach(S) == \A s, t \in S : s[1] = t[1] => s = t

DistinctInv ==
    /\ OneTextEach(corpus) /\ OneTextEach(chunks) /\ OneTextEach(collection.points)
    /\ \A a \in Askers :
          /\ OneTextEach(bm25[a]) /\ OneTextEach(dense[a]) /\ OneTextEach(top[a])
          /\ Cardinality(top[a]) <= RerankTopK

\* Only a build that stores vectors has a file open, and it is of one of its texts.
BuildTypes ==
    /\ vectors \in [Texts \cup {Question} -> FileStates]
    /\ collection \in [exists : BOOLEAN, points : SUBSET Texts]
    /\ indexer \in {"idle", "load", "store", "upsert"}
    /\ writing \subseteq chunks
    /\ indexer # "store" => writing = {}
    /\ readings \subseteq SUBSET Texts

CallTypes ==
    /\ useCache \in [Askers -> BOOLEAN]
    /\ refused \in [Askers -> [Models -> 0 .. MaxRetries]]
    /\ faults \in 0 .. MaxFaults

PromptInv == DistinctInv /\ BuildTypes /\ CallTypes

\* As many ids as texts, where each text has its own.
LEMMA OneIdEach ==
    ASSUME NEW S \in SUBSET Texts, OneTextEach(S)
    PROVE  Cardinality(IdsOf(S)) = Cardinality(S)
<1> DEFINE f == [t \in S |-> t[1]]
<1>1. IsFiniteSet(S)
    BY TextsAreFinite, FS_Subset
<1>2. f \in Bijection(S, IdsOf(S))
    BY DEF Bijection, Injection, Surjection, IsInjective, OneTextEach, IdsOf
<1>3. ExistsBijection(S, IdsOf(S))
    BY <1>2 DEF ExistsBijection
<1> QED
    BY <1>1, <1>3, FS_Bijection

\* What ranks highest has one text for each id if what is ranked has, and no more than n.
LEMMA HighestOfDistinct ==
    ASSUME NEW S \in SUBSET Texts, OneTextEach(S), NEW n \in Nat, NEW H \in Highest(S, n)
    PROVE  H \in SUBSET Texts /\ OneTextEach(H) /\ Cardinality(H) <= n
<1>1. Cardinality(S) \in Nat
    BY TextsAreFinite, FS_Subset, FS_CardinalityType
<1>2. Cardinality(H) = (IF Cardinality(S) < n THEN Cardinality(S) ELSE n) /\ H \subseteq S
    BY DEF Highest
<1>3. Cardinality(H) <= n
    BY <1>1, <1>2
<1> QED
    BY <1>2, <1>3 DEF OneTextEach

\* Fusion keeps one candidate for each id of either ranking.
LEMMA FusionIsDistinct ==
    ASSUME NEW D \in SUBSET Texts, OneTextEach(D), NEW S \in SUBSET Texts, OneTextEach(S)
    PROVE  OneTextEach(Fused(D, S)) /\ Fused(D, S) \in SUBSET Texts
BY DEF OneTextEach, Fused, IdsOf

\* The builds and the corpus.
LEMMA BuildIsDistinct ==
    ASSUME IndexInv, DistinctInv, BuildTypes, Build
    PROVE  DistinctInv' /\ BuildTypes'
<1> USE DEF DistinctInv, BuildTypes
<1>1. CASE BuildRead
    BY <1>1 DEF BuildRead, corpusVars, askVars, IndexInv
<1>2. CASE LoadVectors
    BY <1>2 DEF LoadVectors, BuildOver, corpusVars, askVars, OneTextEach
<1>3. ASSUME NEW t \in Texts, OpenVector(t)
      PROVE  DistinctInv' /\ BuildTypes'
    BY <1>3 DEF OpenVector, corpusVars, askVars, FileStates
<1>4. ASSUME NEW t \in Texts, WriteVector(t)
      PROVE  DistinctInv' /\ BuildTypes'
    BY <1>4 DEF WriteVector, corpusVars, askVars, FileStates
<1>5. CASE DropCollection
    BY <1>5 DEF DropCollection, Missing, corpusVars, indexVars, askVars, OneTextEach
<1>6. CASE CreateCollection
    BY <1>6 DEF CreateCollection, Points, corpusVars, askVars, OneTextEach
<1>7. CASE UpsertChunks
    <2>1. collection'.points = chunks /\ collection' \in [exists : BOOLEAN, points : SUBSET Texts]
        BY <1>7 DEF UpsertChunks, Points, IndexInv
    <2> QED
        BY <1>7, <2>1 DEF UpsertChunks, BuildOver, corpusVars, askVars, OneTextEach
<1> QED
    BY <1>1, <1>2, <1>3, <1>4, <1>5, <1>6, <1>7 DEF Build

\* An edit replaces the text of an id.
LEMMA EditIsDistinct ==
    ASSUME DistinctInv, NEW id \in Ids, Edit(id)
    PROVE  DistinctInv'
<1>1. OneTextEach(corpus')
    BY DEF Edit, OneTextEach, DistinctInv
<1> QED
    BY <1>1 DEF Edit, DistinctInv, indexVars, askVars

\* The processes that ask.
LEMMA AskersAreDistinct ==
    ASSUME IndexInv, AskTypes, DistinctInv, NEW a \in Askers,
           Ask(a) \/ Answering(a) \/ Leave(a) \/ KillAsker(a)
    PROVE  DistinctInv'
<1>1. OneTextEach({}) /\ Cardinality({}) <= RerankTopK
    BY FS_EmptySet, CopilotAssumption DEF OneTextEach
<1>2. UNCHANGED <<corpus, chunks, collection>>
    BY DEF Ask, Answering, Leave, KillAsker, LoadQuery, OpenQuery, WriteQuery, DenseSearch, SparseSearch,
       LookUp, CallSucceeds, WriteAnswer, CallFails, corpusVars, indexVars
<1>3. ASSUME NEW B \in SUBSET Texts, NEW D \in SUBSET Texts, NEW P \in SUBSET Texts,
             OneTextEach(B), OneTextEach(D), OneTextEach(P), Cardinality(P) <= RerankTopK,
             bm25' = [bm25 EXCEPT ![a] = B], dense' = [dense EXCEPT ![a] = D],
             top' = [top EXCEPT ![a] = P]
      PROVE  DistinctInv'
    BY <1>2, <1>3 DEF DistinctInv, AskTypes
<1>4. /\ bm25 = [bm25 EXCEPT ![a] = bm25[a]] /\ dense = [dense EXCEPT ![a] = dense[a]]
      /\ top = [top EXCEPT ![a] = top[a]]
      /\ bm25[a] \in SUBSET Texts /\ dense[a] \in SUBSET Texts /\ top[a] \in SUBSET Texts
      /\ OneTextEach(bm25[a]) /\ OneTextEach(dense[a]) /\ OneTextEach(top[a])
      /\ Cardinality(top[a]) <= RerankTopK
    BY DEF AskTypes, DistinctInv
<1>5. ASSUME UNCHANGED bm25, UNCHANGED <<dense, top>> \/ (dense' = [dense EXCEPT ![a] = {}] /\ top' = [top EXCEPT ![a] = {}])
      PROVE  DistinctInv'
    <2>1. CASE UNCHANGED <<dense, top>>
        BY <1>3, <1>4, <1>5, <2>1
    <2>2. CASE dense' = [dense EXCEPT ![a] = {}] /\ top' = [top EXCEPT ![a] = {}]
        BY <1>1, <1>3, <1>4, <1>5, <2>2
    <2> QED
        BY <1>5, <2>1, <2>2
<1>6. CASE Ask(a) \/ LoadQuery(a) \/ OpenQuery(a) \/ WriteQuery(a) \/ LookUp(a) \/ CallSucceeds(a) \/ WriteAnswer(a)
           \/ CallFails(a)
    BY <1>5, <1>6 DEF Ask, LoadQuery, OpenQuery, WriteQuery, LookUp, CallSucceeds, WriteAnswer, CallFails,
                      FallThrough, Return
<1>7. CASE DenseSearch(a)
    <2>1. CASE ~ collection.exists
        BY <1>5, <1>7, <2>1 DEF DenseSearch, Return
    <2>2. CASE collection.exists
        <3>1. PICK hits \in Highest(collection.points, RetrieveTopK) : dense' = [dense EXCEPT ![a] = hits]
            BY <1>7, <2>2 DEF DenseSearch
        <3>2. hits \in SUBSET Texts /\ OneTextEach(hits)
            BY <3>1, HighestOfDistinct, CopilotAssumption DEF IndexInv, DistinctInv
        <3> QED
            BY <1>3, <1>4, <1>7, <2>2, <3>1, <3>2 DEF DenseSearch
    <2> QED
        BY <2>1, <2>2
<1>8. CASE SparseSearch(a)
    <2> DEFINE ranked == IF bm25[a] = {} THEN corpus ELSE bm25[a]
    <2>1. ranked \in SUBSET Texts /\ OneTextEach(ranked)
        BY <1>4 DEF IndexInv, DistinctInv
    <2>2. PICK hits \in Highest(ranked, RetrieveTopK) :
              \E best \in Highest(Fused(dense[a], hits), RerankTopK) : top' = [top EXCEPT ![a] = best]
        BY <1>8 DEF SparseSearch
    <2>3. bm25' = [bm25 EXCEPT ![a] = ranked] /\ dense' = [dense EXCEPT ![a] = {}]
        BY <1>8 DEF SparseSearch
    <2> HIDE DEF ranked
    <2>4. hits \in SUBSET Texts /\ OneTextEach(hits)
        BY <2>1, <2>2, HighestOfDistinct, CopilotAssumption
    <2>5. Fused(dense[a], hits) \in SUBSET Texts /\ OneTextEach(Fused(dense[a], hits))
        BY <1>4, <2>4, FusionIsDistinct
    <2>6. PICK best \in Highest(Fused(dense[a], hits), RerankTopK) : top' = [top EXCEPT ![a] = best]
        BY <2>2
    <2>7. best \in SUBSET Texts /\ OneTextEach(best) /\ Cardinality(best) <= RerankTopK
        BY <2>5, <2>6, HighestOfDistinct, CopilotAssumption
    <2> QED
        BY <1>1, <1>3, <2>1, <2>3, <2>6, <2>7
<1>9. CASE Leave(a)
    BY <1>1, <1>3, <1>4, <1>9 DEF Leave
<1>10. CASE KillAsker(a)
    BY <1>1, <1>3, <1>10 DEF KillAsker
<1> QED
    BY <1>6, <1>7, <1>8, <1>9, <1>10 DEF Answering

\* They write one vector file, that of the question.
LEMMA AskersLeaveBuilds ==
    ASSUME BuildTypes, NEW a \in Askers, Ask(a) \/ Answering(a) \/ Leave(a) \/ KillAsker(a)
    PROVE  BuildTypes'
<1>1. UNCHANGED <<collection, indexVars>>
    BY DEF Ask, Answering, Leave, KillAsker, LoadQuery, OpenQuery, WriteQuery, DenseSearch, SparseSearch,
       LookUp, CallSucceeds, WriteAnswer, CallFails
<1>2. vectors' \in [Texts \cup {Question} -> FileStates]
    BY DEF Ask, Answering, Leave, KillAsker, LoadQuery, OpenQuery, WriteQuery, DenseSearch, SparseSearch,
       LookUp, CallSucceeds, WriteAnswer, CallFails, BuildTypes, FileStates
<1> QED
    BY <1>1, <1>2 DEF BuildTypes, indexVars

\* A model is called no more than MaxRetries times.
LEMMA CallsAreBounded ==
    ASSUME AskInv, CallTypes, NEW a \in Askers, Ask(a) \/ Answering(a) \/ Leave(a) \/ KillAsker(a)
    PROVE  CallTypes'
<1>1. faults' \in 0 .. MaxFaults
    <2>1. faults' = faults \/ (faults < MaxFaults /\ faults' = faults + 1)
        BY DEF Ask, Answering, Leave, KillAsker, LoadQuery, OpenQuery, WriteQuery, DenseSearch,
           SparseSearch, LookUp, CallSucceeds, WriteAnswer, CallFails, Fault
    <2> QED
        BY <2>1, CopilotAssumption DEF CallTypes
<1>2. useCache' \in [Askers -> BOOLEAN]
    BY DEF Ask, Answering, Leave, KillAsker, LoadQuery, OpenQuery, WriteQuery, DenseSearch, SparseSearch,
           LookUp, CallSucceeds, WriteAnswer, CallFails, FallThrough, Return, CallTypes
<1>3. NotCalled \in [Models -> 0 .. MaxRetries]
    BY CopilotAssumption DEF NotCalled
<1>4. CASE CallFails(a)
    <2>1. refused[a][model[a]] \in 0 .. MaxRetries /\ refused[a][model[a]] < MaxRetries
        BY <1>4 DEF CallFails, AskInv, AskTypes, Asking, Chain, CallTypes
    <2>2. refused[a][model[a]] + 1 \in 0 .. MaxRetries
        BY <2>1, CopilotAssumption
    <2>3. refused' \in [Askers -> [Models -> 0 .. MaxRetries]]
        BY <1>4, <2>2 DEF CallFails, CallTypes
    <2> QED
        BY <1>1, <1>2, <2>3 DEF CallTypes
<1>5. CASE ~ CallFails(a)
    <2>1. refused' = refused \/ refused' = [refused EXCEPT ![a] = NotCalled]
        BY <1>5 DEF Ask, Answering, Leave, KillAsker, LoadQuery, OpenQuery, WriteQuery, DenseSearch,
           SparseSearch, LookUp, CallSucceeds, WriteAnswer, Return
    <2>2. refused' \in [Askers -> [Models -> 0 .. MaxRetries]]
        BY <1>3, <2>1 DEF CallTypes
    <2> QED
        BY <1>1, <1>2, <2>2 DEF CallTypes
<1> QED
    BY <1>4, <1>5

LEMMA PromptStep == CopilotInv /\ PromptInv /\ [Next]_vars => PromptInv'
<1> SUFFICES ASSUME CopilotInv, PromptInv, [Next]_vars
             PROVE  PromptInv'
    OBVIOUS
<1> USE DEF PromptInv, CopilotInv
<1>1. CASE \E a \in Askers : Ask(a) \/ Answering(a) \/ Leave(a) \/ KillAsker(a)
    BY <1>1, AskersAreDistinct, AskersLeaveBuilds, CallsAreBounded DEF AskInv
<1>2. CASE Build
    <2>1. UNCHANGED <<askVars, faults>>
        BY <1>2 DEF Build, BuildRead, LoadVectors, OpenVector, WriteVector, DropCollection,
           CreateCollection, UpsertChunks
    <2> QED
        BY <1>2, <2>1, BuildIsDistinct DEF CallTypes, askVars
<1>3. ASSUME NEW id \in Ids, Edit(id)
      PROVE  PromptInv'
    <2>1. DistinctInv'
        BY <1>3, EditIsDistinct
    <2> QED
        BY <1>3, <2>1 DEF Edit, BuildTypes, CallTypes, indexVars, askVars
<1>4. CASE KillIndexer
    <2>1. faults' \in 0 .. MaxFaults
        BY <1>4, CopilotAssumption DEF KillIndexer, Fault, CallTypes
    <2> QED
        BY <1>4, <2>1 DEF KillIndexer, BuildOver, DistinctInv, BuildTypes, CallTypes, OneTextEach,
           corpusVars, askVars
<1>5. CASE UNCHANGED vars
    BY <1>5 DEF vars, corpusVars, indexVars, askVars, DistinctInv, BuildTypes, CallTypes
<1> QED
    BY <1>1, <1>2, <1>3, <1>4, <1>5 DEF Next

LEMMA PromptInit == Init => PromptInv
<1> SUFFICES ASSUME Init PROVE PromptInv
    OBVIOUS
<1>1. OneTextEach({}) /\ Cardinality({}) <= RerankTopK
    BY FS_EmptySet, CopilotAssumption DEF OneTextEach
<1>2. DistinctInv
    BY <1>1 DEF Init, DistinctInv, Missing, OneTextEach
<1>3. BuildTypes
    BY DEF Init, BuildTypes, Missing, FileStates
<1>4. CallTypes
    BY CopilotAssumption DEF Init, CallTypes, NotCalled
<1> QED
    BY <1>2, <1>3, <1>4 DEF PromptInv

(***************************************************************************)
(* Type correctness of the copilot.  Its core is the prompt: however the   *)
(* corpus is edited between the build and the two searches, the passages   *)
(* for the prompt are at most rerank_top_k and of distinct chunks          *)
(* (hybrid_search, rerank), so that a citation number stands for one       *)
(* chunk_id and a chunk_id for one number.                                 *)
(***************************************************************************)
THEOREM CopilotTypeCorrect == Spec => []TypeOK
<1>1. CopilotInv /\ PromptInv => TypeOK
    <2> SUFFICES ASSUME CopilotInv, PromptInv
                 PROVE  TypeOK
        OBVIOUS
    <2>1. ASSUME NEW a \in Askers
          PROVE  /\ asker[a] \in AskerPlaces /\ useCache[a] \in BOOLEAN
                 /\ bm25[a] \cup dense[a] \cup top[a] \subseteq Texts
                 /\ model[a] \in Models
                 /\ refused[a] \in [Models -> 0 .. MaxRetries]
                 /\ reply[a].kind \in {"none", "answer", "degraded", "retrieval failed",
                                       "generation failed"}
        BY DEF CopilotInv, AskInv, AskTypes, Replies, PromptInv, CallTypes
    <2>2. ASSUME NEW a \in Askers
          PROVE  /\ Cardinality(top[a]) <= RerankTopK
                 /\ Cardinality(IdsOf(top[a])) = Cardinality(top[a])
        BY OneIdEach DEF CopilotInv, AskInv, AskTypes, PromptInv, DistinctInv
    <2> QED
        BY <2>1, <2>2
        DEF TypeOK, CopilotInv, IndexInv, AskInv, FilesMatchKeys, PromptInv, BuildTypes, CallTypes, AskerPlaces
<1> QED
    BY CopilotInvariant, PromptInit, PromptStep, <1>1, PTL DEF Spec

=============================================================================
