------------------------------ MODULE Copilot ------------------------------
(***************************************************************************)
(* The RAG copilot of src/rag: build_index with the embedding cache and    *)
(* the Qdrant collection, and processes that ask: hybrid_search, rerank,   *)
(* generate with the answer cache and the fallback models.  The procedures *)
(* under data/sop may be edited at any time, and any process may be killed *)
(* between two steps.                                                      *)
(*                                                                         *)
(* A text is a pair <<chunk id, version>>: an edit gives a chunk new words *)
(* under its old id, `doc_code::index`.  What the embedding, the reranker  *)
(* and a language model make of texts is open: any subset of the right     *)
(* size may rank highest.  There is one question.                          *)
(***************************************************************************)
EXTENDS Integers, FiniteSets

CONSTANTS
    Ids,            \* chunk ids
    Askers,         \* processes that ask
    Models,         \* 1 is llm_model_primary, the others are its fallbacks
    MaxRetries,     \* llm_max_retries
    RetrieveTopK,   \* retrieve_top_k
    RerankTopK,     \* rerank_top_k
    MaxEdits,       \* bound: edits of the corpus
    MaxFaults       \* bound: processes killed

ASSUME CopilotAssumption ==
    /\ IsFiniteSet(Ids) /\ Ids # {}      \* BM25Okapi refuses an empty corpus
    /\ IsFiniteSet(Models) /\ Models = 1 .. Cardinality(Models) /\ Models # {}
    /\ {MaxRetries, RetrieveTopK, RerankTopK} \subseteq Nat \ {0}
    /\ {MaxEdits, MaxFaults} \subseteq Nat

Versions == 1 .. MaxEdits + 1
Texts    == Ids \X Versions
IdsOf(S) == {t[1] : t \in S}

\* The question has a vector file as the texts have.
Question == <<"question", 0>>

\* A cache file: "none", "torn" (cut short) or "whole".  An answer's file
\* tells what texts the answer was generated from.
File(state, from) == [state |-> state, from |-> from]
Keys == (SUBSET Ids) \X Models

\* The Qdrant collection: none, or the texts of its points.
Missing      == [exists |-> FALSE, points |-> {}]
Points(S)    == [exists |-> TRUE, points |-> S]

VARIABLES
    corpus,         \* the texts under data/sop, as chunk_corpus returns them
    edits,          \* edits so far (bounded by MaxEdits)
    vectors,        \* .cache/embeddings: text or question -> state of its file
    answers,        \* .cache/llm: key -> file
    collection,     \* the Qdrant collection
    indexer,        \* where build_index is
    chunks,         \* the texts it indexes
    writing,        \* the vector file it has open
    readings,       \* history: every corpus a build has read
    asker,          \* process -> where it is in `ask`
    useCache,       \* process -> whether it reads the answer cache (--no-cache)
    bm25,           \* process -> what _corpus() holds: {} or the texts it was built over
    dense,          \* process -> the hits of the dense search
    top,            \* process -> the passages for the prompt
    model,          \* process -> the model whose turn it is
    refused,        \* process -> model -> failed calls of it in this `ask`
    reply,          \* process -> how its last `ask` ended
    faults          \* kills so far (bounded by MaxFaults)

corpusVars == <<corpus, edits>>
indexVars  == <<indexer, chunks, writing, readings>>
askVars    == <<asker, useCache, bm25, dense, top, model, refused, reply>>
vars == <<corpusVars, vectors, answers, collection, indexVars, askVars, faults>>

NotCalled == [m \in Models |-> 0]

NoReply == [kind |-> "none", cited |-> {}, source |-> {}]

Init ==
    /\ corpus = Ids \X {1}
    /\ edits = 0
    /\ vectors = [t \in Texts \cup {Question} |-> "none"]
    /\ answers = [k \in Keys |-> File("none", {})]
    /\ collection = Missing
    /\ indexer = "idle" /\ chunks = {} /\ writing = {} /\ readings = {}
    /\ asker = [a \in Askers |-> "idle"]
    /\ useCache = [a \in Askers |-> TRUE]
    /\ bm25 = [a \in Askers |-> {}]
    /\ dense = [a \in Askers |-> {}]
    /\ top = [a \in Askers |-> {}]
    /\ model = [a \in Askers |-> 1]
    /\ refused = [a \in Askers |-> NotCalled]
    /\ reply = [a \in Askers |-> NoReply]
    /\ faults = 0

-----------------------------------------------------------------------------
(***************************************************************************)
(* The procedures (external): a chunk gets new words, or a document that   *)
(* others remain beside is removed.                                        *)
(***************************************************************************)
Edit(id) ==
    LET others == {t \in corpus : t[1] # id} IN
    /\ edits < MaxEdits
    /\ edits' = edits + 1
    /\ \/ corpus' = others \cup {<<id, edits' + 1>>}
       \/ others # {} /\ id \in IdsOf(corpus) /\ corpus' = others
    /\ UNCHANGED <<vectors, answers, collection, indexVars, askVars, faults>>

-----------------------------------------------------------------------------
(***************************************************************************)
(* build_index.                                                            *)
(***************************************************************************)
\* Mutant of BuildRead: chunk_corpus is cached, as _corpus is.
BuildReadCached ==
    /\ indexer = "idle"
    /\ indexer' = "load"
    /\ chunks' = IF readings = {} THEN corpus ELSE CHOOSE c \in readings : TRUE
    /\ readings' = readings \cup {chunks'}
    /\ UNCHANGED <<corpusVars, vectors, answers, collection, writing, askVars, faults>>

BuildRead ==
    /\ indexer = "idle"
    /\ indexer' = "load"
    /\ chunks' = corpus
    /\ readings' = readings \cup {corpus}
    /\ UNCHANGED <<corpusVars, vectors, answers, collection, writing, askVars, faults>>

BuildOver ==
    /\ indexer' = "idle"
    /\ chunks' = {}
    /\ writing' = {}

\* _embed loads what is cached; a file that was cut short does not unpickle.
LoadVectors ==
    /\ indexer = "load"
    /\ \/ /\ \A t \in chunks : vectors[t] # "torn"
          /\ indexer' = "store"
          /\ UNCHANGED <<chunks, writing>>
       \/ /\ \E t \in chunks : vectors[t] = "torn"
          /\ BuildOver
    /\ UNCHANGED <<corpusVars, vectors, answers, collection, readings, askVars, faults>>

\* _store_cached opens the file of a missing vector, which empties it ...
OpenVector(t) ==
    /\ indexer = "store"
    /\ writing = {}
    /\ t \in chunks
    /\ vectors[t] = "none"
    /\ vectors' = [vectors EXCEPT ![t] = "torn"]
    /\ writing' = {t}
    /\ UNCHANGED <<corpusVars, answers, collection, indexer, chunks, readings, askVars, faults>>

\* ... and writes it.
WriteVector(t) ==
    /\ indexer = "store"
    /\ t \in writing
    /\ vectors' = [vectors EXCEPT ![t] = "whole"]
    /\ writing' = {}
    /\ UNCHANGED <<corpusVars, answers, collection, indexer, chunks, readings, askVars, faults>>

\* Mutant of DropCollection: a collection that exists is taken as it is.
KeepCollection ==
    /\ indexer = "store"
    /\ writing = {}
    /\ \A t \in chunks : vectors[t] = "whole"
    /\ collection.exists
    /\ indexer' = "upsert"
    /\ UNCHANGED <<corpusVars, vectors, answers, collection, chunks, writing, readings, askVars, faults>>

\* recreate_collection: a collection that exists is deleted ...
DropCollection ==
    /\ indexer = "store"
    /\ writing = {}
    /\ \A t \in chunks : vectors[t] = "whole"
    /\ collection.exists
    /\ collection' = Missing
    /\ UNCHANGED <<corpusVars, vectors, answers, indexVars, askVars, faults>>

\* ... and an empty one created.
CreateCollection ==
    /\ indexer = "store"
    /\ writing = {}
    /\ \A t \in chunks : vectors[t] = "whole"
    /\ ~ collection.exists
    /\ collection' = Points({})
    /\ indexer' = "upsert"
    /\ UNCHANGED <<corpusVars, vectors, answers, chunks, writing, readings, askVars, faults>>

\* upsert_chunks, in one request.
UpsertChunks ==
    /\ indexer = "upsert"
    /\ collection' = Points(collection.points \cup chunks)
    /\ BuildOver
    /\ UNCHANGED <<corpusVars, vectors, answers, readings, askVars, faults>>

-----------------------------------------------------------------------------
(***************************************************************************)
(* ask: retrieval.                                                         *)
(***************************************************************************)
\* The n members of S that rank highest, or all of S.
Highest(S, n) ==
    {H \in SUBSET S : Cardinality(H) = IF Cardinality(S) < n THEN Cardinality(S) ELSE n}

Ask(a) ==
    /\ asker[a] = "idle"
    /\ asker' = [asker EXCEPT ![a] = "embed"]
    /\ reply' = [reply EXCEPT ![a] = NoReply]
    /\ refused' = [refused EXCEPT ![a] = NotCalled]
    /\ UNCHANGED <<corpusVars, vectors, answers, collection, indexVars, useCache, bm25, dense,
                   top, model, faults>>

\* The `ask` of a is over, with an answer or an exception.
Return(a, r) ==
    /\ asker' = [asker EXCEPT ![a] = "idle"]
    /\ useCache' = [useCache EXCEPT ![a] = TRUE]
    /\ reply' = [reply EXCEPT ![a] = r]
    /\ dense' = [dense EXCEPT ![a] = {}]
    /\ top' = [top EXCEPT ![a] = {}]
    /\ model' = [model EXCEPT ![a] = 1]
    /\ refused' = [refused EXCEPT ![a] = NotCalled]
    /\ UNCHANGED bm25

Raised(kind) == [kind |-> kind, cited |-> {}, source |-> {}]

\* embed_query: the question's vector is cached like any other.
LoadQuery(a) ==
    /\ asker[a] = "embed"
    /\ \/ /\ vectors[Question] = "whole"
          /\ asker' = [asker EXCEPT ![a] = "dense"]
          /\ UNCHANGED <<useCache, bm25, dense, top, model, refused, reply>>
       \/ /\ vectors[Question] = "torn"
          /\ Return(a, Raised("retrieval failed"))
       \/ /\ vectors[Question] = "none"
          /\ asker' = [asker EXCEPT ![a] = "encode"]
          /\ UNCHANGED <<useCache, bm25, dense, top, model, refused, reply>>
    /\ UNCHANGED <<corpusVars, vectors, answers, collection, indexVars, faults>>

OpenQuery(a) ==
    /\ asker[a] = "encode"
    /\ vectors' = [vectors EXCEPT ![Question] = "torn"]
    /\ asker' = [asker EXCEPT ![a] = "write vector"]
    /\ UNCHANGED <<corpusVars, answers, collection, indexVars, useCache, bm25, dense, top,
                   model, refused, reply, faults>>

WriteQuery(a) ==
    /\ asker[a] = "write vector"
    /\ vectors' = [vectors EXCEPT ![Question] = "whole"]
    /\ asker' = [asker EXCEPT ![a] = "dense"]
    /\ UNCHANGED <<corpusVars, answers, collection, indexVars, useCache, bm25, dense, top,
                   model, refused, reply, faults>>

\* dense_search: Qdrant refuses to search a collection it does not have.
DenseSearch(a) ==
    /\ asker[a] = "dense"
    /\ \/ /\ collection.exists
          /\ \E hits \in Highest(collection.points, RetrieveTopK) :
                dense' = [dense EXCEPT ![a] = hits]
          /\ asker' = [asker EXCEPT ![a] = "sparse"]
          /\ UNCHANGED <<useCache, bm25, top, model, refused, reply>>
       \/ /\ ~ collection.exists
          /\ Return(a, Raised("retrieval failed"))
    /\ UNCHANGED <<corpusVars, vectors, answers, collection, indexVars, faults>>

\* One candidate for each id in either ranking; the payload of the sparse hit
\* replaces that of the dense one.
Fused(D, S) == S \cup {t \in D : t[1] \notin IdsOf(S)}

\* bm25_search over what this process has read first, fusion and reranking:
\* all the candidates are reranked, and generate is called, with the cache or without.
SparseSearch(a) ==
    LET ranked == IF bm25[a] = {} THEN corpus ELSE bm25[a] IN
    /\ asker[a] = "sparse"
    /\ bm25' = [bm25 EXCEPT ![a] = ranked]
    /\ \E hits \in Highest(ranked, RetrieveTopK) :
          \E best \in Highest(Fused(dense[a], hits), RerankTopK) :
              top' = [top EXCEPT ![a] = best]
    /\ \E use \in BOOLEAN : useCache' = [useCache EXCEPT ![a] = use]
    /\ asker' = [asker EXCEPT ![a] = "look up"]
    /\ dense' = [dense EXCEPT ![a] = {}]
    /\ UNCHANGED <<corpusVars, vectors, answers, collection, indexVars, model, refused, reply, faults>>

-----------------------------------------------------------------------------
(***************************************************************************)
(* ask: generation.                                                        *)
(***************************************************************************)
\* Mutant of Key: the chunk ids are not in it.
KeyOfQuestion(a) == <<{}, model[a]>>

\* _cache_key: the question, the ids of the passages, the model.
Key(a) == <<IdsOf(top[a]), model[a]>>

Answer(a, from) == [kind |-> "answer", cited |-> top[a], source |-> from]
Degraded(a)     == [kind |-> "degraded", cited |-> top[a], source |-> {}]

\* Mutant of LookUp: a file that is being written is waited for.
LookUpWaiting(a) ==
    /\ asker[a] = "look up"
    /\ \/ /\ useCache[a] => answers[Key(a)].state = "none"
          /\ asker' = [asker EXCEPT ![a] = "call"]
          /\ UNCHANGED <<useCache, bm25, dense, top, model, refused, reply>>
       \/ /\ useCache[a] /\ answers[Key(a)].state = "whole"
          /\ Return(a, Answer(a, answers[Key(a)].from))
    /\ UNCHANGED <<corpusVars, vectors, answers, collection, indexVars, faults>>

\* _load_cache, outside the try: half a file is no JSON.
LookUp(a) ==
    /\ asker[a] = "look up"
    /\ \/ /\ useCache[a] => answers[Key(a)].state = "none"
          /\ asker' = [asker EXCEPT ![a] = "call"]
          /\ UNCHANGED <<useCache, bm25, dense, top, model, refused, reply>>
       \/ /\ useCache[a] /\ answers[Key(a)].state = "torn"
          /\ Return(a, Raised("generation failed"))
       \/ /\ useCache[a] /\ answers[Key(a)].state = "whole"
          /\ Return(a, Answer(a, answers[Key(a)].from))
    /\ UNCHANGED <<corpusVars, vectors, answers, collection, indexVars, faults>>

\* The model answers, and _store_cache opens the file.
CallSucceeds(a) ==
    /\ asker[a] = "call"
    /\ answers' = [answers EXCEPT ![Key(a)] = File("torn", {})]
    /\ asker' = [asker EXCEPT ![a] = "write answer"]
    /\ UNCHANGED <<corpusVars, vectors, collection, indexVars, useCache, bm25, dense, top,
                   model, refused, reply, faults>>

WriteAnswer(a) ==
    /\ asker[a] = "write answer"
    /\ answers' = [answers EXCEPT ![Key(a)] = File("whole", top[a])]
    /\ Return(a, Answer(a, top[a]))
    /\ UNCHANGED <<corpusVars, vectors, collection, indexVars, faults>>

\* stop_after_attempt(max_retries).
Exhausted(a) == refused'[a][model[a]] >= MaxRetries

\* Mutant of FallThrough: the last model is never called.
FallThroughEarly(a) ==
    IF model[a] + 1 < Cardinality(Models)
    THEN /\ model' = [model EXCEPT ![a] = @ + 1]
         /\ asker' = [asker EXCEPT ![a] = "look up"]
         /\ UNCHANGED <<useCache, dense, top, reply>>
    ELSE /\ asker' = [asker EXCEPT ![a] = "idle"]
         /\ useCache' = [useCache EXCEPT ![a] = TRUE]
         /\ reply' = [reply EXCEPT ![a] = Degraded(a)]
         /\ dense' = [dense EXCEPT ![a] = {}]
         /\ top' = [top EXCEPT ![a] = {}]
         /\ model' = [model EXCEPT ![a] = 1]

\* The next model's turn, or none is left.
FallThrough(a) ==
    IF model[a] < Cardinality(Models)
    THEN /\ model' = [model EXCEPT ![a] = @ + 1]
         /\ asker' = [asker EXCEPT ![a] = "look up"]
         /\ UNCHANGED <<useCache, dense, top, reply>>
    ELSE /\ asker' = [asker EXCEPT ![a] = "idle"]
         /\ useCache' = [useCache EXCEPT ![a] = TRUE]
         /\ reply' = [reply EXCEPT ![a] = Degraded(a)]
         /\ dense' = [dense EXCEPT ![a] = {}]
         /\ top' = [top EXCEPT ![a] = {}]
         /\ model' = [model EXCEPT ![a] = 1]

\* A call fails or returns nothing: it is tried again, or the next model is.
CallFails(a) ==
    /\ asker[a] = "call"
    /\ refused' = [refused EXCEPT ![a][model[a]] = @ + 1]
    /\ \/ ~ Exhausted(a) /\ UNCHANGED <<asker, useCache, dense, top, model, reply>>
       \/ Exhausted(a) /\ FallThrough(a)
    /\ UNCHANGED <<corpusVars, vectors, answers, collection, indexVars, bm25, faults>>

-----------------------------------------------------------------------------
(***************************************************************************)
(* A process exits, is killed, or raises because Qdrant or a local model   *)
(* fails it.                                                               *)
(***************************************************************************)
\* A process that asked exits; the next one reads the corpus anew.
Leave(a) ==
    /\ asker[a] = "idle"
    /\ bm25[a] # {}
    /\ bm25' = [bm25 EXCEPT ![a] = {}]
    /\ UNCHANGED <<corpusVars, vectors, answers, collection, indexVars, asker, useCache, dense,
                   top, model, refused, reply, faults>>

Fault ==
    /\ faults < MaxFaults
    /\ faults' = faults + 1

KillIndexer ==
    /\ Fault
    /\ indexer # "idle"
    /\ BuildOver
    /\ UNCHANGED <<corpusVars, vectors, answers, collection, readings, askVars>>

KillAsker(a) ==
    /\ Fault
    /\ asker[a] # "idle"
    /\ asker' = [asker EXCEPT ![a] = "idle"]
    /\ useCache' = [useCache EXCEPT ![a] = TRUE]
    /\ bm25' = [bm25 EXCEPT ![a] = {}]
    /\ dense' = [dense EXCEPT ![a] = {}]
    /\ top' = [top EXCEPT ![a] = {}]
    /\ model' = [model EXCEPT ![a] = 1]
    /\ refused' = [refused EXCEPT ![a] = NotCalled]
    /\ UNCHANGED <<corpusVars, vectors, answers, collection, indexVars, reply>>

-----------------------------------------------------------------------------
Build ==
    \/ BuildRead \/ LoadVectors
    \/ \E t \in Texts : OpenVector(t) \/ WriteVector(t)
    \/ DropCollection \/ CreateCollection \/ UpsertChunks

Answering(a) ==
    \/ LoadQuery(a) \/ OpenQuery(a) \/ WriteQuery(a) \/ DenseSearch(a) \/ SparseSearch(a)
    \/ LookUp(a) \/ CallSucceeds(a) \/ WriteAnswer(a) \/ CallFails(a)

Next ==
    \/ \E id \in Ids : Edit(id)
    \/ Build
    \/ \E a \in Askers : Ask(a) \/ Answering(a) \/ Leave(a) \/ KillAsker(a)
    \/ KillIndexer

Spec == Init /\ [][Next]_vars

\* The index is built again and again, and who was asked goes on.
FairSpec == Spec /\ WF_vars(Build) /\ \A a \in Askers : WF_vars(Answering(a))

-----------------------------------------------------------------------------
FileStates == {"none", "torn", "whole"}

TypeOK ==
    /\ corpus \subseteq Texts
    /\ edits \in 0 .. MaxEdits
    /\ vectors \in [Texts \cup {Question} -> FileStates]
    /\ answers \in [Keys -> [state : FileStates, from : SUBSET Texts]]
    /\ collection \in [exists : BOOLEAN, points : SUBSET Texts]
    /\ indexer \in {"idle", "load", "store", "upsert"}
    /\ chunks \subseteq Texts
    /\ writing \subseteq chunks
    /\ readings \subseteq SUBSET Texts
    /\ \A a \in Askers :
          /\ asker[a] \in {"idle", "embed", "encode", "write vector", "dense", "sparse", "look up",
                           "call", "write answer"}
          /\ useCache[a] \in BOOLEAN
          /\ bm25[a] \cup dense[a] \cup top[a] \subseteq Texts
          /\ Cardinality(top[a]) <= RerankTopK
          /\ Cardinality(IdsOf(top[a])) = Cardinality(top[a])
          /\ model[a] \in Models
          /\ refused[a] \in [Models -> 0 .. MaxRetries]
          /\ reply[a].kind \in {"none", "answer", "degraded", "retrieval failed",
                                "generation failed"}
    /\ faults \in 0 .. MaxFaults

(***************************************************************************)
(* Every answer, a degraded one too, cites passages, and an answer that    *)
(* was generated, now or for the cache, was generated from passages with   *)
(* the ids it cites.  The smoke test depends on the first while an index   *)
(* is empty, a reader who follows a citation on the second.                *)
(***************************************************************************)
AnswersStandOnCitations ==
    \A a \in Askers :
        /\ reply[a].kind \in {"answer", "degraded"} => reply[a].cited # {}
        /\ reply[a].kind = "answer" => IdsOf(reply[a].source) = IdsOf(reply[a].cited)

(***************************************************************************)
(* The collection never mixes two states of the corpus: there is none, or  *)
(* it is empty, or it is all that one build read, whatever was killed      *)
(* ("running this twice produces the same index rather than a duplicated   *)
(* one").                                                                  *)
(***************************************************************************)
IndexIsOneReading == collection.points \in {{}} \cup readings

(***************************************************************************)
(* No working model is given up: an `ask` degrades only after every model  *)
(* of the chain was called, and failed, max_retries times in it.           *)
(***************************************************************************)
DegradedMeansAllRefused ==
    \A a \in Askers : reply[a].kind = "degraded" =>
        \A m \in Models : refused[a][m] = MaxRetries

(***************************************************************************)
(* The index catches up with every edit, unless a vector of the corpus was *)
(* cut short: then no build gets past reading it.                          *)
(***************************************************************************)
IndexCatchesUp ==
    []<>(collection.points = corpus \/ \E t \in corpus : vectors[t] = "torn")

(***************************************************************************)
(* Every `ask` ends, however many models refuse.                           *)
(***************************************************************************)
EveryAskEnds == \A a \in Askers : asker[a] # "idle" ~> asker[a] = "idle"

=============================================================================
