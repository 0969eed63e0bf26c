--------------------------- MODULE KnowledgeBase ---------------------------
(***************************************************************************)
(* The knowledge base of past incidents: rows of past_incidents, which     *)
(* BM25 searches, and documents of a Chroma collection per tenant, which   *)
(* the vector search asks.  Two programs write both stores one after the   *)
(* other: the seed script, which commits all tenants in one transaction    *)
(* and adds its documents on the way, and the self-learner of the          *)
(* eval-harness, which commits a row before its document.  The tool        *)
(* SearchKnowledgeBase of the RCA agent reads both, fuses the two rankings *)
(* and reranks the result.  What matches a query, and how well, is open.   *)
(*                                                                         *)
(* One seed script and one learner run at a time.                          *)
(***************************************************************************)
EXTENDS Integers, Sequences, FiniteSets, FiniteSetsExt, SequencesExt

CONSTANTS
    Tenant,         \* all tenants
    Tenants,        \* those that the seed script knows, in its order
    Incidents,      \* the number of INCIDENTS
    SeedThreshold,  \* SEED_COUNT_THRESHOLD
    CorpusLimit,    \* _MAX_CORPUS_SIZE
    TopK,           \* _RETRIEVAL_TOP_K
    K,              \* _RRF_K
    Results,        \* top_k of the tool
    Silent,         \* the tool has not just answered
    MaxTransactions \* bound of the model: transactions of both writers

ASSUME KnowledgeBaseAssumption ==
    /\ Tenants \in Seq(Tenant)
    /\ {Incidents, SeedThreshold, CorpusLimit, TopK, K, Results} \subseteq Nat \ {0}
    /\ SeedThreshold <= Incidents
    /\ TopK < K + 2
    /\ MaxTransactions \in Nat

VARIABLES
    pastIncidents,  \* committed rows of past_incidents
    docs,           \* documents of the collections, by the incident they are about
    begun,          \* transactions begun
    seeder,         \* the seed script: tenant in hand (0: not running), next
                    \* incident, its transaction and what that has inserted
    learning,       \* rows the learner has not added to Chroma yet
    corpus,         \* BM25Index._cache: the fresh entries
    answer          \* what the tool answered in the last step, or Silent

stores == <<pastIncidents, docs, begun>>
knowledgeVars == <<stores, seeder, learning, corpus, answer>>

\* Incident 0 was learned, the others are of the script; the transaction, a
\* stand-in for created_at, tells apart the uuids of several runs.
Incident == Tenant \X (0 .. Incidents) \X (1 .. MaxTransactions)
Learned == Tenant \X {0} \X (1 .. MaxTransactions)

KnowledgeTypeOK ==
    /\ pastIncidents \subseteq Incident
    /\ docs \subseteq Incident
    /\ begun \in 0 .. MaxTransactions
    /\ seeder \in [tenant : 0 .. Len(Tenants) + 1, next : 1 .. Incidents + 1,
                   tx : 0 .. MaxTransactions, rows : SUBSET Incident]
    /\ learning \subseteq Learned
    /\ DOMAIN corpus \subseteq Tenant
    /\ \A t \in DOMAIN corpus : corpus[t] \subseteq Incident

Of(t, S) == {x \in S : x[1] = t}

NotSeeding == [tenant |-> 0, next |-> 1, tx |-> 0, rows |-> {}]

KnowledgeInit ==
    /\ pastIncidents = {}
    /\ docs = {}
    /\ begun = 0
    /\ seeder = NotSeeding
    /\ learning = {}
    /\ corpus = <<>>
    /\ answer = Silent

-----------------------------------------------------------------------------
(***************************************************************************)
(* seed_incidents.py                                                       *)
(***************************************************************************)

Seeding == seeder.tenant \in DOMAIN Tenants

\* main connects; the transaction begins with the query for the tenants.
SeedStart ==
    /\ seeder = NotSeeding
    /\ begun < MaxTransactions
    /\ begun' = begun + 1
    /\ seeder' = [seeder EXCEPT !.tenant = 1, !.tx = begun + 1]
    /\ answer' = Silent
    /\ UNCHANGED <<pastIncidents, docs, learning, corpus>>

AlreadySeeded(t) == Cardinality(Of(t, pastIncidents \cup seeder.rows)) >= SeedThreshold

\* A tenant with enough rows, learned ones included, is passed over.
SkipTenant ==
    /\ Seeding
    /\ seeder.next = 1
    /\ AlreadySeeded(Tenants[seeder.tenant])
    /\ seeder' = [seeder EXCEPT !.tenant = @ + 1]
    /\ answer' = Silent
    /\ UNCHANGED <<stores, learning, corpus>>

\* Mutation of SeedIncident: every insert is committed by itself.
SeedIncidentCommitted(embedded) ==
    LET t == Tenants[seeder.tenant]
        x == <<t, seeder.next, seeder.tx>>
    IN  /\ Seeding
        /\ seeder.next = 1 => ~ AlreadySeeded(t)
        /\ pastIncidents' = pastIncidents \cup {x}
        /\ docs' = IF embedded THEN docs \cup {x} ELSE docs
        /\ seeder' = IF seeder.next = Incidents
                     THEN [seeder EXCEPT !.next = 1, !.tenant = @ + 1]
                     ELSE [seeder EXCEPT !.next = @ + 1]
        /\ answer' = Silent
        /\ UNCHANGED <<begun, learning, corpus>>

\* One incident of seed_tenant: its row is inserted, and its document added,
\* unless there is no API key or its embedding failed.
SeedIncident(embedded) ==
    LET t == Tenants[seeder.tenant]
        x == <<t, seeder.next, seeder.tx>>
    IN  /\ Seeding
        /\ seeder.next = 1 => ~ AlreadySeeded(t)
        /\ docs' = IF embedded THEN docs \cup {x} ELSE docs
        /\ seeder' = IF seeder.next = Incidents
                     THEN [seeder EXCEPT !.rows = @ \cup {x}, !.next = 1, !.tenant = @ + 1]
                     ELSE [seeder EXCEPT !.rows = @ \cup {x}, !.next = @ + 1]
        /\ answer' = Silent
        /\ UNCHANGED <<pastIncidents, begun, learning, corpus>>

\* An exception, of Chroma or of Postgres, or the end of the process: the
\* transaction is rolled back, the documents stay.
SeedFails ==
    /\ seeder # NotSeeding
    /\ seeder' = NotSeeding
    /\ answer' = Silent
    /\ UNCHANGED <<stores, learning, corpus>>

SeedCommit ==
    /\ seeder.tenant = Len(Tenants) + 1
    /\ pastIncidents' = pastIncidents \cup seeder.rows
    /\ seeder' = NotSeeding
    /\ answer' = Silent
    /\ UNCHANGED <<docs, begun, learning, corpus>>

-----------------------------------------------------------------------------
(***************************************************************************)
(* SelfLearner.maybe_learn, once a result has passed the gates             *)
(***************************************************************************)

\* Mutation of LearnRow: a failed insert does not end maybe_learn.
LearnRowUnchecked(t) ==
    /\ learning = {}
    /\ begun < MaxTransactions
    /\ begun' = begun + 1
    /\ pastIncidents' \in {pastIncidents, pastIncidents \cup {<<t, 0, begun + 1>>}}
    /\ learning' = {<<t, 0, begun + 1>>}
    /\ answer' = Silent
    /\ UNCHANGED <<docs, seeder, corpus>>

\* The row is committed before its document is embedded and added.
LearnRow(t) ==
    /\ learning = {}
    /\ begun < MaxTransactions
    /\ begun' = begun + 1
    /\ pastIncidents' = pastIncidents \cup {<<t, 0, begun + 1>>}
    /\ learning' = {<<t, 0, begun + 1>>}
    /\ answer' = Silent
    /\ UNCHANGED <<docs, seeder, corpus>>

LearnDocument ==
    /\ learning # {}
    /\ docs' = docs \cup learning
    /\ learning' = {}
    /\ answer' = Silent
    /\ UNCHANGED <<pastIncidents, begun, seeder, corpus>>

\* The embedding or Chroma fails, or the harness ends: the row stays alone.
LearnFails ==
    /\ learning # {}
    /\ learning' = {}
    /\ answer' = Silent
    /\ UNCHANGED <<stores, seeder, corpus>>

-----------------------------------------------------------------------------
(***************************************************************************)
(* The two rankings.  A hit has the incident_id that the stage gives it,   *)
(* and the incident it is about.                                           *)
(***************************************************************************)

\* The default of meta.get("incident_id", "").
Nameless == <<>>

\* The metadata of a learned document have no incident_id.
MetaId(x) == IF x \in Learned THEN Nameless ELSE x

\* The rows of a tenant that the query for the corpus may return: the newest.
Newest(t) ==
    LET all == Of(t, pastIncidents)
    IN  {S \in kSubset(IF Cardinality(all) < CorpusLimit THEN Cardinality(all) ELSE CorpusLimit, all) :
            \A x \in S, y \in all \ S : x[3] >= y[3]}

\* Sequences of n different elements of S.
Orders(n, S) == UNION {SetToSeqs(T) : T \in kSubset(n, S)}

\* BM25Index.search: those of the corpus that share a word with the query, the
\* best TopK.
BM25Hits(C) ==
    {[r \in DOMAIN s |-> [id |-> s[r], of |-> s[r]]] : s \in UNION {Orders(n, C) : n \in 0 .. TopK}}

\* VectorSearch.search: the nearest TopK documents, whatever the distance;
\* none when the embedding or the query fails.
VectorHits(D) ==
    {[r \in DOMAIN s |-> [id |-> MetaId(s[r]), of |-> s[r]]] :
        s \in {<<>>} \cup Orders(IF Cardinality(D) < TopK THEN Cardinality(D) ELSE TopK, D)}

-----------------------------------------------------------------------------
(***************************************************************************)
(* reciprocal_rank_fusion                                                  *)
(***************************************************************************)

Ids(list) == {list[r].id : r \in DOMAIN list}
RanksOf(list, i) == {r \in DOMAIN list : list[r].id = i}

\* 1 / (K + r), as a multiple of 1 / Denominator.
Denominator == FoldSet(LAMBDA r, product : (K + r) * product, 1, 1 .. TopK)
Share(r) == Denominator \div (K + r)

\* Mutation of RrfScore: the vector's share replaces the one of BM25.
RrfScoreAssigned(bm25, vector, i) ==
    MapThenSumSet(Share, IF i \in Ids(vector) THEN RanksOf(vector, i) ELSE RanksOf(bm25, i))

\* What the two lists contribute to the entry of an id, every hit of it.
RrfScore(bm25, vector, i) ==
    MapThenSumSet(Share, RanksOf(bm25, i)) + MapThenSumSet(Share, RanksOf(vector, i))

\* The place of an id in the dict of scores.
Inserted(bm25, vector, i) == Min(RanksOf(bm25 \o vector, i))

\* sorted() by descending score is stable: of equal scores the first in the
\* dict stays first.
Precedes(bm25, vector, i, j) ==
    LET si == RrfScore(bm25, vector, i)
        sj == RrfScore(bm25, vector, j)
    IN  \/ si > sj
        \/ si = sj /\ Inserted(bm25, vector, i) < Inserted(bm25, vector, j)

\* The ids by score, each behind those that precede it.
Fused(bm25, vector) ==
    LET ids == Ids(bm25) \cup Ids(vector)
        place == [i \in ids |-> 1 + Cardinality({j \in ids : Precedes(bm25, vector, j, i)})]
    IN  [p \in 1 .. Cardinality(ids) |-> CHOOSE i \in ids : place[i] = p]

-----------------------------------------------------------------------------
(***************************************************************************)
(* search_knowledge_base.  The only await is the query for the corpus.     *)
(***************************************************************************)

\* CrossEncoderReranker.rerank: the first Results of any order; the fallback
\* without a model, the order of the fusion, is one of them.
Reranked(ranking) ==
    Orders(IF Len(ranking) < Results THEN Len(ranking) ELSE Results, ToSet(ranking))

Retrieve(t, C) ==
    /\ answer = Silent
    /\ \E bm25 \in BM25Hits(C), vector \in VectorHits(Of(t, docs)) :
        \E shown \in Reranked(Fused(bm25, vector)) :
            answer' = [tenant |-> t, bm25 |-> bm25, vector |-> vector, shown |-> shown]
    /\ UNCHANGED <<stores, seeder, learning>>

SearchCached(t) ==
    /\ t \in DOMAIN corpus
    /\ Retrieve(t, corpus[t])
    /\ UNCHANGED corpus

SearchLoads(t) ==
    /\ t \notin DOMAIN corpus
    /\ \E C \in Newest(t) :
        /\ corpus' = [u \in DOMAIN corpus \cup {t} |-> IF u = t THEN C ELSE corpus[u]]
        /\ Retrieve(t, C)

\* The table does not answer; nothing is cached.
SearchWithoutRows(t) ==
    /\ t \notin DOMAIN corpus
    /\ Retrieve(t, {})
    /\ UNCHANGED corpus

\* The agent has the answer for an observation, and may call a tool again.
Observe ==
    /\ answer # Silent
    /\ answer' = Silent
    /\ UNCHANGED <<stores, seeder, learning, corpus>>

\* The TTL of a corpus has passed, or the agent has been started again.
Expire(t) ==
    /\ t \in DOMAIN corpus
    /\ corpus' = [u \in DOMAIN corpus \ {t} |-> corpus[u]]
    /\ answer' = Silent
    /\ UNCHANGED <<stores, seeder, learning>>

-----------------------------------------------------------------------------
KnowledgeNext ==
    \/ SeedStart \/ SkipTenant \/ SeedFails \/ SeedCommit
    \/ \E embedded \in BOOLEAN : SeedIncident(embedded)
    \/ LearnDocument \/ LearnFails
    \/ Observe
    \/ \E t \in Tenant :
        LearnRow(t) \/ SearchCached(t) \/ SearchLoads(t) \/ SearchWithoutRows(t) \/ Expire(t)

KnowledgeSpec == KnowledgeInit /\ [][KnowledgeNext]_knowledgeVars

-----------------------------------------------------------------------------
(***************************************************************************)
(* Properties                                                              *)
(***************************************************************************)

\* The script is idempotent on the table, as it says: whatever ended an earlier
\* run, whatever has been learned meanwhile, a tenant has all of the seeded
\* incidents from one run, or none.  (Its documents in Chroma are another
\* matter: a run that is repeated adds them again.)
SeededOnce ==
    \A t \in Tenant :
        LET seeded == Of(t, pastIncidents) \ Learned
        IN  seeded # {} =>
                \E n \in 1 .. MaxTransactions : seeded = {t} \X (1 .. Incidents) \X {n}

\* The hits of an answer.
Hits == ToSet(answer.bm25) \cup ToSet(answer.vector)

\* What the agent is shown is about incidents of its tenant, and each has its
\* row in the table, but for documents of a seed run that did not commit: a
\* learned document never goes without.
AnswersAreBacked ==
    answer # Silent =>
        \A h \in Hits :
            /\ h.of[1] = answer.tenant
            /\ \/ h.of \in pastIncidents
               \/ h.of \notin Learned /\ h \notin ToSet(answer.bm25)

FoundByBoth == {x \in Incident : \A list \in {answer.bm25, answer.vector} :
                                    \E r \in DOMAIN list : list[r].of = x}

\* The position in the fused ranking that the hit h has a part in.
Position(h) ==
    LET ranking == Fused(answer.bm25, answer.vector)
    IN  CHOOSE p \in DOMAIN ranking : ranking[p] = h.id

\* "Items that appeared in both lists have the highest scores": an incident
\* that both stages found stands before every one that only one of them found,
\* whatever the ranks.  Learned documents keep out of it: all of them share
\* the empty id, which neither meets their hits in BM25 nor stands for one
\* incident.
BothListsFirst ==
    answer # Silent =>
        \A g, h \in Hits :
            /\ g.of \in FoundByBoth \ Learned
            /\ h.of \notin FoundByBoth
            /\ h.id # Nameless
            => Position(g) < Position(h)
=============================================================================
