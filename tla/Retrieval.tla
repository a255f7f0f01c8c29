------------------------------ MODULE Retrieval ------------------------------
(***************************************************************************)
(* Answering a question about a repository (rag/service.py and             *)
(* hybrid/service.py; the agent's search nodes do the same): a vector      *)
(* search and a keyword search over the stored chunks, expansion of the    *)
(* best hits by one hop through the knowledge graph, a look for the chunks *)
(* of the symbols found there, one ranking of everything and a context of  *)
(* bounded size, from which the sources of the answer are taken.           *)
(*                                                                         *)
(* Every statement sees the store as it is at that moment: calls of        *)
(* index_repository commit whole batches of chunks in between              *)
(* (RepositoryIndex), builders add to the graph (GraphBuilder), and nobody *)
(* removes anything.  A call writes nothing, so one call stands for all.   *)
(*                                                                         *)
(* Scores are integers: similarities, ranks and graph scores in            *)
(* hundredths, weights in tenths.                                          *)
(***************************************************************************)
EXTENDS CodeGraph, Integers, FiniteSets

CONSTANTS
  Repository,      \* repositories, each with its rows and its graph
  Batches,         \* the sets of rows that calls of index_repository commit
  Growths,         \* what statements of a builder add: a repository and edges
  Questions,       \* what is asked
  VectorTopK, KeywordTopK, SeedLimit, FinalTopK, MaxContextChars

\* A class has its name for a qualified name, a function that of its class too.
QualifiedName == (Name \cup {None}) \X Name

\* A stored chunk, with what the present question makes of it: its distance and
\* its rank, 0 where no word of the question occurs.  size is the length of the
\* section that it becomes in a context.
Row ==
  {x \in [id : Nat, repository_id : Repository, path : File,
          chunk_type : {"class", "function", "file"},
          qualified_name : QualifiedName \cup {None},
          size : Nat, distance : 0 .. 200, rank : Nat] :
     x.qualified_name = None <=> x.chunk_type = "file"}

Question ==
  {q \in [kind : {"rag", "hybrid"}, repository_id : Repository \cup {None},
          chunk_type : {"class", "function", "file", None}] :
     q.kind = "hybrid" => q.repository_id # None}

ASSUME BatchesAssumption == \A b \in Batches : b \subseteq Row /\ IsFiniteSet(b)
ASSUME GrowthsAssumption == Growths \subseteq [repository_id : Repository, edges : SUBSET Drawn]
ASSUME QuestionsAssumption == Questions \subseteq Question /\ None \notin Repository
ASSUME LimitsAssumption == {VectorTopK, KeywordTopK, SeedLimit, FinalTopK, MaxContextChars} \subseteq Nat

VARIABLES
  rows,    \* the stored chunks
  edges,   \* the graph of each repository
  pc,      \* where the call is
  call     \* what the call has found

vars == <<rows, edges, pc, call>>
-----------------------------------------------------------------------------
(* Ranking. *)

Orders(S) ==
  {s \in [1 .. Cardinality(S) -> S] : \A i, j \in DOMAIN s : s[i] = s[j] => i = j}

ElementsOf(s) == {s[k] : k \in DOMAIN s}

Least(a, b) == IF a < b THEN a ELSE b

MaxOf(S) == CHOOSE n \in S : \A k \in S : k <= n

\* Mutant: the clamp is missing.
Unclamped(distance) == 100 - distance

VectorSimilarity(distance) == IF distance < 100 THEN 100 - distance ELSE 0

Hit(x, similarity, keyword_score, graph_score, found_via) ==
  [row |-> x, vector_similarity |-> similarity, keyword_score |-> keyword_score,
   graph_score |-> graph_score, found_via |-> found_via]

\* The weights of rag/ranking.py and of hybrid/ranking.py.
RagWeights == [vector |-> 7, keyword |-> 3, graph |-> 0]
HybridWeights == [vector |-> 5, keyword |-> 2, graph |-> 3]

\* A chunk that several methods have found has the best of each score.
CombinedScore(weights, hits, x) ==
  LET own == {h \in ElementsOf(hits) : h.row = x}
  IN  weights.vector * MaxOf({h.vector_similarity : h \in own})
      + weights.keyword * MaxOf({h.keyword_score : h \in own})
      + weights.graph * MaxOf({h.graph_score : h \in own})

FirstHit(hits, x) == CHOOSE k \in DOMAIN hits : hits[k].row = x /\ \A i \in 1 .. k - 1 : hits[i].row # x

\* Sorting is stable, chunks being merged in the order in which they were found.
Before(weights, hits, x, y) ==
  \/ CombinedScore(weights, hits, x) > CombinedScore(weights, hits, y)
  \/ /\ CombinedScore(weights, hits, x) = CombinedScore(weights, hits, y)
     /\ FirstHit(hits, x) < FirstHit(hits, y)

merge_and_rank(weights, hits, top_k) ==
  LET found == {h.row : h \in ElementsOf(hits)}
      Ahead(x) == {y \in found : Before(weights, hits, y, x)}
  IN  [n \in 1 .. Least(top_k, Cardinality(found)) |->
         LET x == CHOOSE y \in found : Cardinality(Ahead(y)) = n - 1
         IN  [row |-> x, found_via |-> {h.found_via : h \in {g \in ElementsOf(hits) : g.row = x}}]]

\* Mutant: the bound is looked at before the section is counted.
ContextLate(ranked) ==
  LET total[n \in 0 .. Len(ranked)] == IF n = 0 THEN 0 ELSE total[n - 1] + ranked[n].row.size
  IN  MaxOf({n \in 0 .. Len(ranked) : \A k \in 2 .. n : total[k - 1] <= MaxContextChars})

\* How many of the ranked chunks the context has: the first in any case, and
\* further ones until one does not fit.  What is counted are the sections; the
\* separators that join them are not.
build_context(ranked) ==
  LET total[n \in 0 .. Len(ranked)] == IF n = 0 THEN 0 ELSE total[n - 1] + ranked[n].row.size
  IN  MaxOf({n \in 0 .. Len(ranked) : \A k \in 2 .. n : total[k] <= MaxContextChars})
-----------------------------------------------------------------------------
(* One hop through the graph. *)

GraphScore ==
  [class_method |-> 60, parent_class |-> 60, sibling_method |-> 40,
   ancestor_class |-> 50, descendant_class |-> 40, dependency_symbol |-> 30]

\* A symbol is a path and a qualified name, in the graph and in the table.
SymbolOfNode(n) == <<n.path, <<n.parent_class, n.name>>>>
SymbolOfRow(x) == <<x.path, x.qualified_name>>

ClassOf(x) == ClassNode(x.path, x.qualified_name[2])

class_methods(E, x) ==
  {SymbolOfNode(e.to) : e \in {d \in E : /\ d.type = "DEFINES"
                                         /\ d.from = ClassOf(x)
                                         /\ d.to.label = "Function"}}

ancestor_classes(E, x) ==
  {SymbolOfNode(e.to) : e \in {d \in E : d.type = "INHERITS" /\ d.from = ClassOf(x)}}

descendant_classes(E, x) ==
  {SymbolOfNode(e.from) : e \in {d \in E : d.type = "INHERITS" /\ d.to = ClassOf(x)}}

\* Rows of a class of the file that defines the method x, and another method of it.
parents_and_siblings(E, x) ==
  {<<SymbolOfNode(e.from), SymbolOfNode(e.to)>> :
     e \in {d \in E : /\ d.type = "DEFINES"
                      /\ d.from.label = "Class" /\ d.from.path = x.path
                      /\ d.to.label = "Function"
                      /\ SymbolOfNode(d.to)[2] # x.qualified_name
                      /\ \E c \in E : /\ c.type = "DEFINES" /\ c.from = d.from
                                      /\ c.to.label = "Function"
                                      /\ SymbolOfNode(c.to)[2] = x.qualified_name}}

dependency_symbols(E, x) ==
  {SymbolOfNode(e.to) :
     e \in {d \in E : /\ d.type = "DEFINES"
                      /\ d.to.label \in {"Class", "Function"}
                      /\ \E i, r \in E : /\ i.type = "IMPORTS" /\ i.from = FileNode(x.path)
                                         /\ r.type = "RESOLVES_TO" /\ r.from = i.to
                                         /\ d.from = r.to}}

\* The statements that one seed costs, in their order.
StatementsFor(x) ==
  CASE x.chunk_type = "class" ->
         <<"class_methods", "ancestor_classes", "descendant_classes", "dependency_symbols">>
    [] x.chunk_type = "function" -> <<"parents_and_siblings", "dependency_symbols">>
    [] OTHER -> <<>>

Expansion(seeds) ==
  LET upto[n \in 0 .. Len(seeds)] ==
        IF n = 0 THEN <<>>
        ELSE LET x == seeds[n].row
             IN  upto[n - 1] \o [k \in DOMAIN StatementsFor(x) |->
                                   [seed |-> x, statement |-> StatementsFor(x)[k]]]
  IN  upto[Len(seeds)]

\* Mutant: the last relationship that leads to a symbol replaces the others.
RememberLast(best, relationship, symbols) ==
  [y \in DOMAIN best \cup symbols |-> IF y \in symbols THEN relationship ELSE best[y]]

\* The relationship of a symbol is replaced by a strictly better one only.
RememberBest(best, relationship, symbols) ==
  [y \in DOMAIN best \cup symbols |->
     IF y \in DOMAIN best
        /\ (y \in symbols => GraphScore[relationship] <= GraphScore[best[y]])
     THEN best[y] ELSE relationship]
-----------------------------------------------------------------------------
(* The call. *)

NoBest == [y \in {} |-> "class_method"]

\* quiet only watches: nothing has been stored since the call began to read.
NewCall(q) ==
  [question |-> q, vector_hits |-> <<>>, keyword_hits |-> <<>>, seeds |-> <<>>,
   pending |-> <<>>, best |-> NoBest, graph_hits |-> <<>>, ranked |-> <<>>,
   sources |-> <<>>, quiet |-> TRUE]

Asked == call.question

\* What the conditions of both searches leave.
Matching(x) ==
  /\ Asked.repository_id \in {None, x.repository_id}
  /\ Asked.chunk_type \in {None, x.chunk_type}

Ask(q) ==
  /\ pc \in {"idle", "answered", "failed"}
  /\ pc' = "vector"
  /\ call' = NewCall(q)
  /\ UNCHANGED <<rows, edges>>

\* The index of the embeddings is approximate: which chunks it finds is open,
\* but they come nearest first.
similarity_search ==
  /\ pc = "vector"
  /\ \E S \in SUBSET {x \in rows : Matching(x)} :
       /\ Cardinality(S) <= VectorTopK
       /\ \E s \in Orders(S) :
            /\ \A i, j \in DOMAIN s : i < j => s[i].distance <= s[j].distance
            /\ call' = [call EXCEPT !.vector_hits =
                          [k \in DOMAIN s |-> Hit(s[k], VectorSimilarity(s[k].distance), 0, 0, "vector")]]
  /\ pc' = "keyword"
  /\ UNCHANGED <<rows, edges>>

\* The keyword search is exact but for ties.  A hybrid call takes its seeds from
\* the two results.
keyword_search ==
  LET matching == {x \in rows : Matching(x) /\ x.rank > 0}
  IN  /\ pc = "keyword"
      /\ \E S \in SUBSET matching :
           /\ Cardinality(S) = Least(KeywordTopK, Cardinality(matching))
           /\ \A x \in S, y \in matching \ S : y.rank <= x.rank
           /\ \E s \in Orders(S) :
                LET hits == [k \in DOMAIN s |-> Hit(s[k], 0, s[k].rank, 0, "keyword")]
                    seeds == merge_and_rank(RagWeights, call.vector_hits \o hits, SeedLimit)
                IN  /\ \A i, j \in DOMAIN s : i < j => s[i].rank >= s[j].rank
                    /\ IF Asked.kind = "rag"
                       THEN /\ pc' = "rank"
                            /\ call' = [call EXCEPT !.keyword_hits = hits]
                       ELSE /\ pc' = "expand"
                            /\ call' = [call EXCEPT !.keyword_hits = hits, !.seeds = seeds,
                                                    !.pending = Expansion(seeds)]
      /\ UNCHANGED <<rows, edges>>

\* One statement of find_related_symbols.  The class of a method is known from
\* the first row of its siblings, and from no row if it has none.
find_related_symbols ==
  LET E == edges[Asked.repository_id]
      next == Head(call.pending)
      family == parents_and_siblings(E, next.seed)
      Found == CASE next.statement = "class_methods" -> class_methods(E, next.seed)
                 [] next.statement = "ancestor_classes" -> ancestor_classes(E, next.seed)
                 [] next.statement = "descendant_classes" -> descendant_classes(E, next.seed)
                 [] next.statement = "dependency_symbols" -> dependency_symbols(E, next.seed)
      relationship == [class_methods |-> "class_method", ancestor_classes |-> "ancestor_class",
                       descendant_classes |-> "descendant_class",
                       dependency_symbols |-> "dependency_symbol"]
      Continue(best) == call' = [call EXCEPT !.pending = Tail(@), !.best = best]
  IN  /\ pc = "expand"
      /\ call.pending # <<>>
      /\ IF next.statement # "parents_and_siblings"
         THEN Continue(RememberBest(call.best, relationship[next.statement], Found))
         ELSE IF family = {} THEN Continue(call.best)
         ELSE \E first \in family :
                Continue(RememberBest(RememberBest(call.best, "parent_class", {first[1]}),
                                      "sibling_method", {r[2] : r \in family}))
      /\ UNCHANGED <<rows, edges, pc>>

\* Mutant: the repository is forgotten.
ChunksAnywhere(repository_id, symbols) == {x \in rows : SymbolOfRow(x) \in symbols}

ChunksBySymbol(repository_id, symbols) ==
  {x \in rows : x.repository_id = repository_id /\ SymbolOfRow(x) \in symbols}

\* The chunks of the symbols found, in any order.
fetch_chunks_by_symbol ==
  /\ pc = "expand"
  /\ call.pending = <<>>
  /\ \E s \in Orders(ChunksBySymbol(Asked.repository_id, DOMAIN call.best)) :
       call' = [call EXCEPT !.graph_hits =
                  [k \in DOMAIN s |->
                     LET relationship == call.best[SymbolOfRow(s[k])]
                     IN  Hit(s[k], 0, 0, GraphScore[relationship], relationship)]]
  /\ pc' = "rank"
  /\ UNCHANGED <<rows, edges>>

Weights == IF Asked.kind = "rag" THEN RagWeights ELSE HybridWeights

\* Ranking, context, answer of the model: the sources are what the context has.
Answer ==
  LET ranked == merge_and_rank(Weights, call.vector_hits \o call.keyword_hits \o call.graph_hits,
                               FinalTopK)
  IN  /\ pc = "rank"
      /\ call' = [call EXCEPT !.ranked = ranked,
                              !.sources = SubSeq(ranked, 1, build_context(ranked))]
      /\ pc' = "answered"
      /\ UNCHANGED <<rows, edges>>

\* A provider, the database or the graph raises; the connection is closed.
Fail ==
  /\ pc \in {"vector", "keyword", "expand", "rank"}
  /\ pc' = "failed"
  /\ UNCHANGED <<rows, edges, call>>

\* A call of index_repository commits.
CommitChunks(b) ==
  /\ ~ (b \subseteq rows)
  /\ rows' = rows \cup b
  /\ call' = [call EXCEPT !.quiet = FALSE]
  /\ UNCHANGED <<edges, pc>>

\* A builder has run a statement.
GrowGraph(g) ==
  /\ ~ (g.edges \subseteq edges[g.repository_id])
  /\ edges' = [edges EXCEPT ![g.repository_id] = @ \cup g.edges]
  /\ call' = [call EXCEPT !.quiet = FALSE]
  /\ UNCHANGED <<rows, pc>>
-----------------------------------------------------------------------------
Init ==
  /\ rows = {}
  /\ edges = [r \in Repository |-> {}]
  /\ pc = "idle"
  /\ call \in {NewCall(q) : q \in Questions}

Next ==
  \/ \E q \in Questions : Ask(q)
  \/ similarity_search
  \/ keyword_search
  \/ find_related_symbols
  \/ fetch_chunks_by_symbol
  \/ Answer
  \/ Fail
  \/ \E b \in Batches : CommitChunks(b)
  \/ \E g \in Growths : GrowGraph(g)

Spec == Init /\ [][Next]_vars
-----------------------------------------------------------------------------
(* Properties. *)

Relationship == DOMAIN GraphScore

HitType ==
  [row : Row, vector_similarity : 0 .. 100, keyword_score : Nat, graph_score : 0 .. 60,
   found_via : {"vector", "keyword"} \cup Relationship]

CandidateType == [row : Row, found_via : SUBSET ({"vector", "keyword"} \cup Relationship)]

StatementType ==
  [seed : Row, statement : {"class_methods", "ancestor_classes", "descendant_classes",
                            "parents_and_siblings", "dependency_symbols"}]

\* The types of the variables.  Scores are never negative, and what is remembered
\* of a symbol is one relationship.
TypeOK ==
  /\ rows \subseteq Row
  /\ edges \in [Repository -> SUBSET EdgeType]
  /\ pc \in {"idle", "vector", "keyword", "expand", "rank", "answered", "failed"}
  /\ DOMAIN call = DOMAIN NewCall(Asked)
  /\ Asked \in Questions
  /\ {call.vector_hits, call.keyword_hits, call.graph_hits} \subseteq Seq(HitType)
  /\ {call.seeds, call.ranked, call.sources} \subseteq Seq(CandidateType)
  /\ call.pending \in Seq(StatementType)
  /\ \A y \in DOMAIN call.best : y \in Path \X QualifiedName /\ call.best[y] \in Relationship
  /\ call.quiet \in BOOLEAN

\* The seed x is related in this way to the symbol y, by the edges E alone.
OneHop(E, x, relationship, y) ==
  CASE relationship = "class_method" -> x.chunk_type = "class" /\ y \in class_methods(E, x)
    [] relationship = "ancestor_class" -> x.chunk_type = "class" /\ y \in ancestor_classes(E, x)
    [] relationship = "descendant_class" -> x.chunk_type = "class" /\ y \in descendant_classes(E, x)
    [] relationship = "dependency_symbol" -> x.chunk_type # "file" /\ y \in dependency_symbols(E, x)
    [] relationship = "parent_class" ->
         x.chunk_type = "function" /\ \E r \in parents_and_siblings(E, x) : r[1] = y
    [] relationship = "sibling_method" ->
         x.chunk_type = "function" /\ \E r \in parents_and_siblings(E, x) : r[2] = y

\* "Every inclusion has a traceable reason" (hybrid/ranking.py:16), and it still
\* has it when the answer is given, whatever was stored while the call went on
\* reading: a source is a stored chunk of the repository that was asked about; if
\* a search has found it, it passes the filter, and has a word of the question if
\* that was the keyword search; if the graph has led to it, the graph relates it
\* in the way named to a seed, which a search has found.
CitationsAreGrounded ==
  pc = "answered" =>
    \A n \in DOMAIN call.sources :
      LET x == call.sources[n].row
          reasons == call.sources[n].found_via
      IN  /\ x \in rows
          /\ Asked.repository_id \in {None, x.repository_id}
          /\ reasons # {}
          /\ "vector" \in reasons => Matching(x)
          /\ "keyword" \in reasons => Matching(x) /\ x.rank > 0
          /\ \A relationship \in reasons \cap Relationship :
               \E k \in DOMAIN call.seeds :
                 /\ Matching(call.seeds[k].row)
                 /\ OneHop(edges[Asked.repository_id], call.seeds[k].row, relationship, SymbolOfRow(x))

\* s lists, without repetition, k best ones of S in descending order.
IsTop(s, S, Score(_), k) ==
  /\ ElementsOf(s) \subseteq S
  /\ Len(s) = Least(k, Cardinality(S))
  /\ \A i, j \in DOMAIN s : i < j => s[i] # s[j] /\ Score(s[i]) >= Score(s[j])
  /\ \A x \in S \ ElementsOf(s), i \in DOMAIN s : Score(x) <= Score(s[i])

\* If nothing is stored while a call reads, what it ranks is determined by what
\* the searches have found: the candidates are all chunks found by a search and
\* all chunks of the repository with a symbol one hop away from one of the
\* SeedLimit best of those; each counts with its similarity, its rank and the
\* best relationship that any seed has to it, however many statements it took to
\* learn that and whatever order they came in; and the best candidates are kept.
RankingIsExact ==
  pc = "answered" /\ call.quiet =>
    LET vector == {h.row : h \in ElementsOf(call.vector_hits)}
        keyword == {h.row : h \in ElementsOf(call.keyword_hits)}
        hybrid == Asked.kind = "hybrid"
        S(x) == IF x \in vector /\ x.distance < 100 THEN 100 - x.distance ELSE 0
        K(x) == IF x \in keyword THEN x.rank ELSE 0
        Ways(x) == {r \in Relationship :
                      hybrid /\ \E k \in DOMAIN call.seeds :
                        OneHop(edges[Asked.repository_id], call.seeds[k].row, r, SymbolOfRow(x))}
        G(x) == MaxOf({0} \cup {GraphScore[r] : r \in Ways(x)})
        related == {x \in rows : x.repository_id = Asked.repository_id /\ Ways(x) # {}}
        SeedScore(x) == 7 * S(x) + 3 * K(x)
        Score(x) == IF hybrid THEN 5 * S(x) + 2 * K(x) + 3 * G(x) ELSE SeedScore(x)
        RowsIn(s) == [k \in DOMAIN s |-> s[k].row]
    IN  /\ IsTop(RowsIn(call.ranked), vector \cup keyword \cup related, Score, FinalTopK)
        /\ hybrid => IsTop(RowsIn(call.seeds), vector \cup keyword, SeedScore, SeedLimit)

\* The separator that joins the sections of a context.
SeparatorLength == 2

\* The text sent to the model exceeds max_chars by no more than its separators,
\* so by at most FinalTopK - 1 of them, unless it is a single chunk that is too
\* long by itself.  (rag/context.py:5 says that "`max_chars` bounds the total
\* size"; the separators of line 46 are what the code adds to that.)  A chunk is
\* left out only where its section would exceed max_chars by itself or with
\* those before it, and is not passed over for one that ranks below it.
ContextIsBounded ==
  pc = "answered" =>
    LET n == Len(call.sources)
        ContextLength(k) ==
          LET total[i \in 0 .. k] == IF i = 0 THEN 0 ELSE total[i - 1] + call.ranked[i].row.size
          IN  total[k] + SeparatorLength * (k - 1)
    IN  /\ call.sources = SubSeq(call.ranked, 1, n)
        /\ n > 1 => /\ ContextLength(n) <= MaxContextChars + SeparatorLength * (n - 1)
                    /\ n <= FinalTopK
        /\ n < Len(call.ranked) =>
             n > 0 /\ ContextLength(n + 1) > MaxContextChars + SeparatorLength * n
=============================================================================
