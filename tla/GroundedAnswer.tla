--------------------------- MODULE GroundedAnswer ---------------------------
(***************************************************************************)
(* A question answered from retrieved excerpts: rag/pipeline.py over       *)
(* rag/hybrid_retriever.py.  answer_gst_question and stream_gst_answer     *)
(* compute the same outcome of the same excerpts and the same text.        *)
(*                                                                         *)
(* An excerpt is its fused score in millionths, a text the numbers it has  *)
(* in square brackets, a confidence is in thousandths.  The rewriting of   *)
(* the query decides what is found, and anything may be; the reranker      *)
(* changes the order of the candidates, never their scores.                *)
(***************************************************************************)
EXTENDS Integers, FiniteSets, SequencesExt

CONSTANTS
    Collections,   \* _KNOWLEDGE_COLLECTIONS
    Chunks,        \* what a collection holds
    TopK,          \* excerpts a collection may give
    MaxContext     \* _MAX_CONTEXT_CHUNKS

ASSUME RetrievalAssumption ==
    /\ IsFiniteSet(Collections) /\ IsFiniteSet(Chunks)
    /\ TopK \in Nat
    /\ MaxContext \in Nat

-----------------------------------------------------------------------------
(* Retrieval from one collection. *)

\* What the vector search or BM25 returns: chunks, the best first.
Hits == UNION {Injection(1..n, Chunks) : n \in 0..Cardinality(Chunks)}

\* _RRF_K is 60, ranks are counted from one.
Share(rank) == 1000000 \div (60 + rank)

ShareIn(hits, chunk) ==
    IF chunk \in Range(hits)
    THEN Share(CHOOSE i \in DOMAIN hits : hits[i] = chunk) ELSE 0

Fused(dense, lexical, chunk) == ShareIn(dense, chunk) + ShareIn(lexical, chunk)

\* A chunk that only BM25 knows has no payload, and no text to quote.
Candidates(dense, lexical, stored) ==
    (Range(dense) \cup Range(lexical)) \cap stored

\* A choice of the candidates with their scores; the reranker decides which.
Found(dense, lexical, stored) ==
    LET candidates == Candidates(dense, lexical, stored) IN
    {{<<chunk, Fused(dense, lexical, chunk)>> : chunk \in S} :
        S \in {T \in SUBSET candidates :
                  Cardinality(T) = Min({TopK, Cardinality(candidates)})}}

Retrieved == UNION {Found(h[1], h[2], h[3]) : h \in Hits \X Hits \X SUBSET Chunks}

\* The ways to sort excerpts, the best scores first.
Rankings(excerpts) ==
    {order \in Injection(1..Cardinality(excerpts), excerpts) :
        \A i, j \in DOMAIN order : i < j => order[i][3] >= order[j][3]}

\* The scores of the excerpts of all collections, cut to the context.
ContextsOf(found) ==
    LET all == UNION {{<<c, e[1], e[2]>> : e \in found[c]} : c \in Collections}
        n == Min({MaxContext, Cardinality(all)}) IN
    {[i \in 1..n |-> order[i][3]] : order \in Rankings(all)}

Contexts == UNION {ContextsOf(found) : found \in [Collections -> Retrieved]}

-----------------------------------------------------------------------------
(* The answer. *)

\* Numbers in brackets: some refer to nothing.
Mentions == SUBSET (0..MaxContext + 1)

CitedIndices(mentions, n) == {i \in mentions : 1 <= i /\ i <= n}

\* 0.6 of the average of the best three scores, 0.4 for two citations or more.
Confidence_NoCitations(scores, cited) == 600
Confidence(scores, cited) ==
    IF scores = <<>> THEN 0
    ELSE LET At(i) == IF i <= Len(scores) THEN scores[i] ELSE 0
             average == (At(1) + At(2) + At(3)) \div Min({3, Len(scores)}) IN
         (6 * Min({average, 1000000}) + 5000) \div 10000 + 200 * Min({cited, 2})

Threshold == 350

\* An outcome is what a node leaves in the answer of a turn: whether it
\* calculated, whose citations the answer has ("kept": whatever was there),
\* whether the text quotes two excerpts or more, and the request for review.
Outcome == [calculated: BOOLEAN, cites: {"kept", "none", "own"},
            quotesTwo: BOOLEAN, review: BOOLEAN]

NeedsReview(scores, cited) ==
    Confidence(scores, Cardinality(cited)) < Threshold \/ cited = {}

Grounded(scores, mentions) ==
    LET cited == CitedIndices(mentions, Len(scores)) IN
    [calculated |-> FALSE,
     cites |-> IF scores = <<>> THEN "none" ELSE "own",
     quotesTwo |-> Cardinality(cited) >= 2,
     review |-> NeedsReview(scores, cited)]

\* What research can come to; a text without a token mentions nothing.
ResearchOutcomes == {Grounded(s, m) : s \in Contexts, m \in Mentions}
SilentOutcomes == {Grounded(s, {}) : s \in Contexts \ {<<>>}}

\* The knowledge base or the LLM is out of reach (agents/nodes/gst_research.py).
Unavailable == [calculated |-> FALSE, cites |-> "none", quotesTwo |-> FALSE,
                review |-> TRUE]
=============================================================================
