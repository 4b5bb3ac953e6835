----------------------------- MODULE Chat_proofs -----------------------------
(***************************************************************************)
(* Proofs for Chat: that it keeps the promises of Conversation, and its    *)
(* safety properties.  Except for Begin, Store and Restart every step      *)
(* moves one request and leaves the stored turns alone (Quiet); the        *)
(* invariant is shown for these once.                                      *)
(***************************************************************************)
EXTENDS Chat, FiniteSetTheorems, SequenceTheorems, WellFoundedInduction, TLAPS

-----------------------------------------------------------------------------
(* What the scores of excerpts are, and that one citation is not enough. *)

\* In millionths: the share of a first rank in both rankings.
MaxScore == 32786

UpTo(n, x) == x \in Nat /\ x <= n

LEMMA UpToIn == ASSUME NEW n \in Nat, NEW x PROVE UpTo(n, x) <=> x \in 0..n
  BY DEF UpTo

LEMMA ElementOf ==
    ASSUME NEW S, NEW s \in Seq(S), NEW i \in 1..Len(s) PROVE s[i] \in S
  OBVIOUS

LEMMA MinOfTwo ==
    ASSUME NEW a \in Int, NEW b \in Int
    PROVE  Min({a, b}) = IF a <= b THEN a ELSE b
<1> DEFINE m == IF a <= b THEN a ELSE b
<1>1. m \in {a, b} /\ \A y \in {a, b} : m =< y
  OBVIOUS
<1>2. \A x \in {a, b} : (\A y \in {a, b} : x =< y) => x = m
  OBVIOUS
<1> QED BY <1>1, <1>2 DEF Min

LEMMA ShareOfRank == ASSUME NEW rank \in Nat, rank >= 1 PROVE UpTo(16393, Share(rank))
  BY DEF Share, UpTo

LEMMA ShareBound ==
    ASSUME NEW hits \in Hits, NEW chunk PROVE UpTo(16393, ShareIn(hits, chunk))
<1>1. PICK n \in Nat : hits \in [1..n -> Chunks]
  <2>1. Cardinality(Chunks) \in Nat
    BY RetrievalAssumption, FS_CardinalityType
  <2> QED BY <2>1 DEF Hits, Injection, IsInjective
<1>2. CASE chunk \in Range(hits)
  <2> DEFINE i == CHOOSE i \in DOMAIN hits : hits[i] = chunk
  <2>1. i \in 1..n
    BY <1>1, <1>2 DEF Range
  <2>2. ShareIn(hits, chunk) = Share(i)
    BY <1>2 DEF ShareIn
  <2> HIDE DEF i
  <2>3. i \in Nat /\ i >= 1
    BY <1>1, <2>1
  <2> QED BY <2>2, <2>3, ShareOfRank
<1>3. CASE chunk \notin Range(hits)
  BY <1>3 DEF ShareIn, UpTo
<1> QED BY <1>2, <1>3

LEMMA RetrievedBound ==
    ASSUME NEW found \in Retrieved, NEW e \in found
    PROVE  e[1] \in Chunks /\ UpTo(MaxScore, e[2])
<1>1. PICK dense \in Hits, lexical \in Hits, stored \in SUBSET Chunks :
         found \in Found(dense, lexical, stored)
  BY DEF Retrieved
<1>2. PICK chunk \in Chunks : e = <<chunk, Fused(dense, lexical, chunk)>>
  BY <1>1 DEF Found, Candidates
<1>3. UpTo(16393, ShareIn(dense, chunk)) /\ UpTo(16393, ShareIn(lexical, chunk))
  BY ShareBound
<1>4. UpTo(MaxScore, Fused(dense, lexical, chunk))
  BY <1>3 DEF Fused, MaxScore, UpTo
<1> QED BY <1>2, <1>4

LEMMA TriplesFinite ==
    ASSUME NEW R, IsFiniteSet(R), NEW S, IsFiniteSet(S), NEW T, IsFiniteSet(T)
    PROVE  IsFiniteSet(R \X S \X T)
<1> DEFINE P == (R \X S) \X T
           f == [p \in P |-> <<p[1][1], p[1][2], p[2]>>]
<1>1. IsFiniteSet(P)
  BY FS_Product
<1>2. f \in Surjection(P, R \X S \X T)
  <2>1. f \in [P -> R \X S \X T]
    OBVIOUS
  <2>2. ASSUME NEW x \in R \X S \X T PROVE \E p \in P : f[p] = x
    <3>1. <<<<x[1], x[2]>>, x[3]>> \in P
      OBVIOUS
    <3> QED BY <3>1
  <2> QED BY <2>1, <2>2 DEF Surjection
<1> HIDE DEF P, f
<1> QED BY <1>1, <1>2, FS_Surjection

LEMMA ContextBound ==
    ASSUME NEW scores \in Contexts
    PROVE  scores \in Seq(0..MaxScore)
<1>1. PICK found \in [Collections -> Retrieved] : scores \in ContextsOf(found)
  BY DEF Contexts
<1> DEFINE all == UNION {{<<c, e[1], e[2]>> : e \in found[c]} : c \in Collections}
           m == Cardinality(all)
           n == Min({MaxContext, m})
<1>2. all \subseteq Collections \X Chunks \X (0..MaxScore)
  <2> SUFFICES ASSUME NEW c \in Collections, NEW e \in found[c]
               PROVE  <<c, e[1], e[2]>> \in Collections \X Chunks \X (0..MaxScore)
    OBVIOUS
  <2>1. e[1] \in Chunks /\ UpTo(MaxScore, e[2])
    BY RetrievedBound
  <2>2. e[2] \in 0..MaxScore
    <3>1. MaxScore \in Nat
      BY DEF MaxScore
    <3> QED BY <2>1, <3>1, UpToIn
  <2> QED BY <2>1, <2>2
<1>3. PICK order \in Rankings(all) : scores = [i \in 1..n |-> order[i][3]]
  BY <1>1 DEF ContextsOf
<1> HIDE DEF all
<1>4. m \in Nat
  <2>1. IsFiniteSet(0..MaxScore)
    <3>1. 0 \in Int /\ MaxScore \in Int
      BY DEF MaxScore
    <3> QED BY <3>1, FS_Interval
  <2>2. IsFiniteSet(Collections \X Chunks \X (0..MaxScore))
    BY <2>1, TriplesFinite, RetrievalAssumption
  <2> QED BY <1>2, <2>2, FS_Subset, FS_CardinalityType
<1>5. order \in [1..m -> all]
  BY <1>3 DEF Rankings, Injection
<1> HIDE DEF m
<1>6. n \in Nat /\ n <= m
  BY <1>4, MinOfTwo, RetrievalAssumption
<1> HIDE DEF n
<1>7. \A i \in 1..n : order[i][3] \in 0..MaxScore
  BY <1>2, <1>4, <1>5, <1>6
<1> QED BY <1>3, <1>6, <1>7

\* One citation gives 200 of a thousand, and the best scores hardly 20.
LEMMA OneIsNotEnough ==
    ASSUME NEW scores \in Contexts, NEW cited \in 0..1
    PROVE  Confidence(scores, cited) < Threshold
<1>1. scores \in Seq(0..MaxScore)
  BY ContextBound
<1>2. CASE scores = <<>>
  BY <1>2 DEF Confidence, Threshold
<1>3. CASE scores # <<>>
  <2> DEFINE At(i) == IF i <= Len(scores) THEN scores[i] ELSE 0
             total == At(1) + At(2) + At(3)
             n == Min({3, Len(scores)})
             average == total \div n
  <2>1. Len(scores) \in Nat /\ Len(scores) >= 1
    BY <1>1, <1>3
  <2>2. UpTo(MaxScore, At(1)) /\ UpTo(MaxScore, At(2)) /\ UpTo(MaxScore, At(3))
    <3>1. ASSUME NEW i \in 1..Len(scores) PROVE UpTo(MaxScore, scores[i])
      <4>1. scores[i] \in 0..MaxScore
        BY <1>1, ElementOf
      <4>2. MaxScore \in Nat
        BY DEF MaxScore
      <4> QED BY <4>1, <4>2, UpToIn
    <3>2. UpTo(MaxScore, 0)
      BY DEF UpTo, MaxScore
    <3> QED BY <2>1, <3>1, <3>2
  <2>3. n = IF 3 <= Len(scores) THEN 3 ELSE Len(scores)
    BY <2>1, MinOfTwo
  <2> HIDE DEF At, n
  <2>4. UpTo(100000, total)
    BY <2>2 DEF MaxScore, UpTo
  <2>5. n \in {1, 2, 3}
    <3>1. CASE 3 <= Len(scores)
      BY <2>3, <3>1
    <3>2. CASE ~ (3 <= Len(scores))
      <4>1. Len(scores) = 1 \/ Len(scores) = 2
        <5>1. \A k \in Nat : k >= 1 /\ ~ (3 <= k) => k = 1 \/ k = 2
          OBVIOUS
        <5> QED BY <2>1, <3>2, <5>1
      <4> QED BY <2>3, <3>2, <4>1
    <3> QED BY <3>1, <3>2
  <2> HIDE DEF total
  <2>6. UpTo(100000, average)
    <3>1. /\ UpTo(100000, total \div 1) /\ UpTo(100000, total \div 2)
          /\ UpTo(100000, total \div 3)
      BY <2>4 DEF UpTo
    <3> QED BY <2>5, <3>1
  <2>7. Confidence(scores, cited) =
           (6 * Min({average, 1000000}) + 5000) \div 10000 + 200 * Min({cited, 2})
    BY <1>3 DEF Confidence, total, At, n
  <2> HIDE DEF average
  <2>8. Min({average, 1000000}) = average /\ Min({cited, 2}) = cited
    BY <2>6, MinOfTwo DEF UpTo
  <2>9. UpTo(61, (6 * average + 5000) \div 10000)
    BY <2>6 DEF UpTo
  <2> QED BY <2>7, <2>8, <2>9 DEF Threshold, UpTo
<1> QED BY <1>2, <1>3

\* What research comes to without a request for review quotes two excerpts.
LEMMA ReviewIsSound ==
    \A o \in ResearchOutcomes : ~ o.review => o.quotesTwo /\ o.cites = "own"
<1> SUFFICES ASSUME NEW scores \in Contexts, NEW mentions \in Mentions,
                    ~ Grounded(scores, mentions).review
             PROVE  /\ Grounded(scores, mentions).quotesTwo
                    /\ Grounded(scores, mentions).cites = "own"
  BY DEF ResearchOutcomes
<1> DEFINE cited == CitedIndices(mentions, Len(scores))
           k == Cardinality(cited)
<1>1. k \in Nat
  <2>1. cited \subseteq 0..MaxContext + 1
    BY DEF CitedIndices, Mentions
  <2>2. IsFiniteSet(0..MaxContext + 1)
    BY FS_Interval, RetrievalAssumption
  <2> HIDE DEF cited
  <2> QED BY <2>1, <2>2, FS_Subset, FS_CardinalityType
<1>2. ~ (Confidence(scores, k) < Threshold)
  BY DEF Grounded, NeedsReview
<1>3. Grounded(scores, mentions).quotesTwo = (k >= 2)
      /\ Grounded(scores, mentions).cites = (IF scores = <<>> THEN "none" ELSE "own")
  BY DEF Grounded
<1> HIDE DEF k
<1>4. k >= 2
  <2>1. k \notin 0..1
    BY <1>2, OneIsNotEnough
  <2>2. \A j \in Nat : j \notin 0..1 => j >= 2
    OBVIOUS
  <2> QED BY <1>1, <2>1, <2>2
<1>5. scores # <<>>
  BY <1>2 DEF Confidence, Threshold
<1> QED BY <1>3, <1>4, <1>5

-----------------------------------------------------------------------------
(* The inductive invariant. *)

Working(q) == req[q].op \in {"work", "store"}

\* A request that is open knows the latest of the turns that were stored before
\* it began, which are all but those of requests that it has raced; its
\* conversation is there.
ReqKnows(q) ==
    Open(q) =>
        LET c == req[q].conversation IN
        /\ c = q \/ turns[c] # <<>>
        /\ req[q].turn.knew = Latest(Unraced(By(turns[c]), q))

\* r has been through the graph for conversation c in this life of the process.
WasHere(c, r) == /\ r \in Requests \ Streams
                 /\ req[r].conversation = c
                 /\ req[r].turn.life = life
                 /\ req[r].op \in {"store", "reply", "over"}

\* A turn that is complete.
GoodTurn(t) ==
    /\ t.run \in {"completed", "escalated", "failed"}
    /\ t.run = "completed" =>
          /\ t.text = "whole"
          /\ t.research => t.quotesTwo /\ t.shows.citations = t.by

\* What the turn of a request that is ready to store shows.
ReqShows(q) ==
    req[q].op = "store" =>
        /\ GoodTurn(req[q].turn)
        /\ \A r \in {req[q].turn.shows.calculations, req[q].turn.shows.citations} :
              \/ r \in {None, q}
              \/ /\ q \notin Streams
                 /\ WasHere(req[q].conversation, r)
                 /\ req[r].op # "store"

ReqEnds(q) ==
    /\ req[q].turn.by = q
    /\ Active(q) => /\ req[q].conversation \in Requests
                    /\ req[q].turn.life = life
    /\ req[q].op \in {"touch", "work"} => req[q].turn.shows = Empty
    /\ req[q].op # "over" => req[q].told \in {"nothing", "session"}
    /\ req[q].op = "reply" \/ req[q].told = "done" =>
          \E c \in Requests : \E i \in 1..Len(turns[c]) : turns[c][i].by = q

Pairs == \A p, q \in Requests :
            /\ p # q
            /\ Open(p) /\ Open(q)
            /\ req[p].conversation = req[q].conversation
            => {p, q} \in raced /\ ~ (Working(p) /\ Working(q))

Before(c, i) == {turns[c][j].by : j \in 1..i - 1}
TurnKnows(c, i) ==
    turns[c][i].knew = Latest(Unraced(Before(c, i), turns[c][i].by))

TurnShows(c, i) ==
    LET t == turns[c][i] IN
    /\ GoodTurn(t)
    /\ req[t.by].op \in {"reply", "over"}
    /\ \A r \in {t.shows.calculations, t.shows.citations} :
          \/ r \in {None, t.by}
          \/ /\ r \in Requests \ Streams /\ t.by \notin Streams
             /\ req[r].conversation = c
             /\ req[r].turn.life = t.life
             /\ req[r].op \in {"reply", "over"}
             /\ \A j \in 1..Len(turns[c]) : turns[c][j].by = r => j < i

\* Who has raced has begun.
RacedBegun == \A pair \in raced : \A p \in pair : req[p].op # "new"

ReqInv == \A q \in Requests : ReqKnows(q) /\ ReqShows(q) /\ ReqEnds(q)
TurnInv == \A c \in Requests : \A i \in 1..Len(turns[c]) :
              TurnKnows(c, i) /\ TurnShows(c, i)
MemoryInv == \A c \in Requests :
                \A r \in {memory[c].calculations, memory[c].citations} :
                    r = None \/ WasHere(c, r)

ChatInv == TypeOK /\ ReqInv /\ Pairs /\ RacedBegun /\ TurnInv /\ MemoryInv

-----------------------------------------------------------------------------
(* Steps that move one request. *)

\* Request q becomes r: it is over, or it goes on with its answer; only an
\* answer of the graph changes the memory, to what the answer shows.
Quiet(q, r) ==
    /\ r \in Request
    /\ req' = [req EXCEPT ![q] = r]
    /\ UNCHANGED <<turns, life, raced>>
    /\ r.op \in {"work", "store", "over"}
    /\ r.turn.by = q
    /\ r.conversation = req[q].conversation
    /\ r.turn.life = req[q].turn.life
    /\ req[q].op # "over"
    /\ r.told = "done" => req[q].op = "reply"
    /\ r.op # "over" => /\ Open(q)
                        /\ r.turn.knew = req[q].turn.knew
                        /\ r.told \in {"nothing", "session"}
    /\ r.op = "work" =>
          /\ r.turn.shows = Empty
          /\ req[q].op \in {"touch", "work"}
          /\ \/ req[q].op = "work"
             \/ \A p \in Others(q, req[q].conversation) : req[p].op = "touch"
    /\ r.op = "store" =>
          /\ req[q].op = "work"
          /\ GoodTurn(r.turn)
          /\ \A a \in {r.turn.shows.calculations, r.turn.shows.citations} :
                \/ a \in {None, q}
                \/ /\ q \notin Streams
                   /\ a \in {memory[req[q].conversation].calculations,
                              memory[req[q].conversation].citations}
    /\ \/ memory' = memory
       \/ /\ q \notin Streams /\ r.op = "store"
          /\ memory' = [memory EXCEPT ![req[q].conversation] = r.turn.shows]

\* An answer of any node has a type, and shows what it made or was given.
LEMMA StateOfNode ==
    ASSUME NEW q \in Requests, NEW given \in Memory, NEW o \in Outcome
    PROVE  /\ NodeState(q, given, o) \in Memory
           /\ NodeState(q, given, o).calculations \in {q, given.calculations}
           /\ NodeState(q, given, o).citations \in {q, None, given.citations}
           /\ o.cites = "own" => NodeState(q, given, o).citations = q
  BY DEF NodeState, Memory, Author, Outcome

LEMMA EmptyMemory == Empty \in Memory
  BY DEF Empty, Memory, Author

LEMMA OutcomesTyped ==
    /\ ResearchOutcomes \cup {Unavailable} \subseteq Outcome
    /\ SilentOutcomes \subseteq ResearchOutcomes
    /\ \A research \in BOOLEAN : Outcomes(research) \subseteq Outcome
    /\ \A o \in Outcomes(FALSE) : o.cites # "own"
<1>1. ResearchOutcomes \subseteq Outcome
  <2> SUFFICES ASSUME NEW s \in Contexts, NEW m \in Mentions
               PROVE  Grounded(s, m) \in Outcome
    BY DEF ResearchOutcomes
  <2> DEFINE twice == Cardinality(CitedIndices(m, Len(s))) >= 2
             review == NeedsReview(s, CitedIndices(m, Len(s)))
  <2>1. twice \in BOOLEAN /\ review \in BOOLEAN
    BY DEF NeedsReview
  <2> HIDE DEF twice, review
  <2>2. Grounded(s, m) = [calculated |-> FALSE,
                          cites |-> IF s = <<>> THEN "none" ELSE "own",
                          quotesTwo |-> twice, review |-> review]
    BY DEF Grounded, twice, review
  <2> QED BY <2>1, <2>2 DEF Outcome
<1>2. SilentOutcomes \subseteq ResearchOutcomes
  BY DEF SilentOutcomes, ResearchOutcomes, Mentions
<1>3. Unavailable \in Outcome
  BY DEF Unavailable, Outcome
<1>4. Calculated \in Outcome /\ Calculated.cites = "kept"
  BY DEF Calculated, Outcome
<1>5. NotCalculated \in Outcome /\ NotCalculated.cites = "kept"
  BY DEF NotCalculated, Outcome
<1>6. ASSUME NEW research \in BOOLEAN
      PROVE  Outcomes(research) \subseteq Outcome
  BY <1>1, <1>3, <1>4, <1>5 DEF Outcomes
<1>7. \A o \in Outcomes(FALSE) : o.cites = "kept"
  BY <1>4, <1>5 DEF Outcomes
<1> QED BY <1>1, <1>2, <1>3, <1>6, <1>7

\* A text without a token cites nothing, which is always reviewed.
LEMMA SilentIsReviewed == \A o \in SilentOutcomes : o.review
<1> SUFFICES ASSUME NEW s \in Contexts PROVE Grounded(s, {}).review
  BY DEF SilentOutcomes
<1>1. CitedIndices({}, Len(s)) = {}
  BY DEF CitedIndices
<1> QED BY <1>1 DEF Grounded, NeedsReview

\* What Over leaves of a request.
LEMMA OverIs ==
    ASSUME TypeOK, NEW q \in Requests,
           NEW told \in {"nothing", "session", "done", "error"}
    PROVE  /\ Over(q, told) \in Request
           /\ Over(q, told).op = "over"
           /\ Over(q, told).told = told
           /\ Over(q, told).conversation = req[q].conversation
           /\ Over(q, told).turn.by = q
           /\ Over(q, told).turn.life = req[q].turn.life
<1>1. req[q] \in Request /\ req[q].turn \in Turn
  BY DEF TypeOK, Request
<1>2. Asked(q, {}, req[q].turn.life) \in Turn
  BY <1>1, EmptyMemory DEF Asked, Turn, Runs
<1> QED
  BY <1>1, <1>2, ChatAssumption DEF Over, Request, Ops, Asked

\* A turn that is completed or failed.
LEMMA CompletedIs ==
    ASSUME NEW t \in Turn, NEW o \in Outcome, NEW shows \in Memory
    PROVE  /\ Completed(t, o, shows) \in Turn
           /\ Completed(t, o, shows).by = t.by
           /\ Completed(t, o, shows).knew = t.knew
           /\ Completed(t, o, shows).life = t.life
           /\ Completed(t, o, shows).research = t.research
           /\ Completed(t, o, shows).shows = shows
           /\ Completed(t, o, shows).text = "whole"
           /\ Completed(t, o, shows).quotesTwo = o.quotesTwo
           /\ Completed(t, o, shows).run = IF o.review THEN "escalated" ELSE "completed"
  BY DEF Completed, Turn, Runs, Outcome

LEMMA FailedIs ==
    ASSUME NEW t \in Turn, NEW text \in {"part", "excuse"}
    PROVE  /\ Failed(t, text) \in Turn
           /\ Failed(t, text).by = t.by
           /\ Failed(t, text).knew = t.knew
           /\ Failed(t, text).life = t.life
           /\ Failed(t, text).shows = t.shows
           /\ Failed(t, text).run = "failed"
  BY DEF Failed, Turn, Runs

\* What a request that is at work has.
LEMMA AtWork ==
    ASSUME TypeOK, ReqInv, NEW q \in Requests, req[q].op \in {"touch", "work"}
    PROVE  /\ req[q] \in Request /\ req[q].turn \in Turn
           /\ req[q].turn.by = q /\ req[q].turn.shows = Empty
           /\ req[q].conversation \in Requests
           /\ req[q].told \in {"nothing", "session"}
           /\ Open(q) /\ req[q].told # "done"
  BY DEF TypeOK, Request, ReqInv, ReqEnds, Active, Open

\* A record of a request with some of its fields changed.
LEMMA RequestWith ==
    ASSUME NEW r \in Request, NEW op \in Ops, NEW t \in Turn
    PROVE  /\ [r EXCEPT !.op = op, !.turn = t] \in Request
           /\ [r EXCEPT !.op = op] \in Request
  BY DEF Request

\* A request that stores the turn t next, and has not been through the graph.
LEMMA StoresNext ==
    ASSUME TypeOK, ReqInv, NEW q \in Requests, req[q].op = "work",
           NEW t \in Turn, GoodTurn(t),
           t.by = q, t.life = req[q].turn.life, t.knew = req[q].turn.knew,
           t.shows.calculations \in {None, q}, t.shows.citations \in {None, q},
           Continue(q, [req[q] EXCEPT !.op = "store", !.turn = t]),
           UNCHANGED <<turns, memory, life, raced>>
    PROVE  Quiet(q, [req[q] EXCEPT !.op = "store", !.turn = t])
<1> DEFINE r == [req[q] EXCEPT !.op = "store", !.turn = t]
<1>1. /\ req[q] \in Request /\ Open(q) /\ req[q].told \in {"nothing", "session"}
  BY AtWork
<1>2. r \in Request
  BY <1>1, RequestWith DEF Ops
<1>3. /\ r.op = "store" /\ r.turn = t /\ r.told = req[q].told
      /\ r.conversation = req[q].conversation
  BY <1>1 DEF Request
<1>4. req' = [req EXCEPT ![q] = r]
  BY DEF Continue
<1> HIDE DEF r
<1>5. Quiet(q, r)
  BY <1>1, <1>2, <1>3, <1>4 DEF Quiet
<1> QED BY <1>5 DEF r

LEMMA FailedShowsNothing ==
    ASSUME NEW q \in Requests, NEW t \in Turn, t.by = q, t.shows = Empty,
           NEW text \in {"part", "excuse"}
    PROVE  /\ Failed(t, text) \in Turn /\ GoodTurn(Failed(t, text))
           /\ Failed(t, text).by = q
           /\ Failed(t, text).knew = t.knew /\ Failed(t, text).life = t.life
           /\ Failed(t, text).shows.calculations = None
           /\ Failed(t, text).shows.citations = None
  BY FailedIs DEF GoodTurn, Empty

\* A failed answer is stored with its excuse or the part that had come.
LEMMA QuietFailed ==
    ASSUME TypeOK, ReqInv, NEW q \in Requests, req[q].op = "work",
           NEW text \in {"part", "excuse"},
           Continue(q, [req[q] EXCEPT !.op = "store", !.turn = Failed(@, text)]),
           UNCHANGED <<turns, memory, life, raced>>
    PROVE  \E r : Quiet(q, r)
<1> DEFINE t == Failed(req[q].turn, text)
<1>1. /\ req[q].turn \in Turn /\ req[q].turn.by = q /\ req[q].turn.shows = Empty
  BY AtWork
<1>2. /\ t \in Turn /\ GoodTurn(t) /\ t.by = q
      /\ t.knew = req[q].turn.knew /\ t.life = req[q].turn.life
      /\ t.shows.calculations = None /\ t.shows.citations = None
  BY <1>1, FailedShowsNothing
<1>3. Continue(q, [req[q] EXCEPT !.op = "store", !.turn = t])
  OBVIOUS
<1> HIDE DEF t
<1> QED BY <1>2, <1>3, StoresNext

LEMMA QuietOver ==
    ASSUME TypeOK, ReqInv, NEW q \in Requests,
           NEW told \in {"nothing", "session", "done", "error"},
           req[q].op # "over", told = "done" => req[q].op = "reply",
           Continue(q, Over(q, told)),
           UNCHANGED <<turns, memory, life, raced>>
    PROVE  \E r : Quiet(q, r)
<1> DEFINE r == Over(q, told)
<1>1. /\ r \in Request /\ r.op = "over" /\ r.told = told
      /\ r.conversation = req[q].conversation
      /\ r.turn.by = q /\ r.turn.life = req[q].turn.life
  BY OverIs
<1>2. req' = [req EXCEPT ![q] = r]
  BY DEF Continue
<1> HIDE DEF r
<1> QED BY <1>1, <1>2 DEF Quiet

LEMMA QuietTouch ==
    ASSUME TypeOK, ReqInv, NEW q \in Requests, Touch(q)
    PROVE  \E r : Quiet(q, r)
<1>1. /\ req[q].op = "touch" /\ Touched(q)
      /\ \A p \in Others(q, req[q].conversation) : req[p].op = "touch"
      /\ UNCHANGED <<turns, memory, life, raced>>
  BY DEF Touch
<1>2. /\ req[q] \in Request /\ req[q].turn \in Turn
      /\ req[q].turn.by = q /\ req[q].turn.shows = Empty
      /\ req[q].told \in {"nothing", "session"} /\ Open(q)
  BY <1>1, AtWork
<1>3. CASE q \notin Streams
  <2> DEFINE r == [req[q] EXCEPT !.op = "work"]
  <2>1. req' = [req EXCEPT ![q] = r]
    BY <1>1, <1>3 DEF Touched, Continue
  <2>2. /\ r \in Request /\ r.op = "work" /\ r.turn = req[q].turn
        /\ r.conversation = req[q].conversation /\ r.told = req[q].told
    BY <1>2 DEF Request, Ops
  <2> HIDE DEF r
  <2> QED BY <1>1, <1>2, <2>1, <2>2 DEF Quiet
<1>4. CASE q \in Streams
  <2>1. PICK research \in BOOLEAN :
            Continue(q, [req[q] EXCEPT !.op = "work", !.told = "session",
                                       !.turn.research = research])
    BY <1>1, <1>4 DEF Touched
  <2> DEFINE t == [req[q].turn EXCEPT !.research = research]
             r == [req[q] EXCEPT !.op = "work", !.told = "session", !.turn = t]
  <2>2. /\ t \in Turn /\ t.by = q /\ t.shows = Empty
        /\ t.knew = req[q].turn.knew /\ t.life = req[q].turn.life
    BY <1>2 DEF Turn
  <2>3. req' = [req EXCEPT ![q] = r]
    BY <2>1 DEF Continue
  <2> HIDE DEF t
  <2>4. /\ r \in Request /\ r.op = "work" /\ r.turn = t /\ r.told = "session"
        /\ r.conversation = req[q].conversation
    BY <1>2, <2>2 DEF Request, Ops
  <2> HIDE DEF r
  <2> QED BY <1>1, <1>2, <2>2, <2>3, <2>4 DEF Quiet
<1> QED BY <1>3, <1>4

LEMMA QuietToken ==
    ASSUME TypeOK, ReqInv, NEW q \in Requests, Token(q)
    PROVE  \E r : Quiet(q, r)
<1>1. req[q].op = "work" /\ req[q].tokens < MaxTokens
  BY DEF Token, Researches
<1>2. /\ req[q] \in Request /\ req[q].turn.by = q /\ req[q].turn.shows = Empty
      /\ req[q].told \in {"nothing", "session"} /\ Open(q)
  BY <1>1, AtWork
<1> DEFINE r == [req[q] EXCEPT !.tokens = @ + 1]
<1>3. req' = [req EXCEPT ![q] = r] /\ UNCHANGED <<turns, memory, life, raced>>
  BY DEF Token, Continue
<1>4. /\ r \in Request /\ r.op = "work" /\ r.turn = req[q].turn
      /\ r.conversation = req[q].conversation /\ r.told = req[q].told
  BY <1>1, <1>2, ChatAssumption DEF Request
<1> HIDE DEF r
<1> QED BY <1>1, <1>2, <1>3, <1>4 DEF Quiet

\* A completed turn is good, if research without review quotes its sources.
LEMMA CompletedIsGood ==
    ASSUME NEW t \in Turn, NEW o \in Outcome, NEW shows \in Memory,
           (t.research /\ ~ o.review) =>
               o.quotesTwo /\ shows.citations = t.by
    PROVE  GoodTurn(Completed(t, o, shows))
<1> DEFINE d == Completed(t, o, shows)
<1>1. /\ d.by = t.by /\ d.research = t.research /\ d.shows = shows
      /\ d.text = "whole" /\ d.quotesTwo = o.quotesTwo
      /\ d.run = IF o.review THEN "escalated" ELSE "completed"
  BY CompletedIs
<1>2. o.review \in BOOLEAN
  BY DEF Outcome
<1> HIDE DEF d
<1>3. GoodTurn(d)
  BY <1>1, <1>2 DEF GoodTurn
<1> QED BY <1>3 DEF d

LEMMA QuietNodeAnswers ==
    ASSUME TypeOK, ReqInv, NEW q \in Requests, NodeAnswers(q)
    PROVE  \E r : Quiet(q, r)
<1>1. req[q].op = "work" /\ req[q].turn.research = FALSE
  <2>1. Awaits(q)
    BY DEF NodeAnswers
  <2> QED BY <2>1, AtWork DEF Awaits, Turn
<1>2. /\ req[q].turn \in Turn /\ req[q].turn.by = q
  BY <1>1, AtWork
<1>3. PICK o \in Outcomes(FALSE) :
          Continue(q, [req[q] EXCEPT !.op = "store",
              !.turn = Completed(@, o, [NodeState(q, Empty, o) EXCEPT !.citations = None])])
  BY DEF NodeAnswers
<1>4. o \in Outcome
  BY OutcomesTyped
<1> DEFINE state == NodeState(q, Empty, o)
           shows == [state EXCEPT !.citations = None]
           t == Completed(req[q].turn, o, shows)
<1>5. state \in Memory /\ state.calculations \in {q, None}
  BY <1>4, StateOfNode, EmptyMemory DEF Empty
<1> HIDE DEF state
<1>6. /\ shows \in Memory /\ shows.citations = None
      /\ shows.calculations \in {q, None}
  BY <1>5 DEF Memory, Author
<1> HIDE DEF shows
<1>7. GoodTurn(t)
  BY <1>1, <1>2, <1>4, <1>6, CompletedIsGood
<1>8. /\ t \in Turn /\ t.by = q /\ t.shows = shows
      /\ t.knew = req[q].turn.knew /\ t.life = req[q].turn.life
  BY <1>2, <1>4, <1>6, CompletedIs
<1>9. Continue(q, [req[q] EXCEPT !.op = "store", !.turn = t])
  BY <1>3 DEF shows, state
<1>10. UNCHANGED <<turns, memory, life, raced>>
  BY DEF NodeAnswers
<1> HIDE DEF t
<1> QED BY <1>1, <1>6, <1>7, <1>8, <1>9, <1>10, StoresNext

LEMMA QuietGraphAnswers ==
    ASSUME TypeOK, ReqInv, NEW q \in Requests, GraphAnswers(q)
    PROVE  \E r : Quiet(q, r)
<1> DEFINE c == req[q].conversation
<1>1. q \notin Streams /\ req[q].op = "work"
  BY DEF GraphAnswers, Sends
<1>2. /\ req[q] \in Request /\ req[q].turn \in Turn /\ req[q].turn.by = q
      /\ c \in Requests /\ req[q].told \in {"nothing", "session"} /\ Open(q)
  BY <1>1, AtWork
<1>0. PICK research \in BOOLEAN : \E o \in Outcomes(research) :
          /\ memory' = [memory EXCEPT ![c] = NodeState(q, memory[c], o)]
          /\ Continue(q, [req[q] EXCEPT !.op = "store",
                !.turn = [Completed(@, o, NodeState(q, memory[c], o))
                             EXCEPT !.research = research]])
  BY DEF GraphAnswers
<1>3. PICK o \in Outcomes(research) :
          /\ memory' = [memory EXCEPT ![c] = NodeState(q, memory[c], o)]
          /\ Continue(q, [req[q] EXCEPT !.op = "store",
                !.turn = [Completed(@, o, NodeState(q, memory[c], o))
                             EXCEPT !.research = research]])
  BY <1>0
<1>4. o \in Outcome
  BY OutcomesTyped
<1>5. memory[c] \in Memory
  BY <1>2 DEF TypeOK
<1> DEFINE state == NodeState(q, memory[c], o)
           d == Completed(req[q].turn, o, state)
           t == [d EXCEPT !.research = research]
           r == [req[q] EXCEPT !.op = "store", !.turn = t]
<1>6. /\ state \in Memory
      /\ state.calculations \in {q, memory[c].calculations}
      /\ state.citations \in {q, None, memory[c].citations}
      /\ o.cites = "own" => state.citations = q
  BY <1>2, <1>4, <1>5, StateOfNode
<1>7. memory' = [memory EXCEPT ![c] = state] /\ req' = [req EXCEPT ![q] = r]
  BY <1>3 DEF Continue
<1> HIDE DEF state
<1>8. /\ d \in Turn /\ d.by = q /\ d.shows = state /\ d.text = "whole"
      /\ d.knew = req[q].turn.knew /\ d.life = req[q].turn.life
      /\ d.quotesTwo = o.quotesTwo
      /\ d.run = IF o.review THEN "escalated" ELSE "completed"
  BY <1>2, <1>4, <1>6, CompletedIs
<1> HIDE DEF d
<1>9. /\ t \in Turn /\ t.by = q /\ t.shows = state /\ t.text = "whole"
      /\ t.knew = req[q].turn.knew /\ t.life = req[q].turn.life
      /\ t.quotesTwo = o.quotesTwo /\ t.research = research
      /\ t.run = IF o.review THEN "escalated" ELSE "completed"
  BY <1>8 DEF Turn
<1> HIDE DEF t
<1>10. research /\ ~ o.review =>
           o.quotesTwo /\ state.citations = q
  BY <1>6, ReviewIsSound DEF Outcomes, Unavailable
<1>11. o.review \in BOOLEAN
  BY <1>4 DEF Outcome
<1>12. GoodTurn(t)
  BY <1>9, <1>10, <1>11 DEF GoodTurn
<1>13. r \in Request
  BY <1>2, <1>9, RequestWith DEF Ops
<1>14. /\ r.op = "store" /\ r.turn = t /\ r.told = req[q].told
       /\ r.conversation = c
  BY <1>2 DEF Request
<1> HIDE DEF r
<1>15. UNCHANGED <<turns, life, raced>>
  BY DEF GraphAnswers
<1>16. \A a \in {state.calculations, state.citations} :
          a \in {None, q} \/ a \in {memory[c].calculations, memory[c].citations}
  BY <1>6
<1>17. Quiet(q, r)
  BY <1>1, <1>2, <1>7, <1>9, <1>12, <1>13, <1>14, <1>15, <1>16 DEF Quiet
<1> QED BY <1>17

LEMMA QuietFinal ==
    ASSUME TypeOK, ReqInv, NEW q \in Requests, Final(q)
    PROVE  \E r : Quiet(q, r)
<1>1. req[q].op = "work" /\ req[q].turn.research
  BY DEF Final, Researches
<1>2. /\ req[q].turn \in Turn /\ req[q].turn.by = q
      /\ req[q].turn.text \in {"whole", "part", "excuse"}
  BY <1>1, AtWork DEF Turn
<1>3. PICK o \in IF req[q].tokens = 0 THEN SilentOutcomes ELSE ResearchOutcomes :
          Continue(q, [req[q] EXCEPT !.op = "store",
              !.turn = [Completed(@, o, NodeState(q, Empty, o)) EXCEPT
                           !.text = IF req[q].tokens = 0 THEN "excuse" ELSE "whole"]])
  BY DEF Final
<1>4. o \in Outcome /\ o \in ResearchOutcomes /\ o.review \in BOOLEAN
  BY <1>3, OutcomesTyped DEF Outcome
<1>5. req[q].tokens = 0 => o.review
  BY <1>3, SilentIsReviewed
<1> DEFINE state == NodeState(q, Empty, o)
           d == Completed(req[q].turn, o, state)
           t == [d EXCEPT !.text = IF req[q].tokens = 0 THEN "excuse" ELSE "whole"]
<1>6. /\ state \in Memory
      /\ state.calculations \in {q, None} /\ state.citations \in {q, None}
      /\ o.cites = "own" => state.citations = q
  BY <1>4, StateOfNode, EmptyMemory DEF Empty
<1>7. Continue(q, [req[q] EXCEPT !.op = "store", !.turn = t])
  BY <1>3
<1> HIDE DEF state
<1>8. /\ d \in Turn /\ d.by = q /\ d.shows = state /\ d.text = "whole"
      /\ d.knew = req[q].turn.knew /\ d.life = req[q].turn.life
      /\ d.quotesTwo = o.quotesTwo
      /\ d.run = IF o.review THEN "escalated" ELSE "completed"
  BY <1>2, <1>4, <1>6, CompletedIs
<1> HIDE DEF d
<1>9. /\ t \in Turn /\ t.by = q /\ t.shows = state
      /\ t.text = IF req[q].tokens = 0 THEN "excuse" ELSE "whole"
      /\ t.knew = req[q].turn.knew /\ t.life = req[q].turn.life
      /\ t.quotesTwo = o.quotesTwo
      /\ t.run = IF o.review THEN "escalated" ELSE "completed"
  BY <1>8 DEF Turn
<1> HIDE DEF t
<1>10. ~ o.review => o.quotesTwo /\ state.citations = q
  BY <1>4, <1>6, ReviewIsSound
<1>11. GoodTurn(t)
  BY <1>4, <1>5, <1>9, <1>10 DEF GoodTurn
<1>12. UNCHANGED <<turns, memory, life, raced>>
  BY DEF Final
<1> QED BY <1>1, <1>6, <1>7, <1>9, <1>11, <1>12, StoresNext

LEMMA QuietSteps ==
    ASSUME TypeOK, ReqInv, NEW q \in Requests,
           \/ NotFound(q) \/ Touch(q) \/ GraphAnswers(q) \/ GraphStops(q)
           \/ NodeAnswers(q) \/ NodeStops(q) \/ Reads(q)
           \/ Reply(q) \/ Fail(q) \/ Disconnect(q)
    PROVE  \E r : Quiet(q, r)
<1>1. CASE NotFound(q)
  BY <1>1, QuietOver DEF NotFound, Arrives
<1>2. CASE GraphStops(q)
  BY <1>2, QuietFailed DEF GraphStops, Sends
<1>3. CASE NodeStops(q)
  BY <1>3, QuietFailed DEF NodeStops, Awaits
<1>4. CASE Breaks(q)
  <2> DEFINE text == IF req[q].tokens = 0 THEN "excuse" ELSE "part"
  <2>1. text \in {"part", "excuse"}
    OBVIOUS
  <2>2. Continue(q, [req[q] EXCEPT !.op = "store", !.turn = Failed(@, text)])
    BY <1>4 DEF Breaks
  <2>3. req[q].op = "work" /\ UNCHANGED <<turns, memory, life, raced>>
    BY <1>4 DEF Breaks, Researches
  <2> HIDE DEF text
  <2> QED BY <2>1, <2>2, <2>3, QuietFailed
<1>5. CASE Reply(q)
  BY <1>5, QuietOver DEF Reply
<1>6. CASE Fail(q)
  BY <1>6, QuietOver DEF Fail, Active
<1>7. CASE Disconnect(q)
  <2>1. Active(q) /\ Continue(q, Over(q, req[q].told))
        /\ UNCHANGED <<turns, memory, life, raced>>
    BY <1>7 DEF Disconnect
  <2>2. req[q].told \in {"nothing", "session"}
    BY <2>1 DEF ReqInv, ReqEnds, Active
  <2> QED BY <2>1, <2>2, QuietOver DEF Active
<1> QED
  BY <1>1, <1>2, <1>3, <1>4, <1>5, <1>6, <1>7, QuietTouch, QuietToken,
     QuietGraphAnswers, QuietNodeAnswers, QuietFinal DEF Reads

\* What a stored turn shows stays true while the requests that have been
\* through the store keep their conversation and life.
LEMMA TurnShowsKept ==
    ASSUME ChatInv, turns' = turns, NEW c \in Requests, NEW i \in 1..Len(turns[c]),
           \A p \in Requests : req[p].op \in {"reply", "over"} =>
              /\ req'[p].op \in {"reply", "over"}
              /\ req'[p].conversation = req[p].conversation
              /\ req'[p].turn.life = req[p].turn.life
    PROVE  TurnShows(c, i)'
<1>1. TurnShows(c, i)
  BY DEF ChatInv, TurnInv
<1>2. PICK t : t = turns[c][i] /\ t = turns'[c][i]
  OBVIOUS
<1>3. t.by \in Requests
  <2>1. turns[c] \in Seq(Turn)
    BY DEF ChatInv, TypeOK
  <2>2. t \in Turn
    BY <1>2, <2>1
  <2> QED BY <2>2 DEF Turn
<1>4. PICK shown : shown = {t.shows.calculations, t.shows.citations}
  OBVIOUS
<1>5. \A a \in shown :
          \/ a \in {None, t.by}
          \/ /\ a \in Requests \ Streams /\ t.by \notin Streams
             /\ req'[a].conversation = c /\ req'[a].turn.life = t.life
             /\ req'[a].op \in {"reply", "over"}
             /\ \A j \in 1..Len(turns[c]) : turns[c][j].by = a => j < i
  BY <1>1, <1>2, <1>4 DEF TurnShows
<1>6. GoodTurn(t) /\ req'[t.by].op \in {"reply", "over"}
  BY <1>1, <1>2, <1>3 DEF TurnShows
<1>7. GoodTurn(turns[c][i])'
  BY <1>2, <1>6 DEF GoodTurn
<1>8. (req[turns[c][i].by].op \in {"reply", "over"})'
  BY <1>2, <1>6
<1>9. (\A a \in {turns[c][i].shows.calculations, turns[c][i].shows.citations} :
          \/ a \in {None, turns[c][i].by}
          \/ /\ a \in Requests \ Streams /\ turns[c][i].by \notin Streams
             /\ req[a].conversation = c
             /\ req[a].turn.life = turns[c][i].life
             /\ req[a].op \in {"reply", "over"}
             /\ \A j \in 1..Len(turns[c]) : turns[c][j].by = a => j < i)'
  BY <1>2, <1>4, <1>5
<1> QED BY <1>7, <1>8, <1>9 DEF TurnShows

\* So does what a request shows that is ready to store.
LEMMA ReqShowsKept ==
    ASSUME ChatInv, NEW p \in Requests, req'[p] = req[p], life' = life,
           \A a \in Requests : req[a].op \in {"reply", "over"} =>
              /\ req'[a].op \in {"reply", "over"}
              /\ req'[a].conversation = req[a].conversation
              /\ req'[a].turn.life = req[a].turn.life
    PROVE  ReqShows(p)'
<1> SUFFICES ASSUME req[p].op = "store"
             PROVE  ReqShows(p)'
  BY DEF ReqShows
<1>1. ReqShows(p)
  BY DEF ChatInv, ReqInv
<1>2. PICK c \in Requests : c = req[p].conversation
  BY DEF ChatInv, ReqInv, ReqEnds, Active
<1>3. ASSUME NEW a \in {req[p].turn.shows.calculations,
                        req[p].turn.shows.citations},
             a \notin {None, p}
      PROVE  p \notin Streams /\ WasHere(c, a)' /\ req'[a].op # "store"
  <2>1. p \notin Streams /\ WasHere(c, a) /\ req[a].op # "store"
    BY <1>1, <1>2, <1>3 DEF ReqShows
  <2>2. req[a].op \in {"reply", "over"}
    BY <2>1 DEF WasHere
  <2> QED BY <2>1, <2>2 DEF WasHere
<1>4. GoodTurn(req[p].turn)
  BY <1>1 DEF ReqShows
<1> QED BY <1>2, <1>3, <1>4 DEF ReqShows, GoodTurn

-----------------------------------------------------------------------------
(* The invariant is kept by the steps of one request. *)

LEMMA QuietFrame ==
    ASSUME ChatInv, NEW q \in Requests, NEW r, Quiet(q, r)
    PROVE  /\ req' \in [Requests -> Request] /\ req'[q] = r
           /\ \A p \in Requests : p # q => req'[p] = req[p]
           /\ turns' = turns /\ life' = life /\ raced' = raced
           /\ r \in Request /\ req[q] \in Request
           /\ r.op # "over" => Active(q) /\ req[q].conversation \in Requests
                                         /\ req[q].turn.life = life
           /\ req[q].op \in {"reply", "over"} => r.op = "over"
<1>1. req \in [Requests -> Request]
  BY DEF ChatInv, TypeOK
<1>2. r.op # "over" => Active(q)
  BY DEF Quiet, Open
<1>3. Active(q) => req[q].conversation \in Requests /\ req[q].turn.life = life
  BY DEF ChatInv, ReqInv, ReqEnds
<1> QED BY <1>1, <1>2, <1>3 DEF Quiet, Open, Active

LEMMA QuietType ==
    ASSUME ChatInv, NEW q \in Requests, NEW r, Quiet(q, r)
    PROVE  TypeOK'
<1>1. r.turn \in Turn /\ r.turn.shows \in Memory
  BY QuietFrame DEF Request, Turn
<1>2. memory' \in [Requests -> Memory]
  BY <1>1 DEF Quiet, ChatInv, TypeOK
<1> QED BY <1>2, QuietFrame DEF ChatInv, TypeOK

LEMMA QuietWasHere ==
    ASSUME ChatInv, NEW q \in Requests, NEW r, Quiet(q, r),
           NEW c \in Requests, NEW p, WasHere(c, p)
    PROVE  WasHere(c, p)' /\ (req[p].op # "store" => req'[p].op # "store")
<1>1. CASE p # q
  BY <1>1, QuietFrame DEF WasHere
<1>2. CASE p = q
  <2>1. /\ req[q].op \in {"store", "reply", "over"}
        /\ r.op \in {"work", "store", "over"}
        /\ r.op = "work" => req[q].op \in {"touch", "work"}
        /\ r.op = "store" => req[q].op = "work"
        /\ r.conversation = req[q].conversation
        /\ r.turn.life = req[q].turn.life
    BY <1>2 DEF WasHere, Quiet
  <2>2. r.op = "over"
    BY <2>1
  <2> QED BY <1>2, <2>1, <2>2, QuietFrame DEF WasHere
<1> QED BY <1>1, <1>2

LEMMA QuietReqKnows ==
    ASSUME ChatInv, NEW q \in Requests, NEW r, Quiet(q, r), NEW p \in Requests
    PROVE  ReqKnows(p)'
<1>1. ReqKnows(p)
  BY DEF ChatInv, ReqInv
<1>2. CASE p # q
  BY <1>1, <1>2, QuietFrame DEF ReqKnows, Unraced, Open, Active
<1>3. CASE p = q /\ r.op = "over"
  BY <1>3, QuietFrame DEF ReqKnows, Open, Active
<1>4. CASE p = q /\ r.op # "over"
  <2>1. Open(q) /\ r.turn.knew = req[q].turn.knew /\ r.conversation = req[q].conversation
    BY <1>4 DEF Quiet
  <2> QED BY <1>1, <1>4, <2>1, QuietFrame DEF ReqKnows, Unraced
<1> QED BY <1>2, <1>3, <1>4

LEMMA QuietReqShows ==
    ASSUME ChatInv, NEW q \in Requests, NEW r, Quiet(q, r), NEW p \in Requests
    PROVE  ReqShows(p)'
<1>2. CASE p # q
  <2>1. ASSUME NEW a \in Requests, req[a].op \in {"reply", "over"}
        PROVE  /\ req'[a].op \in {"reply", "over"}
               /\ req'[a].conversation = req[a].conversation
               /\ req'[a].turn.life = req[a].turn.life
    BY <2>1, QuietFrame DEF Quiet
  <2> QED BY <1>2, <2>1, QuietFrame, ReqShowsKept
<1>3. CASE p = q
  <2> SUFFICES ASSUME r.op = "store"
               PROVE  ReqShows(q)'
    BY <1>3, QuietFrame DEF ReqShows
  <2>1. PICK c \in Requests : c = req[q].conversation
    BY QuietFrame
  <2>2. req[q].op = "work" /\ GoodTurn(r.turn) /\ r.conversation = c
    BY <2>1, QuietFrame DEF Quiet
  <2>3. ASSUME NEW a \in {r.turn.shows.calculations, r.turn.shows.citations},
               a \notin {None, q}
        PROVE  q \notin Streams /\ WasHere(c, a)' /\ req'[a].op # "store"
    <3>1. q \notin Streams /\ a \in {memory[c].calculations, memory[c].citations}
      BY <2>1, <2>3 DEF Quiet
    <3>2. WasHere(c, a)
      BY <2>1, <2>3, <3>1 DEF ChatInv, MemoryInv
    <3>3. ASSUME req[a].op = "store" PROVE FALSE
      <4>1. a \in Requests /\ Open(a) /\ Open(q) /\ Working(a) /\ Working(q)
            /\ req[a].conversation = c
        BY <2>2, <3>2, <3>3 DEF WasHere, Open, Active, Working
      <4> QED BY <2>1, <2>3, <4>1 DEF ChatInv, Pairs
    <3> QED BY <3>1, <3>2, <3>3, QuietWasHere
  <2> QED BY <2>2, <2>3, QuietFrame DEF ReqShows, GoodTurn
<1> QED BY <1>2, <1>3

LEMMA QuietReqEnds ==
    ASSUME ChatInv, NEW q \in Requests, NEW r, Quiet(q, r), NEW p \in Requests
    PROVE  ReqEnds(p)'
<1>1. ReqEnds(p) /\ ReqEnds(q)
  BY DEF ChatInv, ReqInv
<1>2. CASE p # q
  BY <1>1, <1>2, QuietFrame DEF ReqEnds, Active
<1>3. CASE p = q
  <2>1. /\ r.turn.by = q
        /\ r.op \in {"work", "store", "over"}
        /\ r.op # "over" => /\ r.told \in {"nothing", "session"}
                            /\ r.conversation \in Requests /\ r.turn.life = life
        /\ r.op = "work" => r.turn.shows = Empty
        /\ r.told = "done" => req[q].op = "reply"
    BY QuietFrame DEF Quiet
  <2> QED BY <1>1, <1>3, <2>1, QuietFrame DEF ReqEnds, Active
<1> QED BY <1>2, <1>3

LEMMA QuietPairs ==
    ASSUME ChatInv, NEW q \in Requests, NEW r, Quiet(q, r)
    PROVE  Pairs'
<1>1. /\ \A p \in Requests : Open(p)' => Open(p) /\ req'[p].conversation = req[p].conversation
      /\ \A p \in Requests : p # q => (Working(p)' <=> Working(p))
  BY QuietFrame DEF Open, Active, Working, Quiet
<1>2. ASSUME NEW p \in Requests, p # q, Open(p)', Open(q)', Working(q)',
             req[p].conversation = req[q].conversation
      PROVE  ~ Working(p)
  <2>1. Open(p) /\ Open(q) /\ r.op \in {"work", "store"}
    BY <1>1, <1>2, QuietFrame DEF Working
  <2>2. CASE req[q].op = "work"
    BY <1>2, <2>1, <2>2 DEF ChatInv, Pairs, Working
  <2>3. CASE req[q].op # "work"
    <3>1. \A o \in Others(q, req[q].conversation) : req[o].op = "touch"
      BY <2>1, <2>3 DEF Quiet
    <3>2. p \in Others(q, req[q].conversation)
      BY <1>2, <2>1 DEF Others
    <3> QED BY <3>1, <3>2 DEF Working
  <2> QED BY <2>2, <2>3
<1> SUFFICES ASSUME NEW p \in Requests, NEW s \in Requests, p # s,
                    Open(p)', Open(s)', req'[p].conversation = req'[s].conversation
             PROVE  {p, s} \in raced /\ ~ (Working(p)' /\ Working(s)')
  BY QuietFrame DEF Pairs, Open, Active, Working
<1>3. /\ Open(p) /\ Open(s) /\ req[p].conversation = req[s].conversation
      /\ {p, s} \in raced /\ ~ (Working(p) /\ Working(s))
  BY <1>1 DEF ChatInv, Pairs
<1> QED BY <1>1, <1>2, <1>3

LEMMA QuietRaced ==
    ASSUME ChatInv, NEW q \in Requests, NEW r, Quiet(q, r)
    PROVE  RacedBegun'
<1> SUFFICES ASSUME NEW pair \in raced, NEW p \in pair
             PROVE  req'[p].op # "new"
  BY QuietFrame DEF RacedBegun
<1>1. p \in Requests /\ req[p].op # "new"
  BY DEF ChatInv, TypeOK, RacedBegun
<1>2. r.op # "new"
  BY DEF Quiet
<1> QED BY <1>1, <1>2, QuietFrame

LEMMA QuietTurns ==
    ASSUME ChatInv, NEW q \in Requests, NEW r, Quiet(q, r)
    PROVE  TurnInv'
<1>1. ASSUME NEW p \in Requests, req[p].op \in {"reply", "over"}
      PROVE  /\ req'[p].op \in {"reply", "over"}
             /\ req'[p].conversation = req[p].conversation
             /\ req'[p].turn.life = req[p].turn.life
  BY <1>1, QuietFrame DEF Quiet
<1> SUFFICES ASSUME NEW c \in Requests, NEW i \in 1..Len(turns[c])
             PROVE  TurnKnows(c, i)' /\ TurnShows(c, i)'
  BY QuietFrame DEF TurnInv
<1>2. TurnKnows(c, i)
  BY DEF ChatInv, TurnInv
<1>3. TurnKnows(c, i)'
  <2>1. turns' = turns /\ raced' = raced
    BY QuietFrame
  <2> QED BY <1>2, <2>1 DEF TurnKnows, Before, Unraced
<1>4. TurnShows(c, i)'
  BY <1>1, QuietFrame, TurnShowsKept
<1> QED BY <1>3, <1>4

LEMMA QuietMemory ==
    ASSUME ChatInv, NEW q \in Requests, NEW r, Quiet(q, r)
    PROVE  MemoryInv'
<1> SUFFICES ASSUME NEW c \in Requests,
                    NEW a \in {memory'[c].calculations, memory'[c].citations},
                    a # None
             PROVE  WasHere(c, a)'
  BY DEF MemoryInv
<1>1. CASE a \in {memory[c].calculations, memory[c].citations}
  BY <1>1, QuietWasHere DEF ChatInv, MemoryInv
<1>2. CASE a \notin {memory[c].calculations, memory[c].citations}
  <2>1. /\ q \notin Streams /\ r.op = "store"
        /\ memory' = [memory EXCEPT ![req[q].conversation] = r.turn.shows]
    BY <1>2 DEF Quiet
  <2>2. c = req[q].conversation /\ a \in {r.turn.shows.calculations, r.turn.shows.citations}
    BY <1>2, <2>1 DEF ChatInv, TypeOK
  <2>3. a = q
    BY <1>2, <2>1, <2>2 DEF Quiet
  <2>4. r.conversation = c /\ r.turn.life = life
    BY <2>1, <2>2, QuietFrame DEF Quiet
  <2> QED BY <2>1, <2>3, <2>4, QuietFrame DEF WasHere
<1> QED BY <1>1, <1>2

LEMMA QuietStep ==
    ASSUME ChatInv, NEW q \in Requests, NEW r, Quiet(q, r)
    PROVE  ChatInv'
<1>1. ReqInv'
  BY QuietReqKnows, QuietReqShows, QuietReqEnds DEF ReqInv
<1> QED BY <1>1, QuietType, QuietPairs, QuietRaced, QuietTurns, QuietMemory DEF ChatInv

-----------------------------------------------------------------------------
(* The other steps. *)

LEMMA InitInv == Init => ChatInv
<1> SUFFICES ASSUME Init PROVE ChatInv
  OBVIOUS
<1>1. \A q \in Requests : Asked(q, {}, 0) \in Turn
  BY EmptyMemory DEF Asked, Turn, Runs
<1>2. \A q \in Requests : Unsent(q) \in Request
  BY <1>1, ChatAssumption DEF Unsent, Request, Ops, Author
<1>3. TypeOK
  BY <1>2, EmptyMemory DEF Init, TypeOK
<1>4. \A q \in Requests : ~ Active(q) /\ ~ Open(q)
  BY DEF Init, Unsent, Active, Open
<1>5. ReqInv
  BY <1>4 DEF Init, Unsent, Asked, ReqInv, ReqKnows, ReqShows, ReqEnds
<1>6. Pairs /\ RacedBegun
  BY <1>4 DEF Pairs, RacedBegun, Init
<1>7. TurnInv
  BY DEF Init, TurnInv
<1>8. MemoryInv
  BY DEF Init, MemoryInv, Empty
<1> QED BY <1>3, <1>5, <1>6, <1>7, <1>8 DEF ChatInv

\* The requests whose turns are stored, by the places of the list.
LEMMA TurnsBy ==
    ASSUME TypeOK, NEW c \in Requests
    PROVE  /\ By(turns[c]) = {turns[c][i].by : i \in 1..Len(turns[c])}
           /\ Len(turns[c]) \in Nat
           /\ \A i \in 1..Len(turns[c]) :
                 /\ turns[c][i].by \in By(turns[c])
                 /\ \A j \in 1..i - 1 : j \in 1..Len(turns[c])
<1>1. turns[c] \in Seq(Turn)
  BY DEF TypeOK
<1>2. DOMAIN turns[c] = 1..Len(turns[c]) /\ Len(turns[c]) \in Nat
  BY <1>1
<1> QED BY <1>2 DEF By

LEMMA StoredHasBegun ==
    ASSUME ChatInv, NEW c \in Requests, NEW a \in By(turns[c])
    PROVE  a \in Requests /\ req[a].op \in {"reply", "over"}
<1>1. PICK i \in 1..Len(turns[c]) : a = turns[c][i].by
  BY TurnsBy DEF ChatInv
<1>2. TurnShows(c, i)
  BY DEF ChatInv, TurnInv
<1>3. turns[c] \in Seq(Turn)
  BY DEF ChatInv, TypeOK
<1>4. turns[c][i] \in Turn
  BY <1>3
<1> QED BY <1>1, <1>2, <1>4 DEF TurnShows, Turn

LEMMA BeginStep ==
    ASSUME ChatInv, NEW q \in Requests, Begin(q)
    PROVE  ChatInv'
<1> DEFINE r(c) == [Unsent(q) EXCEPT !.op = "touch", !.conversation = c,
                       !.turn = Asked(q, Latest(By(turns[c])), life)]
<1>1. PICK c \in Requests :
          /\ turns[c] # <<>> \/ (c = q /\ MayOpen)
          /\ req' = [req EXCEPT ![q] = r(c)]
          /\ raced' = raced \cup {{p, q} : p \in Others(q, c)}
  BY DEF Begin, Continue
<1>2. req[q].op = "new" /\ UNCHANGED <<turns, memory, life>>
  BY DEF Begin, Arrives
<1>3. PICK s : s = r(c)
  OBVIOUS
<1>4. PICK n : n = Latest(By(turns[c]))
  OBVIOUS
<1>5. n \in SUBSET Requests /\ life \in Nat
  <2>1. By(turns[c]) \subseteq Requests
    BY StoredHasBegun
  <2> QED BY <1>4, <2>1 DEF Latest, ChatInv, TypeOK
<1>6. s = [op |-> "touch", conversation |-> c, tokens |-> 0,
           told |-> "nothing", turn |-> Asked(q, n, life)]
  BY <1>3, <1>4 DEF Unsent
<1>7. Asked(q, n, life) \in Turn
  BY <1>5, EmptyMemory DEF Asked, Turn, Runs
<1>8. s \in Request
  BY <1>6, <1>7, ChatAssumption DEF Request, Ops, Author
<1>9. /\ s.op = "touch" /\ s.conversation = c /\ s.told = "nothing"
      /\ s.turn.by = q /\ s.turn.knew = n /\ s.turn.life = life
      /\ s.turn.shows = Empty
  BY <1>6 DEF Asked
<1>10. /\ req' \in [Requests -> Request] /\ req'[q] = s
       /\ \A p \in Requests : p # q => req'[p] = req[p]
  BY <1>1, <1>3, <1>8 DEF ChatInv, TypeOK
<1>11. raced \subseteq raced'
  BY <1>1
<1>17. ASSUME NEW d \in Requests, NEW a \in By(turns[d])
       PROVE  /\ a \in Requests \ {q}
              /\ \A p \in Requests \ {q} : {a, p} \in raced' <=> {a, p} \in raced
              /\ {a, q} \notin raced'
  <2>1. a \in Requests /\ req[a].op \in {"reply", "over"} /\ a # q
    BY <1>2, StoredHasBegun
  <2>2. a \notin Others(q, c)
    BY <2>1 DEF Others, Open, Active
  <2>3. {a, q} \notin raced
    BY <1>2 DEF ChatInv, RacedBegun
  <2>4. ASSUME NEW p \in Requests, NEW o \in Others(q, c), {a, p} = {o, q}
        PROVE  FALSE
    BY <2>1, <2>2, <2>4 DEF Others
  <2> QED BY <1>1, <2>1, <2>3, <2>4
<1>12. TypeOK'
  <2>1. \A p \in Others(q, c) : {p, q} \in SUBSET Requests
    BY DEF Others
  <2>2. raced' \in SUBSET SUBSET Requests
    BY <1>1, <2>1 DEF ChatInv, TypeOK
  <2> QED BY <1>2, <1>10, <2>2 DEF ChatInv, TypeOK
<1> HIDE DEF r
<1>13. ASSUME NEW p \in Requests
       PROVE  ReqKnows(p)' /\ ReqShows(p)' /\ ReqEnds(p)'
  <2>1. ReqKnows(p) /\ ReqShows(p) /\ ReqEnds(p)
    BY DEF ChatInv, ReqInv
  <2>2. CASE p # q
    <3>1. ReqKnows(p)'
      <4> SUFFICES ASSUME Open(p)' PROVE ReqKnows(p)'
        BY DEF ReqKnows
      <4>1. Open(p) /\ req'[p] = req[p]
        BY <1>10, <2>2 DEF Open, Active
      <4>2. PICK d \in Requests : d = req[p].conversation
        BY <2>1, <4>1 DEF ReqEnds, Open
      <4>3. Unraced(By(turns[d]), p)' = Unraced(By(turns[d]), p)
        BY <1>2, <1>17, <2>2 DEF Unraced
      <4> QED BY <1>2, <2>1, <4>1, <4>2, <4>3 DEF ReqKnows
    <3>2. ReqShows(p)'
      <4>1. \A a \in Requests : req[a].op \in {"reply", "over"} => req'[a] = req[a]
        BY <1>2, <1>10
      <4> QED BY <1>2, <1>10, <2>2, <4>1, ReqShowsKept
    <3>3. ReqEnds(p)'
      BY <1>2, <1>10, <2>1, <2>2 DEF ReqEnds, Active
    <3> QED BY <3>1, <3>2, <3>3
  <2>3. CASE p = q
    <3>1. ReqKnows(q)'
      <4>1. Unraced(By(turns[c]), q)' = By(turns[c])
        BY <1>2, <1>17 DEF Unraced
      <4>2. c = q \/ turns[c] # <<>>
        BY <1>1
      <4> QED BY <1>2, <1>4, <1>5, <1>9, <1>10, <4>1, <4>2 DEF ReqKnows
    <3>2. ReqShows(q)' /\ ReqEnds(q)'
      BY <1>2, <1>9, <1>10, <2>1, <2>3 DEF ReqShows, ReqEnds
    <3> QED BY <2>3, <3>1, <3>2
  <2> QED BY <2>2, <2>3
<1>14. Pairs'
  <2> SUFFICES ASSUME NEW x \in Requests, NEW y \in Requests, x # y,
                      Open(x)', Open(y)', req'[x].conversation = req'[y].conversation
               PROVE  {x, y} \in raced' /\ ~ (Working(x)' /\ Working(y)')
    BY DEF Pairs
  <2>1. ASSUME NEW p \in Requests, p # q, Open(p)', req'[p].conversation = c
        PROVE  {p, q} \in raced'
    <3>1. p \in Others(q, c)
      BY <1>10, <2>1 DEF Others, Open, Active
    <3> QED BY <1>1, <3>1
  <2>2. ~ Working(q)'
    BY <1>9, <1>10 DEF Working
  <2>3. CASE x # q /\ y # q
    <3>1. /\ Open(x) /\ Open(y) /\ req[x].conversation = req[y].conversation
      BY <1>10, <2>3 DEF Open, Active
    <3>2. {x, y} \in raced /\ ~ (Working(x) /\ Working(y))
      BY <3>1 DEF ChatInv, Pairs
    <3> QED BY <1>10, <1>11, <2>3, <3>2 DEF Working
  <2>4. CASE x = q
    BY <1>9, <1>10, <2>1, <2>2, <2>4
  <2>5. CASE y = q
    BY <1>9, <1>10, <2>1, <2>2, <2>5
  <2> QED BY <2>3, <2>4, <2>5
<1>15. TurnInv'
  <2> SUFFICES ASSUME NEW d \in Requests, NEW i \in 1..Len(turns[d])
               PROVE  TurnKnows(d, i)' /\ TurnShows(d, i)'
    BY <1>2 DEF TurnInv
  <2>1. TurnKnows(d, i) /\ TurnShows(d, i)
    BY DEF ChatInv, TurnInv
  <2>2. TurnKnows(d, i)'
    <3>1. PICK t : t = turns[d][i].by
      OBVIOUS
    <3>2. t \in By(turns[d]) /\ Before(d, i) \subseteq By(turns[d])
      <4>1. /\ By(turns[d]) = {turns[d][j].by : j \in 1..Len(turns[d])}
            /\ \A j \in 1..i - 1 : j \in 1..Len(turns[d])
        BY TurnsBy DEF ChatInv
      <4> QED BY <3>1, <4>1 DEF Before
    <3>3. t \in Requests \ {q}
      BY <1>17, <3>2
    <3>4. Unraced(Before(d, i), t)' = Unraced(Before(d, i), t)
      BY <1>2, <1>17, <3>2, <3>3 DEF Unraced, Before
    <3> QED BY <1>2, <2>1, <3>1, <3>4 DEF TurnKnows
  <2>3. turns[d][i].by \in Requests
    <3>1. turns[d] \in Seq(Turn)
      BY DEF ChatInv, TypeOK
    <3>2. turns[d][i] \in Turn
      BY <3>1
    <3> QED BY <3>2 DEF Turn
  <2>4. \A p \in Requests : req[p].op \in {"reply", "over"} => req'[p] = req[p]
    BY <1>2, <1>10
  <2>5. TurnShows(d, i)'
    BY <1>2, <2>1, <2>3, <2>4, TurnShowsKept
  <2> QED BY <2>2, <2>5
<1>16. MemoryInv'
  <2>1. \A d, a : WasHere(d, a) => WasHere(d, a)'
    BY <1>2, <1>10 DEF WasHere
  <2> QED BY <1>2, <2>1 DEF ChatInv, MemoryInv
<1>18. RacedBegun'
  <2> SUFFICES ASSUME NEW pair \in raced', NEW p \in pair
               PROVE  req'[p].op # "new"
    BY DEF RacedBegun
  <2>1. CASE pair \in raced
    BY <1>9, <1>10, <2>1 DEF ChatInv, TypeOK, RacedBegun
  <2>2. CASE pair \notin raced
    <3>1. p \in Others(q, c) \/ p = q
      BY <1>1, <2>2
    <3>2. p \in Others(q, c) => p \in Requests /\ p # q /\ req[p].op # "new"
      BY DEF Others, Open, Active
    <3> QED BY <1>9, <1>10, <3>1, <3>2
  <2> QED BY <2>1, <2>2
<1> QED BY <1>12, <1>13, <1>14, <1>15, <1>16, <1>18 DEF ChatInv, ReqInv

LEMMA RestartStep ==
    ASSUME ChatInv, Restart
    PROVE  ChatInv'
<1>1. /\ life' = life + 1 /\ turns' = turns /\ raced' = raced
      /\ memory' = [c \in Requests |-> Empty]
      /\ req' = [q \in Requests |->
                    IF Active(q) THEN Over(q, req[q].told) ELSE req[q]]
  BY DEF Restart
<1>2. ASSUME NEW q \in Requests
      PROVE  /\ req'[q] \in Request
             /\ req'[q].op \in {"new", "over"} /\ ~ Active(q)'
             /\ req'[q].turn.by = q
             /\ req'[q].op # "over" => req'[q].told \in {"nothing", "session"}
             /\ req'[q].told = "done" => req[q].told = "done"
             /\ req[q].op \in {"reply", "over"} =>
                   /\ req'[q].op = "over"
                   /\ req'[q].conversation = req[q].conversation
                   /\ req'[q].turn.life = req[q].turn.life
  <2>0. req[q] \in Request /\ ReqEnds(q)
    BY DEF ChatInv, TypeOK, ReqInv
  <2>1. CASE Active(q)
    <3>1. req'[q] = Over(q, req[q].told)
      BY <1>1, <2>1
    <3>2. req[q].told \in {"nothing", "session", "done", "error"}
      BY <2>0 DEF Request
    <3>3. /\ req'[q] \in Request /\ req'[q].op = "over"
          /\ req'[q].told = req[q].told
          /\ req'[q].conversation = req[q].conversation
          /\ req'[q].turn.by = q /\ req'[q].turn.life = req[q].turn.life
      BY <3>1, <3>2, OverIs DEF ChatInv
    <3> QED BY <3>3 DEF Active
  <2>2. CASE ~ Active(q)
    BY <1>1, <2>0, <2>2 DEF Active, ReqEnds
  <2> QED BY <2>1, <2>2
<1>3. TypeOK'
  <2>1. req' = [q \in Requests |-> req'[q]]
    BY <1>1
  <2>2. req' \in [Requests -> Request]
    BY <1>2, <2>1
  <2> QED BY <1>1, <2>2, EmptyMemory DEF ChatInv, TypeOK
<1>4. ASSUME NEW q \in Requests
      PROVE  ReqKnows(q)' /\ ReqShows(q)' /\ ReqEnds(q)'
  <2>1. ReqEnds(q)
    BY DEF ChatInv, ReqInv
  <2>2. ReqKnows(q)' /\ ReqShows(q)'
    BY <1>2 DEF ReqKnows, ReqShows, Open
  <2>3. req'[q].op \notin {"touch", "work", "reply"}
    BY <1>2
  <2>4. ReqEnds(q)'
    BY <1>1, <1>2, <2>1, <2>3 DEF ReqEnds
  <2> QED BY <2>2, <2>4
<1>5. Pairs'
  BY <1>2 DEF Pairs, Open
<1>8. RacedBegun'
  <2> SUFFICES ASSUME NEW pair \in raced, NEW p \in pair
               PROVE  req'[p].op # "new"
    BY <1>1 DEF RacedBegun
  <2>1. p \in Requests /\ req[p].op # "new"
    BY DEF ChatInv, TypeOK, RacedBegun
  <2> QED BY <1>1, <2>1 DEF Over
<1>6. TurnInv'
  <2> SUFFICES ASSUME NEW d \in Requests, NEW i \in 1..Len(turns[d])
               PROVE  TurnKnows(d, i)' /\ TurnShows(d, i)'
    BY <1>1 DEF TurnInv
  <2>1. TurnKnows(d, i) /\ TurnShows(d, i)
    BY DEF ChatInv, TurnInv
  <2>2. TurnKnows(d, i)'
    BY <1>1, <2>1 DEF TurnKnows, Before, Unraced
  <2>3. TurnShows(d, i)'
    BY <1>1, <1>2, <2>1, TurnShowsKept DEF ChatInv
  <2> QED BY <2>2, <2>3
<1>7. MemoryInv'
  BY <1>1 DEF MemoryInv, Empty
<1> QED BY <1>3, <1>4, <1>5, <1>6, <1>7, <1>8 DEF ChatInv, ReqInv

\* The turns of the conversation that a request stores to.
LEMMA StoreFrame ==
    ASSUME ChatInv, NEW q \in Requests, Store(q)
    PROVE  \E c \in Requests :
              /\ c = req[q].conversation
              /\ req[q].op = "store" /\ req[q] \in Request /\ req[q].turn \in Turn
              /\ req[q].turn.by = q /\ req[q].turn.life = life
              /\ turns[c] \in Seq(Turn) /\ turns'[c] \in Seq(Turn)
              /\ Len(turns[c]) \in Nat /\ Len(turns'[c]) = Len(turns[c]) + 1
              /\ turns'[c][Len(turns[c]) + 1] = req[q].turn
              /\ \A i \in 1..Len(turns[c]) :
                    turns'[c][i] = turns[c][i] /\ turns[c][i] \in Turn
              /\ \A d \in Requests : d # c => turns'[d] = turns[d]
              /\ turns' \in [Requests -> Seq(Turn)]
              /\ turns' = [turns EXCEPT ![c] = Append(turns[c], req[q].turn)]
              /\ req' \in [Requests -> Request]
              /\ req'[q] = [req[q] EXCEPT !.op = "reply"]
              /\ \A p \in Requests : p # q => req'[p] = req[p]
              /\ UNCHANGED <<memory, life, raced>>
<1>1. req[q].op = "store" /\ ReqEnds(q) /\ req[q] \in Request
  BY DEF Store, ChatInv, ReqInv, TypeOK
<1>2. PICK c \in Requests : c = req[q].conversation
  BY <1>1 DEF ReqEnds, Active
<1>3. /\ req[q].turn \in Turn /\ turns[c] \in Seq(Turn)
      /\ req[q].turn.by = q /\ req[q].turn.life = life
  BY <1>1 DEF Request, ReqEnds, Active, ChatInv, TypeOK
<1>4. turns' = [turns EXCEPT ![c] = Append(turns[c], req[q].turn)]
  BY <1>2 DEF Store
<1>5. turns'[c] = Append(turns[c], req[q].turn)
  BY <1>4 DEF ChatInv, TypeOK
<1>6. /\ turns'[c] \in Seq(Turn)
      /\ Len(turns[c]) \in Nat /\ Len(turns'[c]) = Len(turns[c]) + 1
      /\ turns'[c][Len(turns[c]) + 1] = req[q].turn
      /\ \A i \in 1..Len(turns[c]) :
            turns'[c][i] = turns[c][i] /\ turns[c][i] \in Turn
  BY <1>3, <1>5
<1>7. /\ turns' \in [Requests -> Seq(Turn)]
      /\ \A d \in Requests : d # c => turns'[d] = turns[d]
  BY <1>3, <1>4, <1>6 DEF ChatInv, TypeOK
<1>8. [req[q] EXCEPT !.op = "reply"] \in Request
  BY <1>1, <1>3, RequestWith DEF Ops
<1>9. /\ req' \in [Requests -> Request]
      /\ req'[q] = [req[q] EXCEPT !.op = "reply"]
      /\ \A p \in Requests : p # q => req'[p] = req[p]
  BY <1>8 DEF Store, Continue, ChatInv, TypeOK
<1>10. UNCHANGED <<memory, life, raced>>
  BY DEF Store
<1> QED BY <1>1, <1>2, <1>3, <1>4, <1>6, <1>7, <1>9, <1>10

LEMMA StoreStep ==
    ASSUME ChatInv, NEW q \in Requests, Store(q)
    PROVE  ChatInv'
<1>1. PICK c \in Requests :
              /\ c = req[q].conversation
              /\ req[q].op = "store" /\ req[q] \in Request /\ req[q].turn \in Turn
              /\ req[q].turn.by = q /\ req[q].turn.life = life
              /\ turns[c] \in Seq(Turn) /\ turns'[c] \in Seq(Turn)
              /\ Len(turns[c]) \in Nat /\ Len(turns'[c]) = Len(turns[c]) + 1
              /\ turns'[c][Len(turns[c]) + 1] = req[q].turn
              /\ \A i \in 1..Len(turns[c]) :
                    turns'[c][i] = turns[c][i] /\ turns[c][i] \in Turn
              /\ \A d \in Requests : d # c => turns'[d] = turns[d]
              /\ turns' \in [Requests -> Seq(Turn)]
              /\ req' \in [Requests -> Request]
              /\ req'[q] = [req[q] EXCEPT !.op = "reply"]
              /\ \A p \in Requests : p # q => req'[p] = req[p]
              /\ UNCHANGED <<memory, life, raced>>
  BY StoreFrame
<1>2. PICK n : n = Len(turns[c]) + 1
  OBVIOUS
<1>3. /\ 1..Len(turns'[c]) = (1..Len(turns[c])) \cup {n}
      /\ n \in 1..Len(turns'[c]) /\ n \notin 1..Len(turns[c])
      /\ \A i \in 1..Len(turns[c]) : i < n
      /\ n \in Nat
  BY <1>1, <1>2
<1>20. /\ turns'[c][n] = req[q].turn /\ turns'[c][n].by = q
       /\ \A i \in 1..Len(turns'[c]) : i # n => i \in 1..Len(turns[c])
       /\ \A i \in 1..Len(turns[c]) : turns'[c][i] = turns[c][i]
  BY <1>1, <1>2, <1>3
<1>21. By(turns'[c]) = By(turns[c]) \cup {q}
  <2>1. DOMAIN turns'[c] = 1..Len(turns'[c]) /\ DOMAIN turns[c] = 1..Len(turns[c])
    BY <1>1
  <2> QED BY <1>3, <1>20, <2>1 DEF By
<1>4. /\ req'[q].op = "reply" /\ req'[q].turn = req[q].turn
      /\ req'[q].conversation = c /\ req'[q].told = req[q].told
  BY <1>1 DEF Request
<1>5. TypeOK'
  BY <1>1 DEF ChatInv, TypeOK
<1>6. \A a \in Requests : req[a].op \in {"reply", "over"} => req'[a] = req[a]
  BY <1>1
<1>7. ReqKnows(q) /\ ReqShows(q) /\ ReqEnds(q)
  BY DEF ChatInv, ReqInv
<1>8. \A p \in Requests : Open(p)' => p # q /\ Open(p)
  BY <1>1, <1>4 DEF Open, Active
<1>9. ASSUME NEW d \in Requests, NEW i \in 1..Len(turns[d])
      PROVE  i \in 1..Len(turns'[d]) /\ turns'[d][i] = turns[d][i]
  BY <1>1, <1>3
<1>10. ASSUME NEW p \in Requests
       PROVE  ReqKnows(p)' /\ ReqShows(p)' /\ ReqEnds(p)'
  <2>1. ReqKnows(p) /\ ReqShows(p) /\ ReqEnds(p)
    BY DEF ChatInv, ReqInv
  <2>2. ReqKnows(p)'
    <3> SUFFICES ASSUME Open(p)' PROVE ReqKnows(p)'
      BY DEF ReqKnows
    <3>1. p # q /\ Open(p) /\ req'[p] = req[p]
      BY <1>1, <1>8
    <3>2. PICK d \in Requests : d = req[p].conversation
      BY <2>1, <3>1 DEF ReqEnds, Open
    <3>3. /\ d = p \/ turns[d] # <<>>
          /\ req[p].turn.knew = Latest(Unraced(By(turns[d]), p))
      BY <2>1, <3>1, <3>2 DEF ReqKnows
    <3>4. CASE d # c
      <4>1. turns'[d] = turns[d] /\ raced' = raced /\ req'[p].conversation = d
        BY <1>1, <3>1, <3>2, <3>4
      <4> QED BY <3>1, <3>3, <4>1 DEF ReqKnows, Unraced
    <3>5. CASE d = c
      <4>1. {q, p} \in raced
        BY <1>1, <3>1, <3>2, <3>5 DEF ChatInv, Pairs, Open, Active
      <4>2. turns'[c] # <<>>
        BY <1>1
      <4>3. Unraced(By(turns[c]), p)' = Unraced(By(turns[c]), p)
        BY <1>1, <1>21, <4>1 DEF Unraced
      <4> QED BY <1>1, <3>1, <3>2, <3>3, <3>5, <4>2, <4>3 DEF ReqKnows
    <3> QED BY <3>4, <3>5
  <2>3. ReqShows(p)'
    <3>1. CASE p = q
      BY <1>4, <3>1 DEF ReqShows
    <3>2. CASE p # q
      BY <1>1, <1>6, <3>2, ReqShowsKept
    <3> QED BY <3>1, <3>2
  <2>4. ReqEnds(p)'
    <3>1. CASE p = q
      <4>1. turns'[c][n].by = q /\ n \in 1..Len(turns'[c])
        BY <1>1, <1>2, <1>3
      <4> QED BY <1>1, <1>4, <2>1, <3>1, <4>1 DEF ReqEnds, Active
    <3>2. CASE p # q
      <4>1. req'[p] = req[p] /\ life' = life
        BY <1>1, <3>2
      <4>2. (\E d \in Requests : \E i \in 1..Len(turns[d]) : turns[d][i].by = p)
            => (\E d \in Requests : \E i \in 1..Len(turns'[d]) : turns'[d][i].by = p)
        BY <1>9
      <4> QED BY <2>1, <4>1, <4>2 DEF ReqEnds, Active
    <3> QED BY <3>1, <3>2
  <2> QED BY <2>2, <2>3, <2>4
<1>11. Pairs'
  <2> SUFFICES ASSUME NEW x \in Requests, NEW y \in Requests, x # y,
                      Open(x)', Open(y)', req'[x].conversation = req'[y].conversation
               PROVE  {x, y} \in raced' /\ ~ (Working(x)' /\ Working(y)')
    BY DEF Pairs
  <2>1. Open(x) /\ Open(y) /\ req'[x] = req[x] /\ req'[y] = req[y]
    BY <1>1, <1>8
  <2> QED BY <1>1, <2>1 DEF ChatInv, Pairs, Working
<1>12. ASSUME NEW d \in Requests, NEW i \in 1..Len(turns[d])
       PROVE  TurnKnows(d, i)' /\ TurnShows(d, i)'
  <2>1. TurnKnows(d, i) /\ TurnShows(d, i)
    BY DEF ChatInv, TurnInv
  <2>2. TurnKnows(d, i)'
    <3>1. \A j \in 1..i - 1 : j \in 1..Len(turns[d])
      BY TurnsBy DEF ChatInv
    <3>2. Before(d, i)' = Before(d, i)
      BY <1>9, <3>1 DEF Before
    <3>3. turns'[d][i] = turns[d][i] /\ raced' = raced
      BY <1>1, <1>9
    <3> QED BY <2>1, <3>2, <3>3 DEF TurnKnows, Unraced
  <2>3. PICK t : t = turns[d][i] /\ t = turns'[d][i]
    BY <1>9
  <2>4. PICK shown : shown = {t.shows.calculations, t.shows.citations}
    OBVIOUS
  <2>5. t \in Turn /\ t.by \in Requests
    <3>1. turns[d] \in Seq(Turn)
      BY DEF ChatInv, TypeOK
    <3>2. turns[d][i] \in Turn
      BY <3>1
    <3>3. t \in Turn
      BY <2>3, <3>2
    <3> QED BY <3>3 DEF Turn
  <2>6. ASSUME NEW a \in shown, a \notin {None, t.by}
        PROVE  /\ a \in Requests \ Streams /\ t.by \notin Streams
               /\ req'[a].conversation = d /\ req'[a].turn.life = t.life
               /\ req'[a].op \in {"reply", "over"}
               /\ \A j \in 1..Len(turns'[d]) : turns'[d][j].by = a => j < i
    <3>1. /\ a \in Requests \ Streams /\ t.by \notin Streams
          /\ req[a].conversation = d /\ req[a].turn.life = t.life
          /\ req[a].op \in {"reply", "over"}
          /\ \A j \in 1..Len(turns[d]) : turns[d][j].by = a => j < i
      BY <2>1, <2>3, <2>4, <2>6 DEF TurnShows
    <3>2. a # q
      BY <1>1, <3>1
    <3>3. \A j \in 1..Len(turns'[d]) : turns'[d][j].by = a => j < i
      <4>1. CASE d # c
        BY <1>1, <3>1, <4>1
      <4>2. CASE d = c
        BY <1>20, <3>1, <3>2, <4>2
      <4> QED BY <4>1, <4>2
    <3> QED BY <1>6, <3>1, <3>3
  <2>7. GoodTurn(t) /\ req'[t.by].op \in {"reply", "over"}
    BY <1>6, <2>1, <2>3, <2>5 DEF TurnShows
  <2>8. TurnShows(d, i)'
    BY <2>3, <2>4, <2>6, <2>7 DEF TurnShows, GoodTurn
  <2> QED BY <2>2, <2>8
<1>13. TurnKnows(c, n)' /\ TurnShows(c, n)'
  <2>1. PICK t : t = req[q].turn /\ t = turns'[c][n]
    BY <1>1, <1>2
  <2>2. PICK shown : shown = {t.shows.calculations, t.shows.citations}
    OBVIOUS
  <2>3. Open(q)
    BY <1>1 DEF Open, Active
  <2>4. t.knew = Latest(Unraced(By(turns[c]), q))
    BY <1>1, <1>7, <2>1, <2>3 DEF ReqKnows
  <2>5. t.by = q /\ t.life = life
    BY <1>1, <2>1
  <2>6. TurnKnows(c, n)'
    <3>1. 1..n - 1 = 1..Len(turns[c])
      BY <1>1, <1>2
    <3>2. Before(c, n)' = By(turns[c])
      <4>1. By(turns[c]) = {turns[c][j].by : j \in 1..Len(turns[c])}
        BY TurnsBy DEF ChatInv
      <4>2. Before(c, n)' = {turns'[c][j].by : j \in 1..Len(turns[c])}
        BY <1>1, <3>1 DEF Before
      <4> QED BY <1>20, <4>1, <4>2
    <3> QED BY <1>1, <2>1, <2>4, <2>5, <3>2 DEF TurnKnows, Unraced
  <2>7. ASSUME NEW a \in shown, a \notin {None, q}
        PROVE  /\ a \in Requests \ Streams /\ q \notin Streams
               /\ req'[a].conversation = c /\ req'[a].turn.life = life
               /\ req'[a].op \in {"reply", "over"}
               /\ \A j \in 1..Len(turns'[c]) : turns'[c][j].by = a => j < n
    <3>1. q \notin Streams /\ WasHere(c, a) /\ req[a].op # "store"
      BY <1>1, <1>7, <2>1, <2>2, <2>7 DEF ReqShows
    <3>2. req[a].op \in {"reply", "over"} /\ a \in Requests \ Streams
      BY <3>1 DEF WasHere
    <3>3. \A j \in 1..Len(turns'[c]) : turns'[c][j].by = a => j < n
      BY <1>3, <1>20, <2>7
    <3> QED BY <1>6, <3>1, <3>2, <3>3 DEF WasHere
  <2>8. GoodTurn(t)
    BY <1>1, <1>7, <2>1 DEF ReqShows
  <2>9. TurnShows(c, n)'
    BY <1>4, <2>1, <2>2, <2>5, <2>7, <2>8 DEF TurnShows, GoodTurn
  <2> QED BY <2>6, <2>9
<1>14. TurnInv'
  <2> SUFFICES ASSUME NEW d \in Requests, NEW i \in 1..Len(turns'[d])
               PROVE  TurnKnows(d, i)' /\ TurnShows(d, i)'
    BY DEF TurnInv
  <2>1. CASE i \in 1..Len(turns[d])
    BY <1>12, <2>1
  <2>2. CASE i \notin 1..Len(turns[d])
    <3>1. d = c /\ i = n
      BY <1>1, <1>3, <2>2
    <3> QED BY <1>13, <3>1
  <2> QED BY <2>1, <2>2
<1>15. MemoryInv'
  <2>1. ASSUME NEW d, NEW a, WasHere(d, a)
        PROVE  WasHere(d, a)'
    <3>1. CASE a = q
      BY <1>1, <1>4, <2>1, <3>1 DEF WasHere
    <3>2. CASE a # q
      BY <1>1, <2>1, <3>2 DEF WasHere
    <3> QED BY <3>1, <3>2
  <2> QED BY <1>1, <2>1 DEF ChatInv, MemoryInv
<1>16. RacedBegun'
  <2> SUFFICES ASSUME NEW pair \in raced, NEW p \in pair
               PROVE  req'[p].op # "new"
    BY <1>1 DEF RacedBegun
  <2>1. p \in Requests /\ req[p].op # "new"
    BY DEF ChatInv, TypeOK, RacedBegun
  <2> QED BY <1>1, <1>4, <2>1
<1> QED BY <1>5, <1>10, <1>11, <1>14, <1>15, <1>16 DEF ChatInv, ReqInv

LEMMA StepKeeps == ChatInv /\ [Next]_vars => ChatInv'
<1> SUFFICES ASSUME ChatInv, [Next]_vars PROVE ChatInv'
  OBVIOUS
<1>1. CASE UNCHANGED vars
  <2>1. turns' = turns /\ memory' = memory /\ req' = req /\ life' = life /\ raced' = raced
    BY <1>1 DEF vars
  <2>2. TypeOK'
    BY <2>1 DEF ChatInv, TypeOK
  <2>3. ASSUME NEW q \in Requests PROVE ReqKnows(q)' /\ ReqShows(q)' /\ ReqEnds(q)'
    <3>1. ReqKnows(q) /\ ReqEnds(q)
      BY DEF ChatInv, ReqInv
    <3>2. ReqKnows(q)' /\ ReqEnds(q)'
      BY <2>1, <3>1 DEF ReqKnows, Unraced, ReqEnds, Open, Active
    <3>3. ReqShows(q)'
      BY <2>1, ReqShowsKept
    <3> QED BY <3>2, <3>3
  <2>4. Pairs' /\ RacedBegun'
    BY <2>1 DEF ChatInv, Pairs, Open, Active, Working, RacedBegun
  <2>5. ASSUME NEW c \in Requests, NEW i \in 1..Len(turns[c])
        PROVE  TurnKnows(c, i)' /\ TurnShows(c, i)'
    <3>1. TurnKnows(c, i)
      BY DEF ChatInv, TurnInv
    <3>2. TurnKnows(c, i)'
      BY <2>1, <3>1 DEF TurnKnows, Before, Unraced
    <3>3. TurnShows(c, i)'
      BY <2>1, TurnShowsKept
    <3> QED BY <3>2, <3>3
  <2>6. MemoryInv'
    BY <2>1 DEF ChatInv, MemoryInv, WasHere
  <2> QED BY <2>1, <2>2, <2>3, <2>4, <2>5, <2>6 DEF ChatInv, ReqInv, TurnInv
<1>2. CASE Restart
  BY <1>2, RestartStep
<1>3. ASSUME NEW q \in Requests, Begin(q) PROVE ChatInv'
  BY <1>3, BeginStep
<1>4. ASSUME NEW q \in Requests, Store(q) PROVE ChatInv'
  BY <1>4, StoreStep
<1>5. ASSUME NEW q \in Requests,
             \/ NotFound(q) \/ Touch(q) \/ GraphAnswers(q) \/ GraphStops(q)
             \/ NodeAnswers(q) \/ NodeStops(q) \/ Reads(q)
             \/ Reply(q) \/ Fail(q) \/ Disconnect(q)
      PROVE  ChatInv'
  <2>1. TypeOK /\ ReqInv
    BY DEF ChatInv
  <2>2. PICK r : Quiet(q, r)
    BY <1>5, <2>1, QuietSteps
  <2> QED BY <2>2, QuietStep
<1> QED BY <1>1, <1>2, <1>3, <1>4, <1>5 DEF Next

LEMMA Invariance == Spec => []ChatInv
<1> QED BY InitInv, StepKeeps, PTL DEF Spec

-----------------------------------------------------------------------------
\* Every state has the type that TypeOK gives it.
THEOREM TypeCorrect == Spec => []TypeOK
<1>1. ChatInv => TypeOK
  BY DEF ChatInv
<1> QED BY <1>1, Invariance, PTL

\* What a conversation's turns were made from, for any number of messages.
LEMMA TurnAt ==
    ASSUME TypeOK, NEW c \in Requests
    PROVE  /\ DOMAIN turns[c] = 1..Len(turns[c])
           /\ \A i \in DOMAIN turns[c] : turns[c][i] \in Turn
<1>1. turns[c] \in Seq(Turn)
  BY DEF TypeOK
<1> QED BY <1>1

\* An answer is made from the last turns of its conversation, as many as
\* chat_service.py takes and in the order in which their requests began, of those
\* that were stored before it; it lacks exactly the turns it has raced besides.
THEOREM HistoryIsKnown == Spec => []KnowsLatestUnraced
<1>1. ChatInv => KnowsLatestUnraced
  <2> SUFFICES ASSUME ChatInv, NEW c \in Requests, NEW j \in DOMAIN turns[c]
               PROVE  turns[c][j].knew = Latest(Unraced(Before(c, j), turns[c][j].by))
    BY DEF KnowsLatestUnraced, Before
  <2>1. j \in 1..Len(turns[c])
    BY TurnAt DEF ChatInv
  <2>2. TurnKnows(c, j)
    BY <2>1 DEF ChatInv, TurnInv
  <2> QED BY <2>2 DEF TurnKnows
<1> QED BY <1>1, Invariance, PTL

\* The calculation and the citations an answer shows are its own or remembered
\* of its conversation, in one life of the process: the row lock of the
\* conversation keeps the thread of the checkpointer to one request.
THEOREM ShownIsRemembered == Spec => []ShowsOwnOrRemembered
<1>1. ChatInv => ShowsOwnOrRemembered
  <2> SUFFICES ASSUME ChatInv PROVE ShowsOwnOrRemembered
    OBVIOUS
  <2> SUFFICES ASSUME NEW c \in Requests, NEW i \in DOMAIN turns[c],
                      NEW r \in {turns[c][i].shows.calculations,
                                 turns[c][i].shows.citations},
                      r \notin {None, turns[c][i].by}
               PROVE  Remembered(c, i, r)
    BY DEF ShowsOwnOrRemembered
  <2>1. DOMAIN turns[c] = 1..Len(turns[c])
    BY TurnAt DEF ChatInv
  <2>2. TurnShows(c, i)
    BY <2>1 DEF ChatInv, TurnInv
  <2> QED BY <2>1, <2>2 DEF TurnShows, Remembered
<1> QED BY <1>1, Invariance, PTL

\* A run that completes has a whole answer, and one of research quotes two
\* excerpts of its own: with fewer the confidence asks for a review.
THEOREM CompletedHolds == Spec => []CompletedIsGrounded
<1>1. ChatInv => CompletedIsGrounded
  <2> SUFFICES ASSUME ChatInv PROVE CompletedIsGrounded
    OBVIOUS
  <2> SUFFICES ASSUME NEW c \in Requests, NEW i \in DOMAIN turns[c],
                      turns[c][i].run = "completed"
               PROVE  /\ turns[c][i].text = "whole"
                      /\ turns[c][i].research =>
                            /\ turns[c][i].quotesTwo
                            /\ turns[c][i].shows.citations = turns[c][i].by
    BY DEF CompletedIsGrounded
  <2>1. DOMAIN turns[c] = 1..Len(turns[c])
    BY TurnAt DEF ChatInv
  <2>2. TurnShows(c, i)
    BY <2>1 DEF ChatInv, TurnInv
  <2> QED BY <2>2 DEF TurnShows, GoodTurn
<1> QED BY <1>1, Invariance, PTL

-----------------------------------------------------------------------------
(* Chat implements Conversation. *)

LEMMA SeenTyped ==
    ASSUME NEW s \in Seq(Turn)
    PROVE  /\ SeenTurns(s) \in Seq({Seen(x) : x \in Turn})
           /\ Len(SeenTurns(s)) = Len(s)
           /\ DOMAIN SeenTurns(s) = 1..Len(s)
           /\ \A i \in 1..Len(s) : SeenTurns(s)[i] = Seen(s[i])
<1> DEFINE S == {Seen(x) : x \in Turn}
           n == Len(s)
<1>1. n \in Nat /\ DOMAIN s = 1..n /\ \A i \in 1..n : s[i] \in Turn
  OBVIOUS
<1>2. SeenTurns(s) = [i \in 1..n |-> Seen(s[i])]
  BY <1>1 DEF SeenTurns
<1>3. \A i \in 1..n : Seen(s[i]) \in S
  BY <1>1
<1> HIDE DEF n, S
<1>4. SeenTurns(s) \in Seq(S) /\ Len(SeenTurns(s)) = n
  BY <1>1, <1>2, <1>3
<1>5. \A i \in 1..n : SeenTurns(s)[i] = Seen(s[i])
  BY <1>2
<1>6. DOMAIN SeenTurns(s) = 1..n
  BY <1>2
<1> QED BY <1>4, <1>5, <1>6 DEF n, S

LEMMA SeenAppend ==
    ASSUME NEW s \in Seq(Turn), NEW t \in Turn
    PROVE  SeenTurns(Append(s, t)) = Append(SeenTurns(s), Seen(t))
<1> DEFINE S == {Seen(x) : x \in Turn}
           a == SeenTurns(Append(s, t))
           b == Append(SeenTurns(s), Seen(t))
           n == Len(s)
<1>1. /\ Append(s, t) \in Seq(Turn) /\ Len(Append(s, t)) = n + 1 /\ n \in Nat
      /\ \A i \in 1..n : Append(s, t)[i] = s[i]
      /\ Append(s, t)[n + 1] = t
  BY AppendProperties
<1>2. /\ SeenTurns(s) \in Seq(S) /\ Len(SeenTurns(s)) = n
      /\ \A i \in 1..n : SeenTurns(s)[i] = Seen(s[i])
  BY SeenTyped
<1>3. /\ a \in Seq(S) /\ Len(a) = n + 1
      /\ \A i \in 1..(n + 1) : a[i] = Seen(Append(s, t)[i])
  BY <1>1, SeenTyped
<1>4. Seen(t) \in S
  OBVIOUS
<1> HIDE DEF S
<1>5. /\ b \in Seq(S) /\ Len(b) = n + 1
      /\ \A i \in 1..n : b[i] = SeenTurns(s)[i]
      /\ b[n + 1] = Seen(t)
  BY <1>2, <1>4, AppendProperties
<1> HIDE DEF a, b, n
<1>6. \A i \in 1..(n + 1) : i \in 1..n \/ i = n + 1
  BY <1>1
<1>7. \A i \in 1..(n + 1) : a[i] = b[i]
  BY <1>1, <1>2, <1>3, <1>5, <1>6
<1>8. Len(a) = Len(b) /\ \A i \in 1..Len(a) : a[i] = b[i]
  BY <1>3, <1>5, <1>7
<1>9. a = b
  BY <1>3, <1>5, <1>8, SeqEqual
<1> QED BY <1>9 DEF a, b

\* The latest of some requests are at most HistoryTurns: all but the first of
\* them are later than the first.
LEMMA LatestIsShort ==
    ASSUME NEW from, from \subseteq Requests
    PROVE  /\ Latest(from) \subseteq from
           /\ Cardinality(Latest(from)) <= HistoryTurns
<1> DEFINE latest == Latest(from)
<1>1. IsFiniteSet(from) /\ from \subseteq Nat
  <2>1. IsFiniteSet(1..Messages) /\ 1..Messages \subseteq Nat
    BY FS_Interval, ChatAssumption
  <2> QED BY <2>1, FS_Subset DEF Requests
<1>2. latest \subseteq from
  BY DEF Latest
<1>3. IsFiniteSet(latest) /\ Cardinality(latest) \in Nat
  BY <1>1, <1>2, FS_Subset, FS_CardinalityType
<1>4. CASE latest = {}
  BY <1>4, FS_EmptySet, ChatAssumption
<1>5. CASE latest # {}
  <2>1. PICK m \in latest : \A s \in latest : ~ (s < m)
    <3>1. \E m \in latest : \A s \in latest : ~ (<<s, m>> \in OpToRel(<, Nat))
      BY <1>1, <1>2, <1>5, NatLessThanWellFounded, WFMin
    <3> QED BY <1>1, <1>2, <3>1 DEF OpToRel
  <2> DEFINE later == {s \in from : s > m}
  <2>2. IsFiniteSet(later) /\ Cardinality(later) \in Nat
    <3>1. later \subseteq from
      OBVIOUS
    <3> QED BY <1>1, <3>1, FS_Subset, FS_CardinalityType
  <2>3. Cardinality(later) < HistoryTurns
    BY <2>1 DEF Latest
  <2>4. latest \ {m} \subseteq later
    <3> HIDE DEF latest
    <3> SUFFICES ASSUME NEW s \in latest, s # m PROVE s \in from /\ s > m
      OBVIOUS
    <3> QED BY <1>1, <1>2, <2>1
  <2>5. Cardinality(latest \ {m}) <= Cardinality(later)
    BY <2>2, <2>4, FS_Subset
  <2>6. Cardinality(latest \ {m}) = Cardinality(latest) - 1
    BY <1>3, <2>1, FS_RemoveElement
  <2> HIDE DEF latest, later
  <2>7. Cardinality(latest) <= HistoryTurns
    BY <1>3, <2>2, <2>3, <2>5, <2>6, ChatAssumption
  <2> QED BY <1>2, <2>7 DEF latest
<1> QED BY <1>2, <1>4, <1>5

LEMMA InitIsAbstract == Init => Abstract!Init
<1> SUFFICES ASSUME Init PROVE Abstract!Init
  OBVIOUS
<1>1. SeenTurns(<<>>) = <<>>
  BY DEF SeenTurns
<1>2. AbstractTurns = [c \in Requests |-> <<>>]
  BY <1>1 DEF Init, AbstractTurns
<1>3. AbstractTold = [q \in Requests |-> "nothing"]
  BY DEF Init, AbstractTold, Unsent
<1> QED BY <1>2, <1>3 DEF Abstract!Init

\* Who has a stored turn is told, or about to be.
LEMMA StoredIsSeen ==
    ASSUME ChatInv, NEW q \in Requests
    PROVE  /\ Abstract!Stored(q) => req[q].op \in {"reply", "over"}
           /\ req[q].op = "reply" => Abstract!Stored(q)
<1>1. \A c \in Requests :
          /\ AbstractTurns[c] = SeenTurns(turns[c])
          /\ turns[c] \in Seq(Turn)
  BY DEF AbstractTurns, ChatInv, TypeOK
<1>2. ASSUME NEW c \in Requests
      PROVE  /\ DOMAIN AbstractTurns[c] = 1..Len(turns[c])
             /\ \A i \in 1..Len(turns[c]) : AbstractTurns[c][i].by = turns[c][i].by
  <2>1. /\ AbstractTurns[c] = SeenTurns(turns[c]) /\ turns[c] \in Seq(Turn)
    BY <1>1
  <2>2. /\ DOMAIN SeenTurns(turns[c]) = 1..Len(turns[c])
        /\ \A i \in 1..Len(turns[c]) : SeenTurns(turns[c])[i] = Seen(turns[c][i])
    BY <2>1, SeenTyped
  <2>3. \A t : Seen(t).by = t.by
    BY DEF Seen
  <2>4. \A i \in 1..Len(turns[c]) : SeenTurns(turns[c])[i].by = turns[c][i].by
    BY <2>2, <2>3
  <2> QED BY <2>1, <2>2, <2>4
<1>3. ASSUME NEW c \in Requests, NEW i \in 1..Len(turns[c]), turns[c][i].by = q
      PROVE  req[q].op \in {"reply", "over"}
  <2>1. TurnShows(c, i)
    BY DEF ChatInv, TurnInv
  <2> QED BY <1>3, <2>1 DEF TurnShows
<1>4. req[q].op = "reply" =>
          \E c \in Requests : \E i \in 1..Len(turns[c]) : turns[c][i].by = q
  BY DEF ChatInv, ReqInv, ReqEnds
<1>5. \A c \in Requests : Abstract!By(AbstractTurns[c]) =
                             {turns[c][i].by : i \in 1..Len(turns[c])}
  BY <1>2 DEF Abstract!By
<1>6. Abstract!Stored(q) <=>
          \E c \in Requests : q \in {turns[c][i].by : i \in 1..Len(turns[c])}
  BY <1>5 DEF Abstract!Stored
<1>7. Abstract!Stored(q) <=>
          \E c \in Requests : \E i \in 1..Len(turns[c]) : turns[c][i].by = q
  BY <1>6
<1> QED BY <1>3, <1>4, <1>7

LEMMA StoreIsTake ==
    ASSUME ChatInv, NEW q \in Requests, Store(q)
    PROVE  \E c \in Requests : Abstract!Take(q, c)
<1>1. PICK c \in Requests :
              /\ c = req[q].conversation
              /\ req[q].op = "store" /\ req[q] \in Request /\ req[q].turn \in Turn
              /\ req[q].turn.by = q
              /\ turns[c] \in Seq(Turn) /\ Len(turns[c]) \in Nat
              /\ turns' = [turns EXCEPT ![c] = Append(turns[c], req[q].turn)]
              /\ req'[q] = [req[q] EXCEPT !.op = "reply"]
              /\ \A p \in Requests : p # q => req'[p] = req[p]
  BY StoreFrame
<1>2. PICK t : t = req[q].turn
  OBVIOUS
<1>3. /\ ReqEnds(q) /\ ReqKnows(q) /\ ReqShows(q) /\ Open(q)
  BY <1>1 DEF ChatInv, ReqInv, Open, Active
<1>4. /\ t \in Turn /\ t.by = q
      /\ t.knew \subseteq By(turns[c]) /\ Cardinality(t.knew) <= HistoryTurns
      /\ t.run \in {"completed", "escalated", "failed"}
      /\ c = q \/ turns[c] # <<>>
  <2>1. t \in Turn /\ t.by = q
    BY <1>1, <1>2
  <2>2. t.run \in {"completed", "escalated", "failed"}
    BY <1>1, <1>2, <1>3 DEF ReqShows, GoodTurn
  <2>3. t.knew = Latest(Unraced(By(turns[c]), q)) /\ (c = q \/ turns[c] # <<>>)
    BY <1>1, <1>2, <1>3 DEF ReqKnows
  <2>4. Unraced(By(turns[c]), q) \subseteq By(turns[c]) /\ By(turns[c]) \subseteq Requests
    BY StoredHasBegun DEF Unraced
  <2>5. t.knew \subseteq By(turns[c]) /\ Cardinality(t.knew) <= HistoryTurns
    BY <2>3, <2>4, LatestIsShort
  <2> QED BY <2>1, <2>2, <2>3, <2>5
<1>5. AbstractTurns' = [AbstractTurns EXCEPT
                           ![c] = Append(AbstractTurns[c], Seen(t))]
  <2>1. AbstractTurns[c] = SeenTurns(turns[c])
    BY DEF AbstractTurns
  <2>2. SeenTurns(Append(turns[c], t)) = Append(AbstractTurns[c], Seen(t))
    BY <1>1, <1>4, <2>1, SeenAppend
  <2>3. turns'[c] = Append(turns[c], t) /\ \A d \in Requests : d # c => turns'[d] = turns[d]
    BY <1>1, <1>2 DEF ChatInv, TypeOK
  <2>4. AbstractTurns' = [d \in Requests |-> SeenTurns(turns'[d])]
    BY DEF AbstractTurns, SeenTurns, Seen
  <2> QED BY <2>1, <2>2, <2>3, <2>4 DEF AbstractTurns
<1>6. AbstractTold' = AbstractTold
  <2>1. req'[q].told = req[q].told
    BY <1>1 DEF Request
  <2> QED BY <1>1, <2>1 DEF AbstractTold
<1>7. AbstractTold[q] = "nothing" /\ ~ Abstract!Stored(q)
  BY <1>1, <1>3, StoredIsSeen DEF AbstractTold, ReqEnds
<1>8. c = q \/ AbstractTurns[c] # <<>>
  <2>1. AbstractTurns[c] = SeenTurns(turns[c]) /\ Len(SeenTurns(turns[c])) = Len(turns[c])
    BY <1>1, SeenTyped DEF AbstractTurns
  <2>2. turns[c] # <<>> => Len(turns[c]) # 0
    BY <1>1
  <2> QED BY <1>4, <2>1, <2>2
<1>9. Abstract!By(AbstractTurns[c]) = By(turns[c])
  <2>1. /\ AbstractTurns[c] = SeenTurns(turns[c])
        /\ DOMAIN SeenTurns(turns[c]) = 1..Len(turns[c])
        /\ \A i \in 1..Len(turns[c]) : SeenTurns(turns[c])[i] = Seen(turns[c][i])
    BY <1>1, SeenTyped DEF AbstractTurns
  <2>2. DOMAIN turns[c] = 1..Len(turns[c])
    BY <1>1
  <2>3. \A x : Seen(x).by = x.by
    BY DEF Seen
  <2> QED BY <2>1, <2>2, <2>3 DEF By, Abstract!By
<1>10. /\ t.knew \in SUBSET Abstract!By(AbstractTurns[c])
       /\ t.run \in Abstract!Ends
       /\ Seen(t) = [by |-> q, knew |-> t.knew, run |-> t.run]
  BY <1>4, <1>9 DEF Abstract!Ends, Seen
<1>11. Abstract!Cardinality(t.knew) = Cardinality(t.knew)
  BY DEF Abstract!Cardinality, Cardinality
<1>12. Abstract!Take(q, c)
  BY <1>11, <1>4, <1>5, <1>6, <1>7, <1>8, <1>10 DEF Abstract!Take
<1> QED BY <1>12

LEMMA QuietIsAbstract ==
    ASSUME ChatInv, NEW q \in Requests, NEW r, Quiet(q, r)
    PROVE  \/ Abstract!Confirm(q) \/ Abstract!Refuse(q)
           \/ UNCHANGED <<AbstractTurns, AbstractTold>>
<1>1. /\ turns' = turns /\ req' \in [Requests -> Request] /\ req'[q] = r
      /\ \A p \in Requests : p # q => req'[p] = req[p]
  BY QuietFrame
<1>2. AbstractTurns' = AbstractTurns
  BY <1>1 DEF AbstractTurns
<1>3. req[q].op # "over" /\ req[q].told \in {"nothing", "session"}
  BY DEF Quiet, ChatInv, ReqInv, ReqEnds
<1>4. AbstractTold[q] = "nothing"
  BY <1>3 DEF AbstractTold
<1>5. r.told \in {"nothing", "session", "done", "error"}
  BY QuietFrame DEF Request
<1>6. CASE r.told \in {"nothing", "session"}
  BY <1>1, <1>2, <1>3, <1>6 DEF AbstractTold
<1>7. CASE r.told = "done"
  <2>1. Abstract!Stored(q)
    BY <1>7, StoredIsSeen DEF Quiet
  <2>2. AbstractTold' = [AbstractTold EXCEPT ![q] = "done"]
    BY <1>1, <1>7 DEF AbstractTold
  <2> QED BY <1>2, <1>4, <2>1, <2>2 DEF Abstract!Confirm
<1>8. CASE r.told = "error"
  <2>1. AbstractTold' = [AbstractTold EXCEPT ![q] = "error"]
    BY <1>1, <1>8 DEF AbstractTold
  <2> QED BY <1>2, <1>4, <2>1 DEF Abstract!Refuse
<1> QED BY <1>5, <1>6, <1>7, <1>8

LEMMA StepIsAbstract ==
    ASSUME ChatInv, [Next]_vars
    PROVE  [Abstract!Next]_<<AbstractTurns, AbstractTold>>
<1>1. CASE UNCHANGED vars
  BY <1>1 DEF vars, AbstractTurns, AbstractTold
<1>2. CASE Restart
  <2>1. turns' = turns
    BY <1>2 DEF Restart
  <2>2. \A q \in Requests : req'[q].told = req[q].told
    BY <1>2 DEF Restart, Over
  <2> QED BY <2>1, <2>2 DEF AbstractTurns, AbstractTold
<1>3. ASSUME NEW q \in Requests, Begin(q)
      PROVE  UNCHANGED <<AbstractTurns, AbstractTold>>
  <2>1. \E r : req' = [req EXCEPT ![q] = r] /\ r.told = "nothing"
    <3>1. PICK c \in Requests :
              req' = [req EXCEPT ![q] = [Unsent(q) EXCEPT
                         !.op = "touch", !.conversation = c,
                         !.turn = Asked(q, Latest(By(turns[c])), life)]]
      BY <1>3 DEF Begin, Continue
    <3>2. [Unsent(q) EXCEPT !.op = "touch", !.conversation = c,
              !.turn = Asked(q, Latest(By(turns[c])), life)].told = "nothing"
      BY DEF Unsent
    <3> QED BY <3>1, <3>2
  <2>2. req[q].op = "new" /\ turns' = turns
    BY <1>3 DEF Begin, Arrives
  <2>3. req[q].told \in {"nothing", "session"} /\ req \in [Requests -> Request]
    BY <2>2 DEF ChatInv, ReqInv, ReqEnds, TypeOK
  <2> QED BY <2>1, <2>2, <2>3 DEF AbstractTurns, AbstractTold
<1>4. ASSUME NEW q \in Requests, Store(q)
      PROVE  Abstract!Next
  BY <1>4, StoreIsTake DEF Abstract!Next
<1>5. ASSUME NEW q \in Requests,
             \/ NotFound(q) \/ Touch(q) \/ GraphAnswers(q) \/ GraphStops(q)
             \/ NodeAnswers(q) \/ NodeStops(q) \/ Reads(q)
             \/ Reply(q) \/ Fail(q) \/ Disconnect(q)
      PROVE  Abstract!Next \/ UNCHANGED <<AbstractTurns, AbstractTold>>
  <2>1. TypeOK /\ ReqInv
    BY DEF ChatInv
  <2>2. PICK r : Quiet(q, r)
    BY <1>5, <2>1, QuietSteps
  <2> QED BY <2>2, QuietIsAbstract DEF Abstract!Next
<1> QED BY <1>1, <1>2, <1>3, <1>4, <1>5 DEF Next

\* The requests, the graph, the streams and the restarts of Chat implement the
\* promises of Conversation: whole turns, stored for good, made of what was
\* stored before, and stored before anyone is told that they are done.
THEOREM Implements == Spec => KeepsPromises
<1>1. ChatInv /\ [Next]_vars => [Abstract!Next]_<<AbstractTurns, AbstractTold>>
  BY StepIsAbstract
<1> QED BY <1>1, InitIsAbstract, Invariance, PTL
        DEF Spec, KeepsPromises, Abstract!Spec, Abstract!vars
=============================================================================
