-------------------------------- MODULE Chat --------------------------------
(***************************************************************************)
(* ConversationService (services/chat_service.py) behind api/v1/chat.py:   *)
(* a message that is sent (send_message) or streamed (stream_message).     *)
(*                                                                         *)
(* A request is one transaction.  Its second flush updates the row of the  *)
(* conversation (updated_at), so it holds that row's lock until it ends,   *)
(* through the whole of the answering.  A sent message is answered by the  *)
(* supervisor graph, whose checkpointer (MemorySaver) keeps the fields of  *)
(* the state of a conversation for the life of the process: what a node    *)
(* does not set is what an earlier turn left there.  A stream calls the    *)
(* nodes itself, with a fresh state.                                       *)
(*                                                                         *)
(* Data: a request is named by its place in the order in which the         *)
(* transactions start, which is the created_at of both its messages and so *)
(* the order in which the messages of a conversation are read; a           *)
(* conversation, a calculation and a list of citations by the request that *)
(* opened it or that they were made for; a streamed text is the number of  *)
(* its tokens.  A definition Op_Variant is Op with a mistake the           *)
(* properties detect.                                                      *)
(***************************************************************************)
EXTENDS GroundedAnswer, Sequences

CONSTANTS
    HistoryTurns, \* turns an answer is made from: half of _HISTORY_MESSAGES
    Messages,     \* bound: messages, numbered as their transactions start
    Streams,      \* of these, those that are streamed
    Late,         \* bound: of these, those that later ones may overtake
    MaxOpened,    \* bound: of these, those that open a conversation
    MaxTokens,    \* bound: tokens of a streamed answer
    MaxRestarts   \* bound: restarts of the process

ASSUME ChatAssumption ==
    /\ HistoryTurns \in Nat \ {0}
    /\ Messages \in Nat
    /\ Streams \subseteq 1..Messages
    /\ Late \subseteq 1..Messages
    /\ MaxOpened \in Nat
    /\ MaxTokens \in Nat
    /\ MaxRestarts \in Nat

VARIABLES
    turns,    \* turns[c]: the stored turns of conversation c, as committed
    memory,   \* memory[c]: the checkpoint of the thread of c
    req,      \* req[q]: where request q is
    life,     \* how often the process has been restarted
    raced     \* history: pairs of requests open at once on one conversation

vars == <<turns, memory, req, life, raced>>

-----------------------------------------------------------------------------
Requests == 1..Messages
None == 0

Runs == {"running", "completed", "escalated", "failed"}   \* AgentRunStatus
Author == Requests \cup {None}

\* What an answer shows beside its text.
Memory == [calculations: Author, citations: Author]
Empty == [calculations |-> None, citations |-> None]

\* A turn: the run, the text ("part" of an answer, or an "excuse" for it), what
\* it shows, whether it quotes two excerpts or more; made from the turns of the
\* requests knew, in this life of the process.
Turn == [by: Requests, research: BOOLEAN, knew: SUBSET Requests, life: Nat,
         run: Runs, text: {"whole", "part", "excuse"}, shows: Memory,
         quotesTwo: BOOLEAN]

\* A request before it begins, with its session to update, at work, with its
\* turn complete, after the commit, at its end.
Ops == {"new", "touch", "work", "store", "reply", "over"}

Request == [op: Ops, conversation: Author, tokens: 0..MaxTokens,
            told: {"nothing", "session", "done", "error"}, turn: Turn]

\* The AgentRun row is RUNNING and the assistant's message is yet to come.
Asked(q, knew, l) ==
    [by |-> q, research |-> FALSE, knew |-> knew, life |-> l, run |-> "running",
     text |-> "excuse", shows |-> Empty, quotesTwo |-> FALSE]

Unsent(q) == [op |-> "new", conversation |-> None, tokens |-> 0,
              told |-> "nothing", turn |-> Asked(q, {}, 0)]

TypeOK == /\ turns \in [Requests -> Seq(Turn)]
          /\ memory \in [Requests -> Memory]
          /\ req \in [Requests -> Request]
          /\ life \in Nat
          /\ raced \subseteq SUBSET Requests

Active(q) == req[q].op \notin {"new", "over"}
Open(q) == Active(q) /\ req[q].op # "reply"       \* its transaction is open

\* What the client has been told stays, what was prepared does not.
Over(q, told) ==
    [op |-> "over", conversation |-> req[q].conversation, tokens |-> 0,
     told |-> told, turn |-> Asked(q, {}, req[q].turn.life)]

Continue(q, r) == req' = [req EXCEPT ![q] = r]

-----------------------------------------------------------------------------
(* The start of a request. *)

\* Requests that are open on the conversation of q.
Others(q, c) == {p \in Requests \ {q} : Open(p) /\ req[p].conversation = c}

\* The transaction has started before those of later requests, but it can come to
\* its conversation after them.
Arrives(q) == /\ req[q].op = "new"
              /\ \A p \in (1..q - 1) \ Late : req[p].op # "new"

MayOpen == Cardinality({p \in Requests : req[p].conversation = p}) < MaxOpened

\* The requests whose turns are stored in list.
By(list) == {list[i].by : i \in DOMAIN list}

\* The last HistoryTurns of turns, by created_at: when they were begun, not when
\* they were stored.
Latest(from) ==
    {r \in from : Cardinality({s \in from : s > r}) < HistoryTurns}

\* The session is new, or it is read with its messages, the last of which are
\* the history of the answer.  The message of the user is flushed.
Begin_AsStored(q) ==
    /\ Arrives(q)
    /\ \E c \in Requests :
          /\ turns[c] # <<>> \/ (c = q /\ MayOpen)
          /\ LET last == {i \in DOMAIN turns[c] : i > Len(turns[c]) - HistoryTurns}
             IN Continue(q, [Unsent(q) EXCEPT
                   !.op = "touch", !.conversation = c,
                   !.turn = Asked(q, {turns[c][i].by : i \in last}, life)])
          /\ raced' = raced \cup {{p, q} : p \in Others(q, c)}
    /\ UNCHANGED <<turns, memory, life>>
Begin(q) ==
    /\ Arrives(q)
    /\ \E c \in Requests :
          /\ turns[c] # <<>> \/ (c = q /\ MayOpen)
          /\ Continue(q, [Unsent(q) EXCEPT
                !.op = "touch", !.conversation = c,
                !.turn = Asked(q, Latest(By(turns[c])), life)])
          /\ raced' = raced \cup {{p, q} : p \in Others(q, c)}
    /\ UNCHANGED <<turns, memory, life>>

\* A stream announces its session before anything is committed: who uses it
\* too early, or after the stream has failed, is told that it does not exist.
NotFound(q) ==
    /\ Arrives(q)
    /\ \E c \in Requests \ {q} : req[c].told = "session" /\ turns[c] = <<>>
    /\ Continue(q, Over(q, "error"))
    /\ UNCHANGED <<turns, memory, life, raced>>

\* The second flush: the row of the conversation is updated, the run inserted.
\* A stream then tells its session and its intent, which decides on its way.
Touched(q) ==
    IF q \notin Streams
    THEN Continue(q, [req[q] EXCEPT !.op = "work"])
    ELSE \E research \in BOOLEAN :
            Continue(q, [req[q] EXCEPT !.op = "work", !.told = "session",
                                       !.turn.research = research])

Touch(q) ==
    /\ req[q].op = "touch"
    /\ \A p \in Others(q, req[q].conversation) : req[p].op = "touch"
    /\ Touched(q)
    /\ UNCHANGED <<turns, memory, life, raced>>

-----------------------------------------------------------------------------
(* The answer. *)

Calculated == [calculated |-> TRUE, cites |-> "kept", quotesTwo |-> FALSE,
               review |-> FALSE]
NotCalculated == [calculated |-> FALSE, cites |-> "kept", quotesTwo |-> FALSE,
                  review |-> FALSE]

\* What the node of an intent can come to: research, or a calculation, which may
\* lack a value or refuse one, or the fixed text of support.
Outcomes(research) == IF research THEN ResearchOutcomes \cup {Unavailable}
                      ELSE {Calculated, NotCalculated}

\* The state a node returns: what it was given, with what it sets itself.
NodeState(q, given, o) ==
    [calculations |-> IF o.calculated THEN q ELSE given.calculations,
     citations |-> CASE o.cites = "own" -> q
                     [] o.cites = "none" -> None
                     [] o.cites = "kept" -> given.citations]

Completed(turn, o, shows) ==
    [turn EXCEPT !.run = IF o.review THEN "escalated" ELSE "completed",
                 !.text = "whole", !.shows = shows, !.quotesTwo = o.quotesTwo]

Failed(turn, text) == [turn EXCEPT !.run = "failed", !.text = text]

Sends(q) == q \notin Streams /\ req[q].op = "work"
Awaits(q) == q \in Streams /\ req[q].op = "work" /\ ~ req[q].turn.research
Researches(q) == q \in Streams /\ req[q].op = "work" /\ req[q].turn.research

\* graph.ainvoke: the state of the thread is updated, then read.
GraphAnswers_SharedThread(q) ==
    /\ Sends(q)
    /\ \E research \in BOOLEAN, c \in Requests : \E o \in Outcomes(research) :
          LET state == NodeState(q, memory[c], o) IN
          /\ memory' = [memory EXCEPT ![req[q].conversation] = state]
          /\ Continue(q, [req[q] EXCEPT !.op = "store",
                !.turn = [Completed(@, o, state) EXCEPT !.research = research]])
    /\ UNCHANGED <<turns, life, raced>>
GraphAnswers(q) ==
    /\ Sends(q)
    /\ \E research \in BOOLEAN : \E o \in Outcomes(research) :
          LET c == req[q].conversation
              state == NodeState(q, memory[c], o) IN
          /\ memory' = [memory EXCEPT ![c] = state]
          /\ Continue(q, [req[q] EXCEPT !.op = "store",
                !.turn = [Completed(@, o, state) EXCEPT !.research = research]])
    /\ UNCHANGED <<turns, life, raced>>

\* chat_request_timeout_seconds have passed, or the graph has raised.
GraphStops_NoLimit(q) == FALSE
GraphStops(q) ==
    /\ Sends(q)
    /\ Continue(q, [req[q] EXCEPT !.op = "store", !.turn = Failed(@, "excuse")])
    /\ UNCHANGED <<turns, memory, life, raced>>

\* A stream that does no research awaits one node, under the same limit.
NodeAnswers(q) ==
    /\ Awaits(q)
    /\ \E o \in Outcomes(FALSE) :
          LET state == NodeState(q, Empty, o) IN
          Continue(q, [req[q] EXCEPT !.op = "store",
              !.turn = Completed(@, o, [state EXCEPT !.citations = None])])
    /\ UNCHANGED <<turns, memory, life, raced>>

NodeStops(q) ==
    /\ Awaits(q)
    /\ Continue(q, [req[q] EXCEPT !.op = "store", !.turn = Failed(@, "excuse")])
    /\ UNCHANGED <<turns, memory, life, raced>>

Token(q) ==
    /\ Researches(q)
    /\ req[q].tokens < MaxTokens
    /\ Continue(q, [req[q] EXCEPT !.tokens = @ + 1])
    /\ UNCHANGED <<turns, memory, life, raced>>

\* The final event: citations and review are computed of the whole text.
Final(q) ==
    /\ Researches(q)
    /\ \E o \in IF req[q].tokens = 0 THEN SilentOutcomes ELSE ResearchOutcomes :
          Continue(q, [req[q] EXCEPT !.op = "store",
              !.turn = [Completed(@, o, NodeState(q, Empty, o)) EXCEPT
                           !.text = IF req[q].tokens = 0 THEN "excuse" ELSE "whole"]])
    /\ UNCHANGED <<turns, memory, life, raced>>

\* Retrieval or the LLM raises, a read time limit included: what has come so
\* far is shown once more and becomes the answer.
Breaks(q) ==
    /\ Researches(q)
    /\ Continue(q, [req[q] EXCEPT !.op = "store",
          !.turn = Failed(@, IF req[q].tokens = 0 THEN "excuse" ELSE "part")])
    /\ UNCHANGED <<turns, memory, life, raced>>

-----------------------------------------------------------------------------
(* The end of a request. *)

\* One commit: the session, both messages and the run.
Store(q) ==
    /\ req[q].op = "store"
    /\ turns' = [turns EXCEPT ![req[q].conversation] = Append(@, req[q].turn)]
    /\ Continue(q, [req[q] EXCEPT !.op = "reply"])
    /\ UNCHANGED <<memory, life, raced>>

Reply_Early(q) ==
    /\ req[q].op \in {"store", "reply"}
    /\ Continue(q, Over(q, "done"))
    /\ UNCHANGED <<turns, memory, life, raced>>
Reply(q) ==
    /\ req[q].op = "reply"
    /\ Continue(q, Over(q, "done"))
    /\ UNCHANGED <<turns, memory, life, raced>>

\* An exception nobody handles, before the commit, in it, or in the refresh
\* that follows it: an error response, or an error event.
Fail(q) ==
    /\ Active(q)
    /\ Continue(q, Over(q, "error"))
    /\ UNCHANGED <<turns, memory, life, raced>>

\* The reader of a stream goes away, and the generator is closed.
Disconnect(q) ==
    /\ q \in Streams
    /\ Active(q)
    /\ Continue(q, Over(q, req[q].told))
    /\ UNCHANGED <<turns, memory, life, raced>>

\* The process dies and is started again, with an empty MemorySaver.  A restart
\* with nothing in the process is left out: nobody would notice.
InProcess == \/ \E q \in Requests : Active(q)
             \/ memory # [c \in Requests |-> Empty]

Restart ==
    /\ life < MaxRestarts /\ InProcess
    /\ life' = life + 1
    /\ memory' = [c \in Requests |-> Empty]
    /\ req' = [q \in Requests |->
                  IF Active(q)
                  THEN Over(q, req[q].told) ELSE req[q]]
    /\ UNCHANGED <<turns, raced>>

-----------------------------------------------------------------------------
Init == /\ turns = [c \in Requests |-> <<>>]
        /\ memory = [c \in Requests |-> Empty]
        /\ req = [q \in Requests |-> Unsent(q)]
        /\ life = 0
        /\ raced = {}

Reads(q) == Token(q) \/ Final(q) \/ Breaks(q)

Next == \/ \E q \in Requests :
              \/ Begin(q) \/ NotFound(q) \/ Touch(q)
              \/ GraphAnswers(q) \/ GraphStops(q)
              \/ NodeAnswers(q) \/ NodeStops(q)
              \/ Reads(q)
              \/ Store(q) \/ Reply(q)
              \/ Fail(q) \/ Disconnect(q)
        \/ Restart

Spec == Init /\ [][Next]_vars

\* The event loop runs what is ready, and the timers fire: the limit of
\* wait_for, and the HTTP client's on every single read of a streamed answer,
\* which the context of the LLM bounds.  No answer of the graph or a node is
\* fair.
Goes(q) == \/ Touch(q)
           \/ GraphStops(q) \/ NodeStops(q) \/ Reads(q)
           \/ Store(q) \/ Reply(q)

FairSpec == Spec /\ \A q \in Requests : WF_vars(Goes(q))

-----------------------------------------------------------------------------
\* What Conversation sees: who made a turn, of what, with which end, and what a
\* request is told of its end.
Seen(turn) == [by |-> turn.by, knew |-> turn.knew, run |-> turn.run]
SeenTurns(list) == [i \in DOMAIN list |-> Seen(list[i])]
AbstractTurns == [c \in Requests |-> SeenTurns(turns[c])]
AbstractTold == [q \in Requests |-> IF req[q].told = "session" THEN "nothing"
                                    ELSE req[q].told]

Abstract == INSTANCE Conversation WITH turns <- AbstractTurns, told <- AbstractTold

\* ConversationService keeps the promises of Conversation: turns are stored
\* whole and for good, and "persisted before the done event is emitted".
KeepsPromises == Abstract!Spec

\* Of the requests in from, those that were not open together with q.
Unraced(from, q) == {r \in from : {r, q} \notin raced}

\* An answer is made from the latest turns of its conversation, as many as
\* chat_service.py takes (_HISTORY_MESSAGES), of those that were stored before it
\* and whose requests were not open together with its own: no more are lost.
KnowsLatestUnraced ==
    \A c \in Requests : \A j \in DOMAIN turns[c] :
        LET new == turns[c][j]
            before == {turns[c][i].by : i \in 1..j - 1} IN
        new.knew = Latest(Unraced(before, new.by))

\* The request r worked on conversation c of its turn, in the same process, and
\* is not one that was stored there later.
Remembered(c, i, r) ==
    /\ req[r].conversation = c
    /\ r \notin Streams /\ turns[c][i].by \notin Streams
    /\ req[r].turn.life = turns[c][i].life
    /\ \A j \in DOMAIN turns[c] : turns[c][j].by = r => j < i

\* The calculation and the citations shown with an answer are its own or what
\* the thread of its conversation remembers: those of an earlier sent message,
\* stored or not, of this conversation in this process.  A stream shows its own.
ShowsOwnOrRemembered ==
    \A c \in Requests : \A i \in DOMAIN turns[c] :
        LET turn == turns[c][i] IN
        \A r \in {turn.shows.calculations, turn.shows.citations} :
            r \in {None, turn.by} \/ Remembered(c, i, r)

\* A run that is COMPLETED, so that nobody is asked to look at it, has a whole
\* answer, and one of research quotes at least two of the excerpts it shows: one
\* citation is never enough, since the fused scores are far below the threshold.
CompletedIsGrounded ==
    \A c \in Requests : \A i \in DOMAIN turns[c] :
        LET turn == turns[c][i] IN
        turn.run = "completed" =>
            /\ turn.text = "whole"
            /\ turn.research =>
                  turn.quotesTwo /\ turn.shows.citations = turn.by

\* Every accepted message ends, whatever the providers do, although it may wait
\* for the other messages of its conversation.  There are finitely many, each is
\* sent once: they all end if again and again none is open.
TurnEnds == []<>(\A q \in Requests : ~ Active(q))
=============================================================================
