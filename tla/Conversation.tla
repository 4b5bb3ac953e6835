---------------------------- MODULE Conversation ----------------------------
(***************************************************************************)
(* What ConversationService promises (services/chat_service.py): a         *)
(* conversation is a list of turns that only grows.  A turn, which is the  *)
(* question, its answer and the run that produced it, is there as a whole  *)
(* or not at all, is answered from a bounded number of turns that were     *)
(* there before, and is there before its request is told that it is done.  *)
(*                                                                         *)
(* A conversation has the name of the request that opened it.              *)
(***************************************************************************)
EXTENDS Naturals, Sequences, FiniteSets

CONSTANTS Requests, HistoryTurns

VARIABLES
    turns,   \* turns[c]: the turns of conversation c
    told     \* told[q]: what request q has been told of its end

vars == <<turns, told>>

Ends == {"completed", "escalated", "failed"}
Turn == [by: Requests, knew: SUBSET Requests, run: Ends]

TypeOK == /\ turns \in [Requests -> Seq(Turn)]
          /\ told \in [Requests -> {"nothing", "done", "error"}]

By(list) == {list[i].by : i \in DOMAIN list}
Stored(q) == \E c \in Requests : q \in By(turns[c])

Init == /\ turns = [c \in Requests |-> <<>>]
        /\ told = [q \in Requests |-> "nothing"]

\* The turn of q joins conversation c, which q opens or which is there.
Take(q, c) ==
    /\ ~ Stored(q) /\ told[q] = "nothing"
    /\ c = q \/ turns[c] # <<>>
    /\ \E knew \in SUBSET By(turns[c]), run \in Ends :
          /\ Cardinality(knew) <= HistoryTurns
          /\ turns' = [turns EXCEPT ![c] =
                          Append(@, [by |-> q, knew |-> knew, run |-> run])]
    /\ UNCHANGED told

Confirm(q) ==
    /\ Stored(q) /\ told[q] = "nothing"
    /\ told' = [told EXCEPT ![q] = "done"]
    /\ UNCHANGED turns

\* An error says nothing of the turn: the answer to a stored one can be lost.
Refuse(q) ==
    /\ told[q] = "nothing"
    /\ told' = [told EXCEPT ![q] = "error"]
    /\ UNCHANGED turns

Next == \E q \in Requests : \/ \E c \in Requests : Take(q, c)
                            \/ Confirm(q)
                            \/ Refuse(q)

Spec == Init /\ [][Next]_vars
=============================================================================
