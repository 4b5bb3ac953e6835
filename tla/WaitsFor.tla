------------------------------ MODULE WaitsFor ------------------------------
(***************************************************************************)
(* The waits of Postgres transactions for each other's locks, as a         *)
(* relation: <<p, q>> is in waits when p waits for q.  Postgres looks for  *)
(* cycles of it and aborts a transaction of each.                          *)
(***************************************************************************)

\* Those of requests that q waits for, directly or through others: what is in
\* every set that has those q waits for and those its members wait for.
WaitedFor(waits, requests, q) ==
    {p \in requests :
        \A U \in SUBSET requests :
            (\A w \in waits : w[1] \in U \cup {q} => w[2] \in U) => p \in U}
=============================================================================
