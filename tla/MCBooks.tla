------------------------------- MODULE MCBooks -------------------------------
(* Instances of Books for TLC: two customers whose names differ by case only, *)
(* a ledger asked for with a leading blank, two invoices that any request may *)
(* post, manual vouchers and ledgers.                                         *)
EXTENDS Books

MCNames == {"sales", "acme", "ACME", " ACME"}
MCLower == [n \in MCNames |-> IF n = "ACME" THEN "acme" ELSE n]
MCStrip == [n \in MCNames |-> IF n = " ACME" THEN "ACME" ELSE n]
MCInvoices == {"i1", "i2"}
MCParty == [i \in MCInvoices |-> IF i = "i1" THEN "acme" ELSE "ACME"]
MCTypeOf == [i \in MCInvoices |-> "sales"]
=============================================================================
