----------------------------- MODULE MCInvoices -----------------------------
(* Instances of Invoices for TLC. *)
EXTENDS Invoices, TLC

N == CHOOSE n \in Numbers : TRUE

\* A clean invoice, and one of the same number with every kind of issue.
Clean == [number |-> N, supplier |-> "valid", buyer |-> "valid",
          dated |-> TRUE, placed |-> TRUE,
          lines |-> Lines, noHsn |-> {}, taxOff |-> {}, taxed |-> TRUE]

MCReadings == {Clean, [Clean EXCEPT !.supplier = "missing", !.buyer = "invalid",
                                    !.noHsn = Lines, !.taxOff = Lines]}
=============================================================================
