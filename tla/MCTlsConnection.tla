--------------------------- MODULE MCTlsConnection --------------------------
EXTENDS TlsConnection

MCMessages == {[kind |-> "mem", recs |-> 1], [kind |-> "mem", recs |-> 2],
               [kind |-> "file", recs |-> 2]}

=============================================================================
