--------------------------- MODULE MCDeliveryList ---------------------------
(* Finite instances of DeliveryList for TLC. *)
EXTENDS DeliveryList

OneEndpoint == [statuses |-> {"PENDING"}, scope |-> {1, 2}]

MCFilters == {EMPTY_FILTERS, OneEndpoint}

\* Two rows of one batch, and a later one a slow transaction will write with
\* its earlier time; two dead letters of one millisecond, and a row to come;
\* a single dead letter, about to fail again if it is retried.
MCTables == {[status |-> <<"PENDING", "PENDING", "PENDING">>, updated_at |-> <<1, 1, 2>>, clock |-> 2,
              open |-> {[ids |-> {3}, at |-> 0, to |-> "PENDING"]}, commits |-> 0],
             [status |-> <<"DLQ", "DLQ", "absent">>, updated_at |-> <<3, 2, 0>>, clock |-> 3,
              open |-> {}, commits |-> 1],
             [status |-> <<"DLQ", "absent", "absent">>, updated_at |-> <<3, 0, 0>>, clock |-> 3,
              open |-> {[ids |-> {1}, at |-> 3, to |-> "DLQ"]}, commits |-> 0]}
=============================================================================
