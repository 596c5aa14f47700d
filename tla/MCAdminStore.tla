----------------------------- MODULE MCAdminStore -----------------------------
\* A small instance of AdminStore: two accounts, the second of which has taken
\* the id that the first one had.
EXTENDS AdminStore

Renamed == {[id |-> "bob", identifier |-> "a"],
            [id |-> "bobby", identifier |-> "b"],
            [id |-> "bob", identifier |-> "b"]}

=============================================================================
