------------------------------ MODULE MCLogins ------------------------------
EXTENDS Logins

Never == [known |-> 0, links |-> 0, logins |-> 0, codes |-> 0, claims |-> 0, polls |-> 0,
          logouts |-> 0, changes |-> 0, looks |-> 0, streams |-> 0, failures |-> 0, ticks |-> 0]

\* First logins at the same time and a link followed twice; two people who race
\* for a device code; a session that ends while an edge knows it; a user who
\* leaves and comes back, seen by the cache; and by a stream that opens and closes.
Bounds == {
    [Never EXCEPT !.links = 1, !.logins = 3, !.failures = 1],
    [Never EXCEPT !.known = 2, !.codes = 1, !.claims = 2, !.polls = 2, !.logouts = 1, !.failures = 1],
    [Never EXCEPT !.known = 1, !.logouts = 1, !.changes = 1, !.looks = 2, !.ticks = 4],
    [Never EXCEPT !.known = 1, !.changes = 2, !.looks = 2, !.failures = 1, !.ticks = 1],
    [Never EXCEPT !.known = 1, !.changes = 2, !.looks = 1, !.streams = 2]}
=============================================================================
