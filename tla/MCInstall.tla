----------------------------- MODULE MCInstall -----------------------------
EXTENDS Install

\* A leader whose snapshot has the first entry.
MCLeaders == {[term |-> 2, log |-> <<1, 2>>, lii |-> 1]}

\* A node that lags behind that snapshot and has an entry nobody else has.
MCFollowers == {[term |-> 1, log |-> <<1, 1>>, lii |-> 0, applied |-> 0]}
=============================================================================
