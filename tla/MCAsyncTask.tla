---------------------------- MODULE MCAsyncTask ----------------------------
EXTENDS AsyncTask

CONSTANTS p, q, c1, c2

\* One task from outside and the children it joins ...
MCParent == [t \in Tasks |-> IF t = p THEN NoTask ELSE p]
\* ... or two, each with a child of its own.
MCTwoParents == [t \in Tasks |-> CASE t = c1 -> p [] t = c2 -> q [] OTHER -> NoTask]
=============================================================================
