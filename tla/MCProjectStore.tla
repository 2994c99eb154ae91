---------------------------- MODULE MCProjectStore ----------------------------
(* Payloads of one and two bytes; the import ids and the requests of a run are in its cfg.  *)
EXTENDS ProjectStore, TLC

CONSTANTS
    First, Second, Third,   \* the import ids of the quota run: one more than MaxProjects
    MaxArrivals             \* requests that arrive in a behaviour of the quota run

\* The names of the import ids do not matter: the projects that are saved already are the
\* first ones, and only the first has a review.
QuotaInit ==
    /\ Init
    /\ Active(Third) => Active(Second)
    /\ Active(Second) => Active(First)
    /\ \A p \in {Second, Third} : review[p].state = "none"

QuotaSpec == QuotaInit /\ [][Next]_vars

Arrived == {r \in Requests : pc[r] # "ready"}
FewArrive == Cardinality(Arrived) <= MaxArrivals

\* Creations differ in their names only.
CreatesAreAlike == Permutations(Creates)
=============================================================================
