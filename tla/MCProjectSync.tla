---------------------------- MODULE MCProjectSync ----------------------------
(* Instances of ProjectSync: which events of the environment come together. *)
EXTENDS ProjectSync

NoEvents == [lost |-> 0, hides |-> 0, others |-> 0, routes |-> 0, exits |-> 0, ends |-> 0,
             creates |-> 0, deletes |-> 0]

MCBudgets == {
    [NoEvents EXCEPT !.hides = 1, !.lost = 1],
    [NoEvents EXCEPT !.hides = 1, !.others = 1],
    [NoEvents EXCEPT !.hides = 1, !.exits = 1, !.ends = 1],
    [NoEvents EXCEPT !.routes = 1, !.others = 1, !.lost = 1],
    [NoEvents EXCEPT !.creates = 1, !.deletes = 1, !.others = 1],
    [NoEvents EXCEPT !.exits = 1, !.lost = 2],
    [NoEvents EXCEPT !.creates = 1, !.deletes = 1, !.lost = 1, !.exits = 1],
    [NoEvents EXCEPT !.exits = 1, !.others = 1]}

MCSignOut == {[NoEvents EXCEPT !.exits = 1]}
=============================================================================
