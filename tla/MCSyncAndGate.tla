---------------------------- MODULE MCSyncAndGate ----------------------------
(* Two parts that keep on going, with their fairness: the workspace of one tab, and one
   student's lease gate on the server.  A behaviour belongs to one of them, chosen at the
   start, and the variables of the other stay as they were.

   Gate: four requests and three closers over three state objects, enough for an object to be
   dropped while another is in use, for all closers to wait on one object, and for a request
   to enter after a reopening. *)
EXTENDS MCProjectSync, LeaseGate

VARIABLE part

PartsInit ==
    /\ part \in {"sync", "gate"}
    /\ SyncInit /\ Init

PartsNext ==
    /\ UNCHANGED part
    /\ \/ part = "sync" /\ SyncNext /\ UNCHANGED vars
       \/ part = "gate" /\ Next /\ UNCHANGED syncVars

PartsSpec == PartsInit /\ [][PartsNext]_<<part, syncVars, vars>> /\ SyncFairness /\ Fairness
=============================================================================
