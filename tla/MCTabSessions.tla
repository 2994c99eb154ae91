---------------------------- MODULE MCTabSessions ----------------------------
(* Instances of TabSessions: which events of the environment come together. *)
EXTENDS TabSessions

None == [lost |-> 0, hides |-> 0, freezes |-> 0, opens |-> 0, closes |-> 0, edits |-> 0,
         signIns |-> 0, signOuts |-> 0, ends |-> 0, failures |-> 0, slow |-> 0]

CONSTANTS t1, t2

Both(events)   == [open |-> {t1, t2}, unsaved |-> {}, budget |-> events]
Unsaved(events) == [open |-> {t1, t2}, unsaved |-> {t2}, budget |-> events]
One(events)    == [open |-> {t1}, unsaved |-> {t1}, budget |-> events]

MCStarts == {
    Both([None EXCEPT !.signOuts = 1, !.hides = 1]),
    Unsaved([None EXCEPT !.signOuts = 1, !.freezes = 1]),
    Both([None EXCEPT !.signOuts = 1, !.closes = 1, !.edits = 1]),
    Both([None EXCEPT !.signOuts = 1, !.slow = 1, !.edits = 1]),
    Unsaved([None EXCEPT !.signOuts = 1, !.failures = 1]),
    One([None EXCEPT !.signOuts = 1, !.opens = 1]),
    Unsaved([None EXCEPT !.signOuts = 1, !.lost = 1]),
    Both([None EXCEPT !.signOuts = 1, !.signIns = 1]),
    Both([None EXCEPT !.signOuts = 2]),
    Both([None EXCEPT !.ends = 1, !.signIns = 1, !.lost = 1]),
    Both([None EXCEPT !.ends = 1, !.freezes = 1, !.lost = 1])}
=============================================================================
