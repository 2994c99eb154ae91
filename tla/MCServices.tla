------------------------------ MODULE MCServices ------------------------------
(* Five small parts of the system that share neither state nor calls: a behaviour belongs to
   one part, chosen at the start, and the variables of the others stay as they were.

   Uploads: one may pass each limit. Pond: two seats and their windows, two rooms. Release: a
   deployment, a rollback and another deployment. Hold: a hold placed, released and placed
   again, with two lost operations and a restart. Sign-in: two browsers with two requests
   under way and a second access code. *)
EXTENDS ProjectPayload, PondRooms, NativeRelease, TombstoneHold, StudentSignIn, TLC

VARIABLE part

ServicesInit ==
    /\ part \in {"uploads", "pond", "release", "hold", "sign-in"}
    /\ PayloadInit /\ PondInit /\ ReleaseInit /\ HoldInit /\ SignInInit

\* A step of one part, which leaves the others alone.
StepOf(name) ==
    /\ UNCHANGED part
    /\ part = name
    /\ name # "uploads" => UNCHANGED payloadVars
    /\ name # "pond" => UNCHANGED pondVars
    /\ name # "release" => UNCHANGED releaseVars
    /\ name # "hold" => UNCHANGED holdVars
    /\ name # "sign-in" => UNCHANGED signInVars

ServicesNext ==
    \/ StepOf("uploads") /\ PayloadNext
    \/ StepOf("pond") /\ PondNext
    \/ StepOf("release") /\ ReleaseNext
    \/ StepOf("hold") /\ HoldNext
    \/ StepOf("sign-in") /\ SignInNext

\* Browsers, visits and deployments are told apart by nothing but their names.
Alike == {p @@ q @@ d : p \in Permutations(Browsers), q \in Permutations(Visits),
                      d \in Permutations(Deploys)}

ServicesSpec ==
    /\ ServicesInit
    /\ [][ServicesNext]_<<part, payloadVars, pondVars, releaseVars, holdVars, signInVars>>
=============================================================================
