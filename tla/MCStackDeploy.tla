--------------------------- MODULE MCStackDeploy ---------------------------
(***************************************************************************)
(* Settings for StackDeploy with two manifests: `plain` has one service,   *)
(* `ordered` adds a second one that depends on it.                         *)
(***************************************************************************)
EXTENDS StackDeploy

CONSTANTS plain, ordered, web, db, r1, r2, j1, j2

MCLevels == [s \in {plain, ordered} |-> IF s = plain THEN <<{web}>> ELSE <<{web}, {db}>>]

Anything == {"break", "drift", "fault", "crash"}

(* Two requests and the loop at once; nothing goes wrong. *)
Crowd ==
  [jobs |-> {j1, j2}, repos |-> {}, ops |-> {"deploy", "sync", "rollback"}, serial |-> FALSE,
   mishaps |-> {}, maxMishaps |-> 0, maxClock |-> 1, maxInputs |-> 1]

(* One handler at a time, two repositories, every request and every mishap. *)
Queue ==
  [jobs |-> {j1, j2}, repos |-> {r1, r2},
   ops |-> {"deploy", "sync", "rollback", "undeploy"}, serial |-> TRUE,
   mishaps |-> Anything, maxMishaps |-> 1, maxClock |-> 1, maxInputs |-> 1]

(* The clock moves between the requests; nothing goes wrong. *)
SlowQueue == [Queue EXCEPT !.repos = {}, !.maxMishaps = 0, !.maxClock = 2]

(* One request against the loop, the inputs edited meanwhile, every mishap. *)
Storm ==
  [Crowd EXCEPT !.jobs = {j1}, !.mishaps = Anything, !.maxMishaps = 1, !.maxInputs = 2]

MCSettings   == {Crowd, Queue, SlowQueue, Storm}
MCLostUpdate == {[Crowd EXCEPT !.ops = {"deploy"}]}
MCOrphans    == {[Crowd EXCEPT !.ops = {"deploy", "undeploy"}]}
MCRepos      == {[Crowd EXCEPT !.ops = {"deploy"}, !.repos = {r1, r2}]}
MCStatus     ==
  {[Crowd EXCEPT !.jobs = {j1}, !.ops = {"deploy"}, !.serial = TRUE,
                 !.mishaps = {"break"}, !.maxMishaps = 1]}
=============================================================================
