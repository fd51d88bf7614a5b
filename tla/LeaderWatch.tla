---------------------------- MODULE LeaderWatch ----------------------------
(***************************************************************************)
(* The two decisions a pmcluster daemon takes from one poll of the Swarm:  *)
(* whether a waiting daemon may start to serve (waitForSwarmLeadership)    *)
(* and what a serving daemon reports to its control loop                   *)
(* (WatchSwarmLeadership).  Both read the same answer, abstracted to       *)
(*                                                                         *)
(*   "leader"       listed in `docker node ls`, and flagged leader          *)
(*   "follower"     listed, not the leader                                  *)
(*   "worker"       the list fails and Info says: active, no control        *)
(*   "unreachable"  the list fails and Info does not say worker             *)
(*   "absent"       the list answers without this host                      *)
(***************************************************************************)
SwarmView == {"leader", "follower", "worker", "unreachable", "absent"}

(* An emission on the unbuffered channel; "none" is an empty channel. *)
Emission == {"none", "true", "false"}

(* WatchSwarmLeadership's locals; `first` is true until one poll is done. *)
WatchState == [current : BOOLEAN, first : BOOLEAN]

FreshWatch == [current |-> FALSE, first |-> TRUE]

(* Only a confirmed follower, or a confirmed worker, stands by. *)
MayServe(view) == view \in {"leader", "unreachable", "absent"}

(* Mutant: a node list that fails means a node of its own, a worker too. *)
WatchEmitsWorkerLeads(view, w) ==
  CASE view \in {"worker", "unreachable", "absent"}  -> IF w.current \/ w.first THEN "true" ELSE "none"
    [] view = "leader"    -> IF ~w.current \/ w.first THEN "true" ELSE "none"
    [] view = "follower"  -> IF w.current \/ w.first THEN "false" ELSE "none"

(* Mutant: a leader is announced on the first poll only. *)
WatchEmitsOnce(view, w) ==
  CASE view = "leader"   -> IF w.first THEN "true" ELSE "none"
    [] view = "follower" -> IF w.current \/ w.first THEN "false" ELSE "none"
    [] OTHER             -> "none"

(* Mutant: losing leadership is announced on the first poll only. *)
WatchEmitsNoLoss(view, w) ==
  CASE view = "leader"   -> IF ~w.current \/ w.first THEN "true" ELSE "none"
    [] view = "follower" -> IF w.first THEN "false" ELSE "none"
    [] OTHER             -> "none"

(* Mutant: the answer itself is sent. *)
WatchEmitsAnswer(view, w) == view

(* What a poll emits. *)
WatchEmits(view, w) ==
  CASE view = "worker"                     -> "none"
    [] view \in {"unreachable", "absent"}  -> IF w.current \/ w.first THEN "true" ELSE "none"
    [] view = "leader"                     -> IF ~w.current \/ w.first THEN "true" ELSE "none"
    [] view = "follower"                   -> IF w.current \/ w.first THEN "false" ELSE "none"

(* Mutant: an outage is remembered as "not leading", though nothing was sent. *)
WatchAfterOutageForgets(view, w) == [current |-> view = "leader", first |-> FALSE]

(* Mutant: a poll forgets to latch what it announced. *)
WatchAfterNoLatch(view, w) == [current |-> w.current, first |-> FALSE]

(* What a poll leaves behind. *)
WatchAfter(view, w) ==
  [current |-> view \in {"leader", "unreachable", "absent"}, first |-> FALSE]
=============================================================================
