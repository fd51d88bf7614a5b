----------------------------- MODULE Leadership -----------------------------
(***************************************************************************)
(* The role machine of one pmcluster daemon (cli/serve.go, cli/leader.go). *)
(* A daemon waits until it may serve; once it serves, a watcher goroutine  *)
(* polls the Swarm every 15 s and sends leadership changes over an         *)
(* unbuffered channel to a second goroutine, which cancels the reconcile   *)
(* and snapshot loops on every value and starts them again on `true`.      *)
(*                                                                         *)
(*   view    what the Swarm would answer now (the environment moves it)    *)
(*   phase   "waiting" in waitForSwarmLeadership, then "serving"           *)
(*   watch   the watcher's locals                                          *)
(*   out     the value the watcher is blocked on sending                   *)
(*   loops   the leader-only loops are running                             *)
(*   seen    history: the answers the watcher got since the daemon started *)
(***************************************************************************)
EXTENDS LeaderWatch

CONSTANT Views      \* the answers this Swarm can give

ASSUME ViewsAssumption == Views \subseteq SwarmView

VARIABLES view, phase, watch, out, loops, seen

vars == <<view, phase, watch, out, loops, seen>>
daemon == <<phase, watch, out, loops, seen>>

TypeOK ==
  /\ view \in Views
  /\ phase \in {"waiting", "serving"}
  /\ watch \in WatchState
  /\ out \in Emission
  /\ loops \in BOOLEAN
  /\ seen \subseteq Views

Init ==
  /\ view \in Views
  /\ phase = "waiting"
  /\ watch = FreshWatch
  /\ out = "none"
  /\ loops = FALSE
  /\ seen = {}

(* An election, a demotion, a quorum outage: not under the daemon's control. *)
SwarmChanges(v) ==
  /\ v # view
  /\ view' = v
  /\ UNCHANGED daemon

(* One turn of waitForSwarmLeadership that ends the wait. *)
WaitEnds ==
  /\ phase = "waiting"
  /\ MayServe(view)
  /\ phase' = "serving"
  /\ UNCHANGED <<view, watch, out, loops, seen>>

(* One turn of the watcher.  It is blocked while a value is unreceived. *)
WatchPoll ==
  /\ phase = "serving"
  /\ out = "none"
  /\ out' = WatchEmits(view, watch)
  /\ watch' = WatchAfter(view, watch)
  /\ seen' = seen \cup {view}
  /\ UNCHANGED <<view, phase, loops>>

(* The control goroutine receives: cancel, then start on `true`. *)
ControlReceives ==
  /\ out # "none"
  /\ loops' = (out = "true")
  /\ out' = "none"
  /\ UNCHANGED <<view, phase, watch, seen>>

(* The process exits and is started again by systemd. *)
Restart ==
  /\ phase = "serving"
  /\ phase' = "waiting"
  /\ watch' = FreshWatch
  /\ out' = "none"
  /\ loops' = FALSE
  /\ seen' = {}
  /\ UNCHANGED view

Next ==
  \/ \E v \in Views : SwarmChanges(v)
  \/ WaitEnds
  \/ WatchPoll
  \/ ControlReceives
  \/ Restart

(* The ticker fires and the receiver always comes back to the channel. *)
Fairness ==
  /\ WF_vars(WaitEnds)
  /\ WF_vars(WatchPoll)
  /\ WF_vars(ControlReceives)

Spec == Init /\ [][Next]_vars /\ Fairness

-----------------------------------------------------------------------------
(* The watcher and the control goroutine never disagree for good: on a node  *)
(* that was a manager at every poll, loops that run, or a `true` still in    *)
(* the channel, mean the watcher's last answer was one that starts loops.    *)
(* Without this a watcher that is silent because it "already said false"     *)
(* would leave the reconcile loop running on a standby (the `current` of     *)
(* WatchSwarmLeadership against serve.go's loopCancel).                      *)
LoopsImplyCurrent ==
  "worker" \notin seen /\ ((loops /\ out # "false") \/ out = "true") => watch.current

(* A daemon that was only ever told "worker" or "follower" since it started  *)
(* runs no loop, whatever the order of polls and receives: "a swarm worker   *)
(* must NOT emit leader-true (so the loop never starts)", the regression     *)
(* cli/leader_test.go names BUG-033.                                         *)
StandbyNeverStarts ==
  loops => seen \cap {"leader", "unreachable", "absent"} # {}

(* "a later poll that is still leader must stay silent so the caller doesn't *)
(* cancel + restart its loops every poll" (cli/leader.go): the first poll    *)
(* back in the lead after the node was a worker is the only exception.       *)
SteadyLeaderIsSilent ==
  [][WatchPoll /\ view = "leader" /\ loops /\ "worker" \notin seen => out' = "none"]_vars

SettledOn(v) == <>[](view = v) /\ <>[][~Restart]_vars

(* Once the Swarm settles on this node as leader the loops run for good:     *)
(* WatchSwarmLeadership streams "true when this node becomes Swarm leader".  *)
LeaderRunsLoops == SettledOn("leader") => <>[]loops

(* The same for a daemon whose watcher met no outage since it started (a     *)
(* node list that fails, or lacks this host).                                *)
OutageFreeLeaderRunsLoops ==
  SettledOn("leader") /\ <>[](seen \subseteq {"leader", "follower", "worker"})
    => <>[]loops

(* Once this node is no longer a manager its loops stop for good:            *)
(* WatchSwarmLeadership streams "false when it loses leadership".            *)
WorkerStopsLoops == SettledOn("worker") => <>[]~loops

(* Once another manager leads for good, the loops of a daemon that was a     *)
(* manager at every poll stop for good.                                      *)
FollowerStopsLoops ==
  SettledOn("follower") /\ <>[]("worker" \notin seen) => <>[]~loops

=============================================================================
