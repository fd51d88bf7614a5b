---------------------------- MODULE ControlPlane ----------------------------
(***************************************************************************)
(* The control-plane survivor kit (controlplane/state.go) as the daemons   *)
(* of a Swarm's managers use it (cli/serve.go, cli/leader.go).  The leader *)
(* publishes data.db and the encryption key as two Raft-replicated Docker  *)
(* configs; a manager restores the newest pair before it serves.           *)
(*                                                                         *)
(* A control-plane write is a number; a data.db is the set of writes it    *)
(* holds.  A key is the manager that generated it.  Times come from one    *)
(* clock that advances with every time stamp taken, so stamps are distinct *)
(* (nanoseconds in the code).                                              *)
(*                                                                         *)
(*   env        the setting                                                *)
(*   clock      the last time stamp taken                                  *)
(*   ops        the number of writes accepted so far                       *)
(*   leader     the Swarm's leader, NoNode without a quorum                *)
(*   published  every kit ever published, pruned or not                    *)
(*   states     stamps of the pmcluster_state_* configs that exist         *)
(*   keys       stamps of the pmcluster_state_key_* configs that exist     *)
(*   disk       each manager's data dir: db, the key its secrets are       *)
(*              sealed with, newest mtime, .encryption_key, .state_revision*)
(*   pc         where each manager's daemon is in runServe                 *)
(*   ctx        which of runServe's two restores is running                *)
(*   target     the kit a running restore chose                            *)
(*   snap       the running Snapshot: its step, and what it has read       *)
(*   late       stamps that cancelled Snapshots have yet to record: they   *)
(*              created their kit, and nobody waits for them               *)
(*   watch      WatchSwarmLeadership's locals;  loops: kit.Loop is running *)
(*   faults     the crashes and the failed calls and writes so far         *)
(*                                                                         *)
(* A failed write leaves the file as it was; torn files are not modelled.  *)
(***************************************************************************)
EXTENDS Integers, FiniteSets, LeaderWatch

CONSTANTS
  Node,           \* the managers
  Founder,        \* the manager `pmcluster init` ran on
  NoNode,         \* no manager; no key; no database
  Settings        \* the circumstances to look at, one of which holds throughout:
                  \*   keep       kits kept per config family
                  \*   maxOps     bound on the writes
                  \*   maxFaults  bound on the crashes and the failed calls and writes
                  \*   outages    the Swarm may lose its quorum
                  \*   bounce     leadership may leave a manager whose daemon is alive

ASSUME NodeAssumption == Founder \in Node /\ NoNode \notin Node
ASSUME SettingsAssumption ==
  Settings \subseteq [keep : Nat \ {0}, maxOps : Nat, maxFaults : Nat,
                     outages : BOOLEAN, bounce : BOOLEAN]

VARIABLES env, clock, ops, leader, published, states, keys,
          disk, pc, ctx, target, snap, late, watch, loops, faults

swarm   == <<leader, published, states, keys>>
daemons == <<pc, ctx, target, snap, late, watch, loops>>
state   == <<clock, ops, swarm, disk, daemons, faults>>
vars    == <<env, state>>

MaybeNode == Node \cup {NoNode}
Kit  == [at : Nat, by : Node, db : SUBSET Nat, sealed : MaybeNode, key : Node]
Disk == [db : SUBSET Nat, sealed : MaybeNode, mtime : Nat, key : MaybeNode, rev : Nat]
Step == {"idle", "read", "create", "key", "mark", "prune", "prunekeys"}
Snap == [step : Step, by : {"control", "loop"}, db : SUBSET Nat, sealed : MaybeNode,
         key : MaybeNode, at : Nat]
Phase == {"down", "list", "inspect", "compare", "extract", "adopt", "stamp", "wait",
          "publish", "open", "serve"}

NoSnap == [step |-> "idle", by |-> "control", db |-> {}, sealed |-> NoNode,
           key |-> NoNode, at |-> 0]

TypeOK ==
  /\ env \in Settings
  /\ clock \in Nat /\ ops \in Nat /\ faults \in Nat
  /\ leader \in MaybeNode
  /\ published \subseteq Kit
  /\ states \subseteq Nat /\ keys \subseteq Nat
  /\ disk \in [Node -> Disk]
  /\ pc \in [Node -> Phase]
  /\ ctx \in [Node -> {"boot", "promote"}]
  /\ target \in [Node -> Nat]
  /\ snap \in [Node -> Snap]
  /\ late \in [Node -> SUBSET Nat]
  /\ watch \in [Node -> WatchState]
  /\ loops \in [Node -> BOOLEAN]

-----------------------------------------------------------------------------
(* What a manager's poll of the Swarm answers. *)
View(n) ==
  IF leader = NoNode THEN "unreachable" ELSE IF leader = n THEN "leader" ELSE "follower"

(* Mutant: the names are sorted and the first one is taken. *)
NewestTakesFirst == CHOOSE a \in states : \A b \in states : a <= b

(* Kit.newest: the highest stamp of the state family. *)
Newest == CHOOSE a \in states : \A b \in states : b <= a

KitAt(a) == CHOOSE k \in published : k.at = a

HasDB(n) == disk[n].sealed # NoNode

(* Kit.needsSnapshot: some kit file is newer than the newest state config. *)
NeedsSnapshot(n) == states # {} => disk[n].mtime > Newest

(* Mutant: a manager that synced once counts as fresh. *)
BehindIfNeverSynced(n, a) == disk[n].key = NoNode \/ disk[n].rev = 0

(* The `needRestore` of Kit.Restore, against kit a: what the data dir alone  *)
(* decides, and the comparison of keys, if the key config could be read.     *)
Behind(n, a) == disk[n].key = NoNode \/ disk[n].rev = 0 \/ disk[n].rev < a

NeedsRestore(n, a, found) == Behind(n, a) \/ (found /\ disk[n].key # KitAt(a).key)

(* Mutant: the oldest ones are kept. *)
PrunedNewestFirst(S) == {a \in S : Cardinality({b \in S : b < a}) < env.keep}

(* prune: all but the newest `keep` of a family are removed. *)
Pruned(S) == {a \in S : Cardinality({b \in S : b > a}) < env.keep}

(* What a prune of family S can leave.  It removes the oldest first, and     *)
(* gives up at the first removal that fails; without a quorum it cannot list. *)
PruneLeaves(S, broken) ==
  IF leader = NoNode THEN {S}
  ELSE IF broken THEN {{b \in S : b >= a} : a \in S \ Pruned(S)}
  ELSE {Pruned(S)}

(* Kit.Snapshot goes past its early returns. *)
SnapshotRuns(n) == leader # NoNode /\ HasDB(n) /\ NeedsSnapshot(n)

Started(by) == [NoSnap EXCEPT !.step = "read", !.by = by]

(* Nothing is published yet.  The founder's data dir holds an empty database *)
(* and its own key; any other manager is empty, or was initialised on its    *)
(* own and holds a key of its own.                                           *)
OwnDisk(n)  == [db |-> {}, sealed |-> n, mtime |-> 1, key |-> n, rev |-> 0]
EmptyDisk   == [db |-> {}, sealed |-> NoNode, mtime |-> 0, key |-> NoNode, rev |-> 0]

Init ==
  /\ env \in Settings
  /\ clock = 1 /\ ops = 0 /\ faults = 0
  /\ leader = Founder
  /\ published = {} /\ states = {} /\ keys = {}
  /\ \E joined \in SUBSET (Node \ {Founder}) :
       disk = [n \in Node |-> IF n \in joined THEN EmptyDisk ELSE OwnDisk(n)]
  /\ pc = [n \in Node |-> "down"]
  /\ ctx = [n \in Node |-> "boot"]
  /\ target = [n \in Node |-> 0]
  /\ snap = [n \in Node |-> NoSnap]
  /\ late = [n \in Node |-> {}]
  /\ watch = [n \in Node |-> FreshWatch]
  /\ loops = [n \in Node |-> FALSE]

-----------------------------------------------------------------------------
(* The daemon of n ends, on a crash or on an error runServe returns. *)
Exit(n) ==
  /\ pc' = [pc EXCEPT ![n] = "down"]
  /\ ctx' = [ctx EXCEPT ![n] = "boot"]
  /\ target' = [target EXCEPT ![n] = 0]
  /\ snap' = [snap EXCEPT ![n] = NoSnap]
  /\ late' = [late EXCEPT ![n] = {}]
  /\ watch' = [watch EXCEPT ![n] = FreshWatch]
  /\ loops' = [loops EXCEPT ![n] = FALSE]

(* Mutant: the daemon resumes under the restore's name for its caller. *)
RestoreReturnsContext(n) == pc' = [pc EXCEPT ![n] = ctx[n]]

(* Restore is done: the boot restore is followed by the wait, the promotion  *)
(* restore by the first snapshot.                                            *)
RestoreReturns(n) ==
  pc' = [pc EXCEPT ![n] = IF ctx[n] = "boot" THEN "wait" ELSE "publish"]

(* Restore returned an error: a warning at boot, fatal on promotion. *)
RestoreFails(n) ==
  \/ /\ ctx[n] = "boot"
     /\ pc' = [pc EXCEPT ![n] = "wait"]
     /\ UNCHANGED <<ctx, target, snap, late, watch, loops>>
  \/ /\ ctx[n] = "promote"
     /\ Exit(n)

-----------------------------------------------------------------------------
(* The Swarm, and the machines. *)

Elect(n) ==
  /\ n # leader
  /\ ~env.bounce /\ leader # NoNode => pc[leader] = "down"
  /\ leader' = n
  /\ UNCHANGED <<clock, ops, published, states, keys, disk, daemons, faults>>

LoseQuorum ==
  /\ env.outages
  /\ leader # NoNode
  /\ leader' = NoNode
  /\ UNCHANGED <<clock, ops, published, states, keys, disk, daemons, faults>>

(* The process is gone at any point of what it was doing, the data dir stays. *)
Crash(n) ==
  /\ faults < env.maxFaults
  /\ pc[n] # "down"
  /\ faults' = faults + 1
  /\ Exit(n)
  /\ UNCHANGED <<clock, ops, swarm, disk>>

(* systemd starts the daemon; runServe restores before it waits. *)
Start(n) ==
  /\ pc[n] = "down"
  /\ pc' = [pc EXCEPT ![n] = "list"]
  /\ ctx' = [ctx EXCEPT ![n] = "boot"]
  /\ UNCHANGED <<clock, ops, swarm, disk, target, snap, late, watch, loops, faults>>

-----------------------------------------------------------------------------
(* ensureControlPlaneFresh, i.e. Kit.Restore on a host without a tarball     *)
(* archive: once at startup, best-effort, and once after the wait, fatal.    *)

RestoreList(n) ==
  /\ pc[n] = "list"
  /\ \/ /\ leader = NoNode \/ states = {}
        /\ RestoreReturns(n)
        /\ UNCHANGED target
     \/ /\ leader # NoNode /\ states # {}
        /\ target' = [target EXCEPT ![n] = Newest]
        /\ pc' = [pc EXCEPT ![n] = "inspect"]
  /\ UNCHANGED <<clock, ops, swarm, disk, ctx, snap, late, watch, loops, faults>>

RestoreInspect(n) ==
  /\ pc[n] = "inspect"
  /\ \/ /\ leader = NoNode                              \* deferred: swarm unavailable
        /\ RestoreReturns(n)
        /\ UNCHANGED <<ctx, target, snap, late, watch, loops>>
     \/ /\ leader # NoNode /\ target[n] \notin states    \* pruned since it was listed
        /\ RestoreFails(n)
     \/ /\ leader # NoNode /\ target[n] \in states
        /\ pc' = [pc EXCEPT ![n] = "compare"]
        /\ UNCHANGED <<ctx, target, snap, late, watch, loops>>
  /\ UNCHANGED <<clock, ops, swarm, disk, faults>>

(* Mutant: a data dir with a key of its own is refused, not brought over. *)
RestoreCompareRefuses(n) ==
  /\ pc[n] = "compare"
  /\ IF disk[n].key \in {NoNode, KitAt(target[n]).key} /\ target[n] \in keys
       THEN /\ pc' = [pc EXCEPT ![n] = "extract"]
            /\ UNCHANGED <<ctx, target, snap, late, watch, loops>>
       ELSE RestoreFails(n)
  /\ UNCHANGED <<clock, ops, swarm, disk, faults>>

(* The key config is inspected, an error of any kind counting as missing,    *)
(* and the data dir is compared.                                             *)
RestoreCompare(n) ==
  /\ pc[n] = "compare"
  /\ \E lost \in BOOLEAN :
       LET a     == target[n]
           found == ~lost /\ leader # NoNode /\ a \in keys
       IN /\ lost => faults < env.maxFaults
          /\ faults' = IF lost THEN faults + 1 ELSE faults
          /\ \/ /\ ~NeedsRestore(n, a, found)
                /\ RestoreReturns(n)
                /\ UNCHANGED <<ctx, target, snap, late, watch, loops>>
             \/ /\ NeedsRestore(n, a, found) /\ ~found
                /\ RestoreFails(n)
             \/ /\ NeedsRestore(n, a, found) /\ found
                /\ pc' = [pc EXCEPT ![n] = "extract"]
                /\ UNCHANGED <<ctx, target, snap, late, watch, loops>>
  /\ UNCHANGED <<clock, ops, swarm, disk>>

(* extractKit: data.db, stamped with the kit's time. *)
ExtractKit(d, k) == [d EXCEPT !.db = k.db, !.sealed = k.sealed, !.mtime = k.at]

RestoreExtract(n) ==
  /\ pc[n] = "extract"
  /\ disk' = [disk EXCEPT ![n] = ExtractKit(disk[n], KitAt(target[n]))]
  /\ pc' = [pc EXCEPT ![n] = "adopt"]
  /\ UNCHANGED <<clock, ops, swarm, ctx, target, snap, late, watch, loops, faults>>

(* Mutant: only a missing key is repaired. *)
RestoreKeyIfMissing(n) ==
  /\ pc[n] = "adopt"
  /\ disk' = [disk EXCEPT ![n].key = IF @ = NoNode THEN KitAt(target[n]).key ELSE @]
  /\ pc' = [pc EXCEPT ![n] = "stamp"]
  /\ UNCHANGED <<clock, ops, swarm, ctx, target, snap, late, watch, loops, faults>>

(* .encryption_key, always the kit's. *)
RestoreKey(n) ==
  /\ pc[n] = "adopt"
  /\ disk' = [disk EXCEPT ![n].key = KitAt(target[n]).key]
  /\ pc' = [pc EXCEPT ![n] = "stamp"]
  /\ UNCHANGED <<clock, ops, swarm, ctx, target, snap, late, watch, loops, faults>>

(* Mutant: the newest kit is looked up again for the marker. *)
RestoreMarkNewest(n) ==
  /\ pc[n] = "stamp"
  /\ disk' = [disk EXCEPT ![n].rev = Newest]
  /\ RestoreReturns(n)
  /\ UNCHANGED <<clock, ops, swarm, ctx, target, snap, late, watch, loops, faults>>

(* .state_revision. *)
RestoreMark(n) ==
  /\ pc[n] = "stamp"
  /\ disk' = [disk EXCEPT ![n].rev = target[n]]
  /\ RestoreReturns(n)
  /\ UNCHANGED <<clock, ops, swarm, ctx, target, snap, late, watch, loops, faults>>

(* A Docker call that fails for another reason than a lost quorum, or a      *)
(* write of the extract, the key or the marker that fails: Restore returns   *)
(* the error with what it had written so far in place.                       *)
RestoreBreaks(n) ==
  /\ pc[n] \in {"list", "inspect", "extract", "adopt", "stamp"}
  /\ faults < env.maxFaults
  /\ faults' = faults + 1
  /\ RestoreFails(n)
  /\ UNCHANGED <<clock, ops, swarm, disk>>

(* waitForSwarmLeadership returns. *)
WaitEnds(n) ==
  /\ pc[n] = "wait"
  /\ MayServe(View(n))
  /\ pc' = [pc EXCEPT ![n] = "list"]
  /\ ctx' = [ctx EXCEPT ![n] = "promote"]
  /\ UNCHANGED <<clock, ops, swarm, disk, target, snap, late, watch, loops, faults>>

-----------------------------------------------------------------------------
(* The first snapshot of a promoted daemon, then the store is opened. *)

InitialSnapshot(n) ==
  /\ pc[n] = "publish"
  /\ pc' = [pc EXCEPT ![n] = "open"]
  /\ snap' = [snap EXCEPT ![n] = IF SnapshotRuns(n) THEN Started("control") ELSE NoSnap]
  /\ UNCHANGED <<clock, ops, swarm, disk, ctx, target, late, watch, loops, faults>>

(* Without a data.db runServe returns an error; credentials.Open creates a   *)
(* key where there is none, a file of the kit like the others.               *)
OpenStore(n) ==
  /\ pc[n] = "open" /\ snap[n].step = "idle"
  /\ \/ /\ ~HasDB(n)
        /\ Exit(n)
        /\ UNCHANGED <<clock, disk>>
     \/ /\ HasDB(n) /\ disk[n].key # NoNode
        /\ pc' = [pc EXCEPT ![n] = "serve"]
        /\ UNCHANGED <<clock, disk, ctx, target, snap, late, watch, loops>>
     \/ /\ HasDB(n) /\ disk[n].key = NoNode
        /\ pc' = [pc EXCEPT ![n] = "serve"]
        /\ clock' = clock + 1
        /\ disk' = [disk EXCEPT ![n] = [@ EXCEPT !.key = n, !.mtime = clock + 1]]
        /\ UNCHANGED <<ctx, target, snap, late, watch, loops>>
  /\ UNCHANGED <<ops, swarm, faults>>

(* A request writes the store.  The HTTP server runs until the process ends, *)
(* whoever leads.                                                            *)
Mutate(n) ==
  /\ pc[n] = "serve" /\ ops < env.maxOps
  /\ ops' = ops + 1
  /\ clock' = clock + 1
  /\ disk' = [disk EXCEPT ![n] = [@ EXCEPT !.db = disk[n].db \cup {ops + 1}, !.mtime = clock + 1]]
  /\ UNCHANGED <<swarm, daemons, faults>>

(* The loops' context is cancelled: the Docker calls of a snapshot they run  *)
(* fail from here on, and only a marker it has yet to write is still written. *)
CancelLoops(n) ==
  late' = [late EXCEPT ![n] =
    IF snap[n].step = "mark" THEN @ \cup {snap[n].at} ELSE @]

(* One turn of the watcher and what the control goroutine does with a value: *)
(* it cancels the loops and waits for nothing; on `true` it snapshots at     *)
(* once and starts them again.  It does not receive while it is inside a     *)
(* snapshot of its own.                                                      *)
LeadershipPoll(n) ==
  /\ pc[n] = "serve"
  /\ watch' = [watch EXCEPT ![n] = WatchAfter(View(n), watch[n])]
  /\ \/ /\ WatchEmits(View(n), watch[n]) = "none"
        /\ UNCHANGED <<snap, late, loops>>
     \/ /\ WatchEmits(View(n), watch[n]) = "false"
        /\ snap[n].step # "idle" => snap[n].by = "loop"
        /\ CancelLoops(n)
        /\ snap' = [snap EXCEPT ![n] = NoSnap]
        /\ loops' = [loops EXCEPT ![n] = FALSE]
     \/ /\ WatchEmits(View(n), watch[n]) = "true"
        /\ snap[n].step # "idle" => snap[n].by = "loop"
        /\ CancelLoops(n)
        /\ snap' = [snap EXCEPT ![n] = IF SnapshotRuns(n) THEN Started("control") ELSE NoSnap]
        /\ loops' = [loops EXCEPT ![n] = TRUE]
  /\ UNCHANGED <<clock, ops, swarm, disk, pc, ctx, target, faults>>

(* A tick of Kit.Loop that finds the kit changed. *)
LoopTick(n) ==
  /\ pc[n] = "serve" /\ loops[n]
  /\ snap[n].step = "idle"
  /\ SnapshotRuns(n)
  /\ snap' = [snap EXCEPT ![n] = Started("loop")]
  /\ UNCHANGED <<clock, ops, swarm, disk, pc, ctx, target, late, watch, loops, faults>>

-----------------------------------------------------------------------------
(* The steps of Kit.Snapshot. *)

(* readKit: data.db as it is now; the key comes from its own file. *)
ReadKit(s, d) ==
  [s EXCEPT !.step = "create", !.db = d.db, !.sealed = d.sealed, !.key = d.key]

(* readKit and the key; a missing key is an error. *)
SnapshotRead(n) ==
  /\ snap[n].step = "read"
  /\ snap' = [snap EXCEPT ![n] =
       IF disk[n].key = NoNode THEN NoSnap ELSE ReadKit(snap[n], disk[n])]
  /\ UNCHANGED <<clock, ops, swarm, disk, pc, ctx, target, late, watch, loops, faults>>

(* The stamp is taken here, and the state config created under it. *)
SnapshotCreateState(n) ==
  /\ snap[n].step = "create" /\ leader # NoNode
  /\ clock' = clock + 1
  /\ published' = published \cup {[at |-> clock + 1, by |-> n, db |-> snap[n].db,
                                   sealed |-> snap[n].sealed, key |-> snap[n].key]}
  /\ states' = states \cup {clock + 1}
  /\ snap' = [snap EXCEPT ![n] = [@ EXCEPT !.step = "key", !.at = clock + 1]]
  /\ UNCHANGED <<ops, leader, keys, disk, pc, ctx, target, late, watch, loops, faults>>

(* The key config, under the same stamp. *)
SnapshotCreateKey(n) ==
  /\ snap[n].step = "key" /\ leader # NoNode
  /\ keys' = keys \cup {snap[n].at}
  /\ snap' = [snap EXCEPT ![n].step = "mark"]
  /\ UNCHANGED <<clock, ops, leader, published, states, disk, pc, ctx, target, late,
                 watch, loops, faults>>

(* A read or a create that fails ends the Snapshot with an error, which is   *)
(* logged.                                                                   *)
SnapshotFails(n) ==
  /\ snap[n].step \in {"read", "create", "key"}
  /\ \/ leader = NoNode /\ snap[n].step # "read" /\ UNCHANGED faults
     \/ faults < env.maxFaults /\ faults' = faults + 1
  /\ snap' = [snap EXCEPT ![n] = NoSnap]
  /\ UNCHANGED <<clock, ops, swarm, disk, pc, ctx, target, late, watch, loops>>

(* .state_revision: this data dir is the source of the kit. *)
SnapshotMark(n) ==
  /\ snap[n].step = "mark"
  /\ disk' = [disk EXCEPT ![n].rev = snap[n].at]
  /\ snap' = [snap EXCEPT ![n].step = "prune"]
  /\ UNCHANGED <<clock, ops, swarm, pc, ctx, target, late, watch, loops, faults>>

(* The marker cannot be written: a warning, and the Snapshot goes on. *)
SnapshotMarkFails(n) ==
  /\ snap[n].step = "mark"
  /\ faults < env.maxFaults
  /\ faults' = faults + 1
  /\ snap' = [snap EXCEPT ![n].step = "prune"]
  /\ UNCHANGED <<clock, ops, swarm, disk, pc, ctx, target, late, watch, loops>>

(* A cancelled Snapshot gets to its marker, whatever was recorded since; its *)
(* prunes fail with the context.                                             *)
SnapshotMarkLate(n) ==
  /\ \E a \in late[n] :
       /\ disk' = [disk EXCEPT ![n].rev = a]
       /\ late' = [late EXCEPT ![n] = @ \ {a}]
  /\ UNCHANGED <<clock, ops, swarm, pc, ctx, target, snap, watch, loops, faults>>

(* The state family is pruned, then the key family; an issue with one is a   *)
(* warning and does not keep the other from being pruned.                    *)
SnapshotPruneStates(n) ==
  /\ snap[n].step = "prune"
  /\ \E broken \in BOOLEAN :
       /\ broken => leader # NoNode /\ faults < env.maxFaults
       /\ faults' = IF broken THEN faults + 1 ELSE faults
       /\ states' \in PruneLeaves(states, broken)
  /\ snap' = [snap EXCEPT ![n].step = "prunekeys"]
  /\ UNCHANGED <<clock, ops, leader, published, keys, disk, pc, ctx, target, late, watch,
                 loops>>

SnapshotPruneKeys(n) ==
  /\ snap[n].step = "prunekeys"
  /\ \E broken \in BOOLEAN :
       /\ broken => leader # NoNode /\ faults < env.maxFaults
       /\ faults' = IF broken THEN faults + 1 ELSE faults
       /\ keys' \in PruneLeaves(keys, broken)
  /\ snap' = [snap EXCEPT ![n] = NoSnap]
  /\ UNCHANGED <<clock, ops, leader, published, states, disk, pc, ctx, target, late, watch,
                 loops>>

-----------------------------------------------------------------------------
Restore(n) ==
  \/ RestoreList(n) \/ RestoreInspect(n) \/ RestoreCompare(n) \/ RestoreExtract(n)
  \/ RestoreKey(n) \/ RestoreMark(n)

Snapshot(n) ==
  \/ SnapshotRead(n) \/ SnapshotCreateState(n) \/ SnapshotCreateKey(n)
  \/ SnapshotFails(n) \/ SnapshotMark(n) \/ SnapshotMarkFails(n)
  \/ SnapshotPruneStates(n) \/ SnapshotPruneKeys(n)

Next ==
  /\ UNCHANGED env
  /\ \/ LoseQuorum
     \/ \E n \in Node :
          \/ Elect(n) \/ Crash(n) \/ Start(n) \/ Mutate(n)
          \/ Restore(n) \/ RestoreBreaks(n) \/ WaitEnds(n) \/ InitialSnapshot(n)
          \/ OpenStore(n) \/ LeadershipPoll(n) \/ LoopTick(n)
          \/ Snapshot(n) \/ SnapshotMarkLate(n)

(* systemd restarts a daemon, a daemon runs, its tickers fire.  Elections,   *)
(* outages, failures and requests are not promised.                          *)
Fairness ==
  \A n \in Node :
    /\ WF_state(Start(n)) /\ WF_state(Restore(n)) /\ WF_state(WaitEnds(n))
    /\ WF_state(InitialSnapshot(n)) /\ WF_state(OpenStore(n))
    /\ WF_state(LeadershipPoll(n)) /\ WF_state(LoopTick(n)) /\ WF_state(Snapshot(n))
    /\ WF_state(SnapshotMarkLate(n))

Spec == Init /\ [][Next]_vars /\ Fairness

-----------------------------------------------------------------------------
(* The Swarm keeps its quorum and leadership moves only when the leader's    *)
(* daemon is down, wherever crashes and failed calls hit.                    *)
Calm == ~env.outages /\ ~env.bounce

(* The store a daemon serves can be decrypted with the key beside it: "a     *)
(* data kit without its key is a control plane that cannot decrypt its own   *)
(* credentials" (Kit.Restore writes the two in separate steps, and a crash   *)
(* can fall between them).  Calm.                                            *)
ServedStoreDecrypts ==
  Calm => \A n \in Node : pc[n] = "serve" => disk[n].sealed = disk[n].key

(* The revision marker of a serving manager tells the truth: its store holds *)
(* every write of the kit the marker names, although a Snapshot can die, or  *)
(* fail, before it records the kit it published (Kit.writeRevision: "this    *)
(* node's control plane now matches snapshot `at`").  Calm.                  *)
RevisionSound ==
  Calm => \A n \in Node, k \in published :
    pc[n] = "serve" /\ disk[n].rev = k.at => k.db \subseteq disk[n].db

(* A write that reached a kit is in every later kit: publishing never takes  *)
(* the cluster back to an older control plane (Kit.Snapshot).  Calm.         *)
KitsOnlyGrow ==
  Calm => \A j, k \in published : j.at < k.at => j.db \subseteq k.db

(* The manager whose loops run holds every write of every kit: "on becoming  *)
(* Swarm leader the daemon runs ... the control-plane freshness restore"     *)
(* (runServe).                                                               *)
LeaderHoldsEveryKit ==
  \A n \in Node, k \in published :
    leader = n /\ loops[n] => k.db \subseteq disk[n].db

(* It does as long as leadership moves to a manager that starts its daemon   *)
(* anew: WaitEnds restores before it serves, and LeadershipPoll, which does  *)
(* not restore, finds nothing it lacks.                                      *)
CalmLeaderHoldsEveryKit == Calm => LeaderHoldsEveryKit

(* A daemon that comes back never restores a kit it published itself over    *)
(* writes it accepted since: "Without recording it, a demoted-then-promoted  *)
(* leader would restore its own snapshot over newer local writes" (Snapshot). *)
OwnWritesSurviveRestart ==
  [][\A n \in Node :
       RestoreExtract(n) /\ KitAt(target[n]).by = n
         => disk[n].db \subseteq KitAt(target[n]).db]_vars

(* "takes the snapshot's kit and key together" (Kit.Restore): when a restore *)
(* records its revision, the database and the key are those of one kit, in   *)
(* spite of elections, outages and new kits between its steps.               *)
RestoreIsWhole ==
  [][\A n \in Node :
       RestoreMark(n) =>
         LET k == KitAt(target[n]) IN
           disk[n].db = k.db /\ disk[n].sealed = k.sealed /\ disk[n].key = k.key]_vars

(* Pruning never takes the key of the newest state config, the only one a    *)
(* restore looks at: the two families are pruned one after the other, each   *)
(* by its own count, either prune can stop half-way, and another manager may *)
(* be publishing (Kit.prune).                                                *)
NewestKeepsItsKey ==
  [][\A a \in states' \cap keys :
       (\A b \in states' : b <= a) => a \in keys']_vars

(* "a standby manager promoted to leader can restore the control plane": a   *)
(* manager that leads for good ends up serving, whatever crashed before, as  *)
(* soon as there is a kit.                                                   *)
PromotedManagerServes ==
  \A n \in Node :
    <>[](leader = n) /\ <>(published # {}) => <>[](pc[n] = "serve")

(* It does whenever the newest state config has its key: neither a crash at  *)
(* any step, nor a failed restore, nor the marker of another kit keeps it    *)
(* from serving (runServe).                                                  *)
WholeKitIsServed ==
  \A n \in Node :
    <>[](leader = n /\ states # {} /\ Newest \in keys) => <>[](pc[n] = "serve")

(* "a mutation is captured within one interval even when no reconcile event  *)
(* fires" (Kit.Loop): what a stable leader's store holds is published.       *)
MutationsAreCaptured ==
  \A n \in Node :
    <>[](leader = n /\ pc[n] = "serve") =>
      <>[](states # {} /\ disk[n].db \subseteq KitAt(Newest).db)

=============================================================================
