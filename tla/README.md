# pmcluster in TLA+

A formal model of pmcluster, the Go control plane for Docker Swarm in `src/pmcluster`. The modules are
translated from the code (paths below are relative to `src/pmcluster/internal/`), TLC checks them on small
instances, and TLAPS proves the safety properties for instances of any size. `PROJECT.json` maps each
definition to the lines it models.

## 1. The system

A pmcluster daemon runs on every Swarm manager. The desired state is a SQLite file, `data.db`, in the
daemon's data dir. Only the Swarm leader's daemon is meant to serve and reconcile. To survive the loss of the
leader, it copies `data.db` and the encryption key into two Docker configs, which Raft replicates; a manager
restores the newest pair before it serves.

    Swarm (Raft) --- node list ---> role machine --- true / false ---> reconcile loop, snapshot loop
      ^      ^                       (cli/leader.go, cli/serve.go)        |            |
      |      |                                                            |            |
      |      +--- state + key configs <--- survivor kit (controlplane) <--|------------+
      |                                         |  restore before serving |
      |                                         v                         v
      |                                      data.db (store) <------- stacks.Service <--- API, webhooks, CLI
      +---------------- docker stack deploy / rm, service list -----------+

### Inventory

| part | state | operations | what is hard | modelled |
|---|---|---|---|---|
| role machine `cli/leader.go`, `cli/serve.go` | watcher's `current`, `first`; channel; `loopCancel` | wait, poll, send, receive, restart | the watcher's belief and the loops are changed by two goroutines | `LeaderWatch`, `Leadership` |
| survivor kit `controlplane/state.go` | two config families; data.db, key, marker and mtimes on each host | Snapshot, Restore, Loop, prune | every step can be cut by a crash, an election or an outage; two files and two configs that belong together | `ControlPlane` |
| stack pipeline `stacks/deploy.go`, `cluster/stacks.go`, `stackdrift` | locals of the handlers; services and labels in the Swarm | Deploy, DeployAsync, Sync, Rollback, Undeploy | no lock; background applies; each handler is many accesses | `StackDeploy` |
| stack store `store/stacks.go`, `store/stack_status.go` | `stacks`, `stack_revisions`, `stack_status` | RecordDeploy, SetRevisionRenderedHash, RecordStackError, DeleteStack | read-modify-write, ids taken from the clock | `StackDeploy` |
| reconcile loop `reconcile/reconcile.go` | `lastSyncErrs`, `lastFailover` | app pass, error throttle, health snapshot, platform pass, failover | races with requests | app part in `StackDeploy` |
| storage placement, move, failover `stacks/placement.go`, `move*.go`, `store/failover.go` | pins, failover marker, data on nodes | resolve, Move, failover, ack | a move takes minutes and is detached; cooldown in memory | planned |
| backup agent `backupagent`, `lvmlock` | lock file, frozen volume, snapshot, artifacts | Run: freeze, snapshot, thaw, archive, verify, ship, prune | cancelled runs, concurrent runs, delete-before-ship | planned |
| webhook receiver `webhooks` | delivery rows, in-flight phases | receive, retry | the deploy phase races the response budget | planned |
| platform stacks `cluster/update.go`, `up.go`, `down.go` | platform services, configs, secrets | Update, Up, Down | long sequence of partial repairs | planned |
| configs, secrets, credentials `store/configs.go`, `secrets`, `credentials` | version rows, Swarm mirrors | set, roll back, heal | mirrors named by content, deleted while in use | planned; `StackDeploy` has their version as input |
| backup catalogue `backups` | artifacts on disk and off site | discover, drain, restore, prune | restore of a running stack | planned |
| manifest translation `manifest` | none | parse, interpolate, validate, translate, levels | pure | planned (`ServiceLevels`) |
| node storage `storage` | LVM, systemd units | provision, grow, repair, migrate | shell commands on a host | no |
| edge proxy, server, auth, console, CLI, remote client, observability, MCP, node versions, certificates, settings | per request | | little shared state | no |

The properties wanted of each part are those of section 3 for the modelled ones, and those of section 8 for
the planned ones. `PROJECT.json` lists the hazards of the code, each with the properties that cover it or the
reason why none does.

## 2. The modules

| module | lines it models | role |
|---|---|---|
| `LeaderWatch` | `cli/leader.go` | the two decisions taken from one poll, as operators; shared by the next two |
| `Leadership` | `cli/leader.go`, `cli/serve.go` | one daemon, its two goroutines and their channel |
| `ControlPlane` | `controlplane/state.go`, `cli/serve.go` | several managers, their data dirs, and the shared configs |
| `StackDeploy` | `stacks/deploy.go`, `store/stacks.go`, `store/stack_status.go`, `stackdrift`, `reconcile` | one stack, its requests and the loop |
| `MCControlPlane`, `MCStackDeploy` | | the settings the two are checked in |
| `LeadershipProofs`, `ControlPlaneProofs`, `StackDeployProofs` | | theorems |

A definition named like `RestoreKeyIfMissing`, with a comment that begins with "Mutant:", is a plausible bug of
the definition below it. No specification uses it. Put in place of the real one, it makes TLC report the
property it is listed with in `PROJECT.json`.

### LeaderWatch and Leadership

One answer of the Swarm is one of five: leader, follower, worker, unreachable (the node list fails), absent
(the list lacks this host). `MayServe` is the end of `waitForSwarmLeadership`. `WatchEmits` and `WatchAfter`
are the switch of `WatchSwarmLeadership`: what a poll sends, and what it leaves in `current` and `first`.
`Leadership` adds the rest of the daemon: `WatchPoll` blocks while its last value is unreceived
(the channel is unbuffered), `ControlReceives` cancels the loops and starts them again on `true`, `Restart`
is systemd's. `view` moves freely; `seen` is a history variable.

### ControlPlane

A write is a number and a database the set of writes it holds. A key is the manager that made it, and a
database remembers which key its secrets are sealed with, so that "can be decrypted" is a comparison. The
actions follow `runServe`: boot restore (`ctx = "boot"`, errors are warnings), wait, promotion restore
(`ctx = "promote"`, errors are fatal), first snapshot, open, serve. A restore is six steps: list, inspect,
compare (with the key config), extract, key, marker. A snapshot is: read, create state, create key, marker, prune
states, prune keys. Every step is an action, so a crash, an election or an outage can fall between any two of
them, and every Docker call and file write among them can fail (`RestoreBreaks`, `SnapshotFails`,
`SnapshotMarkFails`, a prune that stops half-way). A value on the leadership channel cancels the loops without
waiting for them: a cancelled snapshot whose configs exist already still writes its marker, at any later time
(`late`, `SnapshotMarkLate`).

`env` is the setting a behaviour happens in, drawn once from the constant `Settings`: how many kits are kept, the
bounds, whether the Swarm may lose its quorum and whether leadership may leave a daemon that is alive. A property
that needs a calm Swarm says so (`Calm`).

What is simplified: the host has no tarball archive; the key file and its mtime are written in one step,
`readKit` copies in one step, and a failed write leaves the file as it was; the managers share one clock; one
mtime stands for the newest of the kit's files; payloads stay below MaxConfigBytes.

### StackDeploy

A rendering (manifest, version of the configs and secrets, version of the config files mounted) stands for its
own hash. Each handler is a process with a program counter, and each action is one access of the store or one
Docker call, which is the granularity at which the code's handlers interleave: SQLite has one connection, and
nothing holds a lock across two accesses. `Check`, `Translate`, `Assign` and `Record` are the steps of the deploy
workflow, `Prepare`, `DeployLevel`, `Prune` are `applyToSwarm`, `Stamp` is `SetRevisionRenderedHash`. `Sync` enters the
same pipeline after `SyncLoad`, `SyncCompare` and `SyncLive`; `Rollback` enters it at `Translate`. `Pass...` and
`SnapshotHealth` are the reconcile pass around its Sync.

What is simplified: one stack, without storage pins, so the loop never pauses it; the health of single
services is left out of `StackStatus`; an entry of the error history is the revision it belongs to; whether a
later failure repeats the text of the last one is left open. As in `ControlPlane`, `env` is
the setting, drawn from `Settings`: which requests are made, what may go wrong, and the bounds. With `env.serial` a
handler, its background apply included, starts only when no other is active.

## 3. What is checked

States are distinct states found by TLC. Deadlock is checked in every run.

| run | setting | states | properties |
|---|---|---|---|
| `leadership_manager` | every answer of the Swarm | 810 | the loops of a manager agree with the watcher's belief; a standby or worker never starts them; a steady leader is not restarted; a leader that met no outage ends up with its loops running; a follower ends up without |
| `control_plane_kits` | 2 managers; failover (2 kits kept, 2 writes, 2 faults, elections after the leader's daemon died), hand-over from a live daemon (1 kit, 1 write, 1 fault), quorum loss (1 kit, 1 fault) | 681,926 | in the calm setting: served stores decrypt, markers are true, kits only grow, the leader holds every kit; in all: a restore is whole, pruning never takes the newest key, a manager that leads for good serves once the newest kit has its key |
| `stack_handlers` | 2 requests (no undeploy) and the loop interleaved at each access; 2 requests and the loop one at a time with 2 repositories and one mishap, or with a clock tick; 1 request and the loop with an edit of the inputs and one mishap | 501,976 | hashes stay with their revision; history is kept; the loop converges and stops redeploying; one at a time: the current revision is the newest, Sync applies the newest manifest, an undeployed stack is gone, no leftovers |

A mishap is one of: an input is deleted, a service or its label disappears, a Docker call fails, the daemon dies.

### What the code does not keep

Nine runs check a statement the repository makes, and TLC finds a behaviour that breaks it. The quotations are in
`PROJECT.json`.

| run | property | behaviour |
|---|---|---|
| `leadership_outage` | `LeaderRunsLoops` | follower, node list fails (sets `current`, sends nothing), elected: the election is silent |
| `control_plane_halfkit` | `PromotedManagerServes` | the publisher dies between the state and the key config; the newest kit has no key and no older one is tried |
| `control_plane_capture` | `MutationsAreCaptured` | a write after the copy and before the stamp counts as captured |
| `control_plane_marker` | `OwnWritesSurviveRestart` | the publisher dies, or fails to write, after the creates and before its marker; restarted, it restores its own kit over the writes it took since |
| `control_plane_bounce` | `LeaderHoldsEveryKit` | a live daemon loses leadership and gets it back: it starts its loops without the kits published in between |
| `stack_lostupdate` | `SyncAppliesLatest` | Sync loads, a deploy records, Sync records the older manifest on top |
| `stack_orphans` | `UndeployedStackIsGone` | a background apply goes on after the undeploy |
| `stack_repos` | `OneRepo` | two first deploys from two repositories pass the check before either records |
| `stack_status` | `StatusRecovers` | an error on the current revision stays after its cause is gone |

Some properties of the passing runs carry a condition, and dropping it shows why it is there:

| property without its condition | behaviour that breaks it |
|---|---|
| `LoopsImplyCurrent` on a node that was a worker; `WorkerStopsLoops` | a demoted manager resets `current` and sends nothing (`cli/leader.go:159`), its loops keep running |
| `ServedStoreDecrypts` without `Calm` | an unreachable Swarm lets a daemon serve whatever its data dir holds, half a restore included |
| `RevisionSound`, `KitsOnlyGrow` without `Calm` | a daemon that lost leadership keeps publishing and recording kits of its own |
| `CurrentIsLatest` without `env.serial` | ids are handed out before the record |
| `NoLeftovers` without `env.serial` | a late apply of an older revision leaves services that drift detection ignores |

## 4. Bounds

`maxOps` and `maxFaults` of `ControlPlane`'s settings, `maxMishaps`, `maxClock` and `maxInputs` of `StackDeploy`'s, and `MaxRevs`
cap what would grow forever. Two managers are enough
for a failover and for the return of the old leader; two writes, so that one can be in a kit and one not yet;
two faults, so that a second failure meets a half-done recovery. `keep = 1` makes pruning remove kits a
restore has already listed. Two requests and the loop give three handlers in flight, two of them background
applies. The two manifests differ in a service and in the number of levels, so an apply can be cut between two
levels, and replacing one by the other leaves a service to prune. `MaxRevs = 8` is a cap that no behaviour of the
runs reaches (TLC confirms `Cardinality(revs) < MaxRevs` in all of them). One "mishap" per behaviour
keeps the faults apart; the theorems have no such bound. No symmetry is used, because the runs check liveness.

## 5. Fairness

- `Leadership`: weak fairness of the wait, the poll and the receive. The two loops have tickers, and the
  receiver returns to the channel after each value. Nothing is assumed of the Swarm.
- `ControlPlane`: weak fairness of each daemon's own steps and of its start (systemd restarts it). Elections, outages,
  crashes, failing calls and requests are not promised.
- `StackDeploy`: weak fairness of each handler and of the pass (goroutines run, the reconcile ticker fires). Edits,
  repairs, requests and mishaps are not promised; where a property needs the inputs to be back, it says so
  (`<>[]~broken`).

## 6. What is proved

The theorems hold for every value of the constants that the named assumptions allow: any number of managers,
requests, manifests, services, writes, crashes and mishaps.

**Role machine** (`LeadershipProofs`). `TypeCorrect`, `ManagerLoopsImplyCurrent`, `StandbysNeverStart`,
`SteadyLeadIsSilent`, whatever the Swarm answers. `LoopsImplyCurrent` is inductive as it stands; that a standby never
starts needs the value still in the channel (an undelivered `true` was caused by an answer that starts loops).

**Control plane, any setting** (`ControlPlaneProofs`). `RestoresAreWhole` and `NewestAlwaysKeepsItsKey` follow from
`BasicInv`: stamps name one kit each and do not exceed the clock; a restore's target is a published kit, and what
the restore has written so far is that kit's; a running snapshot has read what its step says. That a prune of the
keys keeps the key of the newest state config is a lemma about cardinalities: fewer than `keep` stamps of either
family are newer than it.

**Control plane, calm settings** (the same module). `ServedStoresDecrypt`, `RevisionsAreSound`, `KitsGrow` and
`LeaderHoldsKits` follow from `SafeHolds`, `Spec => [](Calm => SafeInv)`: one daemon at most is past the wait, hence
nobody else publishes between a promotion restore and the promoted manager's snapshots; all kits carry one key
and grow; a manager with a marker has the cluster's key and the writes of the kit the marker names; what a
snapshot has read is still in the data dir. None of the four is inductive by itself: that kits grow depends on
the publisher holding every kit, which depends on its restore having taken the newest one, which depends on no
one publishing meanwhile. Crashes, failing calls and failing writes are unrestricted here.

**Stacks** (`StackDeployProofs`). `TypeCorrect` needs `Located`: a handler at work has a manifest and is at
one of its levels. `HistoryIsKept` holds for any interleaving. `HashesAreOwn` holds for any interleaving without
undeploys, from `OwnInv`: the revision of a running apply is still recorded, with the rendering being applied; with
an undeploy the row can go, and its id can be given to another revision before the late stamp.

What is only model-checked: all liveness (`OutageFreeLeaderRunsLoops`, `FollowerStopsLoops`, `WholeKitIsServed`,
`Converges`, `SettlesDown`, `SerialUndeployIsWhole`, `NoLeftovers`), since the prover does not handle fairness and
`ENABLED`; and `CurrentIsLatest` and `SerialSyncAppliesLatest`, which speak of handlers that do not overlap.

## 7. Running it

    tlc -workers 2 -config ControlPlane_kits.cfg MCControlPlane
    tlc -workers 2 -config StackDeploy_handlers.cfg MCStackDeploy
    tlapm ControlPlaneProofs.tla

A configuration belongs to the module its name begins with, or to that module's `MC` module. A run takes from a
second to about three minutes, the proofs of `ControlPlane` about ten.

## 8. Plan

Done: the role machine, the survivor kit, the stack pipeline with the app part of the loop. In order of importance:

1. `StorageMove`: pins (`ResolvePlacement`, `PersistAssignment`), `MoveWithOptions` step by step, the failover goroutine with its
   cooldown and marker, node failures, operator moves. Wanted: a stack's services and its newest data end up on the
   same node; a move never reverts a deploy; one failover at a time; a marker is set exactly for an unacknowledged failover.
   To be composed with `StackDeploy`, whose pipeline a move ends in.
2. `BackupAgent`: the run lock, freeze, snapshot, thaw, archive, verify, ship, prune and retention, with cancellation at each step and two
   runs. Wanted: the volume is thawed in the end; no step removes the last good copy of a stack; two runs never overlap.
   The retention choice as an operator checked against a reference.
3. `Webhook`: the retry phase against the response budget. Wanted: one delivery row per accepted request, the row tells the real
   outcome, a retry does not record a second revision. An abstract specification (one request, one outcome) that the detailed one
   implements.
4. An abstract `DesiredState` (a versioned register with restore) that `ControlPlane` implements under the assumptions of `SafeInv`; the
   refinement checked by TLC and its step proved.
5. `PlatformUpdate`: `cluster.Update` as compare, repair and redeploy steps with crashes.
6. Configs and secrets: version history, mirrors and the heal pass, replacing the abstract `inputs` of `StackDeploy`.
7. `ServiceLevels`: the depends_on levels of a manifest against a reference definition.
8. In `ControlPlane`: a clock per manager, the tarball archive, the copy of `data.db` in steps.
