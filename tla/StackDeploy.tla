----------------------------- MODULE StackDeploy -----------------------------
(***************************************************************************)
(* One application stack: its rows in the store (store/stacks.go), its     *)
(* services in the Swarm, and the handlers that change the two without a   *)
(* lock between them: deploy, sync, rollback and undeploy                  *)
(* (stacks/deploy.go) and the app part of the reconcile pass               *)
(* (reconcile/reconcile.go).                                               *)
(*                                                                         *)
(* A rendering is what the compose file depends on: the manifest, the      *)
(* version of the configs and secrets it was resolved against, and the     *)
(* version of the config files it mounts.  It stands for its own hash;     *)
(* Unhashed is the empty hash and the empty label.                         *)
(*                                                                         *)
(*   env        the setting                                                *)
(*   clock      unix seconds, the candidate for the next revision id       *)
(*   inputs     version of the configs and secrets;  broken: one is gone   *)
(*   row        the stacks row, current revision 0 when there is none      *)
(*   revs       the stack_revisions rows                                   *)
(*   errors     last_error: revisions of the failures, newest first        *)
(*   status     the stack_status row                                       *)
(*   up, label  the stack's services in the Swarm, their rendered-hash     *)
(*   pc, kind, src, repo, ren, tag, rev, level, saved                      *)
(*              the handlers in flight and their locals                    *)
(*   saw, told  the reconciler's st.CurrentRevision and lastSyncErrs       *)
(***************************************************************************)
EXTENDS Integers, Sequences, FiniteSets

CONSTANTS
  Job,            \* the requests of operators and webhooks
  Loop,           \* the reconcile loop
  Source,         \* manifests
  Levels,         \* the depends_on levels of each manifest
  Service,        \* service names
  Repo, NoRepo,   \* repositories; a deploy without provenance
  NoSource,       \* no manifest
  ErrorLimit,     \* StackErrorHistoryLimit
  MaxRevs,        \* bound on the revisions
  Settings        \* the circumstances to look at, one of which holds throughout:
                  \*   jobs, repos  who asks, for which repositories
                  \*   ops          the requests that are made
                  \*   serial       one handler at a time
                  \*   mishaps      what may go wrong around the handlers
                  \*   maxMishaps, maxClock, maxInputs  bounds

ASSUME ProcAssumption == Loop \notin Job
ASSUME SourceAssumption ==
  /\ NoSource \notin Source /\ NoRepo \notin Repo
  /\ Levels \in [Source -> Seq(SUBSET Service)]
  /\ \A s \in Source : Len(Levels[s]) > 0
ASSUME StackBounds == ErrorLimit \in Nat \ {0} /\ MaxRevs \in Nat
ASSUME SettingsAssumption ==
  Settings \subseteq
    [jobs : SUBSET Job, repos : SUBSET Repo,
     ops : SUBSET {"deploy", "sync", "rollback", "undeploy"}, serial : BOOLEAN,
     mishaps : SUBSET {"break", "drift", "fault", "crash"},
     maxMishaps : Nat, maxClock : Nat, maxInputs : Nat]

VARIABLES env, clock, inputs, broken, mishaps,
          row, revs, errors, status, up, label,
          pc, kind, src, repo, ren, tag, rev, level, saved, saw, told

world    == <<clock, inputs, broken>>
store    == <<row, revs, errors, status>>
swarm    == <<up, label>>
request  == <<kind, src, repo>>
locals   == <<ren, tag, rev, level, saved>>
loop     == <<saw, told>>
state    == <<world, mishaps, store, swarm, pc, request, locals, loop>>
vars     == <<env, state>>

Proc      == Job \cup {Loop}
MaybeRepo == Repo \cup {NoRepo}
Rendering == [src : Source \cup {NoSource}, vals : Nat, conf : Nat]
Revision  == [id : Nat, src : Source, ren : Rendering, stamp : Rendering]
Unhashed  == [src |-> NoSource, vals |-> 0, conf |-> 0]
NoRow     == [current |-> 0, repo |-> NoRepo]
Location  == {"idle", "load", "compare", "live", "check", "translate", "assign", "record",
              "prepare", "apply", "prune", "stamp", "fail", "failing", "failed",
              "tell", "telling", "mark", "remove", "purge", "delete", "health", "done"}

TypeOK ==
  /\ env \in Settings
  /\ clock \in Nat /\ inputs \in Nat /\ broken \in BOOLEAN
  /\ mishaps \in Nat
  /\ row \in [current : Nat, repo : MaybeRepo]
  /\ revs \subseteq Revision
  /\ errors \in Seq(Nat)
  /\ status \in {"none", "error", "unknown", "healthy"}
  /\ up \subseteq Service /\ label \in [Service -> Rendering]
  /\ pc \in [Proc -> Location]
  /\ kind \in [Proc -> {"deploy", "sync", "rollback", "undeploy"}]
  /\ src \in [Proc -> Source \cup {NoSource}]
  /\ repo \in [Proc -> MaybeRepo]
  /\ ren \in [Proc -> Rendering] /\ tag \in [Proc -> Rendering]
  /\ rev \in [Proc -> Nat] /\ level \in [Proc -> Nat]
  /\ saved \in [Proc -> Seq(Nat)]
  /\ saw \in Nat /\ told \in BOOLEAN

-----------------------------------------------------------------------------
(* The operators the handlers use. *)

HasStack == row.current # 0

Ids == {r.id : r \in revs}

(* Store.ListRevisions(1): r is the newest revision. *)
IsLatest(r) == r \in revs /\ \A q \in revs : q.id <= r.id

Latest == CHOOSE r \in revs : IsLatest(r)

(* Store.NextFreeRevision: i is the smallest unused id from the clock on. *)
NextFreeRevision(i) == i \notin Ids /\ clock .. i - 1 \subseteq Ids

(* renderStamped, with what the store holds now. *)
Render(s) == [src |-> s, vals |-> inputs, conf |-> inputs]

Services(s) == UNION {Levels[s][i] : i \in DOMAIN Levels[s]}

(* Mutant: a service without the label is taken to be in sync. *)
InSyncUnlabelled(want) ==
  /\ Services(want.src) \subseteq up
  /\ \A s \in Services(want.src) : label[s] \in {Unhashed, want}

(* stackdrift.InSync. *)
InSync(want) ==
  LET names     == Services(want.src)
      labelled  == {s \in names \cap up : label[s] # Unhashed}
  IN /\ names \subseteq up
     /\ \A s \in labelled : label[s] = want
     /\ labelled # {} /\ labelled = names

(* applyToSwarm: an ordered deploy mounts the config files as they are when  *)
(* it starts, one level mounts them as they were rendered.                   *)
LabelOf(r) == IF Len(Levels[r.src]) <= 1 THEN r ELSE [r EXCEPT !.conf = inputs]

(* Store.RecordStackError: prepended to what was read, capped. *)
Recorded(old, id) == SubSeq(<<id>> \o old, 1, IF Len(old) < ErrorLimit THEN Len(old) + 1 ELSE ErrorLimit)

(* Mutant: a stack without services has no status. *)
StackStatusUnset ==
  IF \E i \in DOMAIN errors : errors[i] = row.current THEN "error"
  ELSE IF up = {} THEN "" ELSE "healthy"

(* reconcile.StackStatus, the services' own health left out. *)
StackStatus ==
  IF \E i \in DOMAIN errors : errors[i] = row.current THEN "error"
  ELSE IF up = {} THEN "unknown" ELSE "healthy"

(* A pass of the loop is over when it is idle again. *)
Active(p) == pc[p] \notin (IF p = Loop THEN {"idle"} ELSE {"idle", "done", "failed"})

MayStart == env.serial => \A p \in Proc : ~Active(p)

Goto(p, where) == pc' = [pc EXCEPT ![p] = where]

Set(f, p, value) == [f EXCEPT ![p] = value]

(* A step of the pipeline fails; only Rollback leaves no error on the stack. *)
Fails(p) == Goto(p, IF kind[p] = "rollback" THEN "failed" ELSE "fail")

(* Something goes wrong, maxMishaps times at most. *)
Mishap(what) == what \in env.mishaps /\ mishaps < env.maxMishaps /\ mishaps' = mishaps + 1

(* The handler needs what it rendered no longer. *)
Drop(p) ==
  /\ src' = Set(src, p, NoSource)
  /\ ren' = Set(ren, p, Unhashed)
  /\ tag' = Set(tag, p, Unhashed)
  /\ level' = Set(level, p, 0)

Init ==
  /\ env \in Settings
  /\ clock = 1 /\ inputs = 1 /\ broken = FALSE
  /\ mishaps = 0
  /\ row = NoRow /\ revs = {} /\ errors = <<>> /\ status = "none"
  /\ up = {} /\ label = [s \in Service |-> Unhashed]
  /\ pc = [p \in Proc |-> "idle"]
  /\ kind = [p \in Proc |-> "sync"]
  /\ src = [p \in Proc |-> NoSource] /\ repo = [p \in Proc |-> NoRepo]
  /\ ren = [p \in Proc |-> Unhashed] /\ tag = [p \in Proc |-> Unhashed]
  /\ rev = [p \in Proc |-> 0] /\ level = [p \in Proc |-> 0]
  /\ saved = [p \in Proc |-> <<>>]
  /\ saw = 0 /\ told = FALSE

-----------------------------------------------------------------------------
(* The world around the daemon. *)

Tick ==
  /\ clock < env.maxClock
  /\ clock' = clock + 1
  /\ UNCHANGED <<inputs, broken, mishaps, store, swarm, pc, request, locals, loop>>

(* An operator edits a config or rotates a secret. *)
EditInputs ==
  /\ inputs < env.maxInputs
  /\ inputs' = inputs + 1
  /\ UNCHANGED <<clock, broken, mishaps, store, swarm, pc, request, locals, loop>>

(* An operator deletes a config the manifest refers to, and restores it. *)
BreakInputs ==
  /\ ~broken /\ Mishap("break")
  /\ broken' = TRUE
  /\ UNCHANGED <<clock, inputs, store, swarm, pc, request, locals, loop>>

RepairInputs ==
  /\ broken
  /\ broken' = FALSE
  /\ UNCHANGED <<clock, inputs, mishaps, store, swarm, pc, request, locals, loop>>

(* A service is removed, or its labels are, behind the daemon's back. *)
Drift(s) ==
  /\ s \in up /\ Mishap("drift")
  /\ up' \in {up, up \ {s}}
  /\ label' = Set(label, s, Unhashed)
  /\ UNCHANGED <<world, store, pc, request, locals, loop>>

(* The daemon dies with every handler and background apply in it. *)
Crash ==
  /\ Mishap("crash")
  /\ \E p \in Proc : Active(p)
  /\ pc' = [p \in Proc |-> IF p = Loop THEN "idle" ELSE IF Active(p) THEN "done" ELSE pc[p]]
  /\ told' = FALSE
  /\ UNCHANGED <<world, store, swarm, request, locals, saw>>

-----------------------------------------------------------------------------
(* Requests. *)

(* Request j may be made now. *)
May(j, op) == j \in env.jobs /\ op \in env.ops /\ pc[j] = "idle" /\ MayStart

(* DeployAsync.  Deploy, for a caller that waits, differs only in who sees   *)
(* an error. *)
RequestDeploy(j, s, r) ==
  /\ May(j, "deploy")
  /\ kind' = Set(kind, j, "deploy")
  /\ src' = Set(src, j, s)
  /\ repo' = Set(repo, j, r)
  /\ Goto(j, "check")
  /\ UNCHANGED <<world, mishaps, store, swarm, locals, loop>>

RequestSync(j) ==
  /\ May(j, "sync")
  /\ Goto(j, "load")
  /\ UNCHANGED <<world, mishaps, store, swarm, request, locals, loop>>

(* Rollback loads the manifest of the revision it is given. *)
RequestRollback(j, r) ==
  /\ May(j, "rollback")
  /\ kind' = Set(kind, j, "rollback")
  /\ src' = Set(src, j, r.src)
  /\ Goto(j, "translate")
  /\ UNCHANGED <<world, mishaps, store, swarm, repo, locals, loop>>

(* Undeploy, unknown stacks refused. *)
RequestUndeploy(j) ==
  /\ May(j, "undeploy")
  /\ HasStack
  /\ kind' = Set(kind, j, "undeploy")
  /\ Goto(j, "remove")
  /\ UNCHANGED <<world, mishaps, store, swarm, src, repo, locals, loop>>

-----------------------------------------------------------------------------
(* Sync, up to the point where it redeploys or returns. *)

(* Mutant: the revisions are listed oldest first. *)
SyncLoadOldest(p) ==
  /\ pc[p] = "load"
  /\ \/ revs = {} /\ Goto(p, "failed") /\ UNCHANGED <<src, ren>>
     \/ \E first \in revs :
          /\ \A q \in revs : first.id <= q.id
          /\ src' = Set(src, p, first.src)
          /\ ren' = Set(ren, p, first.stamp)
          /\ Goto(p, "compare")
  /\ rev' = Set(rev, p, 0)
  /\ UNCHANGED <<world, mishaps, store, swarm, kind, repo, tag, level, saved, loop>>

SyncLoad(p) ==
  /\ pc[p] = "load"
  /\ \/ /\ revs = {}
        /\ Goto(p, "failed")
        /\ UNCHANGED <<src, ren>>
     \/ \E r \in revs :
          /\ IsLatest(r)
          /\ src' = Set(src, p, r.src)
          /\ ren' = Set(ren, p, r.stamp)
          /\ Goto(p, "compare")
  /\ rev' = Set(rev, p, 0)
  /\ UNCHANGED <<world, mishaps, store, swarm, kind, repo, tag, level, saved, loop>>

(* The stored hash against a fresh render; what cannot be rendered goes the  *)
(* way of what differs.                                                      *)
SyncCompare(p) ==
  /\ pc[p] = "compare"
  /\ Goto(p, IF ~broken /\ ren[p] = Render(src[p]) THEN "live" ELSE "check")
  /\ UNCHANGED <<world, mishaps, store, swarm, request, locals, loop>>

(* Mutant: the stored hash is the only check. *)
SyncLiveTrusted(p) ==
  /\ pc[p] = "live"
  /\ Goto(p, "done")
  /\ UNCHANGED <<world, mishaps, store, swarm, request, locals, loop>>

(* The render against the live Swarm. *)
SyncLive(p) ==
  /\ pc[p] = "live"
  /\ Goto(p, IF InSync(ren[p]) THEN "done" ELSE "check")
  /\ UNCHANGED <<world, mishaps, store, swarm, request, locals, loop>>

(* "a transient docker error must not cause a redeploy loop". *)
SyncLiveFails(p) ==
  /\ pc[p] = "live"
  /\ Mishap("fault")
  /\ Goto(p, "done")
  /\ UNCHANGED <<world, store, swarm, request, locals, loop>>

-----------------------------------------------------------------------------
(* The pipeline of deploy and Rollback. *)

(* An app name belongs to one repository. *)
Check(p) ==
  /\ pc[p] = "check"
  /\ Goto(p, IF HasStack /\ row.repo # NoRepo /\ repo[p] \notin {NoRepo, row.repo}
             THEN "fail" ELSE "translate")
  /\ UNCHANGED <<world, mishaps, store, swarm, request, locals, loop>>

Translate(p) ==
  /\ pc[p] = "translate"
  /\ \/ broken /\ Fails(p) /\ UNCHANGED ren
     \/ ~broken /\ ren' = Set(ren, p, Render(src[p])) /\ Goto(p, "assign")
  /\ UNCHANGED <<world, mishaps, store, swarm, request, tag, rev, level, saved, loop>>

(* Mutant: a redeploy reuses the current revision's id. *)
AssignCurrent(p) ==
  /\ pc[p] = "assign"
  /\ Cardinality(revs) < MaxRevs
  /\ \E i \in clock .. clock + MaxRevs :
       /\ NextFreeRevision(i)
       /\ rev' = Set(rev, p, IF HasStack THEN row.current ELSE i)
  /\ Goto(p, "record")
  /\ UNCHANGED <<world, mishaps, store, swarm, request, ren, tag, level, saved, loop>>

Assign(p) ==
  /\ pc[p] = "assign"
  /\ Cardinality(revs) < MaxRevs
  /\ \E i \in clock .. clock + MaxRevs :
       NextFreeRevision(i) /\ rev' = Set(rev, p, i)
  /\ Goto(p, "record")
  /\ UNCHANGED <<world, mishaps, store, swarm, request, ren, tag, level, saved, loop>>

(* Mutant: the revision is inserted, the existing stack row stays. *)
RecordNoPointer(p) ==
  /\ pc[p] = "record"
  /\ rev[p] \notin Ids
  /\ revs' = revs \cup {[id |-> rev[p], src |-> src[p], ren |-> ren[p], stamp |-> Unhashed]}
  /\ row' = IF HasStack THEN row ELSE [current |-> rev[p], repo |-> repo[p]]
  /\ Goto(p, "prepare")
  /\ UNCHANGED <<world, mishaps, errors, status, swarm, request, locals, loop>>

(* Mutant: INSERT OR REPLACE. *)
RecordReplaces(p) ==
  /\ pc[p] = "record"
  /\ revs' = {r \in revs : r.id # rev[p]}
               \cup {[id |-> rev[p], src |-> src[p], ren |-> ren[p], stamp |-> Unhashed]}
  /\ row' = [current |-> rev[p], repo |-> IF repo[p] = NoRepo THEN row.repo ELSE repo[p]]
  /\ Goto(p, "prepare")
  /\ UNCHANGED <<world, mishaps, errors, status, swarm, request, locals, loop>>

(* RecordDeploy: one transaction; a taken id violates the primary key. *)
Record(p) ==
  /\ pc[p] = "record"
  /\ \/ /\ rev[p] \in Ids
        /\ Fails(p)
        /\ UNCHANGED <<row, revs>>
     \/ /\ rev[p] \notin Ids
        /\ revs' = revs \cup {[id |-> rev[p], src |-> src[p], ren |-> ren[p], stamp |-> Unhashed]}
        /\ row' = [current |-> rev[p], repo |-> IF repo[p] = NoRepo THEN row.repo ELSE repo[p]]
        /\ Goto(p, "prepare")
  /\ UNCHANGED <<world, mishaps, errors, status, swarm, request, locals, loop>>

(* applyToSwarm up to its first docker call. *)
Prepare(p) ==
  /\ pc[p] = "prepare"
  /\ \/ /\ broken /\ Len(Levels[src[p]]) > 1
        /\ Fails(p)
        /\ UNCHANGED <<tag, level>>
     \/ /\ ~(broken /\ Len(Levels[src[p]]) > 1)
        /\ tag' = Set(tag, p, LabelOf(ren[p]))
        /\ level' = Set(level, p, 1)
        /\ Goto(p, "apply")
  /\ UNCHANGED <<world, mishaps, store, swarm, request, ren, rev, saved, loop>>

(* The volume directories, a strict pre-deploy backup or a config object     *)
(* cannot be made.                                                           *)
PrepareFails(p) ==
  /\ pc[p] = "prepare"
  /\ Mishap("fault")
  /\ Fails(p)
  /\ UNCHANGED <<world, store, swarm, request, locals, loop>>

(* docker stack deploy of one level, and the wait for it to be healthy. *)
DeployServices(S, r) ==
  /\ up' = up \cup S
  /\ label' = [s \in Service |-> IF s \in S THEN r ELSE label[s]]

DeployLevel(p) ==
  /\ pc[p] = "apply"
  /\ DeployServices(Levels[src[p]][level[p]], tag[p])
  /\ level' = Set(level, p, level[p] + 1)
  /\ Goto(p, IF level[p] = Len(Levels[src[p]]) THEN "prune" ELSE "apply")
  /\ UNCHANGED <<world, mishaps, store, request, ren, tag, rev, saved, loop>>

(* It fails, or the level does not become healthy in time. *)
DeployLevelFails(p) ==
  /\ pc[p] = "apply"
  /\ Mishap("fault")
  /\ \E S \in SUBSET Levels[src[p]][level[p]] : DeployServices(S, tag[p])
  /\ Fails(p)
  /\ UNCHANGED <<world, store, request, locals, loop>>

(* Mutant: services dropped from the manifest stay. *)
PruneNothing(p) ==
  /\ pc[p] = "prune"
  /\ Goto(p, "stamp")
  /\ UNCHANGED <<world, mishaps, store, swarm, request, locals, loop>>

(* pruneStackServices, with the whole compose. *)
Prune(p) ==
  /\ pc[p] = "prune"
  /\ up' = up \cap Services(src[p])
  /\ label' = [s \in Service |-> IF s \in Services(src[p]) THEN label[s] ELSE Unhashed]
  /\ Goto(p, "stamp")
  /\ UNCHANGED <<world, mishaps, store, request, locals, loop>>

(* It stops at a service, or one level's forced restarts after it fail. *)
PruneFails(p) ==
  /\ pc[p] = "prune"
  /\ Mishap("fault")
  /\ \E gone \in SUBSET (up \ Services(src[p])) :
       /\ up' = up \ gone
       /\ label' = [s \in Service |-> IF s \in gone THEN Unhashed ELSE label[s]]
  /\ Fails(p)
  /\ UNCHANGED <<world, store, request, locals, loop>>

(* Mutant: the hash goes to the revision that is current by now. *)
StampCurrent(p) ==
  /\ pc[p] = "stamp"
  /\ revs' = {IF r.id = row.current THEN [r EXCEPT !.stamp = ren[p]] ELSE r : r \in revs}
  /\ Goto(p, "done")
  /\ Drop(p)
  /\ UNCHANGED <<world, mishaps, row, errors, status, swarm, kind, repo, rev, saved, loop>>

(* SetRevisionRenderedHash; the revision may be gone by now. *)
Stamp(p) ==
  /\ pc[p] = "stamp"
  /\ revs' = {IF r.id = rev[p] THEN [r EXCEPT !.stamp = ren[p]] ELSE r : r \in revs}
  /\ Goto(p, IF rev[p] \in Ids \/ kind[p] = "deploy" THEN "done"
             ELSE IF kind[p] = "sync" THEN "fail" ELSE "failed")
  /\ Drop(p)
  /\ UNCHANGED <<world, mishaps, row, errors, status, swarm, kind, repo, rev, saved, loop>>

-----------------------------------------------------------------------------
(* RecordStackError: last_error is read, then written back whole. *)

RecordErrorRead(p) ==
  /\ pc[p] \in {"fail", "tell"}
  /\ saved' = Set(saved, p, errors)
  /\ Goto(p, IF pc[p] = "fail" THEN (IF HasStack THEN "failing" ELSE "failed")
             ELSE (IF HasStack THEN "telling" ELSE "mark"))
  /\ UNCHANGED <<world, mishaps, store, swarm, request, ren, tag, rev, level, loop>>

RecordErrorWrite(p) ==
  /\ pc[p] \in {"failing", "telling"}
  /\ errors' = IF HasStack THEN Recorded(saved[p], rev[p]) ELSE errors
  /\ saved' = Set(saved, p, <<>>)
  /\ Goto(p, IF pc[p] = "failing" THEN "failed" ELSE "mark")
  /\ UNCHANGED <<world, mishaps, row, revs, status, swarm, request, ren, tag, rev, level, loop>>

-----------------------------------------------------------------------------
(* Undeploy. *)

UndeployRemove(p) ==
  /\ pc[p] = "remove"
  /\ up' = {}
  /\ label' = [s \in Service |-> Unhashed]
  /\ Goto(p, "purge")
  /\ UNCHANGED <<world, mishaps, store, request, locals, loop>>

(* Mutant: the record is deleted although `docker stack rm` failed. *)
UndeployRemoveIgnored(p) ==
  /\ pc[p] = "remove"
  /\ Mishap("fault")
  /\ Goto(p, "purge")
  /\ UNCHANGED <<world, store, swarm, request, locals, loop>>

UndeployRemoveFails(p) ==
  /\ pc[p] = "remove"
  /\ Mishap("fault")
  /\ Goto(p, "failed")
  /\ UNCHANGED <<world, store, swarm, request, locals, loop>>

(* DeleteStack first deletes the configs and secrets of the stack's own; a   *)
(* manifest that refers to them cannot be rendered until they are back.      *)
UndeployPurge(p) ==
  /\ pc[p] = "purge"
  /\ broken' \in {broken, TRUE}
  /\ Goto(p, "delete")
  /\ UNCHANGED <<clock, inputs, mishaps, store, swarm, request, locals, loop>>

(* Then the row, and with it the revisions. *)
UndeployDelete(p) ==
  /\ pc[p] = "delete"
  /\ row' = NoRow /\ revs' = {} /\ errors' = <<>>
  /\ Goto(p, IF HasStack THEN "done" ELSE "failed")
  /\ UNCHANGED <<world, mishaps, status, swarm, request, locals, loop>>

-----------------------------------------------------------------------------
(* The reconcile pass: ListStacks, Sync, handleSyncError, snapshotHealth. *)

PassStart ==
  /\ pc[Loop] = "idle" /\ MayStart
  /\ saw' = row.current
  /\ Goto(Loop, IF HasStack THEN "load" ELSE "health")
  /\ UNCHANGED <<world, mishaps, store, swarm, request, locals, told>>

PassSynced ==
  /\ pc[Loop] = "done"
  /\ Goto(Loop, "health")
  /\ UNCHANGED <<world, mishaps, store, swarm, request, locals, loop>>

(* A failure is recorded, on the revision the pass started from, when its    *)
(* text is not the last one recorded for this stack.  Docker's output is     *)
(* part of the text, so whether a later failure repeats it is left open.     *)
PassFailed ==
  /\ pc[Loop] = "failed"
  /\ \/ /\ told
        /\ Goto(Loop, "health")
        /\ UNCHANGED rev
     \/ /\ rev' = Set(rev, Loop, saw)
        /\ Goto(Loop, "tell")
  /\ told' = TRUE
  /\ UNCHANGED <<world, mishaps, store, swarm, request, ren, tag, level, saved, saw>>

PassMarked ==
  /\ pc[Loop] = "mark"
  /\ status' = "error"
  /\ Goto(Loop, "health")
  /\ UNCHANGED <<world, mishaps, row, revs, errors, swarm, request, locals, loop>>

EndPass ==
  /\ Goto(Loop, "idle")
  /\ Drop(Loop)
  /\ rev' = Set(rev, Loop, 0)
  /\ saw' = 0

SnapshotHealth ==
  /\ pc[Loop] = "health"
  /\ status' = IF HasStack THEN StackStatus ELSE "none"
  /\ EndPass
  /\ UNCHANGED <<world, mishaps, row, revs, errors, swarm, kind, repo, saved, told>>

(* The services cannot be listed. *)
SnapshotFails ==
  /\ pc[Loop] = "health"
  /\ Mishap("fault")
  /\ status' = IF HasStack THEN "unknown" ELSE "none"
  /\ EndPass
  /\ UNCHANGED <<world, row, revs, errors, swarm, kind, repo, saved, told>>

-----------------------------------------------------------------------------
Request(j) ==
  \/ \E s \in Source, r \in env.repos \cup {NoRepo} : RequestDeploy(j, s, r)
  \/ RequestSync(j)
  \/ \E r \in revs : RequestRollback(j, r)
  \/ RequestUndeploy(j)

(* What a handler does next when no call of it fails. *)
Advance(p) ==
  \/ SyncLoad(p) \/ SyncCompare(p) \/ SyncLive(p)
  \/ Check(p) \/ Translate(p) \/ Assign(p) \/ Record(p)
  \/ Prepare(p) \/ DeployLevel(p) \/ Prune(p) \/ Stamp(p)
  \/ RecordErrorRead(p) \/ RecordErrorWrite(p)
  \/ UndeployRemove(p) \/ UndeployPurge(p) \/ UndeployDelete(p)

Fault(p) ==
  \/ SyncLiveFails(p) \/ PrepareFails(p) \/ DeployLevelFails(p) \/ PruneFails(p)
  \/ UndeployRemoveFails(p)

Pass == PassStart \/ PassSynced \/ PassFailed \/ PassMarked \/ SnapshotHealth

Next ==
  /\ UNCHANGED env
  /\ \/ Tick \/ EditInputs \/ BreakInputs \/ RepairInputs \/ Crash
     \/ \E s \in Service : Drift(s)
     \/ \E j \in Job : Request(j)
     \/ \E p \in Proc : Advance(p) \/ Fault(p)
     \/ Pass \/ SnapshotFails

(* Goroutines run and the reconcile ticker fires.  Nothing else is promised. *)
Fairness == WF_state(Pass) /\ \A p \in Proc : WF_state(Advance(p))

Spec == Init /\ [][Next]_vars /\ Fairness

-----------------------------------------------------------------------------
(* The reconcile loop brings the Swarm to the newest manifest, whatever was  *)
(* interrupted, failed, drifted or applied in the wrong order before: every  *)
(* service of the newest revision carries the hash of a fresh render         *)
(* (runPass, Sync, and the hash that is stamped only after an apply).        *)
Converges ==
  <>[]~broken =>
    <>[](HasStack => \A s \in Services(Latest.src) : s \in up /\ label[s] = Render(Latest.src))

(* The loop stops redeploying: "an infinite redeploy loop" is what           *)
(* applyToSwarm's single hash and Sync's no-op are there to avoid.           *)
SettlesDown ==
  <>[]~broken => <>[](\A p \in Proc : pc[p] \notin {"translate", "assign", "record"})

(* A revision carries no other hash than its own: "RenderedHash is           *)
(* sha256(rendered_yaml)" (StackRevision), although the stamp is written     *)
(* later, by a background apply, under a revision id.                        *)
HashIsOwn == \A r \in revs : r.stamp \in {Unhashed, r.ren}

(* A recorded revision keeps its manifest and its rendering as long as the   *)
(* stack exists: Rollback "re-applies a stored revision as a NEW revision so *)
(* the audit trail records both deploys".                                    *)
AuditTrail ==
  [][\A r \in revs : row'.current # 0 =>
       \E q \in revs' : q.id = r.id /\ q.src = r.src /\ q.ren = r.ren]_vars

(* Handlers that do not overlap keep current_revision on the newest          *)
(* revision, the one Sync takes for the desired state, although the daemon   *)
(* may die or a call fail between the steps: "the parent stacks row tracks   *)
(* which revision is currently live" (0003_stacks.sql).                      *)
CurrentIsLatest == env.serial /\ HasStack => row.current = Latest.id

(* What a Sync records is the newest manifest of a stack that exists.        *)
SyncRecordsLatest ==
  \A p \in Proc :
    kind[p] = "sync" /\ Record(p) /\ revs' # revs
      => revs # {} /\ Latest.src = src[p]

(* "Sync re-runs the deploy pipeline for an existing stack from its latest   *)
(* stored source manifest".                                                  *)
SyncAppliesLatest == [][SyncRecordsLatest]_vars

(* It does when no other handler runs between its load and its record.       *)
SerialSyncAppliesLatest == [][env.serial => SyncRecordsLatest]_vars

(* "Undeploy removes a deployed stack from the swarm and deletes its         *)
(* record": a stack that stays deleted has no services left.                 *)
UndeployedStackIsGone == <>[]~HasStack => <>[](up = {})

(* It has none when no background apply overlaps the undeploy, although      *)
(* `docker stack rm` may fail or the daemon die half-way (Undeploy).         *)
SerialUndeployIsWhole == <>[]~HasStack => <>[](env.serial => up = {})

(* "services dropped from the manifest are still removed" (applyToSwarm):    *)
(* whichever level or prune failed before, handlers that do not overlap      *)
(* leave the Swarm without services the newest manifest does not have.       *)
NoLeftovers ==
  <>[]~broken => <>[](env.serial /\ HasStack => up \subseteq Services(Latest.src))

(* "an app name may only be deployed from ONE source repo" (deploy): no      *)
(* deploy records a stack of one repository over that of another.            *)
OneRepo ==
  [][row.repo # NoRepo /\ row'.repo # NoRepo => row'.repo = row.repo]_vars

(* A stack that works again is shown as such: "a successful apply ... clears *)
(* the surfaced latest error" (StackErrorEntry).                             *)
StatusRecovers == <>[]~broken => <>[](HasStack => status = "healthy")

=============================================================================
