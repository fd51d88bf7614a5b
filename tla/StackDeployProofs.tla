-------------------------- MODULE StackDeployProofs --------------------------
(***************************************************************************)
(* Proofs about StackDeploy, for every set of jobs, manifests and bounds:  *)
(* what the handlers guarantee, and on which condition.                    *)
(*                                                                         *)
(* Whatever the interleaving and the mishaps, history is never rewritten,  *)
(* and a revision's hash is its own as long as no stack is deleted.        *)
(***************************************************************************)
EXTENDS StackDeploy, TLAPS

Working == {"compare", "live", "check", "translate", "assign", "record",
            "prepare", "apply", "prune", "stamp"}

(* A handler that works on a manifest has one, and is at one of its levels. *)
Located ==
  \A p \in Proc :
    /\ pc[p] \in Working => src[p] \in Source
    /\ pc[p] = "apply" => level[p] \in 1 .. Len(Levels[src[p]])

Typed == TypeOK /\ Located

LEMMA UnhashedTyped == Unhashed \in Rendering
  BY DEF Unhashed, Rendering

LEMMA RenderTyped == ASSUME TypeOK, NEW s \in Source \cup {NoSource}
                     PROVE  Render(s) \in Rendering
  BY DEF Render, Rendering, TypeOK

LEMMA LabelTyped == ASSUME TypeOK, NEW r \in Rendering
                    PROVE  LabelOf(r) \in Rendering
  BY Zenon DEF LabelOf, Rendering, TypeOK

LEMMA RevisionFields == ASSUME NEW r \in Revision
                        PROVE  r.id \in Nat /\ r.src \in Source /\ r.ren \in Rendering /\ r.stamp \in Rendering
  BY DEF Revision

LEMMA NewRevision == ASSUME NEW i \in Nat, NEW s \in Source, NEW r \in Rendering
                     PROVE  [id |-> i, src |-> s, ren |-> r, stamp |-> Unhashed] \in Revision
  BY UnhashedTyped DEF Revision

LEMMA StampedRevision == ASSUME NEW r \in Revision, NEW h \in Rendering
                         PROVE  [r EXCEPT !.stamp = h] \in Revision
  BY DEF Revision

LEMMA LevelTyped == ASSUME NEW s \in Source, NEW i \in 1 .. Len(Levels[s])
                    PROVE  Levels[s][i] \subseteq Service /\ Len(Levels[s]) \in Nat
  BY SourceAssumption

LEMMA LevelsExist == ASSUME NEW s \in Source
                     PROVE  Len(Levels[s]) \in Nat /\ 1 \in 1 .. Len(Levels[s])
  BY SourceAssumption

LEMMA RecordedTyped == ASSUME NEW old \in Seq(Nat), NEW i \in Nat
                       PROVE  Recorded(old, i) \in Seq(Nat)
<1> DEFINE new == <<i>> \o old
<1>1. new \in Seq(Nat) /\ Len(new) = Len(old) + 1 /\ Len(old) \in Nat
  OBVIOUS
<1>2. ASSUME NEW n \in 1 .. Len(new) PROVE SubSeq(new, 1, n) \in Seq(Nat)
  BY <1>1
<1> HIDE DEF new
<1>3. CASE Len(old) < ErrorLimit
  BY <1>1, <1>2, <1>3, StackBounds DEF Recorded, new
<1>4. CASE ~(Len(old) < ErrorLimit)
  <2>1. ErrorLimit \in 1 .. Len(new)
    BY <1>1, <1>4, StackBounds
  <2> QED
    BY <1>2, <1>4, <2>1 DEF Recorded, new
<1> QED
  BY <1>3, <1>4

(* A step that leaves the store, the requests and the locals alone.         *)
LEMMA SwarmStep ==
  ASSUME env' = env, TypeOK, UNCHANGED <<world, store, request, locals, loop>>,
         mishaps' \in Nat, pc' \in [Proc -> Location],
         up' \subseteq Service, label' \in [Service -> Rendering]
  PROVE  TypeOK'
BY Zenon DEF TypeOK, world, store, request, locals, loop

LEMMA QuietStep ==
  ASSUME env' = env, TypeOK, UNCHANGED <<world, store, swarm, request, locals, loop>>,
         mishaps' \in Nat, pc' \in [Proc -> Location]
  PROVE  TypeOK'
<1>1. up' \subseteq Service /\ label' \in [Service -> Rendering]
  BY Zenon DEF TypeOK, swarm
<1> QED
  BY Zenon, <1>1, SwarmStep

LEMMA MishapCounted ==
  ASSUME TypeOK, NEW what, Mishap(what)
  PROVE  mishaps' = mishaps + 1 /\ mishaps' \in Nat
BY DEF TypeOK, Mishap

LEMMA TypeCrash == ASSUME env' = env, Typed, Crash PROVE Typed'
<1>1. pc' \in [Proc -> Location]
  BY DEF Typed, TypeOK, Crash, Location
<1>2. told' \in BOOLEAN
  BY Zenon DEF Crash
<1>5. mishaps' \in Nat
  BY DEF Typed, TypeOK, Crash, Mishap
<1>3. ASSUME NEW p \in Proc, pc'[p] \in Working PROVE pc[p] = pc'[p]
  BY <1>3 DEF Crash, Working
<1>4. Located'
  BY <1>3 DEF Typed, Located, Crash, Working, request, locals
<1> QED
  BY <1>1, <1>2, <1>4, <1>5 DEF Typed, TypeOK, Crash, world, store, swarm, request, locals

LEMMA TypeSyncLoad == ASSUME env' = env, NEW p \in Proc, Typed, SyncLoad(p) PROVE Typed'
<1>1. CASE revs = {}
  <2>1. /\ pc' = [pc EXCEPT ![p] = "failed"] /\ rev' = [rev EXCEPT ![p] = 0]
        /\ UNCHANGED <<src, ren, world, mishaps, store, swarm, kind, repo, tag, level, saved, loop>>
    BY <1>1 DEF SyncLoad, Goto, Set
  <2>2. rev' \in [Proc -> Nat] /\ pc' \in [Proc -> Location]
    BY <2>1 DEF Typed, TypeOK, Location
  <2>3. TypeOK'
    BY <2>1, <2>2 DEF Typed, TypeOK, world, store, swarm, loop
  <2>4. \A q \in Proc : pc'[q] \in Working => pc'[q] = pc[q]
    BY <2>1 DEF Typed, TypeOK, Working
  <2>5. Located'
    BY <2>1, <2>4 DEF Typed, Located, Working
  <2> QED
    BY <2>3, <2>5 DEF Typed
<1>2. ASSUME NEW r \in revs,
             src' = Set(src, p, r.src), ren' = Set(ren, p, r.stamp), Goto(p, "compare")
      PROVE  Typed'
  <2>1. r.src \in Source /\ r.stamp \in Rendering
    BY RevisionFields DEF Typed, TypeOK
  <2> QED
    BY <1>2, <2>1 DEF Typed, TypeOK, Located, SyncLoad, Set, Goto, Fails, Mishap, world, store, swarm, request, locals, loop, Location, Working
<1> QED
  BY <1>1, <1>2 DEF SyncLoad

LEMMA TypeTranslate == ASSUME env' = env, NEW p \in Proc, Typed, Translate(p) PROVE Typed'
<1>1. Render(src[p]) \in Rendering
  BY RenderTyped DEF Typed, TypeOK
<1>2. ren' \in [Proc -> Rendering] /\ pc' \in [Proc -> Location]
  <2>1. CASE Fails(p) /\ UNCHANGED ren
    BY <2>1 DEF Typed, TypeOK, Fails, Goto, Location
  <2>2. CASE ren' = Set(ren, p, Render(src[p])) /\ Goto(p, "assign")
    BY <1>1, <2>2 DEF Typed, TypeOK, Set, Goto, Location
  <2> QED
    BY <2>1, <2>2 DEF Translate
<1>3. Located'
  BY DEF Typed, TypeOK, Located, Translate, Fails, Goto, Working, request, locals
<1> QED
  BY <1>2, <1>3 DEF Typed, TypeOK, Translate, world, store, swarm, request, loop

LEMMA TypeRecord == ASSUME env' = env, NEW p \in Proc, Typed, Record(p) PROVE Typed'
<1>1. [id |-> rev[p], src |-> src[p], ren |-> ren[p], stamp |-> Unhashed] \in Revision
  <2>1. rev[p] \in Nat /\ src[p] \in Source /\ ren[p] \in Rendering
    BY DEF Typed, TypeOK, Located, Record, Working
  <2> QED
    BY <2>1, NewRevision
<1>2. [current |-> rev[p], repo |-> IF repo[p] = NoRepo THEN row.repo ELSE repo[p]]
        \in [current : Nat, repo : MaybeRepo]
  BY DEF Typed, TypeOK
<1>3. row' \in [current : Nat, repo : MaybeRepo] /\ revs' \subseteq Revision
  BY <1>1, <1>2 DEF Typed, TypeOK, Record
<1>4. pc' \in [Proc -> Location] /\ Located'
  <2>1. PICK at \in {"failed", "fail", "prepare"} : pc' = [pc EXCEPT ![p] = at]
    BY DEF Record, Fails, Goto
  <2>2. pc[p] = "record" /\ UNCHANGED <<request, locals>>
    BY DEF Record
  <2>3. pc' \in [Proc -> Location]
    BY <2>1 DEF Typed, TypeOK, Location
  <2>4. \A q \in Proc : pc'[q] \in Working => pc[q] \in Working
    BY <2>1, <2>2 DEF Typed, TypeOK, Working
  <2>5. \A q \in Proc : pc'[q] = "apply" => pc[q] = "apply"
    BY <2>1 DEF Typed, TypeOK
  <2>6. Located'
    BY <2>2, <2>4, <2>5 DEF Typed, Located, request, locals
  <2> QED
    BY <2>3, <2>6
<1> QED
  BY <1>3, <1>4 DEF Typed, TypeOK, Record, world, swarm, request, locals, loop

LEMMA TypePrepare == ASSUME env' = env, NEW p \in Proc, Typed, Prepare(p) PROVE Typed'
<1>1. LabelOf(ren[p]) \in Rendering
  BY LabelTyped DEF Typed, TypeOK
<1>2. 1 \in 1 .. Len(Levels[src[p]])
  BY LevelsExist DEF Typed, Located, Prepare, Working
<1>3. CASE UNCHANGED <<tag, level>> /\ Fails(p)
  BY <1>3 DEF Typed, TypeOK, Located, Prepare, Set, Goto, Fails, Mishap, world, store, swarm, request, locals, loop, Location, Working
<1>4. CASE /\ tag' = Set(tag, p, LabelOf(ren[p]))
           /\ level' = Set(level, p, 1)
           /\ Goto(p, "apply")
  <2>1. tag' \in [Proc -> Rendering] /\ level' \in [Proc -> Nat] /\ pc' \in [Proc -> Location]
    BY <1>1, <1>4 DEF Typed, TypeOK, Set, Goto, Location
  <2>2. Located'
    BY <1>2, <1>4 DEF Typed, TypeOK, Located, Prepare, Set, Goto, Working, request
  <2> QED
    BY <2>1, <2>2 DEF Typed, TypeOK, Prepare, world, store, swarm, request, loop
<1> QED
  BY <1>3, <1>4 DEF Prepare

LEMMA TypeStamp == ASSUME env' = env, NEW p \in Proc, Typed, Stamp(p) PROVE Typed'
<1>1. revs' \subseteq Revision
  <2>1. ren[p] \in Rendering /\ revs \subseteq Revision
    BY DEF Typed, TypeOK
  <2>2. \A r \in revs : [r EXCEPT !.stamp = ren[p]] \in Revision
    BY <2>1, StampedRevision
  <2> QED
    BY <2>1, <2>2 DEF Stamp
<1>2. /\ src' \in [Proc -> Source \cup {NoSource}] /\ level' \in [Proc -> Nat]
      /\ ren' \in [Proc -> Rendering] /\ tag' \in [Proc -> Rendering]
  BY UnhashedTyped DEF Typed, TypeOK, Stamp, Drop, Set
<1>3. pc' \in [Proc -> Location] /\ Located'
  BY DEF Typed, TypeOK, Located, Stamp, Drop, Set, Goto, Location, Working
<1> QED
  BY <1>1, <1>2, <1>3 DEF Typed, TypeOK, Stamp, world, swarm, loop

LEMMA TypeRecordErrorWrite == ASSUME env' = env, NEW p \in Proc, Typed, RecordErrorWrite(p) PROVE Typed'
<1>1. Recorded(saved[p], rev[p]) \in Seq(Nat)
  BY RecordedTyped DEF Typed, TypeOK
<1>2. errors' \in Seq(Nat) /\ saved' \in [Proc -> Seq(Nat)] /\ pc' \in [Proc -> Location]
  BY <1>1 DEF Typed, TypeOK, RecordErrorWrite, Set, Goto, Location
<1>3. Located'
  BY DEF Typed, TypeOK, Located, RecordErrorWrite, Goto, Working, request
<1> QED
  BY <1>2, <1>3 DEF Typed, TypeOK, RecordErrorWrite, world, swarm, request, loop

(* Init gives every variable a value of its type. *)
LEMMA TypeInit == Init => Typed
<1> SUFFICES ASSUME Init PROVE Typed
  OBVIOUS
<1>1. broken \in BOOLEAN /\ told \in BOOLEAN
  BY Zenon DEF Init
<1>2. errors \in Seq(Nat) /\ saved \in [Proc -> Seq(Nat)]
  BY DEF Init
<1> QED
  BY <1>1, <1>2, UnhashedTyped DEF Init, Typed, TypeOK, Located, NoRow, MaybeRepo, Location, Working

(* What the world and the requests of operators leave typed. *)
LEMMA TypeOutside ==
  ASSUME env' = env, Typed,
         \/ Tick \/ EditInputs \/ BreakInputs \/ RepairInputs \/ Crash
         \/ \E s \in Service : Drift(s)
         \/ \E j \in Job : Request(j)
  PROVE  Typed'
<1>1. CASE Tick
  BY <1>1 DEF Typed, TypeOK, Located, Set, Goto, world, store, swarm, request, locals,
     loop, Location, Working, Tick
<1>2. CASE EditInputs
  BY SMTT(90), <1>2 DEF Typed, TypeOK, Located, Set, Goto, world, store, swarm, request, locals,
     loop, Location, Working, EditInputs
<1>3. CASE BreakInputs
  BY <1>3 DEF Typed, TypeOK, Located, Set, Goto, world, store, swarm, request, locals,
     loop, Location, Working, BreakInputs, Mishap
<1>4. CASE RepairInputs
  BY Zenon, <1>4 DEF Typed, TypeOK, Located, Set, Goto, world, store, swarm, request, locals,
     loop, Location, Working, RepairInputs
<1>5. CASE Crash
  BY <1>5, TypeCrash
<1>6. ASSUME NEW s \in Service, Drift(s) PROVE Typed'
  <2>1. /\ up' \in {up, up \ {s}} /\ label' = [label EXCEPT ![s] = Unhashed]
        /\ UNCHANGED <<world, store, pc, request, locals, loop>>
    BY <1>6 DEF Drift, Set
  <2>2. up' \subseteq Service /\ label' \in [Service -> Rendering] /\ pc' \in [Proc -> Location]
    BY <2>1, UnhashedTyped DEF Typed, TypeOK
  <2>3. mishaps' \in Nat
    BY <1>6, MishapCounted DEF Drift, Typed
  <2>4. TypeOK'
    BY Zenon, <2>1, <2>2, <2>3, SwarmStep DEF Typed
  <2>5. Located'
    BY Zenon, <2>1 DEF Typed, Located, request, locals
  <2> QED
    BY <2>4, <2>5 DEF Typed
<1>7. ASSUME NEW j \in Job, Request(j) PROVE Typed'
  <2> j \in Proc
    BY DEF Proc
  <2>0. \A r \in env.repos \cup {NoRepo} : r \in MaybeRepo
    BY SettingsAssumption DEF Typed, TypeOK, MaybeRepo
  <2>1. ASSUME NEW s \in Source, NEW r \in MaybeRepo, RequestDeploy(j, s, r) PROVE Typed'
    BY <2>1 DEF Typed, TypeOK, Located, Set, Goto, world, store, swarm, request, locals,
       loop, Location, Working, RequestDeploy
  <2>2. CASE RequestSync(j)
    BY <2>2 DEF Typed, TypeOK, Located, Set, Goto, world, store, swarm, request, locals,
       loop, Location, Working, RequestSync
  <2>3. ASSUME NEW r \in revs, RequestRollback(j, r) PROVE Typed'
    BY <2>3, RevisionFields DEF Typed, TypeOK, Located, Set, Goto, world, store, swarm,
       request, locals, loop, Location, Working, RequestRollback
  <2>4. CASE RequestUndeploy(j)
    BY <2>4 DEF Typed, TypeOK, Located, Set, Goto, world, store, swarm, request, locals,
       loop, Location, Working, RequestUndeploy
  <2> QED
    BY Zenon, <1>7, <2>0, <2>1, <2>2, <2>3, <2>4 DEF Request
<1> QED
  BY <1>1, <1>2, <1>3, <1>4, <1>5, <1>6, <1>7

(* What the steps of a handler leave typed. *)
(* A handler that leaves the manifest, keeping what the others work on. *)
LEMMA Leaves ==
  ASSUME Typed, NEW p \in Proc, NEW at \in Location \ Working, pc' = [pc EXCEPT ![p] = at],
         \A q \in Proc : q # p => src'[q] = src[q] /\ level'[q] = level[q]
  PROVE  pc' \in [Proc -> Location] /\ Located'
<1>1. pc' \in [Proc -> Location]
  BY DEF Typed, TypeOK
<1>2. \A q \in Proc : pc'[q] \in Working => q # p /\ pc'[q] = pc[q]
  BY DEF Typed, TypeOK
<1>3. "apply" \in Working
  BY DEF Working
<1> QED
  BY <1>1, <1>2, <1>3 DEF Typed, Located

(* A handler that fails leaves its manifest, too. *)
LEMMA FailsLeaves ==
  ASSUME Typed, NEW p \in Proc, Fails(p), src' = src, level' = level
  PROVE  pc' \in [Proc -> Location] /\ Located'
<1>1. PICK at \in {"fail", "failed"} : pc' = [pc EXCEPT ![p] = at]
  BY Zenon DEF Fails, Goto
<1>2. at \in Location \ Working
  BY DEF Location, Working
<1> QED
  BY Zenon, <1>1, <1>2, Leaves

(* A level of services, or some of them, labelled with the hash of p. *)
LEMMA ServicesTyped ==
  ASSUME Typed, NEW p \in Proc, pc[p] = "apply",
         NEW S \in SUBSET Levels[src[p]][level[p]], DeployServices(S, tag[p])
  PROVE  up' \subseteq Service /\ label' \in [Service -> Rendering]
<1>1. src[p] \in Source /\ level[p] \in 1 .. Len(Levels[src[p]]) /\ tag[p] \in Rendering
  BY DEF Typed, TypeOK, Located, Working
<1>2. S \subseteq Service
  BY <1>1, LevelTyped
<1> QED
  BY <1>1, <1>2 DEF DeployServices, Typed, TypeOK

LEMMA TypeDeployLevel == ASSUME env' = env, Typed, NEW p \in Proc, DeployLevel(p) PROVE Typed'
<1>1. /\ pc[p] = "apply" /\ level' = [level EXCEPT ![p] = level[p] + 1]
      /\ pc' = [pc EXCEPT ![p] = IF level[p] = Len(Levels[src[p]]) THEN "prune" ELSE "apply"]
      /\ UNCHANGED <<world, mishaps, store, request, ren, tag, rev, saved, loop>>
  BY DEF DeployLevel, Set, Goto
<1>2. src[p] \in Source /\ level[p] \in 1 .. Len(Levels[src[p]]) /\ Len(Levels[src[p]]) \in Nat
  BY <1>1, LevelsExist DEF Typed, TypeOK, Located, Working
<1>3. up' \subseteq Service /\ label' \in [Service -> Rendering]
  BY Zenon, <1>1, ServicesTyped DEF DeployLevel
<1>4. level' \in [Proc -> Nat] /\ pc' \in [Proc -> Location]
  BY <1>1, <1>2 DEF Typed, TypeOK, Location
<1>5. TypeOK'
  BY <1>1, <1>3, <1>4 DEF Typed, TypeOK, world, store, request, loop
<1>6. Located'
  BY <1>1, <1>2 DEF Typed, TypeOK, Located, Working, request
<1> QED
  BY <1>5, <1>6 DEF Typed

LEMMA TypeDeployLevelFails == ASSUME env' = env, Typed, NEW p \in Proc, DeployLevelFails(p) PROVE Typed'
<1>1. pc[p] = "apply" /\ Fails(p) /\ Mishap("fault") /\ UNCHANGED <<world, store, request, locals, loop>>
  BY DEF DeployLevelFails
<1>2. up' \subseteq Service /\ label' \in [Service -> Rendering]
  BY <1>1, ServicesTyped DEF DeployLevelFails
<1>3. pc' \in [Proc -> Location] /\ \A q \in Proc : pc'[q] \in Working => pc'[q] = pc[q]
  BY <1>1 DEF Fails, Goto, Set, Typed, TypeOK, Location, Working
<1>4. TypeOK'
  <2>1. mishaps' \in Nat
    BY <1>1, MishapCounted DEF Typed
  <2> QED
    BY Zenon, <1>1, <1>2, <1>3, <2>1, SwarmStep DEF Typed
<1>5. Located'
  BY <1>1, <1>3 DEF Typed, Located, Working, request, locals
<1> QED
  BY <1>4, <1>5 DEF Typed

LEMMA TypeHandler == ASSUME env' = env, Typed, NEW p \in Proc, Advance(p) \/ Fault(p) PROVE Typed'
<1>1. CASE SyncLoad(p)
  BY <1>1, TypeSyncLoad
<1>2. CASE SyncCompare(p)
  BY <1>2 DEF Typed, TypeOK, Located, Set, Goto, world, store, swarm, request, locals,
     loop, Location, Working, SyncCompare
<1>3. CASE SyncLive(p)
  BY <1>3 DEF Typed, TypeOK, Located, Set, Goto, world, store, swarm, request, locals,
     loop, Location, Working, SyncLive
<1>4. CASE Check(p)
  BY <1>4 DEF Typed, TypeOK, Located, Set, Goto, world, store, swarm, request, locals,
     loop, Location, Working, Check
<1>5. CASE Translate(p)
  BY <1>5, TypeTranslate
<1>6. CASE Assign(p)
  BY <1>6 DEF Typed, TypeOK, Located, Set, Goto, world, store, swarm, request, locals,
     loop, Location, Working, Assign
<1>7. CASE Record(p)
  BY <1>7, TypeRecord
<1>8. CASE Prepare(p)
  BY <1>8, TypePrepare
<1>9. CASE DeployLevel(p)
  BY <1>9, TypeDeployLevel
<1>10. CASE Prune(p)
  BY <1>10, UnhashedTyped DEF Typed, TypeOK, Located, Set, Goto, world, store, swarm,
     request, locals, loop, Location, Working, Prune
<1>11. CASE Stamp(p)
  BY <1>11, TypeStamp
<1>12. CASE RecordErrorRead(p)
  BY <1>12 DEF Typed, TypeOK, Located, Set, Goto, world, store, swarm, request, locals,
     loop, Location, Working, RecordErrorRead
<1>13. CASE RecordErrorWrite(p)
  BY <1>13, TypeRecordErrorWrite
<1>14. CASE UndeployRemove(p)
  BY <1>14, UnhashedTyped DEF Typed, TypeOK, Located, Set, Goto, world, store, swarm,
     request, locals, loop, Location, Working, UndeployRemove
<1>15. CASE UndeployPurge(p)
  BY Zenon, <1>15 DEF Typed, TypeOK, Located, Set, Goto, world, store, swarm, request, locals,
     loop, Location, Working, UndeployPurge
<1>16. CASE UndeployDelete(p)
  BY SMTT(90), <1>16 DEF Typed, TypeOK, Located, Set, Goto, world, store, swarm, request, locals,
     loop, Location, Working, UndeployDelete, NoRow, MaybeRepo
<1>17. CASE SyncLiveFails(p)
  <2>1. /\ pc' = [pc EXCEPT ![p] = "done"] /\ mishaps' = mishaps + 1
        /\ UNCHANGED <<world, store, swarm, request, locals, loop>>
    BY <1>17 DEF SyncLiveFails, Goto, Mishap
  <2>2. "done" \in Location \ Working
    BY DEF Location, Working
  <2>3. pc' \in [Proc -> Location] /\ Located'
    BY Zenon, <2>1, <2>2, Leaves DEF request, locals
  <2>4. mishaps' \in Nat
    BY <2>1 DEF Typed, TypeOK
  <2> QED
    BY Zenon, <2>1, <2>3, <2>4, QuietStep DEF Typed
<1>18. CASE PrepareFails(p)
  <2>1. /\ Fails(p) /\ mishaps' = mishaps + 1
        /\ UNCHANGED <<world, store, swarm, request, locals, loop>>
    BY <1>18 DEF PrepareFails, Mishap
  <2>3. pc' \in [Proc -> Location] /\ Located'
    BY Zenon, <2>1, FailsLeaves DEF request, locals
  <2>4. mishaps' \in Nat
    BY <2>1 DEF Typed, TypeOK
  <2> QED
    BY Zenon, <2>1, <2>3, <2>4, QuietStep DEF Typed
<1>19. CASE DeployLevelFails(p)
  BY <1>19, TypeDeployLevelFails
<1>20. CASE PruneFails(p)
  <2>1. PICK gone \in SUBSET (up \ Services(src[p])) :
          /\ up' = up \ gone
          /\ label' = [s \in Service |-> IF s \in gone THEN Unhashed ELSE label[s]]
    BY <1>20 DEF PruneFails
  <2>2. /\ Fails(p) /\ mishaps' = mishaps + 1
        /\ UNCHANGED <<world, store, request, locals, loop>>
    BY <1>20 DEF PruneFails, Mishap
  <2>3. pc' \in [Proc -> Location] /\ Located'
    BY Zenon, <2>2, FailsLeaves DEF request, locals
  <2>4. up' \subseteq Service /\ label' \in [Service -> Rendering]
    BY <2>1, UnhashedTyped DEF Typed, TypeOK
  <2>5. mishaps' \in Nat
    BY <2>2 DEF Typed, TypeOK
  <2> QED
    BY Zenon, <2>2, <2>3, <2>4, <2>5, SwarmStep DEF Typed
<1>21. CASE UndeployRemoveFails(p)
  <2>1. /\ pc' = [pc EXCEPT ![p] = "failed"] /\ mishaps' = mishaps + 1
        /\ UNCHANGED <<world, store, swarm, request, locals, loop>>
    BY <1>21 DEF UndeployRemoveFails, Goto, Mishap
  <2>2. "failed" \in Location \ Working
    BY DEF Location, Working
  <2>3. pc' \in [Proc -> Location] /\ Located'
    BY Zenon, <2>1, <2>2, Leaves DEF request, locals
  <2>4. mishaps' \in Nat
    BY <2>1 DEF Typed, TypeOK
  <2> QED
    BY Zenon, <2>1, <2>3, <2>4, QuietStep DEF Typed
<1> QED
  BY <1>1, <1>2, <1>3, <1>4, <1>5, <1>6, <1>7, <1>8, <1>9, <1>10, <1>11, <1>12, <1>13,
     <1>14, <1>15, <1>16, <1>17, <1>18, <1>19, <1>20, <1>21 DEF Advance, Fault

(* What a pass of the reconcile loop leaves typed. *)
LEMMA TypePass == ASSUME env' = env, Typed, Pass \/ SnapshotFails PROVE Typed'
<1>1. CASE PassStart
  BY <1>1 DEF Typed, TypeOK, Located, Set, Goto, world, store, swarm, request, locals,
     loop, Location, Working, PassStart, Proc, HasStack
<1>2. CASE PassSynced
  BY <1>2 DEF Typed, TypeOK, Located, Set, Goto, world, store, swarm, request, locals,
     loop, Location, Working, PassSynced, Proc
<1>3. CASE PassFailed
  <2>0. Loop \in Proc
    BY DEF Proc
  <2>1. PICK at \in {"health", "tell"} : pc' = [pc EXCEPT ![Loop] = at]
    BY <1>3 DEF PassFailed, Goto
  <2>2. /\ rev' = rev \/ rev' = [rev EXCEPT ![Loop] = saw]
        /\ told' = TRUE
        /\ UNCHANGED <<world, mishaps, store, swarm, request, ren, tag, level, saved, saw>>
    BY <1>3 DEF PassFailed, Set
  <2>3. at \in Location \ Working
    BY DEF Location, Working
  <2>4. pc' \in [Proc -> Location] /\ Located'
    BY Zenon, <2>0, <2>1, <2>2, <2>3, Leaves DEF request
  <2>5. rev' \in [Proc -> Nat]
    BY Zenon, <2>0, <2>2 DEF Typed, TypeOK
  <2>6. told' \in BOOLEAN
    BY <2>2, Zenon
  <2> QED
    BY <2>2, <2>4, <2>5, <2>6 DEF Typed, TypeOK, world, store, swarm, request
<1>4. CASE PassMarked
  BY <1>4 DEF Typed, TypeOK, Located, Set, Goto, world, store, swarm, request, locals,
     loop, Location, Working, PassMarked, Proc
<1>5. CASE SnapshotHealth
  BY <1>5, UnhashedTyped DEF Typed, TypeOK, Located, Set, Goto, world, store, swarm,
     request, locals, loop, Location, Working, SnapshotHealth, Proc, EndPass, Drop,
     StackStatus
<1>6. CASE SnapshotFails
  <2>0. Loop \in Proc
    BY DEF Proc
  <2>1. /\ pc' = [pc EXCEPT ![Loop] = "idle"] /\ rev' = [rev EXCEPT ![Loop] = 0] /\ saw' = 0
        /\ src' = [src EXCEPT ![Loop] = NoSource] /\ ren' = [ren EXCEPT ![Loop] = Unhashed]
        /\ tag' = [tag EXCEPT ![Loop] = Unhashed] /\ level' = [level EXCEPT ![Loop] = 0]
    BY <1>6 DEF SnapshotFails, EndPass, Drop, Goto, Set
  <2>2. /\ mishaps' = mishaps + 1 /\ status' \in {"unknown", "none"}
        /\ UNCHANGED <<world, row, revs, errors, swarm, kind, repo, saved, told>>
    BY <1>6 DEF SnapshotFails, Mishap
  <2>3. "idle" \in Location \ Working
    BY DEF Location, Working
  <2>4. \A q \in Proc : q # Loop => src'[q] = src[q] /\ level'[q] = level[q]
    BY <2>1 DEF Typed, TypeOK
  <2>5. pc' \in [Proc -> Location] /\ Located'
    BY Zenon, <2>0, <2>1, <2>3, <2>4, Leaves
  <2>6. /\ rev' \in [Proc -> Nat] /\ level' \in [Proc -> Nat]
        /\ src' \in [Proc -> Source \cup {NoSource}]
        /\ ren' \in [Proc -> Rendering] /\ tag' \in [Proc -> Rendering]
    BY <2>0, <2>1, UnhashedTyped DEF Typed, TypeOK
  <2> QED
    BY <2>1, <2>2, <2>5, <2>6 DEF Typed, TypeOK, world, swarm
<1> QED
  BY <1>1, <1>2, <1>3, <1>4, <1>5, <1>6 DEF Pass

LEMMA TypeStep == Typed /\ [Next]_vars => Typed'
<1> SUFFICES ASSUME Typed, [Next]_vars PROVE Typed'
  OBVIOUS
<1> env' = env
  BY Zenon DEF Next, vars
<1>1. CASE UNCHANGED vars
  BY <1>1 DEF Typed, TypeOK, Located, vars, state, world, store, swarm, request, locals, loop
<1>2. CASE Next
  <2>1. CASE \/ Tick \/ EditInputs \/ BreakInputs \/ RepairInputs \/ Crash
             \/ \E s \in Service : Drift(s)
             \/ \E j \in Job : Request(j)
    BY <2>1, TypeOutside
  <2>2. ASSUME NEW p \in Proc, Advance(p) \/ Fault(p) PROVE Typed'
    BY <2>2, TypeHandler
  <2>3. CASE Pass \/ SnapshotFails
    BY <2>3, TypePass
  <2> QED
    BY Zenon, <1>2, <2>1, <2>2, <2>3 DEF Next
<1> QED
  BY <1>1, <1>2

(* Every variable of StackDeploy keeps its type, whatever fails.             *)
THEOREM TypeCorrect == Spec => []TypeOK
<1>1. Typed => TypeOK
  BY DEF Typed
<1> QED
  BY <1>1, TypeInit, TypeStep, PTL DEF Spec

(* A handler that works on a manifest has one, and an apply is at one of its *)
(* levels (applyToSwarm's loop), whatever fails.                             *)
THEOREM AlwaysTyped == Spec => []Typed
  BY TypeInit, TypeStep, PTL DEF Spec

------------------------------------------------------------------------------
(* Revisions, the row and its repository *)

(* Revision ids are the primary key. *)
UniqueIds == \A r, q \in revs : r.id = q.id => r = q

-----------------------------------------------------------------------------
(* The invariant behind HashIsOwn: an apply's revision is still there, with  *)
(* the rendering that is being applied.                                      *)

Applying == {"prepare", "apply", "prune", "stamp"}

Deleting == {"remove", "purge", "delete"}

Owns ==
  \A p \in Proc :
    /\ pc[p] \notin Deleting
    /\ pc[p] \in Applying => \E r \in revs : r.id = rev[p] /\ r.ren = ren[p]

OwnInv == Typed /\ UniqueIds /\ Owns /\ HashIsOwn

(* Nobody undeploys: an undeploy frees revision ids for reuse. *)
NoUndeploys == "undeploy" \notin env.ops

-----------------------------------------------------------------------------
(* Revision ids, the clock and the handlers' ids are numbers. *)
LEMMA IdsTyped ==
  ASSUME TypeOK
  PROVE  Ids \subseteq Nat /\ clock \in Nat /\ \A p \in Proc : rev[p] \in Nat
<1>1. \A r \in revs : r.id \in Nat
  BY RevisionFields DEF TypeOK
<1>2. Ids \subseteq Nat
  BY Zenon, <1>1 DEF Ids
<1> QED
  BY Zenon, <1>2 DEF TypeOK

(* Frames.  A step of a handler changes no other handler's locals. *)

Alone(p) ==
  \A q \in Proc : q # p =>
    /\ pc'[q] = pc[q] /\ kind'[q] = kind[q] /\ src'[q] = src[q]
    /\ repo'[q] = repo[q] /\ ren'[q] = ren[q] /\ rev'[q] = rev[q]

LEMMA FrameHandler == ASSUME Typed, NEW p \in Proc, Advance(p) \/ Fault(p) PROVE Alone(p)
<1>1. CASE SyncLoad(p)
  BY <1>1 DEF Typed, TypeOK, Alone, Set, Goto, request, locals, SyncLoad
<1>2. CASE SyncCompare(p)
  BY <1>2 DEF Typed, TypeOK, Alone, Set, Goto, request, locals, SyncCompare
<1>3. CASE SyncLive(p)
  BY <1>3 DEF Typed, TypeOK, Alone, Set, Goto, request, locals, SyncLive
<1>4. CASE Check(p)
  BY <1>4 DEF Typed, TypeOK, Alone, Set, Goto, request, locals, Check
<1>5. CASE Translate(p)
  BY <1>5 DEF Typed, TypeOK, Alone, Set, Goto, request, locals, Translate, Fails
<1>6. CASE Assign(p)
  BY <1>6 DEF Typed, TypeOK, Alone, Set, Goto, request, locals, Assign
<1>7. CASE Record(p)
  BY <1>7 DEF Typed, TypeOK, Alone, Set, Goto, request, locals, Record, Fails
<1>8. CASE Prepare(p)
  BY <1>8 DEF Typed, TypeOK, Alone, Set, Goto, request, locals, Prepare, Fails
<1>9. CASE DeployLevel(p)
  BY <1>9 DEF Typed, TypeOK, Alone, Set, Goto, request, locals, DeployLevel
<1>10. CASE Prune(p)
  BY <1>10 DEF Typed, TypeOK, Alone, Set, Goto, request, locals, Prune
<1>11. CASE Stamp(p)
  BY <1>11 DEF Typed, TypeOK, Alone, Set, Goto, request, locals, Stamp, Drop
<1>12. CASE RecordErrorRead(p)
  BY <1>12 DEF Typed, TypeOK, Alone, Set, Goto, request, locals, RecordErrorRead
<1>13. CASE RecordErrorWrite(p)
  BY <1>13 DEF Typed, TypeOK, Alone, Set, Goto, request, locals, RecordErrorWrite
<1>14. CASE UndeployRemove(p)
  BY <1>14 DEF Typed, TypeOK, Alone, Set, Goto, request, locals, UndeployRemove
<1>15. CASE UndeployPurge(p)
  BY <1>15 DEF Typed, TypeOK, Alone, Set, Goto, request, locals, UndeployPurge
<1>16. CASE UndeployDelete(p)
  BY <1>16 DEF Typed, TypeOK, Alone, Set, Goto, request, locals, UndeployDelete
<1>17. CASE SyncLiveFails(p)
  BY <1>17 DEF Typed, TypeOK, Alone, Set, Goto, request, locals, SyncLiveFails
<1>18. CASE PrepareFails(p)
  BY <1>18 DEF Typed, TypeOK, Alone, Set, Goto, request, locals, PrepareFails, Fails
<1>19. CASE DeployLevelFails(p)
  BY <1>19 DEF Typed, TypeOK, Alone, Set, Goto, request, locals, DeployLevelFails, Fails
<1>20. CASE PruneFails(p)
  BY <1>20 DEF Typed, TypeOK, Alone, Set, Goto, request, locals, PruneFails, Fails
<1>21. CASE UndeployRemoveFails(p)
  BY <1>21 DEF Typed, TypeOK, Alone, Set, Goto, request, locals, UndeployRemoveFails
<1> QED
  BY <1>1, <1>2, <1>3, <1>4, <1>5, <1>6, <1>7, <1>8, <1>9, <1>10, <1>11, <1>12, <1>13,
     <1>14, <1>15, <1>16, <1>17, <1>18, <1>19, <1>20, <1>21 DEF Advance, Fault

LEMMA FrameRequest == ASSUME Typed, NEW j \in Job, Request(j) PROVE Alone(j)
  BY DEF Typed, TypeOK, Alone, Proc, Set, Goto, request, locals, Request, RequestDeploy,
     RequestSync, RequestRollback, RequestUndeploy

LEMMA FramePass == ASSUME Typed, Pass \/ SnapshotFails PROVE Alone(Loop)
  BY DEF Typed, TypeOK, Alone, Proc, Set, Goto, Drop, EndPass, request, locals, Pass, PassStart,
     PassSynced, PassFailed, PassMarked, SnapshotHealth, SnapshotFails

(* Only Record, Stamp and UndeployDelete change the stack's rows. *)
LEMMA QuietHandler ==
  ASSUME NEW p \in Proc, Advance(p) \/ Fault(p), ~Record(p), ~Stamp(p), ~UndeployDelete(p)
  PROVE  UNCHANGED <<clock, row, revs>>
  BY Zenon DEF Advance, Fault, world, store, SyncLoad, SyncCompare, SyncLive, Check, Translate,
     Assign, Prepare, DeployLevel, Prune, RecordErrorRead, RecordErrorWrite,
     UndeployRemove, UndeployPurge, SyncLiveFails, PrepareFails, DeployLevelFails,
     PruneFails, UndeployRemoveFails

LEMMA QuietRequest == ASSUME NEW j \in Job, Request(j) PROVE UNCHANGED <<clock, row, revs>>
  BY DEF Request, RequestDeploy, RequestSync, RequestRollback, RequestUndeploy, world, store

LEMMA QuietPass == ASSUME Pass \/ SnapshotFails PROVE UNCHANGED <<clock, row, revs>>
  BY DEF Pass, PassStart, PassSynced, PassFailed, PassMarked, SnapshotHealth, SnapshotFails,
     world, store

-----------------------------------------------------------------------------
(* What the three steps do to the revisions. *)

LEMMA StampedFields ==
  ASSUME NEW r \in Revision, NEW h
  PROVE  /\ [r EXCEPT !.stamp = h].id = r.id
         /\ [r EXCEPT !.stamp = h].src = r.src
         /\ [r EXCEPT !.stamp = h].ren = r.ren
         /\ [r EXCEPT !.stamp = h].stamp = h
  BY DEF Revision

LEMMA StampEffect ==
  ASSUME Typed, NEW p \in Proc, Stamp(p)
  PROVE  /\ Ids' = Ids
         /\ UniqueIds => UniqueIds'
         /\ \A r \in revs : \E q \in revs' : q.id = r.id /\ q.src = r.src /\ q.ren = r.ren
         /\ \A q \in revs' : \E r \in revs :
              /\ q.id = r.id /\ q.ren = r.ren
              /\ q.stamp = r.stamp \/ (r.id = rev[p] /\ q.stamp = ren[p])
<1> DEFINE F(r) == IF r.id = rev[p] THEN [r EXCEPT !.stamp = ren[p]] ELSE r
<1>1. revs' = {F(r) : r \in revs}
  BY DEF Stamp
<1>2. ASSUME NEW r \in revs
      PROVE  /\ F(r).id = r.id /\ F(r).src = r.src /\ F(r).ren = r.ren
             /\ F(r).stamp = r.stamp \/ (r.id = rev[p] /\ F(r).stamp = ren[p])
  <2>1. r \in Revision
    BY DEF Typed, TypeOK
  <2> QED
    BY <2>1, StampedFields
<1> HIDE DEF F
<1>3. Ids' = Ids
  <2>1. Ids' = {q.id : q \in revs'}
    BY Zenon DEF Ids
  <2>2. \A q \in revs' : q.id \in Ids
    BY <1>1, <1>2 DEF Ids
  <2>3. \A r \in revs : r.id \in Ids'
    BY <1>1, <1>2, <2>1
  <2> QED
    BY Zenon, <2>1, <2>2, <2>3 DEF Ids
<1>4. UniqueIds => UniqueIds'
  BY <1>1, <1>2 DEF UniqueIds
<1> QED
  BY <1>1, <1>2, <1>3, <1>4

NewRevisionOf(p) == [id |-> rev[p], src |-> src[p], ren |-> ren[p], stamp |-> Unhashed]

LEMMA RecordEffect ==
  ASSUME NEW p \in Proc, Record(p)
  PROVE  \/ UNCHANGED <<row, revs>> /\ Fails(p)
         \/ /\ rev[p] \notin Ids
            /\ revs' = revs \cup {NewRevisionOf(p)}
            /\ Ids' = Ids \cup {rev[p]}
            /\ row' = [current |-> rev[p], repo |-> IF repo[p] = NoRepo THEN row.repo ELSE repo[p]]
            /\ Goto(p, "prepare")
<1>1. ASSUME revs' = revs \cup {NewRevisionOf(p)} PROVE Ids' = Ids \cup {rev[p]}
  <2>1. NewRevisionOf(p).id = rev[p]
    BY DEF NewRevisionOf
  <2> QED
    BY <1>1, <2>1 DEF Ids
<1> QED
  BY <1>1 DEF Record, NewRevisionOf

LEMMA UniqueStep ==
  ASSUME Typed, UniqueIds, NEW p \in Proc, Advance(p) \/ Fault(p) PROVE UniqueIds'
<1>1. CASE Record(p)
  BY <1>1, RecordEffect DEF UniqueIds, NewRevisionOf, Ids
<1>2. CASE Stamp(p)
  BY <1>2, StampEffect
<1>3. CASE UndeployDelete(p)
  BY <1>3 DEF UniqueIds, UndeployDelete
<1>4. CASE ~Record(p) /\ ~Stamp(p) /\ ~UndeployDelete(p)
  BY <1>4, QuietHandler DEF UniqueIds
<1> QED
  BY <1>1, <1>2, <1>3, <1>4

LEMMA OutsideQuiet ==
  ASSUME \/ EditInputs \/ BreakInputs \/ RepairInputs \/ \E s \in Service : Drift(s)
  PROVE  UNCHANGED <<clock, row, revs, pc, kind, src, repo, ren, rev>>
  BY DEF EditInputs, BreakInputs, RepairInputs, Drift, world, store, request, locals

-----------------------------------------------------------------------------
(* HashIsOwn. *)

LEMMA OwnFrame ==
  ASSUME Owns, NEW p \in Proc, Alone(p), UNCHANGED revs,
         pc'[p] \notin Deleting,
         pc'[p] \in Applying => pc[p] \in Applying /\ rev'[p] = rev[p] /\ ren'[p] = ren[p]
  PROVE  Owns'
<1>1. ASSUME NEW q \in Proc
      PROVE  /\ pc'[q] \notin Deleting
             /\ pc'[q] \in Applying => \E r \in revs' : r.id = rev'[q] /\ r.ren = ren'[q]
  <2>1. CASE q = p
    BY <2>1 DEF Owns
  <2>2. CASE q # p
    <3>1. pc'[q] = pc[q] /\ rev'[q] = rev[q] /\ ren'[q] = ren[q]
      BY Zenon, <2>2 DEF Alone
    <3> QED
      BY <3>1 DEF Owns
  <2> QED
    BY <2>1, <2>2
<1> QED
  BY Zenon, <1>1 DEF Owns

(* A quiet step goes on applying what it was applying. *)
LEMMA OwnQuiet ==
  ASSUME Typed, Owns, NEW p \in Proc, Advance(p) \/ Fault(p), ~Record(p), ~Stamp(p)
  PROVE  /\ pc'[p] \notin Deleting
         /\ pc'[p] \in Applying => pc[p] \in Applying /\ rev'[p] = rev[p] /\ ren'[p] = ren[p]
<1> DEFINE Goal == /\ pc'[p] \notin Deleting
                   /\ pc'[p] \in Applying => pc[p] \in Applying /\ rev'[p] = rev[p] /\ ren'[p] = ren[p]
<1> SUFFICES Goal
  OBVIOUS
<1>1. CASE SyncLoad(p)
  BY <1>1 DEF Typed, TypeOK, Goal, Applying, Deleting, Set, Goto, locals, SyncLoad
<1>2. CASE SyncCompare(p)
  BY <1>2 DEF Typed, TypeOK, Goal, Applying, Deleting, Set, Goto, locals, SyncCompare
<1>3. CASE SyncLive(p)
  BY <1>3 DEF Typed, TypeOK, Goal, Applying, Deleting, Set, Goto, locals, SyncLive
<1>4. CASE Check(p)
  BY <1>4 DEF Typed, TypeOK, Goal, Applying, Deleting, Set, Goto, locals, Check
<1>5. CASE Translate(p)
  BY <1>5 DEF Typed, TypeOK, Goal, Applying, Deleting, Set, Goto, locals, Translate, Fails
<1>6. CASE Assign(p)
  BY <1>6 DEF Typed, TypeOK, Goal, Applying, Deleting, Set, Goto, locals, Assign
<1>7. CASE Prepare(p)
  BY <1>7 DEF Typed, TypeOK, Goal, Applying, Deleting, Set, Goto, locals, Prepare, Fails
<1>8. CASE DeployLevel(p)
  BY <1>8 DEF Typed, TypeOK, Goal, Applying, Deleting, Set, Goto, locals, DeployLevel
<1>9. CASE Prune(p)
  BY <1>9 DEF Typed, TypeOK, Goal, Applying, Deleting, Set, Goto, locals, Prune
<1>10. CASE RecordErrorRead(p)
  BY <1>10 DEF Typed, TypeOK, Goal, Applying, Deleting, Set, Goto, locals, RecordErrorRead
<1>11. CASE RecordErrorWrite(p)
  BY <1>11 DEF Typed, TypeOK, Goal, Applying, Deleting, Set, Goto, locals,
     RecordErrorWrite
<1>12. CASE SyncLiveFails(p)
  BY <1>12 DEF Typed, TypeOK, Goal, Applying, Deleting, Set, Goto, locals, SyncLiveFails
<1>13. CASE PrepareFails(p)
  BY <1>13 DEF Typed, TypeOK, Goal, Applying, Deleting, Set, Goto, locals, PrepareFails,
     Fails
<1>14. CASE DeployLevelFails(p)
  BY <1>14 DEF Typed, TypeOK, Goal, Applying, Deleting, Set, Goto, locals,
     DeployLevelFails, Fails
<1>15. CASE PruneFails(p)
  BY <1>15 DEF Typed, TypeOK, Goal, Applying, Deleting, Set, Goto, locals, PruneFails,
     Fails
<1>16. ~UndeployRemove(p) /\ ~UndeployPurge(p) /\ ~UndeployDelete(p) /\ ~UndeployRemoveFails(p)
  BY Zenon DEF Owns, Deleting, UndeployRemove, UndeployPurge, UndeployDelete, UndeployRemoveFails
<1> HIDE DEF Goal
<1> QED
  BY <1>1, <1>2, <1>3, <1>4, <1>5, <1>6, <1>7, <1>8, <1>9, <1>10, <1>11, <1>12, <1>13,
     <1>14, <1>15, <1>16 DEF Advance, Fault

LEMMA OwnHandler ==
  ASSUME OwnInv, NEW p \in Proc, Advance(p) \/ Fault(p)
  PROVE  Owns' /\ HashIsOwn'
<1>1. Alone(p) /\ Owns /\ HashIsOwn /\ Typed /\ UniqueIds
  BY FrameHandler DEF OwnInv
<1>2. CASE Record(p)
  <2>1. CASE UNCHANGED <<row, revs>> /\ Fails(p)
    <3>1. pc'[p] \notin Deleting \cup Applying
      BY <2>1 DEF Fails, Goto, Typed, TypeOK, OwnInv, Deleting, Applying
    <3> QED
      BY <1>1, <2>1, <3>1, OwnFrame DEF HashIsOwn
  <2>2. CASE revs' = revs \cup {NewRevisionOf(p)} /\ Goto(p, "prepare")
    <3>1. rev' = rev /\ ren' = ren /\ pc'[p] = "prepare"
      BY <1>2, <2>2 DEF Record, locals, Goto, Typed, TypeOK, OwnInv
    <3>2. HashIsOwn'
      <4>1. NewRevisionOf(p).stamp = Unhashed
        BY DEF NewRevisionOf
      <4> QED
        BY <1>1, <2>2, <4>1 DEF HashIsOwn
    <3>3. NewRevisionOf(p) \in revs' /\ NewRevisionOf(p).id = rev[p] /\ NewRevisionOf(p).ren = ren[p]
      BY <2>2 DEF NewRevisionOf
    <3>4. revs \subseteq revs'
      BY <2>2
    <3> QED
      BY <1>1, <3>1, <3>2, <3>3, <3>4 DEF Owns, Alone, Deleting, Applying
  <2> QED
    BY <1>2, <2>1, <2>2, RecordEffect
<1>3. CASE Stamp(p)
  <2>1. pc[p] = "stamp" /\ pc'[p] \notin Deleting \cup Applying
    BY <1>1, <1>3 DEF Stamp, Goto, Typed, TypeOK, Deleting, Applying
  <2>2. PICK r \in revs : r.id = rev[p] /\ r.ren = ren[p]
    BY <1>1, <2>1 DEF Owns, Applying
  <2>3. HashIsOwn'
    <3> SUFFICES ASSUME NEW q \in revs' PROVE q.stamp \in {Unhashed, q.ren}
      BY Zenon DEF HashIsOwn
    <3>1. PICK x \in revs : /\ q.id = x.id /\ q.ren = x.ren
                            /\ q.stamp = x.stamp \/ (x.id = rev[p] /\ q.stamp = ren[p])
      BY Zenon, <1>1, <1>3, StampEffect
    <3>2. CASE q.stamp = x.stamp
      BY Zenon, <1>1, <3>1, <3>2 DEF HashIsOwn
    <3>3. CASE x.id = rev[p] /\ q.stamp = ren[p]
      <4>1. x = r
        BY Zenon, <1>1, <2>2, <3>3 DEF UniqueIds
      <4> QED
        BY Zenon, <2>2, <3>1, <3>3, <4>1
    <3> QED
      BY Zenon, <3>1, <3>2, <3>3
  <2>4. \A x \in revs : \E q \in revs' : q.id = x.id /\ q.ren = x.ren
    BY <1>1, <1>3, StampEffect
  <2>5. ASSUME NEW q \in Proc
        PROVE  /\ pc'[q] \notin Deleting
               /\ pc'[q] \in Applying => \E x \in revs' : x.id = rev'[q] /\ x.ren = ren'[q]
    <3>1. CASE q = p
      BY <2>1, <3>1
    <3>2. CASE q # p
      <4>1. pc'[q] = pc[q] /\ rev'[q] = rev[q] /\ ren'[q] = ren[q]
        BY <1>1, <3>2 DEF Alone
      <4> QED
        BY <1>1, <2>4, <4>1 DEF Owns
    <3> QED
      BY <3>1, <3>2
  <2>6. Owns'
    BY <2>5 DEF Owns
  <2> QED
    BY <2>3, <2>6
<1>4. CASE ~Record(p) /\ ~Stamp(p)
  <2>1. ~UndeployDelete(p)
    BY <1>1 DEF Owns, Deleting, UndeployDelete
  <2> QED
    BY <1>1, <1>4, <2>1, QuietHandler, OwnQuiet, OwnFrame DEF HashIsOwn
<1> QED
  BY <1>2, <1>3, <1>4

LEMMA OwnStep == NoUndeploys /\ OwnInv /\ [Next]_vars => OwnInv'
<1> SUFFICES ASSUME NoUndeploys, OwnInv, [Next]_vars PROVE OwnInv'
  OBVIOUS
<1>1. Typed' /\ Typed
  BY TypeStep DEF OwnInv
<1> DEFINE Still == UniqueIds' /\ Owns' /\ HashIsOwn'
<1>2. ASSUME UNCHANGED <<revs, pc, rev, ren>> PROVE Still
  BY <1>2 DEF OwnInv, UniqueIds, Owns, HashIsOwn
<1>3. ASSUME Crash PROVE Still
  <2>1. UNCHANGED <<revs, rev, ren>> /\ \A p \in Proc : pc'[p] \in {"idle", "done", pc[p]}
    BY <1>3 DEF Crash, store, locals
  <2> QED
    BY <2>1 DEF OwnInv, UniqueIds, Owns, HashIsOwn, Deleting, Applying
<1>4. ASSUME NEW j \in Job, Request(j) PROVE Still
  <2>1. pc'[j] \notin Deleting \cup Applying
    BY <1>1, <1>4 DEF Request, RequestDeploy, RequestSync, RequestRollback, RequestUndeploy, Goto,
       Typed, TypeOK, Proc, Deleting, Applying, May, NoUndeploys
  <2> QED
    BY <1>1, <1>4, <2>1, FrameRequest, QuietRequest, OwnFrame
    DEF OwnInv, Proc, UniqueIds, HashIsOwn
<1>5. ASSUME NEW p \in Proc, Advance(p) \/ Fault(p) PROVE Still
  BY <1>1, <1>5, OwnHandler, UniqueStep DEF OwnInv
<1>6. ASSUME Pass \/ SnapshotFails PROVE Still
  <2>1. pc'[Loop] \notin Deleting \cup Applying
    BY <1>1, <1>6 DEF Pass, PassStart, PassSynced, PassFailed, PassMarked, SnapshotHealth,
       SnapshotFails, EndPass, Goto, Typed, TypeOK, Proc, Deleting, Applying
  <2> QED
    BY <1>1, <1>6, <2>1, FramePass, QuietPass, OwnFrame DEF OwnInv, Proc, UniqueIds, HashIsOwn
<1>7. ASSUME UNCHANGED vars \/ Tick PROVE Still
  BY <1>2, <1>7 DEF vars, state, Tick, store, locals
<1> HIDE DEF Still
<1>8. ASSUME EditInputs \/ BreakInputs \/ RepairInputs \/ \E s \in Service : Drift(s)
      PROVE  Still
  BY <1>2, <1>8, OutsideQuiet
<1>9. Still
  BY <1>3, <1>4, <1>5, <1>6, <1>7, <1>8 DEF Next
<1> QED
  BY <1>1, <1>9 DEF OwnInv, Still

LEMMA OwnInit == Init => OwnInv
  BY TypeInit DEF Init, OwnInv, UniqueIds, Owns, HashIsOwn, Applying, Deleting

(* A revision's stamped hash is the hash of that revision's own rendering,   *)
(* however many applies run in the background and in whatever order they     *)
(* stamp (SetRevisionRenderedHash), as long as no stack is undeployed.       *)
THEOREM HashesAreOwn == Spec => [](NoUndeploys => HashIsOwn)
<1>1. (NoUndeploys => OwnInv) /\ [Next]_vars => (NoUndeploys => OwnInv)'
  <2>1. [Next]_vars /\ NoUndeploys' => NoUndeploys
    BY Zenon DEF Next, vars, NoUndeploys
  <2> QED
    BY <2>1, OwnStep
<1>2. Init => (NoUndeploys => OwnInv)
  BY OwnInit
<1>3. (NoUndeploys => OwnInv) => (NoUndeploys => HashIsOwn)
  BY DEF OwnInv
<1> QED
  BY <1>1, <1>2, <1>3, PTL DEF Spec

-----------------------------------------------------------------------------
(* AuditTrail. *)

LEMMA AuditStep ==
  Typed /\ [Next]_vars =>
    [\A r \in revs : row'.current # 0 =>
       \E q \in revs' : q.id = r.id /\ q.src = r.src /\ q.ren = r.ren]_vars
<1> SUFFICES ASSUME Typed, Next, NEW r \in revs, row'.current # 0
             PROVE  \E q \in revs' : q.id = r.id /\ q.src = r.src /\ q.ren = r.ren
  OBVIOUS
<1>1. CASE r \in revs'
  BY <1>1
<1>2. ASSUME NEW p \in Proc, Advance(p) \/ Fault(p)
      PROVE  \E q \in revs' : q.id = r.id /\ q.src = r.src /\ q.ren = r.ren
  <2>1. CASE Record(p)
    BY <2>1, RecordEffect
  <2>2. CASE Stamp(p)
    BY <2>2, StampEffect
  <2>3. CASE UndeployDelete(p)
    BY <2>3 DEF UndeployDelete, NoRow
  <2>4. CASE ~Record(p) /\ ~Stamp(p) /\ ~UndeployDelete(p)
    BY <1>2, <2>4, QuietHandler
  <2> QED
    BY <2>1, <2>2, <2>3, <2>4
<1>3. CASE Tick \/ Crash
  BY <1>3, <1>1 DEF Tick, Crash, store
<1>4. CASE EditInputs \/ BreakInputs \/ RepairInputs \/ \E s \in Service : Drift(s)
  BY <1>4, <1>1, OutsideQuiet
<1>5. CASE (\E j \in Job : Request(j)) \/ Pass \/ SnapshotFails
  BY <1>5, <1>1, QuietRequest, QuietPass
<1> QED
  BY <1>2, <1>3, <1>4, <1>5 DEF Next

(* No step of any handler rewrites or drops a recorded revision while the    *)
(* stack exists: not a redeploy, not a rollback, not a late stamp.           *)
THEOREM HistoryIsKept == Spec => AuditTrail
  BY AlwaysTyped, AuditStep, PTL DEF Spec, AuditTrail
==============================================================================
