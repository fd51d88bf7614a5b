------------------------- MODULE ControlPlaneProofs -------------------------
(***************************************************************************)
(* Proofs about ControlPlane, for any number of managers, any bounds and   *)
(* any number of kits kept.                                                *)
(*                                                                         *)
(* BasicInv holds in every environment.  It says that stamps name kits     *)
(* uniquely, that pruning keeps the newest kit, and where a restore and a  *)
(* snapshot are in their steps.  TypeOK is not inductive without it: what  *)
(* a restore writes comes from the kit its target names.                   *)
(*                                                                         *)
(* SafeInv holds in a Swarm that keeps its quorum and elects a new leader  *)
(* only when the old one's daemon is down, wherever crashes and failed     *)
(* calls hit: there failover is safe.                                      *)
(***************************************************************************)
EXTENDS ControlPlane, TLAPS

Named(a) == \E k \in published : k.at = a

KitsInv ==
  /\ \A k \in published : 0 < k.at /\ k.at <= clock
  /\ \A j, k \in published : j.at = k.at => j = k
  /\ \A a \in states \cup keys : Named(a)
  /\ published # {} => \E t \in states : \A k \in published : k.at <= t

RestoreInv(n) ==
  /\ disk[n].rev = 0 \/ Named(disk[n].rev)
  /\ pc[n] \in {"inspect", "compare", "extract", "adopt", "stamp"} =>
       Named(target[n]) /\ disk[n].rev <= target[n]
  /\ \A k \in published :
       /\ pc[n] \in {"adopt", "stamp"} /\ k.at = target[n] =>
            disk[n].db = k.db /\ disk[n].sealed = k.sealed
       /\ pc[n] = "stamp" /\ k.at = target[n] => disk[n].key = k.key

SnapInv(n) ==
  /\ snap[n].step # "idle" => pc[n] \in {"open", "serve"}
  /\ snap[n].step = "create" => snap[n].key \in Node
  /\ snap[n].step \in {"key", "mark"} => Named(snap[n].at)

LoopInv(n) ==
  /\ loops[n] \/ late[n] # {} => pc[n] = "serve"
  /\ \A a \in late[n] : Named(a)

BasicInv == TypeOK /\ KitsInv /\ \A n \in Node : RestoreInv(n) /\ SnapInv(n) /\ LoopInv(n)

USE NodeAssumption

-----------------------------------------------------------------------------
(* KitAt finds the kit of a stamp that names one. *)
LEMMA KitAtNamed ==
  ASSUME NEW a, Named(a)
  PROVE  KitAt(a) \in published /\ KitAt(a).at = a
BY DEF Named, KitAt

(* Newest is the newest kit there ever was, as soon as there is one. *)
LEMMA NewestIsLast ==
  ASSUME BasicInv, states # {}
  PROVE  /\ Newest \in states
         /\ Named(Newest)
         /\ \A k \in published : k.at <= Newest
<1>1. published # {}
  BY DEF BasicInv, KitsInv, Named
<1>2. PICK t \in states : \A k \in published : k.at <= t
  BY <1>1 DEF BasicInv, KitsInv
<1>3. \A b \in states : b <= t
  BY <1>2 DEF BasicInv, KitsInv, Named
<1>4. Newest \in states /\ \A b \in states : b <= Newest
  BY <1>2, <1>3 DEF Newest
<1>5. states \subseteq Nat /\ \A k \in published : k.at \in Nat
  BY DEF BasicInv, TypeOK, Kit
<1>6. \A k \in published : k.at <= Newest
  BY <1>2, <1>4, <1>5
<1> QED
  BY <1>4, <1>6 DEF BasicInv, KitsInv

(* The empty set has no elements, from the definition of Cardinality. *)
LEMMA EmptyIsZero == Cardinality({}) = 0
<1> DEFINE Count(c) ==
      [T \in SUBSET {} |-> IF T = {} THEN 0 ELSE 1 + c[T \ {CHOOSE x : x \in T}]]
<1> DEFINE cs == CHOOSE c : c = Count(c)
<1>1. \E c : c = Count(c)
  <2>1. [T \in SUBSET {} |-> 0] = Count([T \in SUBSET {} |-> 0])
    OBVIOUS
  <2> QED
    BY <2>1
<1>2. cs = Count(cs)
  BY <1>1
<1>3. Cardinality({}) = cs[{}]
  BY Zenon DEF Cardinality
<1>4. Count(cs)[{}] = 0
  OBVIOUS
<1> QED
  BY <1>2, <1>3, <1>4

(* Pruning never removes the highest stamp of a family. *)
LEMMA PrunedKeepsLast ==
  ASSUME env \in Settings, NEW S \in SUBSET Nat, NEW t \in S, \A b \in S : b <= t
  PROVE  t \in Pruned(S)
<1>1. {b \in S : b > t} = {}
  <2>1. \A b \in S : b \in Nat /\ ~(b > t)
    OBVIOUS
  <2> QED
    BY Zenon, <2>1
<1>2. Cardinality({b \in S : b > t}) = 0
  BY <1>1, EmptyIsZero
<1>3. env.keep \in Nat \ {0}
  BY SettingsAssumption
<1> QED
  BY <1>2, <1>3 DEF Pruned

(* Whether it ends well or not, a prune keeps the highest stamp of a family. *)
LEMMA PruneKeepsLast ==
  ASSUME env \in Settings, NEW S \in SUBSET Nat, NEW t \in S, \A b \in S : b <= t,
         NEW broken \in BOOLEAN, NEW T \in PruneLeaves(S, broken)
  PROVE  t \in T
<1>1. CASE T = S \/ T = Pruned(S)
  BY <1>1, PrunedKeepsLast
<1>2. CASE \E a \in S : T = {b \in S : b >= a}
  BY <1>2
<1> QED
  BY <1>1, <1>2, Zenon DEF PruneLeaves

(* A prune only removes. *)
LEMMA PruneOnlyRemoves ==
  ASSUME NEW S, NEW broken, NEW T \in PruneLeaves(S, broken)
  PROVE  T \subseteq S
BY Zenon DEF PruneLeaves, Pruned

(* The empty snapshot and a started one are typed.                           *)
LEMMA NoSnapTyped ==
  /\ NoSnap \in Snap
  /\ Started("control") \in Snap /\ Started("loop") \in Snap
BY Zenon DEF NoSnap, Started, Snap, Step, MaybeNode

(* The initial states satisfy BasicInv.                                      *)
LEMMA BasicInit == Init => BasicInv
<1> SUFFICES ASSUME Init PROVE BasicInv
  OBVIOUS
<1>1. PICK joined \in SUBSET (Node \ {Founder}) :
        disk = [n \in Node |-> IF n \in joined THEN EmptyDisk ELSE OwnDisk(n)]
  BY DEF Init
<1>2. disk \in [Node -> Disk]
  BY <1>1 DEF Disk, EmptyDisk, OwnDisk, MaybeNode
<1>3. FreshWatch \in WatchState
  BY Zenon DEF FreshWatch, WatchState
<1>4. NoSnap \in Snap
  BY NoSnapTyped
<1>5. loops \in [Node -> BOOLEAN]
  BY Zenon DEF Init
<1>6. TypeOK
  BY <1>2, <1>3, <1>4, <1>5 DEF Init, TypeOK, MaybeNode, Phase
<1>7. \A n \in Node : disk[n].rev = 0
  BY <1>1 DEF EmptyDisk, OwnDisk
<1>8. \A n \in Node : LoopInv(n)
  BY DEF Init, LoopInv
<1>9. \A n \in Node : RestoreInv(n) /\ SnapInv(n)
  BY <1>7 DEF Init, RestoreInv, SnapInv, NoSnap
<1> QED
  BY <1>6, <1>8, <1>9 DEF Init, BasicInv, KitsInv

(* Exit and the two ways a restore ends keep the daemon's variables typed.   *)
LEMMA ExitTyped ==
  ASSUME TypeOK, NEW n \in Node, Exit(n)
  PROVE  /\ pc' \in [Node -> Phase] /\ ctx' \in [Node -> {"boot", "promote"}]
         /\ target' \in [Node -> Nat] /\ snap' \in [Node -> Snap]
         /\ watch' \in [Node -> WatchState] /\ loops' \in [Node -> BOOLEAN]
         /\ late' \in [Node -> SUBSET Nat]
<1>1. FreshWatch \in WatchState
  BY Zenon DEF FreshWatch, WatchState
<1>2. NoSnap \in Snap
  BY NoSnapTyped
<1>3. loops' \in [Node -> BOOLEAN]
  BY Zenon DEF Exit, TypeOK
<1> QED
  BY <1>1, <1>2, <1>3 DEF Exit, TypeOK, Phase

(* The updates of a data dir and of a snapshot are typed.                    *)
LEMMA DiskTyped ==
  ASSUME NEW d \in Disk, NEW db \in SUBSET Nat, NEW t \in Nat,
         NEW sealed \in MaybeNode, NEW key \in MaybeNode
  PROVE  /\ [d EXCEPT !.db = db, !.sealed = sealed, !.mtime = t] \in Disk
         /\ [d EXCEPT !.key = key] \in Disk
         /\ [d EXCEPT !.key = key, !.mtime = t] \in Disk
         /\ [d EXCEPT !.rev = t] \in Disk
BY Zenon DEF Disk

LEMMA DiskWriteTyped ==
  ASSUME NEW d \in Disk, NEW db \in SUBSET Nat, NEW t \in Nat
  PROVE  [d EXCEPT !.db = db, !.mtime = t] \in Disk
BY Zenon DEF Disk

LEMMA SnapTyped ==
  ASSUME NEW s \in Snap, NEW step \in Step, NEW db \in SUBSET Nat,
         NEW sealed \in MaybeNode, NEW key \in MaybeNode
  PROVE  [s EXCEPT !.step = step, !.db = db, !.sealed = sealed, !.key = key] \in Snap
BY Zenon DEF Snap

LEMMA SnapStepTyped ==
  ASSUME NEW s \in Snap, NEW step \in Step
  PROVE  [s EXCEPT !.step = step] \in Snap
BY DEF Snap

LEMMA SnapStampTyped ==
  ASSUME NEW s \in Snap, NEW step \in Step, NEW t \in Nat
  PROVE  [s EXCEPT !.step = step, !.at = t] \in Snap
BY Zenon DEF Snap

(* No step changes the setting. *)
LEMMA SameSetting == [Next]_vars => env' = env
BY Zenon DEF Next, vars

(* Every step of ControlPlane keeps the types, given the rest of BasicInv.   *)
LEMMA TypeStep == BasicInv /\ [Next]_vars => TypeOK'
<1> SUFFICES ASSUME BasicInv, [Next]_vars PROVE TypeOK'
  OBVIOUS
<1> TypeOK
  BY DEF BasicInv
<1> env' \in Settings
  BY Zenon, SameSetting DEF TypeOK
<1>D. \A n \in Node : disk[n] \in Disk /\ snap[n] \in Snap
  BY DEF TypeOK
<1>F. \A n \in Node :
        /\ disk[n].db \in SUBSET Nat /\ disk[n].sealed \in MaybeNode
        /\ disk[n].key \in MaybeNode /\ snap[n].at \in Nat
        /\ snap[n].db \in SUBSET Nat /\ snap[n].sealed \in MaybeNode
  BY <1>D DEF Disk, Snap
<1>S. {"idle", "read", "create", "key", "mark", "prune", "prunekeys"} \subseteq Step
  BY DEF Step
<1>1. CASE UNCHANGED vars
  BY <1>1 DEF TypeOK, vars, state, swarm, daemons
<1>2. CASE LoseQuorum
  BY <1>2 DEF LoseQuorum, TypeOK, MaybeNode, daemons
<1>3. ASSUME NEW n \in Node, Elect(n) PROVE TypeOK'
  BY <1>3 DEF Elect, TypeOK, MaybeNode, daemons
<1>4. ASSUME NEW n \in Node, Crash(n) PROVE TypeOK'
  BY <1>4, ExitTyped DEF Crash, TypeOK, swarm
<1>5. ASSUME NEW n \in Node, Start(n) PROVE TypeOK'
  BY <1>5 DEF Start, TypeOK, swarm, Phase
<1>6. ASSUME NEW n \in Node, Mutate(n) PROVE TypeOK'
  <2> DEFINE d == [disk[n] EXCEPT !.db = disk[n].db \cup {ops + 1}, !.mtime = clock + 1]
  <2>1. d \in Disk
    <3>1. disk[n].db \cup {ops + 1} \in SUBSET Nat /\ clock + 1 \in Nat
      BY <1>F DEF TypeOK
    <3> QED
      BY Zenon, <1>D, <3>1, DiskWriteTyped
  <2>2. disk' \in [Node -> Disk]
    <3>1. disk' = [disk EXCEPT ![n] = d]
      BY <1>6 DEF Mutate
    <3> HIDE DEF d
    <3> QED
      BY <2>1, <3>1 DEF TypeOK
  <2> QED
    BY <1>6, <2>2 DEF Mutate, TypeOK, swarm, daemons
<1>7. ASSUME NEW n \in Node, RestoreList(n) PROVE TypeOK'
  BY Zenon, <1>7, NewestIsLast DEF RestoreList, RestoreReturns, TypeOK, swarm, Phase
<1>E. ASSUME NEW n \in Node, RestoreFails(n)
      PROVE  /\ pc' \in [Node -> Phase] /\ ctx' \in [Node -> {"boot", "promote"}]
             /\ target' \in [Node -> Nat] /\ snap' \in [Node -> Snap]
             /\ watch' \in [Node -> WatchState] /\ loops' \in [Node -> BOOLEAN]
             /\ late' \in [Node -> SUBSET Nat]
  BY Zenon, <1>E, ExitTyped DEF RestoreFails, TypeOK, Phase
<1>8. ASSUME NEW n \in Node, RestoreInspect(n) PROVE TypeOK'
  BY <1>8, <1>E DEF RestoreInspect, RestoreReturns, TypeOK, swarm, Phase
<1>8a. ASSUME NEW n \in Node, RestoreCompare(n) PROVE TypeOK'
  <2>1. /\ faults' \in Nat /\ clock' \in Nat /\ ops' \in Nat
        /\ leader' \in MaybeNode /\ published' \subseteq Kit
        /\ states' \subseteq Nat /\ keys' \subseteq Nat /\ disk' \in [Node -> Disk]
    BY <1>8a DEF RestoreCompare, TypeOK, swarm
  <2>2. \/ RestoreFails(n)
        \/ /\ \E p \in Phase : pc' = [pc EXCEPT ![n] = p]
           /\ UNCHANGED <<ctx, target, snap, late, watch, loops>>
    BY Zenon, <1>8a DEF RestoreCompare, RestoreReturns, Phase
  <2>3. CASE RestoreFails(n)
    BY <1>E, <2>1, <2>3 DEF TypeOK
  <2>4. CASE /\ \E p \in Phase : pc' = [pc EXCEPT ![n] = p]
             /\ UNCHANGED <<ctx, target, snap, late, watch, loops>>
    BY <2>1, <2>4 DEF TypeOK
  <2> QED
    BY <2>2, <2>3, <2>4
<1>8b. ASSUME NEW n \in Node, RestoreBreaks(n) PROVE TypeOK'
  BY <1>8b, <1>E DEF RestoreBreaks, TypeOK, swarm
<1>9. ASSUME NEW n \in Node, RestoreExtract(n) PROVE TypeOK'
  <2>1. KitAt(target[n]) \in Kit
    BY <1>9, KitAtNamed DEF RestoreExtract, ExtractKit, BasicInv, RestoreInv, TypeOK
  <2> DEFINE k == KitAt(target[n])
  <2>2. [disk[n] EXCEPT !.db = k.db, !.sealed = k.sealed, !.mtime = k.at] \in Disk
    BY Zenon, <2>1, <1>D, DiskTyped DEF Kit
  <2> QED
    BY <1>9, <2>2 DEF RestoreExtract, ExtractKit, TypeOK, swarm, Phase
<1>10. ASSUME NEW n \in Node, RestoreKey(n) PROVE TypeOK'
  <2>1. KitAt(target[n]) \in Kit
    BY <1>10, KitAtNamed DEF RestoreKey, BasicInv, RestoreInv, TypeOK
  <2>2. [disk[n] EXCEPT !.key = KitAt(target[n]).key] \in Disk
    BY Zenon, <2>1, <1>D, DiskTyped DEF Kit, MaybeNode
  <2> QED
    BY <1>10, <2>2 DEF RestoreKey, TypeOK, swarm, Phase
<1>11. ASSUME NEW n \in Node, RestoreMark(n) PROVE TypeOK'
  <2>1. [disk[n] EXCEPT !.rev = target[n]] \in Disk
    BY Zenon, <1>D, DiskTyped DEF TypeOK
  <2> QED
    BY <1>11, <2>1 DEF RestoreMark, RestoreReturns, TypeOK, swarm, Phase
<1>12. ASSUME NEW n \in Node, WaitEnds(n) PROVE TypeOK'
  BY <1>12 DEF WaitEnds, TypeOK, swarm, Phase
<1>13. ASSUME NEW n \in Node, InitialSnapshot(n) PROVE TypeOK'
  BY <1>13, NoSnapTyped DEF InitialSnapshot, TypeOK, swarm, Phase
<1>14. ASSUME NEW n \in Node, OpenStore(n) PROVE TypeOK'
  <2>1. CASE ~HasDB(n)
    BY <1>14, <2>1, ExitTyped DEF OpenStore, TypeOK, swarm
  <2>2. CASE HasDB(n) /\ disk[n].key # NoNode
    BY <1>14, <2>2 DEF OpenStore, TypeOK, swarm, Phase
  <2>3. CASE HasDB(n) /\ disk[n].key = NoNode
    <3>1. n \in MaybeNode /\ clock + 1 \in Nat
      BY DEF MaybeNode, TypeOK
    <3>2. [disk[n] EXCEPT !.key = n, !.mtime = clock + 1] \in Disk
      BY Zenon, <1>D, <1>F, <3>1, DiskTyped
    <3> QED
      BY <1>14, <2>3, <3>1, <3>2 DEF OpenStore, TypeOK, swarm, Phase
  <2> QED
    BY <2>1, <2>2, <2>3
<1>15. ASSUME NEW n \in Node, LeadershipPoll(n) PROVE TypeOK'
  <2>1. WatchAfter(View(n), watch[n]) \in WatchState
    <3>1. View(n) \in {"leader", "follower", "unreachable"}
      BY DEF View
    <3> QED
      BY <3>1 DEF WatchAfter, WatchState
  <2>2. loops' \in [Node -> BOOLEAN]
    BY <1>15, Zenon DEF LeadershipPoll, TypeOK
  <2>3. snap' \in [Node -> Snap]
    BY <1>15, NoSnapTyped DEF LeadershipPoll, TypeOK
  <2>4. watch' \in [Node -> WatchState]
    BY <1>15, <2>1 DEF LeadershipPoll, TypeOK
  <2>5. late' \in [Node -> SUBSET Nat]
    BY <1>15, <1>F DEF LeadershipPoll, CancelLoops, TypeOK
  <2> QED
    BY <1>15, <2>2, <2>3, <2>4, <2>5 DEF LeadershipPoll, TypeOK, swarm
<1>16. ASSUME NEW n \in Node, LoopTick(n) PROVE TypeOK'
  BY <1>16, NoSnapTyped DEF LoopTick, TypeOK, swarm
<1>17. ASSUME NEW n \in Node, SnapshotRead(n) PROVE TypeOK'
  <2>1. [snap[n] EXCEPT !.step = "create", !.db = disk[n].db,
                        !.sealed = disk[n].sealed, !.key = disk[n].key] \in Snap
    BY Zenon, <1>D, <1>F, <1>S, SnapTyped
  <2> QED
    BY <1>17, <2>1, NoSnapTyped DEF SnapshotRead, ReadKit, TypeOK, swarm
<1>18. ASSUME NEW n \in Node, SnapshotCreateState(n) PROVE TypeOK'
  <2>1. [snap[n] EXCEPT !.step = "key", !.at = clock + 1] \in Snap
    <3>1. clock + 1 \in Nat /\ "key" \in Step
      BY <1>S DEF TypeOK
    <3> QED
      BY Zenon, <1>D, <3>1, SnapStampTyped
  <2>2. [at |-> clock + 1, by |-> n, db |-> snap[n].db,
         sealed |-> snap[n].sealed, key |-> snap[n].key] \in Kit
    BY <1>18, <1>F DEF SnapshotCreateState, BasicInv, SnapInv, TypeOK, Kit
  <2> QED
    BY <1>18, <2>1, <2>2 DEF SnapshotCreateState, TypeOK
<1>19. ASSUME NEW n \in Node, SnapshotCreateKey(n) PROVE TypeOK'
  <2>1. [snap[n] EXCEPT !.step = "mark"] \in Snap
    BY <1>D, <1>S, SnapStepTyped
  <2> QED
    BY <1>19, <1>F, <2>1 DEF SnapshotCreateKey, TypeOK
<1>20. ASSUME NEW n \in Node, SnapshotFails(n) PROVE TypeOK'
  BY <1>20, NoSnapTyped DEF SnapshotFails, TypeOK, swarm
<1>21. ASSUME NEW n \in Node, SnapshotMark(n) PROVE TypeOK'
  <2>1. [disk[n] EXCEPT !.rev = snap[n].at] \in Disk
    BY Zenon, <1>D, <1>F, DiskTyped
  <2>2. [snap[n] EXCEPT !.step = "prune"] \in Snap
    BY <1>D, <1>S, SnapStepTyped
  <2> QED
    BY <1>21, <2>1, <2>2 DEF SnapshotMark, TypeOK, swarm
<1>22. ASSUME NEW n \in Node, SnapshotMarkFails(n) PROVE TypeOK'
  <2>1. [snap[n] EXCEPT !.step = "prune"] \in Snap
    BY <1>D, <1>S, SnapStepTyped
  <2> QED
    BY <1>22, <2>1 DEF SnapshotMarkFails, TypeOK, swarm
<1>23. ASSUME NEW n \in Node, SnapshotMarkLate(n) PROVE TypeOK'
  <2>1. PICK a \in late[n] : /\ disk' = [disk EXCEPT ![n].rev = a]
                            /\ late' = [late EXCEPT ![n] = @ \ {a}]
    BY <1>23 DEF SnapshotMarkLate
  <2>2. a \in Nat /\ late[n] \ {a} \in SUBSET Nat
    BY <2>1 DEF TypeOK
  <2>3. [disk[n] EXCEPT !.rev = a] \in Disk
    BY Zenon, <1>D, <1>F, <2>2, DiskTyped
  <2> QED
    BY <1>23, <2>1, <2>2, <2>3 DEF SnapshotMarkLate, TypeOK, swarm
<1>24. ASSUME NEW n \in Node, SnapshotPruneStates(n) PROVE TypeOK'
  <2>1. [snap[n] EXCEPT !.step = "prunekeys"] \in Snap
    BY <1>D, <1>S, SnapStepTyped
  <2>2. states' \subseteq states
    BY Zenon, <1>24, PruneOnlyRemoves DEF SnapshotPruneStates
  <2> QED
    BY <1>24, <2>1, <2>2 DEF SnapshotPruneStates, TypeOK
<1>25. ASSUME NEW n \in Node, SnapshotPruneKeys(n) PROVE TypeOK'
  <2>1. keys' \subseteq keys
    BY Zenon, <1>25, PruneOnlyRemoves DEF SnapshotPruneKeys
  <2> QED
    BY <1>25, <2>1, NoSnapTyped DEF SnapshotPruneKeys, TypeOK
<1> QED
  BY Zenon, <1>1, <1>2, <1>3, <1>4, <1>5, <1>6, <1>7, <1>8, <1>8a, <1>8b, <1>9, <1>10, <1>11,
     <1>12, <1>13, <1>14, <1>15, <1>16, <1>17, <1>18, <1>19, <1>20, <1>21, <1>22, <1>23,
     <1>24, <1>25
  DEF Next, Restore, Snapshot

(* Six actions move the clock or the configs. *)
LEMMA KitSteps ==
  ASSUME [Next]_vars
  PROVE  \/ UNCHANGED <<clock, published, states, keys>>
         \/ \E n \in Node : \/ Mutate(n) \/ OpenStore(n)
                           \/ SnapshotCreateState(n) \/ SnapshotCreateKey(n)
                           \/ SnapshotPruneStates(n) \/ SnapshotPruneKeys(n)
<1> DEFINE Still == UNCHANGED <<clock, published, states, keys>>
<1>1. LoseQuorum \/ UNCHANGED vars => Still
  BY DEF LoseQuorum, vars, state, swarm
<1>2. ASSUME NEW n \in Node, Elect(n) \/ Crash(n) \/ Start(n) PROVE Still
  BY <1>2 DEF Elect, Crash, Start, swarm
<1>3. ASSUME NEW n \in Node, Restore(n) PROVE Still
  <2>1. CASE RestoreList(n) \/ RestoreInspect(n) \/ RestoreCompare(n)
    BY <2>1 DEF RestoreList, RestoreInspect, RestoreCompare, swarm
  <2>2. CASE RestoreExtract(n) \/ RestoreKey(n) \/ RestoreMark(n)
    BY <2>2 DEF RestoreExtract, RestoreKey, RestoreMark, swarm
  <2> QED
    BY Zenon, <1>3, <2>1, <2>2 DEF Restore
<1>4. ASSUME NEW n \in Node, RestoreBreaks(n) \/ WaitEnds(n) \/ InitialSnapshot(n) PROVE Still
  BY <1>4 DEF RestoreBreaks, WaitEnds, InitialSnapshot, swarm
<1>5. ASSUME NEW n \in Node, LeadershipPoll(n) \/ LoopTick(n) PROVE Still
  BY <1>5 DEF LeadershipPoll, LoopTick, swarm
<1>6. ASSUME NEW n \in Node, SnapshotRead(n) \/ SnapshotFails(n) PROVE Still
  BY <1>6 DEF SnapshotRead, SnapshotFails, swarm
<1>7. ASSUME NEW n \in Node, SnapshotMark(n) \/ SnapshotMarkFails(n) \/ SnapshotMarkLate(n)
      PROVE  Still
  BY <1>7 DEF SnapshotMark, SnapshotMarkFails, SnapshotMarkLate, swarm
<1> HIDE DEF Still
<1>8. Still \/ \E n \in Node : \/ Mutate(n) \/ OpenStore(n)
                              \/ SnapshotCreateState(n) \/ SnapshotCreateKey(n)
                              \/ SnapshotPruneStates(n) \/ SnapshotPruneKeys(n)
  BY <1>1, <1>2, <1>3, <1>4, <1>5, <1>6, <1>7, Zenon DEF Next, Snapshot
<1> QED
  BY <1>8 DEF Still

(* What every step does to the kits: it leaves them alone, or it publishes   *)
(* one under a fresh stamp.                                                  *)
Grows ==
  /\ published \subseteq published'
  /\ \A k \in published' : k \in published \/ k.at = clock + 1

LEMMA NextGrows ==
  ASSUME [Next]_vars
  PROVE  Grows
<1>1. ASSUME NEW n \in Node, Mutate(n) \/ OpenStore(n) \/ SnapshotCreateState(n)
      PROVE  Grows
  BY <1>1 DEF Grows, Mutate, OpenStore, SnapshotCreateState, swarm
<1>2. ASSUME NEW n \in Node,
             SnapshotCreateKey(n) \/ SnapshotPruneStates(n) \/ SnapshotPruneKeys(n)
      PROVE  Grows
  BY <1>2 DEF Grows, SnapshotCreateKey, SnapshotPruneStates, SnapshotPruneKeys
<1>3. UNCHANGED <<clock, published, states, keys>> => Grows
  BY DEF Grows
<1> QED
  BY Zenon, <1>1, <1>2, <1>3, KitSteps

(* Stamps stay unique, and the newest kit stays listed: a new kit is newer   *)
(* than all others, and pruning keeps the newest.                            *)
LEMMA KitsStep == BasicInv /\ [Next]_vars => KitsInv'
<1> SUFFICES ASSUME BasicInv, [Next]_vars PROVE KitsInv'
  OBVIOUS
<1>T. /\ TypeOK /\ KitsInv
      /\ clock \in Nat /\ states \subseteq Nat /\ \A k \in published : k.at \in Nat
  BY DEF BasicInv, TypeOK, Kit
<1>0. ASSUME UNCHANGED <<published, states, keys>>, clock' = clock \/ clock' = clock + 1
      PROVE  KitsInv'
  BY <1>0, <1>T DEF KitsInv, Named
<1>1. CASE UNCHANGED <<clock, published, states, keys>>
  BY <1>0, <1>1
<1>2. ASSUME NEW n \in Node, Mutate(n) \/ OpenStore(n) PROVE KitsInv'
  BY <1>0, <1>2 DEF Mutate, OpenStore, swarm
<1>3. ASSUME NEW n \in Node, SnapshotCreateState(n) PROVE KitsInv'
  <2> DEFINE kit == [at |-> clock + 1, by |-> n, db |-> snap[n].db,
                     sealed |-> snap[n].sealed, key |-> snap[n].key]
  <2>1. /\ published' = published \cup {kit} /\ kit.at = clock + 1
        /\ states' = states \cup {clock + 1} /\ clock' = clock + 1 /\ keys' = keys
    BY <1>3 DEF SnapshotCreateState
  <2> HIDE DEF kit
  <2>2. \A k \in published' : 0 < k.at /\ k.at <= clock'
    BY <2>1, <1>T DEF KitsInv
  <2>3. \A j, k \in published' : j.at = k.at => j = k
    BY <2>1, <1>T DEF KitsInv
  <2>4. \A a \in (states \cup keys)' : Named(a)'
    BY <2>1, <1>T DEF KitsInv, Named
  <2>5. \E t \in states' : \A k \in published' : k.at <= t
    <3>1. clock + 1 \in states' /\ \A k \in published' : k.at <= clock + 1
      BY <2>1, <2>2
    <3> QED
      BY <3>1
  <2> QED
    BY <2>2, <2>3, <2>4, <2>5 DEF KitsInv
<1>4. ASSUME NEW n \in Node, SnapshotCreateKey(n) PROVE KitsInv'
  <2>1. Named(snap[n].at) /\ keys' = keys \cup {snap[n].at} /\ UNCHANGED <<clock, published, states>>
    BY <1>4 DEF SnapshotCreateKey, BasicInv, SnapInv
  <2>2. \A a \in (states \cup keys)' : Named(a)'
    BY <2>1, <1>T DEF KitsInv, Named
  <2> QED
    BY <2>1, <2>2, <1>T DEF KitsInv
<1>5. ASSUME NEW n \in Node, SnapshotPruneStates(n) PROVE KitsInv'
  <2>1. PICK broken \in BOOLEAN : states' \in PruneLeaves(states, broken)
    BY <1>5 DEF SnapshotPruneStates
  <2>2. published' = published /\ clock' = clock /\ keys' = keys /\ states' \subseteq states
    BY <1>5, <2>1, PruneOnlyRemoves DEF SnapshotPruneStates
  <2>3. published # {} => \E t \in states' : \A k \in published : k.at <= t
    <3> SUFFICES ASSUME published # {}
                 PROVE  \E t \in states' : \A k \in published : k.at <= t
      OBVIOUS
    <3>1. PICK t \in states : \A k \in published : k.at <= t
      BY <1>T DEF KitsInv
    <3>2. \A b \in states : b <= t
      BY <3>1, <1>T DEF KitsInv, Named
    <3>3. t \in states'
      BY <2>1, <3>2, <1>T, PruneKeepsLast DEF TypeOK
    <3> QED
      BY <3>1, <3>3
  <2>4. \A a \in (states \cup keys)' : Named(a)'
    BY Zenon, <2>2, <1>T DEF KitsInv, Named
  <2> QED
    BY <2>2, <2>3, <2>4, <1>T DEF KitsInv
<1>6. ASSUME NEW n \in Node, SnapshotPruneKeys(n) PROVE KitsInv'
  <2>1. UNCHANGED <<clock, published, states>> /\ keys' \subseteq keys
    BY <1>6, PruneOnlyRemoves DEF SnapshotPruneKeys
  <2>2. \A a \in (states \cup keys)' : Named(a)'
    BY <2>1, <1>T DEF KitsInv, Named
  <2> QED
    BY <2>1, <2>2, <1>T DEF KitsInv
<1> QED
  BY Zenon, <1>1, <1>2, <1>3, <1>4, <1>5, <1>6, KitSteps

(* A manager whose data dir and daemon a step leaves alone keeps its part of *)
(* BasicInv, whatever kit the step publishes.                                *)
Untouched(m) ==
  /\ disk'[m] = disk[m] /\ pc'[m] = pc[m] /\ target'[m] = target[m] /\ snap'[m] = snap[m]

LEMMA NamedGrows ==
  ASSUME Grows, NEW a, Named(a)
  PROVE  Named(a)'
BY DEF Grows, Named

(* A stamp that names a kit never names the one being published.             *)
LEMMA NamedIsOld ==
  ASSUME BasicInv, Grows, NEW k \in published', NEW a, k.at = a, Named(a)
  PROVE  k \in published
<1>1. a <= clock /\ clock \in Nat /\ a \in Nat
  BY DEF BasicInv, KitsInv, Named, TypeOK, Kit
<1> QED
  BY <1>1 DEF Grows

LEMMA UntouchedInv ==
  ASSUME BasicInv, Grows, NEW m \in Node, Untouched(m)
  PROVE  RestoreInv(m)' /\ SnapInv(m)'
<1>1. RestoreInv(m) /\ SnapInv(m)
  BY DEF BasicInv
<1>2. SnapInv(m)'
  BY <1>1, NamedGrows DEF Untouched, SnapInv
<1>3. /\ (disk[m].rev = 0 \/ Named(disk[m].rev))'
      /\ (pc[m] \in {"inspect", "compare", "extract", "adopt", "stamp"} =>
            Named(target[m]) /\ disk[m].rev <= target[m])'
  BY <1>1, NamedGrows DEF Untouched, RestoreInv
<1>4. ASSUME NEW k \in published', pc'[m] \in {"adopt", "stamp"}, k.at = target'[m]
      PROVE  k \in published
  BY <1>1, <1>4, NamedIsOld DEF Untouched, RestoreInv
<1> QED
  BY <1>1, <1>2, <1>3, <1>4 DEF Untouched, RestoreInv

(* A daemon that is neither restoring nor publishing has little to keep.     *)
LEMMA IdleInv ==
  ASSUME BasicInv, Grows, NEW m \in Node, disk'[m].rev = disk[m].rev,
         pc'[m] \in {"down", "list", "wait", "publish"}, snap'[m].step = "idle"
  PROVE  RestoreInv(m)' /\ SnapInv(m)'
<1>1. disk[m].rev = 0 \/ Named(disk[m].rev)
  BY DEF BasicInv, RestoreInv
<1> QED
  BY <1>1, NamedGrows DEF RestoreInv, SnapInv

(* The data dir's part of BasicInv, for a daemon that opens or serves.       *)
LEMMA ServingInv ==
  ASSUME BasicInv, Grows, NEW m \in Node, disk'[m].rev = disk[m].rev,
         pc'[m] \in {"open", "serve"}
  PROVE  RestoreInv(m)'
<1>1. disk[m].rev = 0 \/ Named(disk[m].rev)
  BY DEF BasicInv, RestoreInv
<1> QED
  BY <1>1, NamedGrows DEF RestoreInv

LEMMA NodeStep ==
  ASSUME BasicInv, [Next]_vars, NEW m \in Node
  PROVE  RestoreInv(m)' /\ SnapInv(m)'
<1> DEFINE Goal == RestoreInv(m)' /\ SnapInv(m)'
<1> SUFFICES Goal
  OBVIOUS
<1>G. Grows
  BY NextGrows
<1>U. Untouched(m) => Goal
  BY <1>G, UntouchedInv
<1>T. /\ TypeOK
      /\ RestoreInv(m) /\ SnapInv(m)
      /\ NoSnap.step = "idle"
      /\ disk[m].rev \in Nat /\ target[m] \in Nat /\ clock \in Nat
  BY DEF BasicInv, NoSnap, TypeOK, Disk
<1> HIDE DEF Goal
<1>1. CASE LoseQuorum \/ UNCHANGED vars
  BY <1>1, <1>U DEF LoseQuorum, vars, state, daemons, swarm, Untouched
<1>2. ASSUME NEW n \in Node, Elect(n) PROVE Goal
  BY <1>2, <1>U DEF Elect, daemons, Untouched
<1>3. ASSUME NEW n \in Node, Crash(n) PROVE Goal
  <2>1. CASE m # n
    BY <1>3, <2>1, <1>U DEF Crash, Exit, Untouched, TypeOK
  <2>2. CASE m = n
    BY <1>3, <2>2, <1>G, <1>T, IdleInv DEF Crash, Exit, Goal, TypeOK
  <2> QED
    BY <2>1, <2>2
<1>4. ASSUME NEW n \in Node, Start(n) PROVE Goal
  <2>1. CASE m # n
    BY <1>4, <2>1, <1>U DEF Start, Untouched, TypeOK
  <2>2. CASE m = n
    <3>1. snap[m].step = "idle"
      BY <1>4, <2>2, <1>T DEF Start, SnapInv
    <3> QED
      BY <1>4, <2>2, <3>1, <1>G, <1>T, IdleInv DEF Start, Goal, TypeOK
  <2> QED
    BY <2>1, <2>2
<1>5. ASSUME NEW n \in Node, Mutate(n) PROVE Goal
  <2>1. CASE m # n
    BY <1>5, <2>1, <1>U, <1>T DEF Mutate, daemons, Untouched, TypeOK
  <2>2. CASE m = n
    <3>1. disk'[m].rev = disk[m].rev
      BY <1>5, <2>2, <1>T DEF Mutate, TypeOK, Disk
    <3> QED
      BY <1>5, <2>2, <3>1, <1>G, <1>T, ServingInv, NamedGrows DEF Mutate, daemons, SnapInv, Goal
  <2> QED
    BY <2>1, <2>2
<1>6. ASSUME NEW n \in Node, RestoreList(n) PROVE Goal
  <2>1. CASE m # n
    BY <1>6, <2>1, <1>U, <1>T DEF RestoreList, RestoreReturns, Untouched, TypeOK
  <2>2. CASE m = n /\ ~(leader # NoNode /\ states # {})
    BY <1>6, <2>2, <1>G, <1>T, IdleInv DEF RestoreList, RestoreReturns, SnapInv, Goal, TypeOK
  <2>3. CASE m = n /\ leader # NoNode /\ states # {}
    <3>1. Named(Newest) /\ \A k \in published : k.at <= Newest
      BY <2>3, NewestIsLast
    <3>2. disk[m].rev <= Newest
      BY <3>1, <1>T DEF RestoreInv, Named, BasicInv, KitsInv, TypeOK, Kit
    <3>3. /\ pc'[m] = "inspect" /\ target'[m] = Newest
          /\ disk' = disk /\ snap' = snap
      BY Zenon, <1>6, <2>3, <1>T DEF RestoreList, TypeOK
    <3> QED
      BY <1>6, <2>3, <3>1, <3>2, <3>3, <1>G, <1>T, NamedGrows
      DEF RestoreList, RestoreInv, SnapInv, Goal
  <2> QED
    BY <2>1, <2>2, <2>3
<1>F. ASSUME NEW n \in Node, disk' = disk, RestoreFails(n),
             pc[n] \notin {"open", "serve"}
      PROVE  Goal
  <2>1. CASE m # n
    BY <1>F, <2>1, <1>U, <1>T DEF RestoreFails, Exit, Untouched, TypeOK
  <2>2. CASE m = n
    <3>1. snap[m].step = "idle"
      BY <1>F, <2>2, <1>T DEF SnapInv
    <3> QED
      BY <1>F, <2>2, <3>1, <1>G, <1>T, IdleInv DEF RestoreFails, Exit, Goal, TypeOK
  <2> QED
    BY <2>1, <2>2
<1>C. ASSUME NEW n \in Node, disk' = disk, UNCHANGED <<target, snap>>,
             \/ /\ pc[n] \in {"inspect", "compare"}
                /\ \E p \in {"compare", "extract"} : pc' = [pc EXCEPT ![n] = p]
             \/ pc[n] \notin {"open", "serve"} /\ RestoreReturns(n)
      PROVE  Goal
  <2>1. CASE m # n
    BY <1>C, <2>1, <1>U, <1>T DEF RestoreReturns, Untouched, TypeOK
  <2>2. CASE m = n
    <3>1. snap[m].step = "idle"
      BY <1>C, <2>2, <1>T DEF SnapInv
    <3>2. CASE RestoreReturns(n)
      BY <1>C, <2>2, <3>1, <3>2, <1>G, <1>T, IdleInv DEF RestoreReturns, Goal, TypeOK
    <3>3. CASE pc[m] \in {"inspect", "compare"} /\ pc'[m] \in {"compare", "extract"}
      BY <1>C, <3>1, <3>3, <1>G, <1>T, NamedGrows DEF RestoreInv, SnapInv, Goal
    <3>4. RestoreReturns(n) \/ (pc[m] \in {"inspect", "compare"} /\ pc'[m] \in {"compare", "extract"})
      BY <1>C, <2>2, <1>T DEF TypeOK
    <3> QED
      BY <3>2, <3>3, <3>4
  <2> QED
    BY <2>1, <2>2
<1>7. ASSUME NEW n \in Node, RestoreInspect(n) PROVE Goal
  BY Zenon, <1>7, <1>F, <1>C DEF RestoreInspect
<1>7a. ASSUME NEW n \in Node, RestoreCompare(n) PROVE Goal
  BY Zenon, <1>7a, <1>F, <1>C DEF RestoreCompare
<1>7b. ASSUME NEW n \in Node, RestoreBreaks(n) PROVE Goal
  <2>1. pc[n] \notin {"open", "serve"}
    BY <1>7b DEF RestoreBreaks
  <2> QED
    BY Zenon, <1>7b, <2>1, <1>F DEF RestoreBreaks
<1>8. ASSUME NEW n \in Node, RestoreExtract(n) PROVE Goal
  <2>1. CASE m # n
    BY <1>8, <2>1, <1>U, <1>T DEF RestoreExtract, ExtractKit, Untouched, TypeOK
  <2>2. CASE m = n
    <3> DEFINE k == KitAt(target[m])
    <3>1. Named(target[m]) /\ disk[m].rev <= target[m]
      BY <1>8, <2>2, <1>T DEF RestoreExtract, ExtractKit, RestoreInv
    <3>2. k \in published /\ k.at = target[m]
      BY <3>1, KitAtNamed
    <3>3. /\ disk'[m].rev = disk[m].rev /\ disk'[m].db = k.db /\ disk'[m].sealed = k.sealed
          /\ pc'[m] = "adopt" /\ target' = target /\ snap' = snap /\ published' = published
      BY <1>8, <2>2, <1>T DEF RestoreExtract, ExtractKit, TypeOK, Disk, swarm
    <3> HIDE DEF k
    <3>4. \A j \in published : j.at = target[m] => j = k
      BY <3>2 DEF BasicInv, KitsInv
    <3>5. snap[m].step = "idle"
      BY <1>8, <2>2, <1>T DEF RestoreExtract, ExtractKit, SnapInv
    <3> QED
      BY <3>1, <3>3, <3>4, <3>5, <1>G, <1>T, NamedGrows DEF RestoreInv, SnapInv, Goal
  <2> QED
    BY <2>1, <2>2
<1>9. ASSUME NEW n \in Node, RestoreKey(n) PROVE Goal
  <2>1. CASE m # n
    BY <1>9, <2>1, <1>U, <1>T DEF RestoreKey, Untouched, TypeOK
  <2>2. CASE m = n
    <3> DEFINE k == KitAt(target[m])
    <3>1. Named(target[m]) /\ disk[m].rev <= target[m]
      BY <1>9, <2>2, <1>T DEF RestoreKey, RestoreInv
    <3>2. k \in published /\ k.at = target[m]
      BY <3>1, KitAtNamed
    <3>3. /\ disk'[m].rev = disk[m].rev /\ disk'[m].db = disk[m].db
          /\ disk'[m].sealed = disk[m].sealed /\ disk'[m].key = k.key
          /\ pc'[m] = "stamp" /\ target' = target /\ snap' = snap /\ published' = published
      BY <1>9, <2>2, <1>T DEF RestoreKey, TypeOK, Disk, swarm
    <3> HIDE DEF k
    <3>4. \A j \in published : j.at = target[m] => j = k
      BY <3>2 DEF BasicInv, KitsInv
    <3>5. snap[m].step = "idle" /\ pc[m] = "adopt"
      BY <1>9, <2>2, <1>T DEF RestoreKey, SnapInv
    <3> QED
      BY <3>1, <3>3, <3>4, <3>5, <1>G, <1>T, NamedGrows DEF RestoreInv, SnapInv, Goal
  <2> QED
    BY <2>1, <2>2
<1>10. ASSUME NEW n \in Node, RestoreMark(n) PROVE Goal
  <2>1. CASE m # n
    BY <1>10, <2>1, <1>U, <1>T DEF RestoreMark, RestoreReturns, Untouched, TypeOK
  <2>2. CASE m = n
    <3>1. /\ disk'[m].rev = target[m] /\ pc'[m] \in {"wait", "publish"} /\ snap' = snap
          /\ snap[m].step = "idle" /\ Named(target[m])
      BY <1>10, <2>2, <1>T
      DEF RestoreMark, RestoreReturns, RestoreInv, SnapInv, TypeOK, Disk
    <3> QED
      BY <3>1, <1>G, NamedGrows DEF RestoreInv, SnapInv, Goal
  <2> QED
    BY <2>1, <2>2
<1>11. ASSUME NEW n \in Node, WaitEnds(n) PROVE Goal
  <2>1. CASE m # n
    BY <1>11, <2>1, <1>U, <1>T DEF WaitEnds, Untouched, TypeOK
  <2>2. CASE m = n
    BY SMTT(30), <1>11, <2>2, <1>G, <1>T, IdleInv DEF WaitEnds, SnapInv, Goal, TypeOK
  <2> QED
    BY <2>1, <2>2
<1>12. ASSUME NEW n \in Node, InitialSnapshot(n) PROVE Goal
  <2>1. CASE m # n
    BY <1>12, <2>1, <1>U, <1>T DEF InitialSnapshot, Untouched, TypeOK
  <2>2. CASE m = n
    <3>1. pc'[m] = "open" /\ disk' = disk /\ snap'[m].step \in {"idle", "read"}
      BY <1>12, <2>2, <1>T DEF InitialSnapshot, Started, NoSnap, TypeOK
    <3> QED
      BY <3>1, <1>G, ServingInv DEF SnapInv, Goal
  <2> QED
    BY <2>1, <2>2
<1>13. ASSUME NEW n \in Node, OpenStore(n) PROVE Goal
  <2>1. CASE m # n
    BY <1>13, <2>1, <1>U, <1>T DEF OpenStore, Exit, Untouched, TypeOK
  <2>2. CASE m = n /\ ~HasDB(n)
    BY <1>13, <2>2, <1>G, <1>T, IdleInv DEF OpenStore, Exit, Goal, TypeOK
  <2>3. CASE m = n /\ HasDB(n)
    <3>a. snap'[m].step = "idle" /\ pc' = [pc EXCEPT ![n] = "serve"]
      BY Zenon, <1>13, <2>3 DEF OpenStore
    <3>b. \/ disk' = disk
          \/ disk' = [disk EXCEPT ![n] = [disk[n] EXCEPT !.key = n, !.mtime = clock + 1]]
      BY <1>13, <2>3 DEF OpenStore
    <3>d. disk \in [Node -> Disk] /\ disk[n] \in Disk
      BY <1>T DEF TypeOK
    <3>e. [disk[n] EXCEPT !.key = n, !.mtime = clock + 1].rev = disk[n].rev
      BY <3>d DEF Disk
    <3>c. disk'[m].rev = disk[m].rev
      BY <2>3, <3>b, <3>d, <3>e
    <3>1. pc'[m] = "serve" /\ disk'[m].rev = disk[m].rev /\ snap'[m].step = "idle"
      BY <2>3, <3>a, <3>c, <1>T DEF TypeOK
    <3> QED
      BY <3>1, <1>G, ServingInv DEF SnapInv, Goal
  <2> QED
    BY <2>1, <2>2, <2>3
<1>14. ASSUME NEW n \in Node, LeadershipPoll(n) PROVE Goal
  <2>1. CASE m # n
    BY <1>14, <2>1, <1>U, <1>T DEF LeadershipPoll, Untouched, TypeOK
  <2>2. CASE m = n
    <3>1. /\ pc'[m] = "serve" /\ disk' = disk
          /\ snap'[m] = snap[m] \/ snap'[m].step \in {"idle", "read"}
      <4>1. \/ snap' = snap
            \/ \E x \in {snap[n], NoSnap, Started("control")} : snap' = [snap EXCEPT ![n] = x]
        BY <1>14 DEF LeadershipPoll
      <4>2. NoSnap.step = "idle" /\ Started("control").step = "read"
        BY DEF NoSnap, Started
      <4> QED
        BY <1>14, <2>2, <4>1, <4>2, <1>T DEF LeadershipPoll, TypeOK
    <3> QED
      BY <3>1, <1>G, <1>T, ServingInv, NamedGrows DEF SnapInv, Goal
  <2> QED
    BY <2>1, <2>2
<1>15. ASSUME NEW n \in Node, LoopTick(n) PROVE Goal
  <2>1. CASE m # n
    BY <1>15, <2>1, <1>U, <1>T DEF LoopTick, Untouched, TypeOK
  <2>2. CASE m = n
    <3>1. pc'[m] = "serve" /\ disk' = disk /\ snap'[m].step = "read"
      BY <1>15, <2>2, <1>T DEF LoopTick, Started, NoSnap, TypeOK
    <3> QED
      BY <3>1, <1>G, ServingInv DEF SnapInv, Goal
  <2> QED
    BY <2>1, <2>2
<1>16. ASSUME NEW n \in Node, SnapshotRead(n) PROVE Goal
  <2>1. CASE m # n
    BY <1>16, <2>1, <1>U, <1>T DEF SnapshotRead, ReadKit, Untouched, TypeOK
  <2>2. CASE m = n
    <3>1. /\ pc'[m] \in {"open", "serve"} /\ disk' = disk
          /\ \/ snap'[m].step = "idle"
             \/ /\ snap'[m].step = "create" /\ snap'[m].key = disk[m].key
                /\ disk[m].key # NoNode
      BY <1>16, <2>2, <1>T DEF SnapshotRead, ReadKit, SnapInv, NoSnap, TypeOK, Snap
    <3>2. disk[m].key \in MaybeNode
      BY <1>T DEF TypeOK, Disk
    <3> QED
      BY <3>1, <3>2, <1>G, ServingInv DEF SnapInv, Goal, MaybeNode
  <2> QED
    BY <2>1, <2>2
<1>17. ASSUME NEW n \in Node, SnapshotCreateState(n) PROVE Goal
  <2>1. CASE m # n
    BY <1>17, <2>1, <1>U, <1>T DEF SnapshotCreateState, Untouched, TypeOK
  <2>2. CASE m = n
    <3> DEFINE kit == [at |-> clock + 1, by |-> n, db |-> snap[n].db,
                       sealed |-> snap[n].sealed, key |-> snap[n].key]
    <3>1. kit \in published' /\ kit.at = clock + 1
      BY <1>17 DEF SnapshotCreateState
    <3> HIDE DEF kit
    <3>2. /\ pc'[m] \in {"open", "serve"} /\ disk' = disk
          /\ snap'[m].step = "key" /\ snap'[m].at = clock + 1
          /\ snap'[m].key = snap[m].key /\ snap[m].key \in Node
      BY <1>17, <2>2, <1>T DEF SnapshotCreateState, SnapInv, TypeOK, Snap
    <3>4. Named(snap[m].at)'
      BY <3>1, <3>2 DEF Named
    <3> QED
      BY <3>2, <3>4, <1>G, ServingInv DEF SnapInv, Goal
  <2> QED
    BY <2>1, <2>2
<1>18. ASSUME NEW n \in Node, SnapshotCreateKey(n) PROVE Goal
  <2>1. CASE m # n
    BY <1>18, <2>1, <1>U, <1>T DEF SnapshotCreateKey, Untouched, TypeOK
  <2>2. CASE m = n
    <3>1. /\ pc'[m] \in {"open", "serve"} /\ disk' = disk
          /\ snap[m].step = "key" /\ snap'[m].step = "mark"
          /\ snap'[m].at = snap[m].at /\ snap'[m].key = snap[m].key
      BY <1>18, <2>2, <1>T DEF SnapshotCreateKey, SnapInv, TypeOK, Snap
    <3> QED
      BY <3>1, <1>G, <1>T, ServingInv, NamedGrows DEF SnapInv, Goal
  <2> QED
    BY <2>1, <2>2
<1>20. ASSUME NEW n \in Node, SnapshotMark(n) PROVE Goal
  <2>1. CASE m # n
    BY <1>20, <2>1, <1>U, <1>T DEF SnapshotMark, Untouched, TypeOK
  <2>2. CASE m = n
    <3>1. /\ pc'[m] \in {"open", "serve"} /\ disk'[m].rev = snap[m].at
          /\ Named(snap[m].at) /\ snap'[m].step = "prune"
      BY <1>20, <2>2, <1>T DEF SnapshotMark, SnapInv, TypeOK, Snap, Disk
    <3> QED
      BY <3>1, <1>G, NamedGrows DEF RestoreInv, SnapInv, Goal
  <2> QED
    BY <2>1, <2>2
<1>21. ASSUME NEW n \in Node, SnapshotMarkLate(n) PROVE Goal
  <2>1. PICK a \in late[n] : disk' = [disk EXCEPT ![n].rev = a]
    BY <1>21 DEF SnapshotMarkLate
  <2>2. CASE m # n
    BY <1>21, <2>1, <2>2, <1>U, <1>T DEF SnapshotMarkLate, Untouched, TypeOK
  <2>3. CASE m = n
    <3>1. pc[m] = "serve" /\ Named(a)
      BY <2>1, <2>3 DEF BasicInv, LoopInv
    <3>2. disk'[m].rev = a /\ pc' = pc /\ snap' = snap
      BY <1>21, <2>1, <2>3, <1>T DEF SnapshotMarkLate, TypeOK, Disk
    <3> QED
      BY <3>1, <3>2, <1>G, <1>T, NamedGrows DEF RestoreInv, SnapInv, Goal
  <2> QED
    BY <2>2, <2>3
<1>22. ASSUME NEW n \in Node, snap[n].step # "idle", pc' = pc, disk' = disk, target' = target,
              \E x \in {NoSnap, [snap[n] EXCEPT !.step = "prune"],
                        [snap[n] EXCEPT !.step = "prunekeys"]} : snap' = [snap EXCEPT ![n] = x]
       PROVE  Goal
  <2>1. CASE m # n
    BY <1>22, <2>1, <1>U, <1>T DEF Untouched, TypeOK
  <2>2. CASE m = n
    <3>1. pc'[m] \in {"open", "serve"} /\ snap'[m].step \in {"idle", "prune", "prunekeys"}
      BY <1>22, <2>2, <1>T DEF SnapInv, TypeOK, Snap
    <3> QED
      BY <1>22, <3>1, <1>G, ServingInv DEF SnapInv, Goal
  <2> QED
    BY <2>1, <2>2
<1>23. ASSUME NEW n \in Node, SnapshotFails(n) \/ SnapshotPruneKeys(n) PROVE Goal
  BY Zenon, <1>22, <1>23 DEF SnapshotFails, SnapshotPruneKeys
<1>24. ASSUME NEW n \in Node, SnapshotMarkFails(n) \/ SnapshotPruneStates(n) PROVE Goal
  BY Zenon, <1>22, <1>24 DEF SnapshotMarkFails, SnapshotPruneStates
<1> QED
  BY Zenon, <1>1, <1>2, <1>3, <1>4, <1>5, <1>6, <1>7, <1>7a, <1>7b, <1>8, <1>9, <1>10, <1>11,
     <1>12, <1>13, <1>14, <1>15, <1>16, <1>17, <1>18, <1>20, <1>21, <1>23, <1>24
  DEF Next, Restore, Snapshot

(* The loops, and the markers they leave behind, belong to a daemon that     *)
(* serves.                                                                   *)
LEMMA LoopStep ==
  ASSUME BasicInv, [Next]_vars, NEW m \in Node
  PROVE  LoopInv(m)'
<1>T. /\ TypeOK /\ LoopInv(m) /\ SnapInv(m) /\ Grows
      /\ pc \in [Node -> Phase] /\ loops \in [Node -> BOOLEAN]
      /\ late \in [Node -> SUBSET Nat]
  BY NextGrows DEF BasicInv, TypeOK
<1>0. ASSUME loops'[m] = loops[m], late'[m] = late[m], pc'[m] = pc[m] \/ pc[m] # "serve"
      PROVE  LoopInv(m)'
  BY <1>0, <1>T, NamedGrows DEF LoopInv
<1>1. ASSUME NEW n \in Node, pc[n] # "serve", UNCHANGED <<loops, late>>,
             \E p \in Phase : pc' = [pc EXCEPT ![n] = p]
      PROVE  LoopInv(m)'
  BY <1>0, <1>1, <1>T
<1>2. ASSUME NEW n \in Node, Exit(n) PROVE LoopInv(m)'
  <2>1. CASE m # n
    BY <1>0, <1>2, <2>1, <1>T DEF Exit
  <2>2. CASE m = n
    BY <1>2, <2>2, <1>T DEF Exit, LoopInv
  <2> QED
    BY <2>1, <2>2
<1>3. CASE LoseQuorum \/ UNCHANGED vars
  BY <1>0, <1>3 DEF LoseQuorum, vars, state, daemons
<1>4. ASSUME NEW n \in Node, Elect(n) \/ Mutate(n) \/ LoopTick(n) PROVE LoopInv(m)'
  BY <1>0, <1>4 DEF Elect, Mutate, LoopTick, daemons
<1>5. ASSUME NEW n \in Node, Snapshot(n) PROVE LoopInv(m)'
  <2>1. CASE SnapshotRead(n) \/ SnapshotCreateState(n) \/ SnapshotCreateKey(n) \/ SnapshotFails(n)
    BY <1>0, <2>1 DEF SnapshotRead, SnapshotCreateState, SnapshotCreateKey, SnapshotFails
  <2>2. CASE \/ SnapshotMark(n) \/ SnapshotMarkFails(n) \/ SnapshotPruneStates(n)
             \/ SnapshotPruneKeys(n)
    BY <1>0, <2>2 DEF SnapshotMark, SnapshotMarkFails, SnapshotPruneStates, SnapshotPruneKeys
  <2> QED
    BY Zenon, <1>5, <2>1, <2>2 DEF Snapshot
<1>6. ASSUME NEW n \in Node, Crash(n) \/ Start(n) \/ WaitEnds(n) \/ InitialSnapshot(n)
      PROVE  LoopInv(m)'
  BY <1>1, <1>2, <1>6 DEF Crash, Start, WaitEnds, InitialSnapshot, Phase
<1>7. ASSUME NEW n \in Node, RestoreFails(n), pc[n] # "serve" PROVE LoopInv(m)'
  BY <1>1, <1>2, <1>7 DEF RestoreFails, Phase
<1>8. ASSUME NEW n \in Node, RestoreInspect(n) \/ RestoreCompare(n) \/ RestoreBreaks(n)
      PROVE  LoopInv(m)'
  <2>1. pc[n] # "serve"
    BY <1>8 DEF RestoreInspect, RestoreCompare, RestoreBreaks
  <2>2. \/ RestoreFails(n)
        \/ UNCHANGED <<loops, late>> /\ \E p \in Phase : pc' = [pc EXCEPT ![n] = p]
    BY Zenon, <1>8 DEF RestoreInspect, RestoreCompare, RestoreBreaks, RestoreReturns, Phase
  <2> QED
    BY Zenon, <1>1, <1>7, <2>1, <2>2
<1>9. ASSUME NEW n \in Node, RestoreList(n) \/ RestoreMark(n) PROVE LoopInv(m)'
  BY <1>1, <1>9 DEF RestoreList, RestoreMark, RestoreReturns, Phase
<1>10. ASSUME NEW n \in Node, RestoreExtract(n) \/ RestoreKey(n) PROVE LoopInv(m)'
  BY <1>1, <1>10 DEF RestoreExtract, RestoreKey, Phase
<1>11. ASSUME NEW n \in Node, OpenStore(n) PROVE LoopInv(m)'
  BY <1>1, <1>2, <1>11 DEF OpenStore, Phase
<1>12. ASSUME NEW n \in Node, LeadershipPoll(n) PROVE LoopInv(m)'
  <2>1. CASE m # n
    BY <1>0, <1>12, <2>1, <1>T DEF LeadershipPoll, CancelLoops
  <2>2. CASE m = n
    <3>1. pc[m] = "serve" /\ pc' = pc /\ (late' = late \/ CancelLoops(m))
      BY <1>12, <2>2 DEF LeadershipPoll
    <3>2. \A a \in late'[m] : Named(a)
      BY <3>1, <1>T DEF CancelLoops, LoopInv, SnapInv
    <3> QED
      BY <3>1, <3>2, <1>T, NamedGrows DEF LoopInv
  <2> QED
    BY <2>1, <2>2
<1>13. ASSUME NEW n \in Node, SnapshotMarkLate(n) PROVE LoopInv(m)'
  <2>1. pc' = pc /\ loops' = loops /\ late'[m] \subseteq late[m]
    BY <1>13, <1>T DEF SnapshotMarkLate
  <2> QED
    BY <2>1, <1>T, NamedGrows DEF LoopInv
<1> QED
  BY Zenon, <1>3, <1>4, <1>5, <1>6, <1>8, <1>9, <1>10, <1>11, <1>12, <1>13 DEF Next, Restore

(* BasicInv holds in every environment: with outages, with leadership moving *)
(* between live daemons, and with crashes and failed calls anywhere.         *)
THEOREM BasicHolds == Spec => []BasicInv
<1>1. BasicInv /\ [Next]_vars => BasicInv'
  BY TypeStep, KitsStep, NodeStep, LoopStep DEF BasicInv
<1> QED
  BY <1>1, BasicInit, PTL DEF Spec

(* Every variable of ControlPlane keeps its type.                            *)
THEOREM TypeCorrect == Spec => []TypeOK
BY BasicHolds, PTL DEF BasicInv

(* A restore that records its revision has written the database and the key  *)
(* of one kit, in every environment (Kit.Restore: "takes the snapshot's kit  *)
(* and key together").                                                       *)
THEOREM RestoresAreWhole == Spec => RestoreIsWhole
<1> DEFINE Whole ==
      \A n \in Node :
        RestoreMark(n) =>
          LET k == KitAt(target[n]) IN
            disk[n].db = k.db /\ disk[n].sealed = k.sealed /\ disk[n].key = k.key
<1>1. BasicInv => Whole
  <2> SUFFICES ASSUME BasicInv, NEW n \in Node, RestoreMark(n)
               PROVE  LET k == KitAt(target[n]) IN
                        disk[n].db = k.db /\ disk[n].sealed = k.sealed /\ disk[n].key = k.key
    OBVIOUS
  <2>1. pc[n] = "stamp" /\ RestoreInv(n) /\ Named(target[n])
    BY DEF RestoreMark, BasicInv, RestoreInv
  <2> QED
    BY <2>1, KitAtNamed DEF RestoreInv
<1>2. BasicInv /\ [Next]_vars => [Whole]_vars
  BY <1>1
<1> QED
  BY <1>2, BasicHolds, PTL DEF Spec, RestoreIsWhole

(* Pruning never takes the key of the newest state config, in every          *)
(* environment: no key is newer than the newest state config, so the newest  *)
(* state config's key is the last of its family (Kit.prune).                 *)
THEOREM NewestAlwaysKeepsItsKey == Spec => NewestKeepsItsKey
<1> DEFINE Keeps ==
      \A a \in states' \cap keys : (\A b \in states' : b <= a) => a \in keys'
<1>1. ASSUME BasicInv, [Next]_vars PROVE Keeps
  <2>1. ASSUME NEW n \in Node, SnapshotPruneKeys(n) PROVE Keeps
    <3> SUFFICES ASSUME NEW a \in states \cap keys, \A b \in states : b <= a
                 PROVE  a \in keys'
      BY <2>1 DEF SnapshotPruneKeys
    <3>1. PICK t \in states : \A k \in published : k.at <= t
      BY <1>1 DEF BasicInv, KitsInv, Named
    <3>2. env \in Settings /\ keys \in SUBSET Nat /\ t \in Nat /\ a \in Nat /\ t <= a
      BY <1>1 DEF BasicInv, TypeOK
    <3>3. \A b \in keys : b <= a
      BY <1>1, <3>1, <3>2 DEF BasicInv, KitsInv, Named
    <3>4. PICK broken \in BOOLEAN : keys' \in PruneLeaves(keys, broken)
      BY <2>1 DEF SnapshotPruneKeys
    <3> QED
      BY <3>2, <3>3, <3>4, PruneKeepsLast
  <2>2. ASSUME NEW n \in Node, \/ Mutate(n) \/ OpenStore(n) \/ SnapshotCreateState(n)
                              \/ SnapshotCreateKey(n) \/ SnapshotPruneStates(n)
        PROVE  keys \subseteq keys'
    BY <2>2 DEF Mutate, OpenStore, SnapshotCreateState, SnapshotCreateKey, SnapshotPruneStates,
                swarm
  <2>3. keys \subseteq keys' => Keeps
    OBVIOUS
  <2> HIDE DEF Keeps
  <2> QED
    BY Zenon, <1>1, <2>1, <2>2, <2>3, KitSteps
<1>2. BasicInv /\ [Next]_vars => [Keeps]_vars
  BY <1>1
<1> QED
  BY <1>2, BasicHolds, PTL DEF Spec, NewestKeepsItsKey

-----------------------------------------------------------------------------
(* Failover *)

(* SafeInv is the strengthening for a Swarm that keeps its quorum and elects *)
(* a new leader only when the old one's daemon is down.  One daemon at most  *)
(* is past the wait, so between its restore and its last snapshot no other   *)
(* manager publishes; all kits are sealed with one key; and a manager with a *)
(* revision marker has that key.                                             *)
Alone ==
  /\ leader \in Node
  /\ \A n \in Node :
       /\ pc[n] \in {"publish", "open", "serve"} => ctx[n] = "promote"
       /\ ctx[n] = "promote" => leader = n /\ pc[n] # "down"

OneCluster ==
  \A j, k \in published :
    j.sealed = j.key /\ j.key = k.key /\ (j.at < k.at => j.db \subseteq k.db)

ManagerInv(n) ==
  /\ published = {} => disk[n].sealed = disk[n].key
  /\ \A k \in published :
       /\ disk[n].rev # 0 => disk[n].sealed = k.key /\ disk[n].key = k.key
       /\ disk[n].rev = k.at => k.db \subseteq disk[n].db
       /\ ctx[n] = "promote" /\ pc[n] \in {"inspect", "compare", "extract", "adopt", "stamp"}
            => k.at <= target[n]
       /\ pc[n] \in {"publish", "open", "serve"}
            => disk[n].key = k.key /\ k.db \subseteq disk[n].db
  /\ pc[n] \in {"publish", "open", "serve"} => disk[n].sealed = disk[n].key

PublisherInv(n) ==
  /\ snap[n].step \in {"create", "key", "mark"} =>
       /\ snap[n].sealed = disk[n].sealed
       /\ snap[n].key = disk[n].key
       /\ snap[n].db \subseteq disk[n].db
  /\ \A k \in published :
       /\ snap[n].step = "create" => k.db \subseteq snap[n].db
       /\ snap[n].step \in {"key", "mark"} /\ k.at = snap[n].at => k.db = snap[n].db

SafeInv ==
  BasicInv /\ Alone /\ OneCluster /\ \A n \in Node : ManagerInv(n) /\ PublisherInv(n)

USE NodeAssumption

-----------------------------------------------------------------------------
(* The initial states satisfy SafeInv.                                       *)
LEMMA SafeInit == Init => SafeInv
<1> SUFFICES ASSUME Init PROVE SafeInv
  OBVIOUS
<1>1. BasicInv
  BY BasicInit
<1>2. \A n \in Node : disk[n].sealed = disk[n].key
  BY DEF Init, EmptyDisk, OwnDisk
<1>3. \A n \in Node : snap[n].step = "idle"
  BY DEF Init, NoSnap
<1> QED
  BY <1>1, <1>2, <1>3 DEF Init, SafeInv, Alone, OneCluster, ManagerInv, PublisherInv

(* One daemon at most is past the wait.                                      *)
LEMMA AloneStep ==
  ASSUME Calm, SafeInv, [Next]_vars
  PROVE  Alone'
<1>T. /\ TypeOK /\ Alone
      /\ pc \in [Node -> Phase] /\ ctx \in [Node -> {"boot", "promote"}]
      /\ leader # NoNode
  BY DEF SafeInv, BasicInv, TypeOK, Alone
<1>0. CASE UNCHANGED <<leader, pc, ctx>>
  BY <1>0, <1>T DEF Alone
<1>1. CASE LoseQuorum \/ UNCHANGED vars
  BY <1>1, <1>0 DEF LoseQuorum, vars, state, daemons, swarm, Calm
<1>2. ASSUME NEW n \in Node, Elect(n) PROVE Alone'
  BY <1>2, <1>T DEF Elect, Alone, daemons, Calm
<1>3. ASSUME NEW n \in Node, Exit(n), leader' = leader PROVE Alone'
  BY <1>3, <1>T DEF Exit, Alone
<1>4. ASSUME NEW n \in Node, Start(n) PROVE Alone'
  BY <1>4, <1>T DEF Start, Alone, swarm
<1>5. ASSUME NEW n \in Node, NEW p \in Phase, ctx' = ctx, leader' = leader,
             pc' = [pc EXCEPT ![n] = p], p # "down",
             p \in {"publish", "open", "serve"} => ctx[n] = "promote"
      PROVE  Alone'
  BY <1>5, <1>T DEF Alone
<1>P. Phase = {"down", "list", "inspect", "compare", "extract", "adopt", "stamp", "wait",
               "publish", "open", "serve"}
  BY DEF Phase
<1>6. ASSUME NEW n \in Node, RestoreReturns(n), ctx' = ctx, leader' = leader PROVE Alone'
  BY Zenon, <1>6, <1>5, <1>P, <1>T DEF RestoreReturns
<1>7. ASSUME NEW n \in Node, RestoreFails(n), leader' = leader PROVE Alone'
  BY <1>7, <1>3, <1>5, <1>P DEF RestoreFails
<1>8. ASSUME NEW n \in Node, Restore(n) PROVE Alone'
  <2>1. CASE RestoreList(n)
    BY <2>1, <1>6, <1>5, <1>P DEF RestoreList, swarm
  <2>2. CASE RestoreInspect(n)
    BY <2>2, <1>6, <1>7, <1>5, <1>P DEF RestoreInspect, swarm
  <2>2a. CASE RestoreCompare(n)
    <3>1. \/ RestoreFails(n)
          \/ RestoreReturns(n) /\ ctx' = ctx
          \/ pc' = [pc EXCEPT ![n] = "extract"] /\ ctx' = ctx
      BY Zenon, <2>2a DEF RestoreCompare
    <3>2. leader' = leader
      BY <2>2a DEF RestoreCompare, swarm
    <3> QED
      BY <3>1, <3>2, <1>6, <1>7, <1>5, <1>P
  <2>3. CASE RestoreExtract(n) \/ RestoreKey(n)
    BY <2>3, <1>5, <1>P DEF RestoreExtract, ExtractKit, RestoreKey, swarm
  <2>4. CASE RestoreMark(n)
    BY <2>4, <1>6 DEF RestoreMark, swarm
  <2> QED
    BY Zenon, <1>8, <2>1, <2>2, <2>2a, <2>3, <2>4 DEF Restore
<1>8a. ASSUME NEW n \in Node, RestoreBreaks(n) PROVE Alone'
  BY <1>8a, <1>7 DEF RestoreBreaks, swarm
<1>9. ASSUME NEW n \in Node, WaitEnds(n) PROVE Alone'
  <2>1. leader = n
    BY <1>9, <1>T DEF WaitEnds, MayServe, View
  <2> QED
    BY <1>9, <2>1, <1>T DEF WaitEnds, Alone, swarm
<1>10. ASSUME NEW n \in Node, InitialSnapshot(n) \/ OpenStore(n) PROVE Alone'
  <2>1. ctx[n] = "promote"
    BY <1>10, <1>T DEF InitialSnapshot, OpenStore, Alone
  <2> QED
    BY <1>10, <2>1, <1>3, <1>5, <1>P DEF InitialSnapshot, OpenStore, swarm
<1>11. ASSUME NEW n \in Node, Mutate(n) \/ LeadershipPoll(n) \/ LoopTick(n) PROVE Alone'
  BY <1>11, <1>0 DEF Mutate, LeadershipPoll, LoopTick, swarm, daemons
<1>12. ASSUME NEW n \in Node, Snapshot(n) \/ SnapshotMarkLate(n) PROVE Alone'
  <2>1. CASE SnapshotRead(n) \/ SnapshotCreateState(n) \/ SnapshotCreateKey(n) \/ SnapshotFails(n)
    BY <1>0, <2>1 DEF SnapshotRead, SnapshotCreateState, SnapshotCreateKey, SnapshotFails, swarm
  <2>2. CASE \/ SnapshotMark(n) \/ SnapshotMarkFails(n) \/ SnapshotMarkLate(n)
             \/ SnapshotPruneStates(n) \/ SnapshotPruneKeys(n)
    BY <1>0, <2>2 DEF SnapshotMark, SnapshotMarkFails, SnapshotMarkLate, SnapshotPruneStates,
                      SnapshotPruneKeys, swarm
  <2> QED
    BY Zenon, <1>12, <2>1, <2>2 DEF Snapshot
<1>13. ASSUME NEW n \in Node, Crash(n) PROVE Alone'
  BY <1>13, <1>3 DEF Crash, swarm
<1> QED
  BY <1>1, <1>2, <1>4, <1>8, <1>8a, <1>9, <1>10, <1>11, <1>12, <1>13, Zenon DEF Next

(* A daemon that opens, serves or publishes is the leader's.                 *)
LEMMA PublisherLeads ==
  ASSUME SafeInv, NEW n \in Node, pc[n] \in {"publish", "open", "serve"}
  PROVE  /\ leader = n
         /\ \A m \in Node : m # n =>
              ctx[m] # "promote" /\ pc[m] \notin {"publish", "open", "serve"}
BY DEF SafeInv, Alone

(* What SnapshotCreateState publishes continues the one line of kits.        *)
LEMMA OneClusterStep ==
  ASSUME SafeInv, [Next]_vars
  PROVE  OneCluster'
<1>1. CASE published' = published
  BY <1>1 DEF SafeInv, OneCluster
<1>2. ASSUME NEW n \in Node, SnapshotCreateState(n) PROVE OneCluster'
  <2> DEFINE kit == [at |-> clock + 1, by |-> n, db |-> snap[n].db,
                     sealed |-> snap[n].sealed, key |-> snap[n].key]
  <2>1. /\ published' = published \cup {kit} /\ kit.at = clock + 1
        /\ kit.db = snap[n].db /\ kit.sealed = snap[n].sealed /\ kit.key = snap[n].key
    BY <1>2 DEF SnapshotCreateState
  <2> HIDE DEF kit
  <2>2. snap[n].step = "create" /\ pc[n] \in {"open", "serve"}
    BY <1>2 DEF SnapshotCreateState, SafeInv, BasicInv, SnapInv
  <2>3. /\ kit.sealed = kit.key
        /\ \A k \in published : kit.key = k.key /\ k.db \subseteq kit.db
    BY <2>1, <2>2 DEF SafeInv, ManagerInv, PublisherInv
  <2>4. clock \in Nat /\ \A k \in published : k.at \in Nat /\ k.at <= clock
    BY DEF SafeInv, BasicInv, TypeOK, Kit, KitsInv
  <2> QED
    BY <2>1, <2>3, <2>4 DEF SafeInv, OneCluster
<1> QED
  BY Zenon, <1>1, <1>2, KitSteps
  DEF Mutate, OpenStore, SnapshotCreateKey, SnapshotPruneStates, SnapshotPruneKeys, swarm

(* The managers, when the step publishes nothing: what it must leave alone.  *)
Kept(m) ==
  /\ disk'[m] = disk[m] /\ pc'[m] = pc[m] /\ ctx'[m] = ctx[m]
  /\ target'[m] = target[m] /\ snap'[m] = snap[m]

LEMMA KeptInv ==
  ASSUME SafeInv, NEW m \in Node, Kept(m), published' = published
  PROVE  ManagerInv(m)' /\ PublisherInv(m)'
<1>1. ManagerInv(m) /\ PublisherInv(m)
  BY Zenon DEF SafeInv
<1>2. ManagerInv(m)'
  BY <1>1 DEF Kept, ManagerInv
<1>3. PublisherInv(m)'
  BY <1>1 DEF Kept, PublisherInv
<1> QED
  BY <1>2, <1>3

(* A daemon that does not publish and whose data dir stays as it is.         *)
LEMMA QuietInv ==
  ASSUME SafeInv, NEW m \in Node, published' = published, disk'[m] = disk[m],
         pc'[m] \in {"down", "list", "wait"}, snap'[m].step = "idle"
  PROVE  ManagerInv(m)' /\ PublisherInv(m)'
<1>1. ManagerInv(m)
  BY Zenon DEF SafeInv
<1>2. ManagerInv(m)'
  BY <1>1 DEF ManagerInv
<1>3. PublisherInv(m)'
  BY DEF PublisherInv
<1> QED
  BY <1>2, <1>3

(* A promoted daemon keeps its claims while it only reads.                   *)
LEMMA HoldingInv ==
  ASSUME SafeInv, NEW m \in Node, published' = published, disk'[m] = disk[m],
         pc[m] \in {"publish", "open", "serve"}, pc'[m] \in {"publish", "open", "serve"}
  PROVE  ManagerInv(m)'
BY DEF SafeInv, ManagerInv

(* The step that publishes: the others are neither promoted nor publishing.  *)
LEMMA PublishInv ==
  ASSUME SafeInv, OneCluster', NEW n \in Node, SnapshotCreateState(n), NEW m \in Node
  PROVE  ManagerInv(m)' /\ PublisherInv(m)'
<1> DEFINE kit == [at |-> clock + 1, by |-> n, db |-> snap[n].db,
                   sealed |-> snap[n].sealed, key |-> snap[n].key]
<1>1. /\ published' = published \cup {kit} /\ kit.at = clock + 1
      /\ kit.db = snap[n].db /\ kit.key = snap[n].key
      /\ disk' = disk /\ pc' = pc /\ ctx' = ctx
  BY DEF SnapshotCreateState
<1> HIDE DEF kit
<1>2. snap[n].step = "create" /\ pc[n] \in {"open", "serve"}
  BY DEF SnapshotCreateState, SafeInv, BasicInv, SnapInv
<1>3. clock \in Nat /\ \A k \in published : k.at \in Nat /\ k.at <= clock
  BY DEF SafeInv, BasicInv, TypeOK, Kit, KitsInv
<1>4. \A k \in published : k.key = kit.key
  BY <1>1 DEF OneCluster
<1>5. disk[m].rev # kit.at
  <2>1. disk[m].rev = 0 \/ \E k \in published : k.at = disk[m].rev
    BY Zenon DEF SafeInv, BasicInv, RestoreInv, Named
  <2> QED
    BY <2>1, <1>1, <1>3
<1>M. ManagerInv(m) /\ PublisherInv(m) /\ SnapInv(m) /\ RestoreInv(m)
  BY Zenon DEF SafeInv, BasicInv
<1>6. ASSUME disk[m].rev # 0 PROVE disk[m].sealed = kit.key /\ disk[m].key = kit.key
  <2>1. PICK k \in published : k.at = disk[m].rev
    BY Zenon, <1>6, <1>M DEF RestoreInv, Named
  <2> QED
    BY Zenon, <1>4, <1>6, <1>M, <2>1 DEF ManagerInv
<1>7. CASE m # n
  <2>1. ctx[m] # "promote" /\ pc[m] \notin {"publish", "open", "serve"}
    BY <1>2, <1>7, PublisherLeads
  <2>2. snap'[m].step = "idle"
    BY <1>7, <2>1, <1>M DEF SnapInv, SnapshotCreateState, SafeInv, BasicInv, TypeOK
  <2> QED
    BY <1>1, <1>5, <1>6, <1>M, <2>1, <2>2 DEF ManagerInv, PublisherInv
<1>8. CASE m = n
  <2>1. /\ snap'[m].step = "key" /\ snap'[m].at = clock + 1 /\ snap'[m].db = snap[m].db
        /\ snap'[m].sealed = snap[m].sealed /\ snap'[m].key = snap[m].key
    BY <1>8 DEF SnapshotCreateState, SafeInv, BasicInv, TypeOK, Snap
  <2>2. ManagerInv(m)'
    <3>1. disk[m].key = kit.key /\ disk[m].sealed = disk[m].key /\ kit.db \subseteq disk[m].db
      BY <1>1, <1>2, <1>8, <1>M DEF ManagerInv, PublisherInv
    <3>2. ASSUME NEW k \in published' PROVE k.key = kit.key /\ k.db \subseteq disk[m].db
      <4>1. CASE k \in published
        BY <1>2, <1>4, <1>8, <1>M, <4>1 DEF ManagerInv
      <4>2. CASE k = kit
        BY <3>1, <4>2
      <4> QED
        BY <1>1, <3>2, <4>1, <4>2
    <3>3. published' # {} /\ disk'[m] = disk[m] /\ pc'[m] \in {"open", "serve"}
      BY <1>1, <1>2, <1>8
    <3> QED
      BY <3>1, <3>2, <3>3 DEF ManagerInv
  <2>3. PublisherInv(m)'
    <3>1. ASSUME NEW k \in published', k.at = clock + 1 PROVE k = kit
      BY <1>1, <1>3, <3>1
    <3>2. /\ snap[m].sealed = disk[m].sealed /\ snap[m].key = disk[m].key
          /\ snap[m].db \subseteq disk[m].db
      BY Zenon, <1>2, <1>8, <1>M DEF PublisherInv
    <3> QED
      BY <1>1, <1>8, <2>1, <3>1, <3>2 DEF PublisherInv
  <2> QED
    BY <2>2, <2>3
<1> QED
  BY <1>7, <1>8

(* Every step keeps every manager's part of SafeInv.                         *)
LEMMA ManagerStep ==
  ASSUME Calm, SafeInv, OneCluster', [Next]_vars, NEW m \in Node
  PROVE  ManagerInv(m)' /\ PublisherInv(m)'
<1> DEFINE Goal == ManagerInv(m)' /\ PublisherInv(m)'
<1> SUFFICES Goal
  OBVIOUS
<1>T. /\ TypeOK /\ BasicInv /\ leader # NoNode
      /\ RestoreInv(m) /\ SnapInv(m) /\ ManagerInv(m) /\ PublisherInv(m)
      /\ NoSnap.step = "idle" /\ Started("control").step = "read"
      /\ Started("loop").step = "read"
      /\ disk[m].rev \in Nat /\ target[m] \in Nat
      /\ \A k \in published : k.at \in Nat /\ 0 < k.at
  BY DEF SafeInv, BasicInv, KitsInv, Alone, NoSnap, Started, TypeOK, Disk, Kit
<1>N. disk[m].rev \in Nat /\ target[m] \in Nat /\ \A k \in published : k.at \in Nat /\ 0 < k.at
  BY <1>T
<1>M. ManagerInv(m)
  BY <1>T
<1>K. published' = published /\ Kept(m) => Goal
  BY KeptInv
<1>Q. /\ published' = published /\ disk'[m] = disk[m]
      /\ pc'[m] \in {"down", "list", "wait"} /\ snap'[m].step = "idle"
      => Goal
  BY QuietInv
<1>H. /\ published' = published /\ disk'[m] = disk[m]
      /\ pc[m] \in {"publish", "open", "serve"} /\ pc'[m] \in {"publish", "open", "serve"}
      => ManagerInv(m)'
  BY HoldingInv
<1>R. snap'[m].step \in {"idle", "read", "prune", "prunekeys"} => PublisherInv(m)'
  BY DEF PublisherInv
<1>C. OneCluster /\ \A j, k \in published : j.at = k.at => j = k
  BY DEF SafeInv, BasicInv, KitsInv
<1> HIDE DEF Goal
<1>1. CASE LoseQuorum \/ UNCHANGED vars
  BY <1>1, <1>K DEF LoseQuorum, vars, state, daemons, swarm, Kept, Calm
<1>2. ASSUME NEW n \in Node, Elect(n) PROVE Goal
  BY <1>2, <1>K DEF Elect, daemons, Kept
<1>3. ASSUME NEW n \in Node, Crash(n) PROVE Goal
  <2>0. published' = published
    BY <1>3 DEF Crash, swarm
  <2>1. CASE m # n
    BY <1>3, <2>0, <2>1, <1>K, <1>T DEF Crash, Exit, Kept, TypeOK
  <2>2. CASE m = n
    BY <1>3, <2>0, <2>2, <1>Q, <1>T DEF Crash, Exit, SnapInv, TypeOK
  <2> QED
    BY <2>1, <2>2
<1>4. ASSUME NEW n \in Node, Start(n) PROVE Goal
  <2>0. published' = published
    BY <1>4 DEF Start, swarm
  <2>1. CASE m # n
    BY <1>4, <2>0, <2>1, <1>K, <1>T DEF Start, Kept, TypeOK
  <2>2. CASE m = n
    BY <1>4, <2>0, <2>2, <1>Q, <1>T DEF Start, SnapInv, TypeOK
  <2> QED
    BY <2>1, <2>2
<1>5. ASSUME NEW n \in Node, WaitEnds(n) PROVE Goal
  <2>0. published' = published
    BY <1>5 DEF WaitEnds, swarm
  <2>1. CASE m # n
    BY <1>5, <2>0, <2>1, <1>K, <1>T DEF WaitEnds, Kept, TypeOK
  <2>2. CASE m = n
    BY <1>5, <2>0, <2>2, <1>Q, <1>T DEF WaitEnds, SnapInv, TypeOK
  <2> QED
    BY <2>1, <2>2
<1>6. ASSUME NEW n \in Node, Mutate(n) PROVE Goal
  <2>0. published' = published
    BY <1>6 DEF Mutate, swarm
  <2>1. CASE m # n
    BY <1>6, <2>0, <2>1, <1>K, <1>T DEF Mutate, daemons, Kept, TypeOK
  <2>2. CASE m = n
    <3>1. /\ disk'[m].sealed = disk[m].sealed /\ disk'[m].key = disk[m].key
          /\ disk'[m].rev = disk[m].rev /\ disk[m].db \subseteq disk'[m].db
      BY <1>6, <2>2, <1>T DEF Mutate, TypeOK, Disk
    <3>2. pc' = pc /\ snap' = snap /\ pc[m] = "serve"
      BY <1>6, <2>2 DEF Mutate, daemons
    <3>3. ManagerInv(m)'
      BY <2>0, <3>1, <3>2, <1>T DEF ManagerInv
    <3>4. PublisherInv(m)'
      BY <2>0, <3>1, <3>2, <1>T DEF PublisherInv
    <3> QED
      BY <3>3, <3>4 DEF Goal
  <2> QED
    BY <2>1, <2>2
<1>7. ASSUME NEW n \in Node, RestoreList(n) PROVE Goal
  <2>0. published' = published
    BY <1>7 DEF RestoreList, swarm
  <2>1. CASE m # n
    BY <1>7, <2>0, <2>1, <1>K, <1>T DEF RestoreList, RestoreReturns, Kept, TypeOK
  <2>2. CASE m = n
    <3>1. disk' = disk /\ snap' = snap /\ ctx' = ctx /\ snap[m].step = "idle"
      BY <1>7, <2>2, <1>T DEF RestoreList, SnapInv
    <3>2. CASE pc'[m] = "wait"
      BY <2>0, <3>1, <3>2, <1>Q
    <3>3. CASE pc'[m] = "publish" /\ states = {}
      <4>1. published = {}
        BY <3>3, <1>T DEF BasicInv, KitsInv
      <4> QED
        BY <2>0, <3>1, <3>3, <4>1, <1>T, <1>R DEF ManagerInv, Goal
    <3>4. CASE pc'[m] = "inspect" /\ target'[m] = Newest /\ states # {}
      <4>1. \A k \in published : k.at <= Newest
        BY <3>4, <1>T, NewestIsLast
      <4> QED
        BY <2>0, <3>1, <3>4, <4>1, <1>T, <1>R DEF ManagerInv, Goal
    <3> QED
      BY <1>7, <2>2, <3>2, <3>3, <3>4, <1>T DEF RestoreList, RestoreReturns, TypeOK
  <2> QED
    BY <2>1, <2>2
<1>F. ASSUME NEW n \in Node, RestoreFails(n), pc[n] \notin {"open", "serve"},
             disk' = disk, published' = published
      PROVE  Goal
  <2>1. CASE m # n
    BY <1>F, <2>1, <1>K, <1>T DEF RestoreFails, Exit, Kept, TypeOK
  <2>2. CASE m = n
    <3>1. snap[m].step = "idle"
      BY <1>F, <2>2, <1>T DEF SnapInv
    <3> QED
      BY <1>F, <2>2, <3>1, <1>Q, <1>T DEF RestoreFails, Exit, TypeOK
  <2> QED
    BY <2>1, <2>2
<1>E. ASSUME NEW n \in Node, pc[n] \in {"inspect", "compare"}, disk' = disk,
             published' = published, UNCHANGED <<ctx, target, snap>>,
             \E p \in {"compare", "extract"} : pc' = [pc EXCEPT ![n] = p]
      PROVE  Goal
  <2>1. CASE m # n
    BY <1>E, <2>1, <1>K, <1>T DEF Kept, TypeOK
  <2>2. CASE m = n
    <3>1. snap[m].step = "idle" /\ pc'[m] \in {"compare", "extract"}
      BY <1>E, <2>2, <1>T DEF SnapInv, TypeOK
    <3> QED
      BY <1>E, <2>2, <3>1, <1>T, <1>R DEF ManagerInv, Goal
  <2> QED
    BY <2>1, <2>2
<1>8. ASSUME NEW n \in Node, RestoreInspect(n) PROVE Goal
  <2>1. /\ published' = published /\ disk' = disk /\ pc[n] = "inspect"
        /\ \/ RestoreFails(n)
           \/ pc' = [pc EXCEPT ![n] = "compare"] /\ UNCHANGED <<ctx, target, snap>>
    BY <1>8, <1>T DEF RestoreInspect, swarm
  <2> QED
    BY <2>1, <1>F, <1>E
<1>8a. ASSUME NEW n \in Node, RestoreBreaks(n) PROVE Goal
  <2>1. published' = published /\ pc[n] \notin {"open", "serve"}
    BY <1>8a DEF RestoreBreaks, swarm
  <2> QED
    BY Zenon, <1>8a, <2>1, <1>F DEF RestoreBreaks
<1>8b. ASSUME NEW n \in Node, RestoreReturns(n), ~Behind(n, target[n]), pc[n] = "compare",
              disk' = disk, published' = published, UNCHANGED <<ctx, target, snap>>
       PROVE  Goal
  <2>1. CASE m # n
    BY <1>8b, <2>1, <1>K, <1>T DEF RestoreReturns, Kept, TypeOK
  <2>2. CASE m = n
    <3>1. snap[m].step = "idle"
      BY <1>8b, <2>2, <1>T DEF SnapInv
    <3>2. CASE ctx[m] = "boot"
      BY <1>8b, <2>2, <3>1, <3>2, <1>Q, <1>T DEF RestoreReturns, TypeOK
    <3>3. CASE ctx[m] = "promote"
      <4>1. pc'[m] = "publish"
        BY <1>8b, <2>2, <3>3, <1>T DEF RestoreReturns, TypeOK
      <4>a. ~Behind(m, target[m])
        BY Zenon, <1>8b, <2>2
      <4>2. disk[m].rev # 0 /\ target[m] <= disk[m].rev
        BY <4>a, <1>N DEF Behind
      <4>3. PICK j \in published : j.at = disk[m].rev
        BY <4>2, <1>T DEF RestoreInv, Named
      <4>4. j.db \subseteq disk[m].db
        BY <4>3, <1>M DEF ManagerInv
      <4>5. \A k \in published : k.at <= target[m]
        BY <1>8b, <2>2, <3>3, <1>M DEF ManagerInv
      <4>6. \A k \in published : k.at <= j.at
        BY <4>5, <4>2, <4>3, <1>N
      <4>7. \A k \in published : k.at < j.at \/ k = j
        BY <4>6, <4>3, <1>N, <1>C
      <4>8. \A k \in published : k.db \subseteq disk[m].db
        BY <4>3, <4>4, <4>7, <1>C DEF OneCluster
      <4>9. \A k \in published : disk[m].sealed = k.key /\ disk[m].key = k.key
        BY <4>2, <1>M DEF ManagerInv
      <4> QED
        BY <1>8b, <3>1, <4>1, <4>2, <4>3, <4>8, <4>9, <1>M, <1>R DEF ManagerInv, Goal
    <3> QED
      BY <3>2, <3>3, <1>T DEF TypeOK
  <2> QED
    BY <2>1, <2>2
<1>8c. ASSUME NEW n \in Node, RestoreCompare(n) PROVE Goal
  <2>1. /\ disk' = disk /\ pc[n] = "compare"
        /\ \/ RestoreFails(n)
           \/ /\ RestoreReturns(n) /\ ~Behind(n, target[n])
              /\ UNCHANGED <<ctx, target, snap>>
           \/ pc' = [pc EXCEPT ![n] = "extract"] /\ UNCHANGED <<ctx, target, snap>>
    BY Zenon, <1>8c DEF RestoreCompare, NeedsRestore
  <2>2. published' = published
    BY <1>8c DEF RestoreCompare, swarm
  <2> QED
    BY <2>1, <2>2, <1>F, <1>E, <1>8b
<1>9. ASSUME NEW n \in Node, RestoreExtract(n) PROVE Goal
  <2>0. published' = published
    BY <1>9 DEF RestoreExtract, ExtractKit, swarm
  <2>1. CASE m # n
    BY <1>9, <2>0, <2>1, <1>K, <1>T DEF RestoreExtract, ExtractKit, Kept, TypeOK
  <2>2. CASE m = n
    <3> DEFINE k == KitAt(target[m])
    <3>1. Named(target[m]) /\ disk[m].rev <= target[m] /\ snap[m].step = "idle"
      BY <1>9, <2>2, <1>T DEF RestoreExtract, ExtractKit, RestoreInv, SnapInv
    <3>2. k \in published /\ k.at = target[m]
      BY <3>1, KitAtNamed
    <3>3. /\ disk'[m].rev = disk[m].rev /\ disk'[m].key = disk[m].key
          /\ disk'[m].db = k.db /\ disk'[m].sealed = k.sealed
          /\ pc[m] = "extract" /\ pc'[m] = "adopt" /\ ctx' = ctx /\ target' = target
          /\ snap' = snap
      BY <1>9, <2>2, <1>T DEF RestoreExtract, ExtractKit, TypeOK, Disk
    <3> HIDE DEF k
    <3>4. \A j \in published : j.key = k.sealed /\ (j.at <= k.at => j.db \subseteq k.db)
      <4> SUFFICES ASSUME NEW j \in published
                   PROVE  j.key = k.sealed /\ (j.at <= k.at => j.db \subseteq k.db)
        OBVIOUS
      <4>1. j.key = k.sealed /\ (j.at < k.at => j.db \subseteq k.db) /\ (j.at = k.at => j = k)
        BY <3>2, <1>C DEF OneCluster
      <4>2. j.at \in Nat /\ k.at \in Nat
        BY <3>2, <1>T DEF TypeOK, Kit
      <4> QED
        BY <4>1, <4>2
    <3> QED
      BY <2>0, <3>1, <3>2, <3>3, <3>4, <1>T, <1>R DEF ManagerInv, Goal
  <2> QED
    BY <2>1, <2>2
<1>10. ASSUME NEW n \in Node, RestoreKey(n) PROVE Goal
  <2>0. published' = published
    BY <1>10 DEF RestoreKey, swarm
  <2>1. CASE m # n
    BY <1>10, <2>0, <2>1, <1>K, <1>T DEF RestoreKey, Kept, TypeOK
  <2>2. CASE m = n
    <3> DEFINE k == KitAt(target[m])
    <3>1. Named(target[m]) /\ snap[m].step = "idle"
      BY <1>10, <2>2, <1>T DEF RestoreKey, RestoreInv, SnapInv
    <3>2. k \in published /\ k.at = target[m]
      BY <3>1, KitAtNamed
    <3>3. /\ disk'[m].rev = disk[m].rev /\ disk'[m].key = k.key
          /\ disk'[m].db = disk[m].db /\ disk'[m].sealed = disk[m].sealed
          /\ pc[m] = "adopt" /\ pc'[m] = "stamp" /\ ctx' = ctx /\ target' = target
          /\ snap' = snap
      BY <1>10, <2>2, <1>T DEF RestoreKey, TypeOK, Disk
    <3> HIDE DEF k
    <3>4. \A j \in published : j.key = k.key
      BY <3>2, <1>C DEF OneCluster
    <3> QED
      BY <2>0, <3>1, <3>2, <3>3, <3>4, <1>T, <1>R DEF ManagerInv, Goal
  <2> QED
    BY <2>1, <2>2
<1>11. ASSUME NEW n \in Node, RestoreMark(n) PROVE Goal
  <2>0. published' = published
    BY <1>11 DEF RestoreMark, swarm
  <2>1. CASE m # n
    BY <1>11, <2>0, <2>1, <1>K, <1>T DEF RestoreMark, RestoreReturns, Kept, TypeOK
  <2>2. CASE m = n
    <3>1. /\ pc[m] = "stamp" /\ Named(target[m]) /\ snap[m].step = "idle"
      BY <1>11, <2>2, <1>T DEF RestoreMark, RestoreInv, SnapInv
    <3>2. PICK k \in published : k.at = target[m]
      BY <3>1 DEF Named
    <3>3. disk[m].db = k.db /\ disk[m].sealed = k.sealed /\ disk[m].key = k.key
      BY <3>1, <3>2, <1>T DEF RestoreInv
    <3>4. /\ disk'[m].rev = target[m] /\ disk'[m].db = disk[m].db
          /\ disk'[m].sealed = disk[m].sealed /\ disk'[m].key = disk[m].key
          /\ pc'[m] = (IF ctx[m] = "boot" THEN "wait" ELSE "publish")
          /\ ctx' = ctx /\ snap' = snap
      BY <1>11, <2>2, <1>T DEF RestoreMark, RestoreReturns, TypeOK, Disk
    <3>5. \A j \in published : j.key = k.key /\ k.sealed = j.key /\ (j.at <= k.at => j.db \subseteq k.db)
      <4> SUFFICES ASSUME NEW j \in published
                   PROVE  j.key = k.key /\ k.sealed = j.key /\ (j.at <= k.at => j.db \subseteq k.db)
        OBVIOUS
      <4>1. k.sealed = k.key /\ k.key = j.key /\ (j.at < k.at => j.db \subseteq k.db)
        BY <3>2, <1>C DEF OneCluster
      <4>2. j.at = k.at => j = k
        BY <3>2, <1>C
      <4>3. j.at \in Nat /\ k.at \in Nat
        BY <3>2, <1>N
      <4>4. j.at <= k.at => j.at < k.at \/ j.at = k.at
        BY <4>3
      <4>5. j.at = k.at => j.db \subseteq k.db
        BY <4>2
      <4>6. j.at <= k.at => j.db \subseteq k.db
        BY <4>1, <4>4, <4>5, Zenon
      <4>7. k.sealed = j.key
        BY <4>1, Zenon
      <4> QED
        BY <4>1, <4>6, <4>7, Zenon
    <3>c. ctx[m] \in {"boot", "promote"}
      BY <1>T DEF TypeOK
    <3>6. ctx[m] # "boot" => \A j \in published : j.at <= k.at
      BY <3>1, <3>2, <3>c, <1>M DEF ManagerInv
    <3>7. \A j \in published : disk'[m].sealed = j.key /\ disk'[m].key = j.key
      BY <3>3, <3>4, <3>5
    <3>8. \A j \in published : j.at <= k.at => j.db \subseteq disk'[m].db
      BY <3>3, <3>4, <3>5
    <3>9. \A j \in published : j.at = k.at => j.at <= k.at
      BY <3>2, <1>N
    <3>10. ManagerInv(m)'
      BY <2>0, <3>2, <3>4, <3>6, <3>7, <3>8, <3>9 DEF ManagerInv
    <3>11. PublisherInv(m)'
      BY <3>1, <3>4, <1>R
    <3> QED
      BY <3>10, <3>11 DEF Goal
  <2> QED
    BY <2>1, <2>2
<1>12. ASSUME NEW n \in Node, InitialSnapshot(n) PROVE Goal
  <2>0. published' = published
    BY <1>12 DEF InitialSnapshot, swarm
  <2>1. CASE m # n
    BY <1>12, <2>0, <2>1, <1>K, <1>T DEF InitialSnapshot, Kept, TypeOK
  <2>2. CASE m = n
    <3>1. /\ pc[m] = "publish" /\ pc'[m] = "open" /\ disk' = disk
          /\ snap'[m].step \in {"idle", "read"}
      BY <1>12, <2>2, <1>T DEF InitialSnapshot, TypeOK
    <3> QED
      BY <2>0, <3>1, <1>H, <1>R DEF Goal
  <2> QED
    BY <2>1, <2>2
<1>13. ASSUME NEW n \in Node, OpenStore(n) PROVE Goal
  <2>0. published' = published
    BY <1>13 DEF OpenStore, swarm
  <2>1. CASE m # n
    BY <1>13, <2>0, <2>1, <1>K, <1>T DEF OpenStore, Exit, Kept, TypeOK
  <2>2. CASE m = n /\ ~HasDB(n)
    BY <1>13, <2>0, <2>2, <1>Q, <1>T DEF OpenStore, Exit, TypeOK
  <2>3. CASE m = n /\ HasDB(n)
    <3>1. pc[m] = "open" /\ pc'[m] = "serve" /\ snap' = snap /\ snap[m].step = "idle"
      BY <1>13, <2>3, <1>T DEF OpenStore, TypeOK
    <3>2. disk[m].key # NoNode
      BY <2>3, <3>1, <1>T DEF HasDB, ManagerInv
    <3>3. disk'[m] = disk[m]
      BY <1>13, <2>3, <3>2 DEF OpenStore
    <3> QED
      BY <2>0, <3>1, <3>3, <1>H, <1>R DEF Goal
  <2> QED
    BY <2>1, <2>2, <2>3
<1>14. ASSUME NEW n \in Node, LeadershipPoll(n) PROVE Goal
  <2>0. published' = published
    BY <1>14 DEF LeadershipPoll, swarm
  <2>1. CASE m # n
    BY <1>14, <2>0, <2>1, <1>K, <1>T DEF LeadershipPoll, Kept, TypeOK
  <2>2. CASE m = n
    <3>1. pc[m] = "serve" /\ pc' = pc /\ disk' = disk
      BY <1>14, <2>2 DEF LeadershipPoll
    <3>2. \/ snap' = snap
          \/ \E x \in {snap[n], NoSnap, Started("control")} : snap' = [snap EXCEPT ![n] = x]
      BY <1>14 DEF LeadershipPoll
    <3>3. snap'[m] = snap[m] \/ snap'[m].step \in {"idle", "read"}
      BY <2>2, <3>2, <1>T DEF TypeOK
    <3>4. CASE snap'[m] = snap[m]
      BY Zenon, <2>0, <3>1, <3>4, <1>T, <1>H DEF PublisherInv, Goal
    <3>5. CASE snap'[m].step \in {"idle", "read"}
      BY <2>0, <3>1, <3>5, <1>H, <1>R DEF Goal
    <3> QED
      BY <3>3, <3>4, <3>5
  <2> QED
    BY <2>1, <2>2
<1>15. ASSUME NEW n \in Node, LoopTick(n) PROVE Goal
  <2>0. published' = published
    BY <1>15 DEF LoopTick, swarm
  <2>1. CASE m # n
    BY <1>15, <2>0, <2>1, <1>K, <1>T DEF LoopTick, Kept, TypeOK
  <2>2. CASE m = n
    <3>1. pc[m] = "serve" /\ pc' = pc /\ disk' = disk /\ snap'[m].step = "read"
      BY <1>15, <2>2, <1>T DEF LoopTick, TypeOK
    <3> QED
      BY <2>0, <3>1, <1>H, <1>R DEF Goal
  <2> QED
    BY <2>1, <2>2
<1>16. ASSUME NEW n \in Node, SnapshotRead(n) PROVE Goal
  <2>0. published' = published
    BY <1>16 DEF SnapshotRead, ReadKit, swarm
  <2>1. CASE m # n
    BY <1>16, <2>0, <2>1, <1>K, <1>T DEF SnapshotRead, ReadKit, Kept, TypeOK
  <2>2. CASE m = n
    <3>1. pc[m] \in {"open", "serve"} /\ pc' = pc /\ disk' = disk
      BY <1>16, <2>2, <1>T DEF SnapshotRead, ReadKit, SnapInv
    <3>2. CASE disk[n].key = NoNode
      BY <1>16, <2>0, <2>2, <3>1, <3>2, <1>H, <1>R, <1>T DEF SnapshotRead, ReadKit, Goal, TypeOK
    <3>3. CASE disk[n].key # NoNode
      <4>1. /\ snap'[m].step = "create" /\ snap'[m].db = disk[m].db
            /\ snap'[m].sealed = disk[m].sealed /\ snap'[m].key = disk[m].key
        BY <1>16, <2>2, <3>3, <1>T DEF SnapshotRead, ReadKit, TypeOK, Snap
      <4> QED
        BY Zenon, <2>0, <3>1, <4>1, <1>H, <1>T DEF ManagerInv, PublisherInv, Goal
    <3> QED
      BY <3>2, <3>3
  <2> QED
    BY <2>1, <2>2
<1>17. ASSUME NEW n \in Node, SnapshotCreateState(n) PROVE Goal
  BY <1>17, PublishInv DEF Goal
<1>18. ASSUME NEW n \in Node, SnapshotCreateKey(n) PROVE Goal
  <2>0. published' = published
    BY <1>18 DEF SnapshotCreateKey, swarm
  <2>1. CASE m # n
    BY <1>18, <2>0, <2>1, <1>K, <1>T DEF SnapshotCreateKey, Kept, TypeOK
  <2>2. CASE m = n
    <3>1. pc[m] \in {"open", "serve"} /\ pc' = pc /\ disk' = disk /\ snap[m].step = "key"
      BY <1>18, <2>2, <1>T DEF SnapshotCreateKey, SnapInv
    <3>2. /\ snap'[m].step = "mark" /\ snap'[m].db = snap[m].db /\ snap'[m].at = snap[m].at
          /\ snap'[m].sealed = snap[m].sealed /\ snap'[m].key = snap[m].key
      BY <1>18, <2>2, <1>T DEF SnapshotCreateKey, TypeOK, Snap
    <3>3. PublisherInv(m)'
      BY Zenon, <2>0, <3>1, <3>2, <1>T DEF PublisherInv
    <3> QED
      BY <2>0, <3>1, <3>3, <1>H DEF Goal
  <2> QED
    BY <2>1, <2>2
<1>20. ASSUME NEW n \in Node, SnapshotMark(n) PROVE Goal
  <2>0. published' = published
    BY <1>20 DEF SnapshotMark, swarm
  <2>1. CASE m # n
    BY <1>20, <2>0, <2>1, <1>K, <1>T DEF SnapshotMark, Kept, TypeOK
  <2>2. CASE m = n
    <3>1. /\ pc[m] \in {"open", "serve"} /\ pc' = pc
          /\ snap[m].step = "mark" /\ Named(snap[m].at) /\ snap'[m].step = "prune"
      BY <1>20, <2>2, <1>T DEF SnapshotMark, SnapInv, TypeOK, Snap
    <3>2. /\ disk'[m].rev = snap[m].at /\ disk'[m].db = disk[m].db
          /\ disk'[m].sealed = disk[m].sealed /\ disk'[m].key = disk[m].key
      BY <1>20, <2>2, <1>T DEF SnapshotMark, TypeOK, Disk
    <3> QED
      BY Zenon, <2>0, <3>1, <3>2, <1>T, <1>R DEF ManagerInv, PublisherInv, Goal
  <2> QED
    BY <2>1, <2>2
<1>21. ASSUME NEW n \in Node, SnapshotMarkLate(n) PROVE Goal
  <2>1. PICK a \in late[n] : disk' = [disk EXCEPT ![n].rev = a]
    BY <1>21 DEF SnapshotMarkLate
  <2>2. published' = published /\ pc' = pc /\ ctx' = ctx /\ target' = target /\ snap' = snap
    BY <1>21 DEF SnapshotMarkLate, swarm
  <2>3. CASE m # n
    BY <2>1, <2>2, <2>3, <1>K, <1>T DEF Kept, TypeOK
  <2>4. CASE m = n
    <3>1. pc[m] = "serve"
      BY <2>1, <2>4, <1>T DEF BasicInv, LoopInv
    <3>2. /\ disk'[m].db = disk[m].db
          /\ disk'[m].sealed = disk[m].sealed /\ disk'[m].key = disk[m].key
      BY <2>1, <2>4, <1>T DEF TypeOK, Disk
    <3>3. ManagerInv(m)'
      BY Zenon, <2>2, <3>1, <3>2, <1>M DEF ManagerInv
    <3>4. PublisherInv(m)'
      BY Zenon, <2>2, <3>2, <1>T DEF PublisherInv
    <3> QED
      BY <3>3, <3>4 DEF Goal
  <2> QED
    BY <2>3, <2>4
<1>22. ASSUME NEW n \in Node, snap[n].step # "idle", published' = published,
              UNCHANGED <<disk, pc, ctx, target>>,
              \E x \in {NoSnap, [snap[n] EXCEPT !.step = "prune"],
                        [snap[n] EXCEPT !.step = "prunekeys"]} : snap' = [snap EXCEPT ![n] = x]
       PROVE  Goal
  <2>1. CASE m # n
    BY <1>22, <2>1, <1>K, <1>T DEF Kept, TypeOK
  <2>2. CASE m = n
    <3>1. pc[m] \in {"open", "serve"} /\ snap'[m].step \in {"idle", "prune", "prunekeys"}
      BY <1>22, <2>2, <1>T DEF SnapInv, TypeOK, Snap
    <3> QED
      BY <1>22, <3>1, <1>H, <1>R DEF Goal
  <2> QED
    BY <2>1, <2>2
<1>23. ASSUME NEW n \in Node, SnapshotFails(n) \/ SnapshotPruneKeys(n) PROVE Goal
  <2>1. published' = published
    BY <1>23 DEF SnapshotFails, SnapshotPruneKeys, swarm
  <2> QED
    BY Zenon, <1>22, <1>23, <2>1 DEF SnapshotFails, SnapshotPruneKeys
<1>24. ASSUME NEW n \in Node, SnapshotMarkFails(n) \/ SnapshotPruneStates(n) PROVE Goal
  <2>1. published' = published
    BY <1>24 DEF SnapshotMarkFails, SnapshotPruneStates, swarm
  <2> QED
    BY Zenon, <1>22, <1>24, <2>1 DEF SnapshotMarkFails, SnapshotPruneStates
<1> QED
  BY Zenon, <1>1, <1>2, <1>3, <1>4, <1>5, <1>6, <1>7, <1>8, <1>8a, <1>8c, <1>9, <1>10, <1>11,
     <1>12, <1>13, <1>14, <1>15, <1>16, <1>17, <1>18, <1>20, <1>21, <1>23, <1>24
  DEF Next, Restore, Snapshot

(* In a Calm setting SafeInv is an invariant: wherever crashes, failed calls *)
(* and interrupted snapshots and restores hit, at most one manager publishes *)
(* and it holds every kit (runServe, Kit.Snapshot, Kit.Restore).             *)
THEOREM SafeHolds == Spec => [](Calm => SafeInv)
<1>1. ASSUME Calm => SafeInv, [Next]_vars, Calm' PROVE SafeInv'
  <2>1. Calm
    BY <1>1, SameSetting DEF Calm
  <2> SafeInv
    BY <1>1, <2>1
  <2>2. BasicInv'
    BY <1>1, TypeStep, KitsStep, NodeStep, LoopStep DEF SafeInv, BasicInv
  <2>3. Alone' /\ OneCluster'
    BY <1>1, <2>1, AloneStep, OneClusterStep
  <2> QED
    BY <1>1, <2>1, <2>2, <2>3, ManagerStep DEF SafeInv
<1>2. (Calm => SafeInv) /\ [Next]_vars => (Calm => SafeInv)'
  BY <1>1
<1>3. Init => (Calm => SafeInv)
  BY SafeInit
<1> QED
  BY <1>2, <1>3, PTL DEF Spec

(* A daemon serves only a store it can decrypt (Kit.Restore, store.Open).    *)
THEOREM ServedStoresDecrypt == Spec => []ServedStoreDecrypts
<1>1. (Calm => SafeInv) => ServedStoreDecrypts
  BY DEF SafeInv, ManagerInv, ServedStoreDecrypts
<1> QED
  BY <1>1, SafeHolds, PTL

(* The revision marker of a serving manager is true (Kit.writeRevision).     *)
THEOREM RevisionsAreSound == Spec => []RevisionSound
<1>1. (Calm => SafeInv) => RevisionSound
  BY DEF SafeInv, ManagerInv, RevisionSound
<1> QED
  BY <1>1, SafeHolds, PTL

(* No kit loses a write an earlier kit had (Kit.Snapshot).                   *)
THEOREM KitsGrow == Spec => []KitsOnlyGrow
<1>1. (Calm => SafeInv) => KitsOnlyGrow
  BY DEF SafeInv, OneCluster, KitsOnlyGrow
<1> QED
  BY <1>1, SafeHolds, PTL

(* The leader whose loops run holds every write of every kit (runServe).     *)
THEOREM LeaderHoldsKits == Spec => []CalmLeaderHoldsEveryKit
<1>1. (Calm => SafeInv) => CalmLeaderHoldsEveryKit
  BY DEF SafeInv, BasicInv, LoopInv, ManagerInv, CalmLeaderHoldsEveryKit, LeaderHoldsEveryKit
<1> QED
  BY <1>1, SafeHolds, PTL
=============================================================================
