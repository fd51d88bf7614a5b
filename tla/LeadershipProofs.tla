-------------------------- MODULE LeadershipProofs --------------------------
(***************************************************************************)
(* Proofs about the daemon's role machine, for every set of answers the    *)
(* Swarm may give.                                                         *)
(***************************************************************************)
EXTENDS Leadership, TLAPS

USE DEF SwarmView, Emission, WatchState, FreshWatch, MayServe

(* A poll's emission and the locals it leaves are well typed. *)
LEMMA WatchTyped ==
  ASSUME NEW v \in SwarmView, NEW w \in WatchState
  PROVE  WatchEmits(v, w) \in Emission /\ WatchAfter(v, w) \in WatchState
  BY DEF WatchEmits, WatchAfter

(* Every variable of the role machine keeps its type. *)
THEOREM TypeCorrect == Spec => []TypeOK
<1>1. Init => TypeOK
  <2> SUFFICES ASSUME Init PROVE TypeOK
    OBVIOUS
  <2>1. loops \in BOOLEAN
    BY Zenon DEF Init
  <2>2. watch \in WatchState
    BY DEF Init
  <2> QED
    BY <2>1, <2>2 DEF Init, TypeOK
<1>2. TypeOK /\ [Next]_vars => TypeOK'
  <2> SUFFICES ASSUME TypeOK, [Next]_vars PROVE TypeOK'
    OBVIOUS
  <2>1. ASSUME NEW v \in Views, SwarmChanges(v) PROVE TypeOK'
    BY <2>1 DEF SwarmChanges, TypeOK, daemon
  <2>2. CASE WaitEnds
    BY <2>2 DEF WaitEnds, TypeOK
  <2>3. CASE WatchPoll
    BY <2>3, WatchTyped, ViewsAssumption DEF WatchPoll, TypeOK
  <2>4. CASE ControlReceives
    BY <2>4 DEF ControlReceives, TypeOK
  <2>5. CASE Restart
    BY <2>5 DEF Restart, TypeOK
  <2>6. CASE UNCHANGED vars
    BY <2>6 DEF vars, TypeOK
  <2> QED
    BY <2>1, <2>2, <2>3, <2>4, <2>5, <2>6 DEF Next
<1> QED
  BY <1>1, <1>2, PTL DEF Spec

(* On a node that was a manager at every poll, the loops run only while the *)
(* watcher believes it said so: LoopsImplyCurrent is inductive, because the *)
(* watcher forgets `current` only on the poll that sends `false`.           *)
THEOREM ManagerLoopsImplyCurrent == Spec => []LoopsImplyCurrent
<1>1. Init => LoopsImplyCurrent
  BY DEF Init, LoopsImplyCurrent
<1>2. TypeOK /\ LoopsImplyCurrent /\ [Next]_vars => LoopsImplyCurrent'
  <2> SUFFICES ASSUME TypeOK, LoopsImplyCurrent, [Next]_vars
               PROVE  LoopsImplyCurrent'
    OBVIOUS
  <2>1. ASSUME NEW v \in Views, SwarmChanges(v) PROVE LoopsImplyCurrent'
    BY <2>1 DEF SwarmChanges, LoopsImplyCurrent, daemon
  <2>2. CASE WaitEnds
    BY <2>2 DEF WaitEnds, LoopsImplyCurrent
  <2>3. CASE WatchPoll
    <3>0. CASE view = "worker"
      BY <2>3, <3>0 DEF WatchPoll, LoopsImplyCurrent
    <3>1. view \in SwarmView
      BY ViewsAssumption DEF TypeOK
    <3>2. CASE view = "follower"
      BY <2>3, <3>2 DEF WatchPoll, WatchEmits, WatchAfter, LoopsImplyCurrent, TypeOK
    <3>3. CASE view \notin {"worker", "follower"}
      BY <2>3, <3>1, <3>3 DEF WatchPoll, WatchAfter, LoopsImplyCurrent
    <3> QED
      BY <3>0, <3>2, <3>3
  <2>4. CASE ControlReceives
    BY <2>4 DEF ControlReceives, LoopsImplyCurrent, TypeOK
  <2>5. CASE Restart
    BY <2>5 DEF Restart, LoopsImplyCurrent
  <2>6. CASE UNCHANGED vars
    BY <2>6 DEF vars, LoopsImplyCurrent
  <2> QED
    BY <2>1, <2>2, <2>3, <2>4, <2>5, <2>6 DEF Next
<1> QED
  BY <1>1, <1>2, TypeCorrect, PTL DEF Spec

(* What StandbyNeverStarts needs to be inductive: a `true` in the channel  *)
(* stands on an answer that starts loops as much as running loops do, and  *)
(* whatever was sent was sent by a watcher past its first poll.            *)
LoopsWereTold ==
  /\ loops \/ out = "true" => seen \cap {"leader", "unreachable", "absent"} # {}
  /\ loops \/ out # "none" => ~watch.first

(* Every step of the role machine keeps LoopsWereTold. *)
LEMMA LoopsWereToldInductive == TypeOK /\ LoopsWereTold /\ [Next]_vars => LoopsWereTold'
<1> SUFFICES ASSUME TypeOK, LoopsWereTold, [Next]_vars PROVE LoopsWereTold'
  OBVIOUS
<1>1. ASSUME NEW v \in Views, SwarmChanges(v) PROVE LoopsWereTold'
  BY <1>1 DEF SwarmChanges, LoopsWereTold, daemon
<1>2. CASE WaitEnds
  BY <1>2 DEF WaitEnds, LoopsWereTold
<1>3. CASE WatchPoll
  <2>1. view \in SwarmView /\ watch \in WatchState
    BY ViewsAssumption DEF TypeOK
  <2>2. out' = "true" => view \in {"leader", "unreachable", "absent"}
    BY <1>3, <2>1 DEF WatchPoll, WatchEmits
  <2>3. view \in seen' /\ seen \subseteq seen' /\ loops' = loops
    BY <1>3 DEF WatchPoll
  <2>4. ~watch'.first
    BY <1>3, <2>1 DEF WatchPoll, WatchAfter
  <2> QED
    BY <2>2, <2>3, <2>4 DEF LoopsWereTold
<1>4. CASE ControlReceives
  <2>1. watch' = watch /\ seen' = seen /\ out' = "none" /\ (loops' => out = "true") /\ out # "none"
    BY <1>4 DEF ControlReceives
  <2> QED
    BY <2>1 DEF LoopsWereTold
<1>5. CASE Restart
  BY <1>5 DEF Restart, LoopsWereTold
<1>6. CASE UNCHANGED vars
  BY <1>6 DEF vars, LoopsWereTold
<1> QED
  BY <1>1, <1>2, <1>3, <1>4, <1>5, <1>6 DEF Next

(* A standby starts no loop, whatever the order of elections, polls, sends  *)
(* and restarts (WatchSwarmLeadership against the control goroutine of      *)
(* serve).                                                                  *)
THEOREM StandbysNeverStart == Spec => []StandbyNeverStarts
<1>1. Init => LoopsWereTold
  BY DEF Init, LoopsWereTold
<1>2. LoopsWereTold => StandbyNeverStarts
  BY DEF LoopsWereTold, StandbyNeverStarts
<1> QED
  BY <1>1, <1>2, LoopsWereToldInductive, TypeCorrect, PTL DEF Spec

(* A poll that still finds this node in the lead sends nothing while the    *)
(* loops run, so no poll restarts them (WatchSwarmLeadership: "a later poll *)
(* that is still leader must stay silent").                                 *)
THEOREM SteadyLeadIsSilent == Spec => SteadyLeaderIsSilent
<1>1. Init => LoopsWereTold
  BY DEF Init, LoopsWereTold
<1>2. TypeOK /\ LoopsWereTold /\ LoopsImplyCurrent /\ [Next]_vars
        => [WatchPoll /\ view = "leader" /\ loops /\ "worker" \notin seen => out' = "none"]_vars
  <2> SUFFICES ASSUME TypeOK, LoopsWereTold, LoopsImplyCurrent, WatchPoll, view = "leader", loops,
                      "worker" \notin seen
               PROVE  out' = "none"
    OBVIOUS
  <2>1. out = "none" /\ out' = WatchEmits(view, watch)
    BY DEF WatchPoll
  <2>2. watch.current /\ ~watch.first
    BY <2>1 DEF LoopsImplyCurrent, LoopsWereTold
  <2> QED
    BY <2>1, <2>2 DEF WatchEmits
<1> QED
  BY <1>1, <1>2, LoopsWereToldInductive, TypeCorrect, ManagerLoopsImplyCurrent, PTL DEF Spec, SteadyLeaderIsSilent
=============================================================================
