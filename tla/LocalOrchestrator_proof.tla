----------------------- MODULE LocalOrchestrator_proof -----------------------
(***************************************************************************)
(* Safety of the local orchestrator for any deployments, hosts and queue   *)
(* capacity: types, the positions in the history, the delivery, the        *)
(* dispatcher and its machine, the requests, the ledger and what is missed. *)
(***************************************************************************)
EXTENDS LocalOrchestrator, DesiredState_proof

\* The LO does not write the repository: its runs are runs of DesiredState.
LEMMA RepoOfLo == Spec => [](RepoInv /\ RepoTypeOK)
<1>1. Init => RepoInit
  BY DEF Init
<1>2. [Next]_vars => [RepoNext]_repoVars
  BY DEF Next, vars
<1>3. RepoInv => RepoTypeOK
  BY DEF RepoInv
<1> QED
  BY <1>1, <1>2, <1>3, RepoInvariant, PTL DEF Spec, RepoSpec

\* What a clone saw stays as it was, in every step of the whole system.
LEMMA RepoKept ==
  ASSUME RepoInv, [Next]_vars
  PROVE  /\ origin' >= origin
         /\ \A d \in Deployments : Published(d) => at'[d] = at[d]
<1>1. [RepoNext]_repoVars
  BY DEF Next, vars
<1> QED
  BY <1>1, PublishedIsKept

-----------------------------------------------------------------------------
(* Types.                                                                  *)

LEMMA TriggerType ==
  ASSUME queue \in Seq(Event), NEW e \in Event, Trigger(e)
  PROVE  queue' \in Seq(Event)
BY DEF Trigger

\* The machine stays in the states the events it is sent lead to.
LEMMA FsmType ==
  ASSUME NEW e, FsmEvent(e), fsm \in {"idle", "ready", "deploying", "error"}
  PROVE  fsm' \in {"idle", "ready", "deploying", "error"}
<1>1. CASE \E t \in Transitions : t[1] = e /\ t[2] = fsm
  <2> DEFINE t == CHOOSE t \in Transitions : t[1] = e /\ t[2] = fsm
  <2>1. t \in Transitions /\ fsm' = t[3]
    BY <1>1 DEF FsmEvent
  <2>2. \A s \in Transitions : s[3] \in {"idle", "ready", "deploying", "error"}
    BY DEF Transitions
  <2> QED
    BY <2>1, <2>2
<1>2. CASE ~ \E t \in Transitions : t[1] = e /\ t[2] = fsm
  BY <1>2 DEF FsmEvent
<1> QED
  BY <1>1, <1>2

LEMMA EmptyQueueType == <<>> \in Seq(Event)
OBVIOUS

LEMMA HeadTailType ==
  ASSUME NEW S, NEW q \in Seq(S), q # <<>>
  PROVE  Head(q) \in S /\ Tail(q) \in Seq(S)
OBVIOUS

LEMMA DieType ==
  ASSUME LoTypeOK, Die
  PROVE  LoTypeOK'
<1>1. /\ up' \in BOOLEAN /\ mode' \in {"", "adaptive"}
      /\ wpc' \in {"off", "start", "wait", "diff", "dead"}
      /\ dpc' \in {"take", "handle", "fsm"}
      /\ cur' \in {"", GitPolled, NetworkChange}
      /\ fsm' \in {"idle", "ready", "deploying", "error"}
      /\ cloned' \in BOOLEAN
  BY DEF Die, LoTypeOK
<1>2. queue' \in Seq(Event)
  BY EmptyQueueType DEF Die
<1>3. todo' = {} /\ results' = {} /\ outbox' = {}
  BY DEF Die
<1>4. UNCHANGED <<head, tree, last, hosts, nilRow, sent, history>>
  BY DEF Die
<1> QED
  BY <1>1, <1>2, <1>3, <1>4 DEF LoTypeOK, history

LEMMA TypeStep ==
  ASSUME RepoTypeOK, LoTypeOK, [Next]_vars
  PROVE  LoTypeOK'
<1> origin \in Nat
  BY DEF RepoTypeOK
<1> HIDE DEF RepoTypeOK
<1> USE DEF LoTypeOK, disk, watcher, dispatcher, fanout, history
<1>1. CASE UNCHANGED loVars
  BY <1>1 DEF loVars
<1>2. CASE Exit
  BY <1>2, DieType DEF Exit
<1>3. ASSUME NEW n \in Nodes, Health(n)
       PROVE  LoTypeOK'
  BY <1>3 DEF Health
<1>4. CASE Start
  <2>1. up' \in BOOLEAN
    BY <1>4 DEF Start
  <2>2. UNCHANGED <<disk, mode, watcher, dispatcher, fanout, hosts, history>>
    BY <1>4 DEF Start
  <2> QED
    BY <2>1, <2>2
<1>5. CASE LoseDisk
  <2>1. cloned' \in BOOLEAN /\ head' \in Nat /\ tree' \in Nat
    BY <1>5 DEF LoseDisk
  <2>2. UNCHANGED <<up, mode, watcher, dispatcher, fanout, hosts, history>>
    BY <1>5 DEF LoseDisk
  <2> QED
    BY <2>1, <2>2
<1>6. CASE NetworkTick
  <2>1. [name |-> NetworkChange, deps |-> {}] \in Event
    BY DEF Event
  <2> QED
    BY <1>6, <2>1, TriggerType DEF NetworkTick
<1>7. CASE WatcherStarts
  BY <1>7 DEF WatcherStarts, Open, Clone, CloneFails, Watch, Later
<1>8. CASE Pull \/ PullHalf \/ GiveUp \/ DiffFails
  BY <1>8 DEF Pull, PullHalf, GiveUp, DiffFails, Later
<1>9. CASE Diff
  <2>1. [name |-> GitPolled, deps |-> Changes] \in Event
    BY DEF Event, Changes, Mine
  <2>2. queue' \in Seq(Event)
    BY <1>9, <2>1, TriggerType DEF Diff
  <2> QED
    BY <1>9, <2>2 DEF Diff, Later
<1>10. CASE Take
  <2>1. Head(queue) \in Event /\ Tail(queue) \in Seq(Event)
    BY <1>10, HeadTailType DEF Take
  <2> QED
    BY <1>10, <2>1 DEF Take, Event
<1>11. CASE HandleNetworkChange \/ GitPolledHandled
  BY <1>11 DEF HandleNetworkChange, GitPolledHandled
<1>12. CASE RaiseFsmEvent
  BY <1>12, FsmType DEF RaiseFsmEvent
<1>13. ASSUME NEW d \in Deployments, DeployToEdges(d)
       PROVE  LoTypeOK'
  BY <1>13 DEF DeployToEdges
<1>14. ASSUME NEW d \in Deployments, NEW n \in Nodes, Publish(d, n)
       PROVE  LoTypeOK'
  <2>1. nilRow' \in BOOLEAN
    BY <1>14 DEF Publish
  <2>2. sent' \in SUBSET (Deployments \X Nodes)
        /\ outbox' \in SUBSET (Deployments \X Nodes)
    BY <1>14 DEF Publish
  <2>3. UNCHANGED <<disk, up, mode, watcher, dispatcher, results, hosts, history>>
    BY <1>14 DEF Publish
  <2> QED
    BY <2>1, <2>2, <2>3
<1>15. ASSUME NEW d \in Deployments, NEW n \in Nodes, Panic(d, n)
       PROVE  LoTypeOK'
  BY <1>15, DieType DEF Panic
<1>16. ASSUME NEW d \in Deployments, Done(d)
       PROVE  LoTypeOK'
  BY <1>16, FsmType DEF Done
<1> QED
  BY <1>1, <1>2, <1>3, <1>4, <1>5, <1>6, <1>7, <1>8, <1>9, <1>10, <1>11,
     <1>12, <1>13, <1>14, <1>15, <1>16
     DEF Next, LoNext, WatcherTurns, Dispatcher, Goroutines, Environment, vars

\* Type correctness: every variable of the LO process, its disk, the database
\* and the broker keeps the values the Go types and states allow.
THEOREM TypeCorrect == Spec => []TypeOK
<1>1. Init => LoTypeOK
  <2> SUFFICES ASSUME LoInit
               PROVE  LoTypeOK
    BY DEF Init
  <2> USE DEF LoInit
  <2>1. cloned \in BOOLEAN /\ up \in BOOLEAN /\ nilRow \in BOOLEAN
    OBVIOUS
  <2>2. /\ mode \in {"", "adaptive"} /\ dpc \in {"take", "handle", "fsm"}
        /\ wpc \in {"off", "start", "wait", "diff", "dead"}
        /\ cur \in {"", GitPolled, NetworkChange}
        /\ fsm \in {"idle", "ready", "deploying", "error"}
    OBVIOUS
  <2>3. queue \in Seq(Event)
    <3>1. queue = <<>>
      OBVIOUS
    <3> HIDE DEF LoInit
    <3> QED
      BY <3>1, EmptyQueueType
  <2>4. outbox \in SUBSET (Deployments \X Nodes)
        /\ sent \in SUBSET (Deployments \X Nodes)
    OBVIOUS
  <2>5. /\ todo \in SUBSET Deployments /\ results \in SUBSET Deployments
        /\ dispatched \in SUBSET Deployments /\ hosts \in SUBSET Nodes
    OBVIOUS
  <2>6. head \in Nat /\ tree \in Nat /\ last \in Nat /\ reached \in Nat
    OBVIOUS
  <2> HIDE DEF LoInit
  <2> QED
    BY <2>1, <2>2, <2>3, <2>4, <2>5, <2>6 DEF LoTypeOK
<1>2. RepoTypeOK /\ LoTypeOK /\ [Next]_vars => LoTypeOK'
  BY TypeStep
<1> QED
  BY <1>1, <1>2, RepoOfLo, PTL DEF Spec, TypeOK
-----------------------------------------------------------------------------
(* Cursors.                                                                *)

\* A clone that is not there has no HEAD, and only a live process watches
\* and dispatches.
CursorInv ==
  /\ CursorsInOrder
  /\ ~cloned => head = 0
  /\ ~up => wpc = "off" /\ dpc = "take"

LEMMA CursorStep ==
  ASSUME RepoInv, LoTypeOK, CursorInv, [Next]_vars
  PROVE  CursorInv'
<1>1. origin \in Nat /\ origin' >= origin /\ origin' \in Nat
  <2>1. [RepoNext]_repoVars
    BY DEF Next, vars
  <2>2. RepoInv'
    BY <2>1, RepoInvStep
  <2> QED
    BY <2>2, RepoKept DEF RepoInv, RepoTypeOK
<1>2. /\ cloned \in BOOLEAN /\ head \in Nat /\ tree \in Nat /\ up \in BOOLEAN
      /\ last \in Nat /\ reached \in Nat
  BY DEF LoTypeOK
<1> USE <1>1, <1>2 DEF CursorInv, CursorsInOrder, disk, watcher, dispatcher, history
<1>3. CASE Die
  <2>1. /\ UNCHANGED <<head, tree, last, reached>>
        /\ ~up' /\ wpc' = "off" /\ dpc' = "take"
    BY <1>3 DEF Die
  <2>2. cloned' = cloned \/ ~cloned
    BY <1>3 DEF Die
  <2> QED
    BY <2>1, <2>2
<1>4. CASE Start
  BY <1>4 DEF Start
<1>5. CASE LoseDisk
  BY <1>5 DEF LoseDisk
<1>6. CASE \E n \in Nodes : Health(n)
  BY <1>6 DEF Health
<1>7. CASE NetworkTick
  <2>1. UNCHANGED <<cloned, head, tree, up, wpc, last, dpc, reached>>
    BY <1>7 DEF NetworkTick
  <2> QED
    BY <2>1
<1>8. CASE WatcherStarts /\ UNCHANGED repoVars
  <2>1. CASE Open
    BY <2>1, <1>8 DEF Open, Watch, Later, repoVars
  <2>2. CASE Clone
    BY <2>2, <1>8 DEF Clone, Watch, Later, repoVars
  <2>3. CASE CloneFails
    BY <2>3 DEF CloneFails
  <2> QED
    BY <1>8, <2>1, <2>2, <2>3 DEF WatcherStarts
<1>9. CASE (Pull \/ PullHalf) /\ UNCHANGED repoVars
  BY <1>9 DEF Pull, PullHalf, repoVars
<1>10. CASE GiveUp
  BY <1>10 DEF GiveUp
<1>11. CASE DiffFails
  BY <1>11 DEF DiffFails, Later
<1>12. CASE Diff
  BY <1>12 DEF Diff, Later
<1>13. CASE Take
  BY <1>13 DEF Take
<1>14. CASE HandleNetworkChange
  BY <1>14 DEF HandleNetworkChange
<1>15. CASE GitPolledHandled
  BY <1>15 DEF GitPolledHandled
<1>16. CASE RaiseFsmEvent
  <2>1. /\ UNCHANGED <<cloned, head, tree, up, wpc, last, reached>>
        /\ dpc' = "take"
    BY <1>16 DEF RaiseFsmEvent
  <2> QED
    BY <2>1
<1>17. CASE \E d \in Deployments : DeployToEdges(d) \/ Done(d)
  BY <1>17 DEF DeployToEdges, Done
<1>18. CASE \E d \in Deployments, n \in Nodes : Publish(d, n)
  BY <1>18 DEF Publish
<1>19. CASE UNCHANGED loVars
  BY <1>19 DEF loVars
<1> QED
  BY <1>3, <1>4, <1>5, <1>6, <1>7, <1>8, <1>9, <1>10, <1>11, <1>12, <1>13,
     <1>14, <1>15, <1>16, <1>17, <1>18, <1>19
     DEF Next, LoNext, WatcherTurns, Dispatcher, Goroutines, Environment, vars,
         Exit, Panic

LEMMA CursorInvariant == Spec => []CursorInv
<1>1. Init => CursorInv
  <2>1. Init => /\ head = 0 /\ tree = 0 /\ reached = 0 /\ origin = 0
                /\ wpc = "off" /\ dpc = "take"
    BY DEF Init, RepoInit, LoInit
  <2> QED
    BY <2>1 DEF CursorInv, CursorsInOrder
<1>2. RepoInv /\ LoTypeOK /\ CursorInv /\ [Next]_vars => CursorInv'
  BY CursorStep
<1>3. TypeOK => LoTypeOK
  BY DEF TypeOK
<1> QED
  BY <1>1, <1>2, <1>3, RepoOfLo, TypeCorrect, PTL DEF Spec

\* Nothing the LO does, no crash, half pull, lost disk or interrupted clone,
\* lets its positions in the history overtake each other (watcher.Start, Pull).
THEOREM CursorsCorrect == Spec => []CursorsInOrder
<1>1. CursorInv => CursorsInOrder
  BY DEF CursorInv
<1> QED
  BY <1>1, CursorInvariant, PTL

-----------------------------------------------------------------------------
(* Deliveries.                                                             *)

\* HandedOnce and InCommitOrder, and that what was given out was decided before.
DeliveryInv ==
  /\ HandedOnce
  /\ InCommitOrder
  /\ \A d \in dispatched : d \in Mine /\ at[d] \in 1 .. reached

\* What is on the way or given out can be seen in every clone, so that its
\* commit is the same after the step; and decided positions only grow.
LEMMA DecidedIsKept ==
  ASSUME RepoInv, LoTypeOK, CursorInv, DeliveryInv, [Next]_vars
  PROVE  /\ \A d \in Accepted \union dispatched : at'[d] = at[d]
         /\ at' \in [Deployments -> Nat]
<1>1. \A d \in Accepted \union dispatched : d \in Deployments /\ Published(d)
  <2>1. reached <= origin
    BY DEF CursorInv, CursorsInOrder
  <2>2. reached \in Nat /\ origin \in Nat /\ at \in [Deployments -> Nat]
    <3>1. reached \in Nat
      BY DEF LoTypeOK
    <3>2. origin \in Nat /\ at \in [Deployments -> Nat]
      BY DEF RepoInv, RepoTypeOK
    <3> QED
      BY <3>1, <3>2
  <2>3. \A d \in Accepted \union dispatched : d \in Mine /\ at[d] \in 1 .. reached
    BY DEF DeliveryInv, HandedOnce
  <2> QED
    BY <2>1, <2>2, <2>3 DEF Mine, Published
<1>2. [RepoNext]_repoVars
  BY DEF Next, vars
<1>3. at' \in [Deployments -> Nat]
  BY <1>2, RepoInvStep DEF RepoInv, RepoTypeOK
<1> QED
  BY <1>1, <1>3, RepoKept

\* A step that hands nothing on keeps the invariant.
LEMMA DeliveryFrame ==
  ASSUME LoTypeOK, DeliveryInv,
         UNCHANGED <<queue, todo, dispatched>>,
         reached' \in Nat, reached' >= reached,
         at \in [Deployments -> Nat],
         \A d \in Accepted \union dispatched : at'[d] = at[d]
  PROVE  DeliveryInv'
<1>1. InQueue' = InQueue /\ Accepted' = Accepted /\ InQueue \subseteq Accepted
      /\ todo \subseteq Accepted
  BY DEF InQueue, Accepted
<1>2. Mine' = Mine /\ Mine \subseteq Deployments /\ reached \in Nat
  BY DEF Mine, LoTypeOK
<1>3. HandedOnce'
  <2>1. \A d \in Accepted' : d \in Mine' /\ at'[d] \in 1 .. reached'
    BY <1>1, <1>2 DEF HandedOnce, DeliveryInv
  <2> QED
    BY <1>1, <2>1 DEF HandedOnce, DeliveryInv
<1>4. InCommitOrder'
  <2>1. \A i \in 1 .. Len(queue) : \A d \in queue[i].deps : at'[d] = at[d]
    <3> SUFFICES ASSUME NEW i \in 1 .. Len(queue), NEW d \in queue[i].deps
                 PROVE  d \in InQueue
      BY <1>1
    <3>1. queue \in Seq(Event)
      BY DEF LoTypeOK
    <3>2. queue[i] \in Event
      BY <3>1
    <3>3. queue[i].deps \in SUBSET Deployments
      BY <3>2 DEF Event
    <3> QED
      BY <3>3 DEF InQueue
  <2>2. \A d \in InQueue, e \in todo \union dispatched : at'[e] < at'[d]
    BY <1>1 DEF InCommitOrder, DeliveryInv
  <2>3. \A i, j \in 1 .. Len(queue) :
          i < j => \A d \in queue[i].deps, e \in queue[j].deps : at'[d] < at'[e]
    BY <2>1 DEF InCommitOrder, DeliveryInv
  <2> QED
    BY <1>1, <2>2, <2>3 DEF InCommitOrder
<1>5. \A d \in dispatched' : d \in Mine' /\ at'[d] \in 1 .. reached'
  BY <1>2 DEF DeliveryInv
<1> QED
  BY <1>3, <1>4, <1>5 DEF DeliveryInv

\* The deployments of a queued event are in the queue.
LEMMA QueuedDeps ==
  ASSUME queue \in Seq(Event)
  PROVE  \A i \in 1 .. Len(queue) : queue[i].deps \subseteq InQueue
<1> SUFFICES ASSUME NEW i \in 1 .. Len(queue), NEW d \in queue[i].deps
             PROVE  d \in InQueue
  OBVIOUS
<1>1. queue[i] \in Event
  OBVIOUS
<1>2. queue[i].deps \in SUBSET Deployments
  BY <1>1 DEF Event
<1> QED
  BY <1>2 DEF InQueue

\* What a new last event adds to the queue.
LEMMA AppendedDeps ==
  ASSUME queue \in Seq(Event), NEW e \in Event, queue' = Append(queue, e)
  PROVE  InQueue' = InQueue \union e.deps
<1> DEFINE n == Len(queue)
<1>1. /\ n \in Nat /\ Len(queue') = n + 1 /\ queue'[n + 1] = e
      /\ \A i \in 1 .. n : queue'[i] = queue[i]
  OBVIOUS
<1> HIDE DEF n
<1>2. \A d \in Deployments : d \in InQueue' <=>
         \E i \in 1 .. n + 1 : d \in queue'[i].deps
  BY <1>1 DEF InQueue
<1>3. \A d \in Deployments : d \in InQueue <=>
         \E i \in 1 .. n : d \in queue[i].deps
  BY DEF InQueue, n
<1>4. \A d \in Deployments : d \in InQueue' <=> d \in InQueue \union e.deps
  BY <1>1, <1>2, <1>3
<1>5. InQueue' \subseteq Deployments /\ InQueue \subseteq Deployments
      /\ e.deps \subseteq Deployments
  BY DEF InQueue, Event
<1> QED
  BY <1>4, <1>5

\* What the first event leaves when it is taken.
LEMMA TakenDeps ==
  ASSUME queue \in Seq(Event), queue # <<>>, queue' = Tail(queue)
  PROVE  InQueue = InQueue' \union Head(queue).deps
<1> DEFINE n == Len(queue)
<1>1. /\ n \in Nat /\ n > 0 /\ Len(queue') = n - 1 /\ Head(queue) = queue[1]
      /\ \A i \in 1 .. n - 1 : queue'[i] = queue[i + 1]
  OBVIOUS
<1>2. \A i \in 1 .. n : queue[i].deps \subseteq InQueue
  BY QueuedDeps
<1>3. \A d \in InQueue : \E i \in 1 .. n : d \in queue[i].deps
  BY DEF InQueue
<1>4. \A d \in InQueue' : d \in Deployments /\ \E i \in 1 .. n - 1 : d \in queue'[i].deps
  BY <1>1 DEF InQueue
<1> HIDE DEF n
<1>5. ASSUME NEW d \in InQueue
      PROVE  d \in InQueue' \union queue[1].deps
  <2>1. PICK i \in 1 .. n : d \in queue[i].deps
    BY <1>3
  <2>2. CASE i = 1
    BY <2>1, <2>2
  <2>3. CASE i # 1
    <3>1. i - 1 \in 1 .. n - 1 /\ d \in queue'[i - 1].deps
      BY <1>1, <2>1, <2>3
    <3>2. d \in Deployments
      BY DEF InQueue
    <3> QED
      BY <1>1, <3>1, <3>2 DEF InQueue
  <2> QED
    BY <2>2, <2>3
<1>6. ASSUME NEW d \in InQueue'
      PROVE  d \in InQueue
  <2>1. PICK i \in 1 .. n - 1 : d \in queue'[i].deps
    BY <1>4
  <2>2. i + 1 \in 1 .. n /\ d \in queue[i + 1].deps
    BY <1>1, <2>1
  <2> QED
    BY <1>2, <2>2
<1> QED
  BY <1>1, <1>2, <1>5, <1>6

\* An event whose deployments lie past the decided position goes to the end of
\* the queue, or nowhere, and keeps the invariant.
LEMMA DeliveryTrigger ==
  ASSUME LoTypeOK, DeliveryInv, at \in [Deployments -> Nat],
         NEW e \in Event, Trigger(e), UNCHANGED <<at, todo, dispatched>>,
         reached' \in Nat, reached' >= reached,
         \A d \in e.deps : d \in Mine /\ at[d] \in reached + 1 .. reached'
  PROVE  DeliveryInv'
<1>1. CASE queue' = queue
  BY <1>1, DeliveryFrame
<1>2. CASE queue' = Append(queue, e)
  <2> DEFINE n == Len(queue)
  <2>1. queue \in Seq(Event) /\ reached \in Nat
    BY DEF LoTypeOK
  <2>2. /\ n \in Nat /\ Len(queue') = n + 1 /\ queue'[n + 1] = e
        /\ \A i \in 1 .. n : queue'[i] = queue[i]
    BY <1>2, <2>1
  <2>3. \A i \in 1 .. n : queue[i].deps \subseteq InQueue
    BY <2>1, QueuedDeps
  <2> HIDE DEF n
  <2>4. Mine \subseteq Deployments /\ Mine' = Mine
    BY DEF Mine
  <2>5. InQueue' = InQueue \union e.deps
    BY <1>2, <2>1, AppendedDeps
  <2>6. \A d \in Accepted \union dispatched : d \in Mine /\ at[d] \in 1 .. reached
    BY DEF DeliveryInv, HandedOnce
  <2>7. e.deps \intersect (Accepted \union dispatched) = {}
    BY <2>1, <2>6
  <2>8. InQueue \subseteq Accepted /\ todo \subseteq Accepted
        /\ Accepted' = Accepted \union e.deps
    BY <2>5 DEF Accepted
  <2>9. HandedOnce'
    <3>1. \A d \in Accepted' : d \in Mine' /\ at'[d] \in 1 .. reached'
      BY <2>1, <2>4, <2>6, <2>8
    <3>2. Accepted' \intersect dispatched' = {}
      BY <2>7, <2>8 DEF DeliveryInv, HandedOnce
    <3>3. todo' \intersect InQueue' = {}
      BY <2>5, <2>7, <2>8 DEF DeliveryInv, HandedOnce
    <3>4. ASSUME NEW i \in 1 .. n + 1, NEW j \in 1 .. n + 1, i # j
          PROVE  queue'[i].deps \intersect queue'[j].deps = {}
      <4>1. CASE i \in 1 .. n /\ j \in 1 .. n
        BY <3>4, <4>1, <2>2 DEF DeliveryInv, HandedOnce, n
      <4>2. CASE i = n + 1
        BY <3>4, <4>2, <2>2, <2>3, <2>7, <2>8
      <4>3. CASE j = n + 1
        BY <3>4, <4>3, <2>2, <2>3, <2>7, <2>8
      <4> QED
        BY <4>1, <4>2, <4>3, <2>2
    <3> QED
      BY <3>1, <3>2, <3>3, <3>4, <2>2 DEF HandedOnce
  <2>10. InCommitOrder'
    <3>1. \A d \in InQueue', x \in todo' \union dispatched' : at'[x] < at'[d]
      <4>1. \A d \in InQueue, x \in todo \union dispatched : at[x] < at[d]
        BY DEF DeliveryInv, InCommitOrder
      <4>2. \A d \in e.deps, x \in todo \union dispatched : at[x] < at[d]
        BY <2>1, <2>6, <2>8
      <4> QED
        BY <4>1, <4>2, <2>5
    <3>2. ASSUME NEW i \in 1 .. n + 1, NEW j \in 1 .. n + 1, i < j,
                 NEW x \in queue'[i].deps, NEW y \in queue'[j].deps
          PROVE  at'[x] < at'[y]
      <4>1. CASE j \in 1 .. n
        BY <3>2, <4>1, <2>2 DEF DeliveryInv, InCommitOrder, n
      <4>2. CASE j = n + 1
        <5>1. x \in InQueue /\ y \in e.deps
          BY <3>2, <4>2, <2>2, <2>3
        <5> QED
          BY <5>1, <2>1, <2>6, <2>8
      <4> QED
        BY <4>1, <4>2, <2>2
    <3> QED
      BY <3>1, <3>2, <2>2 DEF InCommitOrder
  <2>11. \A d \in dispatched' : d \in Mine' /\ at'[d] \in 1 .. reached'
    BY <2>1, <2>4, <2>6
  <2> QED
    BY <2>9, <2>10, <2>11 DEF DeliveryInv
<1> QED
  BY <1>1, <1>2 DEF Trigger

\* The dispatcher takes the oldest event: its deployments leave the queue.
LEMMA DeliveryTake ==
  ASSUME LoTypeOK, DeliveryInv, Take, UNCHANGED at
  PROVE  DeliveryInv'
<1> DEFINE n == Len(queue)
<1>1. queue \in Seq(Event) /\ queue # <<>>
  BY DEF LoTypeOK, Take
<1>2. /\ n \in Nat /\ n > 0 /\ Len(queue') = n - 1
      /\ \A i \in 1 .. n - 1 : queue'[i] = queue[i + 1]
      /\ todo' = queue[1].deps
  BY <1>1 DEF Take
<1>3. UNCHANGED <<dispatched, reached, at, Mine>>
  BY DEF Take, history, Mine
<1>4. \A i \in 1 .. n : queue[i].deps \subseteq InQueue
  BY <1>1, QueuedDeps
<1> HIDE DEF n
<1>5. \A d \in InQueue' : \E j \in 2 .. n : d \in queue[j].deps
  <2> SUFFICES ASSUME NEW d \in InQueue'
               PROVE  \E j \in 2 .. n : d \in queue[j].deps
    OBVIOUS
  <2>1. PICK i \in 1 .. n - 1 : d \in queue'[i].deps
    BY <1>2 DEF InQueue
  <2>2. i + 1 \in 2 .. n /\ d \in queue[i + 1].deps
    BY <2>1, <1>2
  <2> QED
    BY <2>2
<1>6. InQueue' \subseteq InQueue /\ todo' \subseteq InQueue
  BY <1>2, <1>4, <1>5
<1>7. InQueue \subseteq Accepted /\ Accepted' = InQueue' \union todo'
  BY DEF Accepted
<1>8. HandedOnce'
  <2>1. \A d \in Accepted' : d \in Mine' /\ at'[d] \in 1 .. reached'
    BY <1>3, <1>6, <1>7 DEF DeliveryInv, HandedOnce
  <2>2. Accepted' \intersect dispatched' = {}
    BY <1>3, <1>6, <1>7 DEF DeliveryInv, HandedOnce
  <2>3. \A i, j \in 1 .. n : i # j => queue[i].deps \intersect queue[j].deps = {}
    BY DEF DeliveryInv, HandedOnce, n
  <2>4. todo' \intersect InQueue' = {}
    BY <2>3, <1>2, <1>5
  <2>5. \A i, j \in 1 .. n - 1 :
           i # j => queue'[i].deps \intersect queue'[j].deps = {}
    BY <2>3, <1>2
  <2> QED
    BY <2>1, <2>2, <2>4, <2>5, <1>2 DEF HandedOnce
<1>9. InCommitOrder'
  <2>1. \A i, j \in 1 .. n :
          i < j => \A d \in queue[i].deps, e \in queue[j].deps : at[d] < at[e]
    BY DEF DeliveryInv, InCommitOrder, n
  <2>2. \A d \in InQueue', e \in todo' : at[e] < at[d]
    BY <2>1, <1>2, <1>5
  <2>3. \A d \in InQueue', e \in dispatched : at[e] < at[d]
    BY <1>6 DEF DeliveryInv, InCommitOrder
  <2>4. \A i, j \in 1 .. n - 1 :
          i < j => \A d \in queue'[i].deps, e \in queue'[j].deps : at[d] < at[e]
    <3> SUFFICES ASSUME NEW i \in 1 .. n - 1, NEW j \in 1 .. n - 1, i < j
                 PROVE  \A d \in queue'[i].deps, e \in queue'[j].deps :
                           at[d] < at[e]
      OBVIOUS
    <3>1. /\ i + 1 \in 1 .. n /\ j + 1 \in 1 .. n /\ i + 1 < j + 1
          /\ queue'[i] = queue[i + 1] /\ queue'[j] = queue[j + 1]
      BY <1>2
    <3> QED
      BY <2>1, <3>1
  <2> QED
    BY <2>2, <2>3, <2>4, <1>2, <1>3 DEF InCommitOrder
<1> QED
  BY <1>3, <1>8, <1>9 DEF DeliveryInv

\* handleGitPolled hands out one deployment of its event.
LEMMA DeliveryDeploy ==
  ASSUME LoTypeOK, DeliveryInv, NEW d \in Deployments, DeployToEdges(d),
         UNCHANGED at
  PROVE  DeliveryInv'
<1>1. /\ d \in todo /\ todo' = todo \ {d}
      /\ dispatched' = dispatched \union {d}
      /\ UNCHANGED <<queue, reached, at>>
  BY DEF DeployToEdges
<1>2. UNCHANGED <<InQueue, Mine>>
  BY <1>1 DEF InQueue, Mine
<1>3. HandedOnce'
  BY <1>1, <1>2 DEF DeliveryInv, HandedOnce, Accepted
<1>4. InCommitOrder'
  BY <1>1, <1>2 DEF DeliveryInv, InCommitOrder
<1>5. \A e \in dispatched' : e \in Mine' /\ at'[e] \in 1 .. reached'
  BY <1>1, <1>2 DEF DeliveryInv, HandedOnce, Accepted
<1> QED
  BY <1>3, <1>4, <1>5 DEF DeliveryInv

\* The process dies and what was on the way with it.
LEMMA DeliveryDie ==
  ASSUME DeliveryInv, Die, UNCHANGED at
  PROVE  DeliveryInv'
<1>1. queue' = <<>> /\ todo' = {} /\ UNCHANGED <<dispatched, reached, at, Mine>>
  BY DEF Die, history, Mine
<1>2. InQueue' = {} /\ Accepted' = {}
  BY <1>1 DEF InQueue, Accepted
<1> QED
  BY <1>1, <1>2 DEF DeliveryInv, HandedOnce, InCommitOrder

\* What a comparison finds was not decided before.
LEMMA NewChanges ==
  ASSUME LoTypeOK, CursorInv, Diff, reached' \in Nat, reached' >= head
  PROVE  \A d \in Changes : d \in Mine /\ at[d] \in reached + 1 .. reached'
<1> SUFFICES ASSUME Changes # {}
             PROVE  \A d \in Changes : d \in Mine /\ at[d] \in reached + 1 .. reached'
  OBVIOUS
<1>1. last # 0
  BY DEF Changes
<1>2. last = reached
  BY <1>1 DEF Diff, CursorInv, CursorsInOrder
<1>3. reached \in Nat /\ head \in Nat
  BY DEF LoTypeOK
<1>4. \A d \in Changes : d \in Mine /\ at[d] \in reached + 1 .. head
  BY <1>1, <1>2 DEF Changes
<1> QED
  BY <1>3, <1>4

LEMMA DeliveryStep ==
  ASSUME RepoInv, LoTypeOK, LoTypeOK', CursorInv, DeliveryInv, [Next]_vars
  PROVE  DeliveryInv'
<1>1. /\ \A d \in Accepted \union dispatched : at'[d] = at[d]
      /\ at \in [Deployments -> Nat]
  BY DecidedIsKept DEF RepoInv, RepoTypeOK
<1>2. reached \in Nat /\ reached' \in Nat
  BY DEF LoTypeOK
<1>3. ASSUME UNCHANGED <<queue, todo, dispatched>>, reached' >= reached
      PROVE  DeliveryInv'
  BY <1>1, <1>2, <1>3, DeliveryFrame
<1>4. CASE UNCHANGED loVars
  BY <1>2, <1>3, <1>4 DEF loVars, dispatcher, history
<1> SUFFICES ASSUME LoNext, UNCHANGED repoVars
             PROVE  DeliveryInv'
  BY <1>4 DEF Next, vars
<1>5. UNCHANGED at
  BY DEF repoVars
<1>6. CASE NetworkTick
  <2> DEFINE e == [name |-> NetworkChange, deps |-> {}]
  <2>1. e \in Event /\ e.deps = {}
    BY DEF Event
  <2>2. Trigger(e) /\ UNCHANGED <<todo, dispatched, reached>>
    BY <1>6 DEF NetworkTick, history
  <2> HIDE DEF e
  <2> QED
    BY <1>1, <1>2, <1>5, <2>1, <2>2, DeliveryTrigger
<1>7. CASE WatcherStarts
  BY <1>2, <1>3, <1>7 DEF WatcherStarts, Open, Clone, CloneFails, Watch, Later,
                          dispatcher, history
<1>8. CASE Pull \/ PullHalf \/ GiveUp
  BY <1>2, <1>3, <1>8 DEF Pull, PullHalf, GiveUp, dispatcher, history
<1>9. CASE DiffFails
  BY <1>2, <1>3, <1>9 DEF DiffFails, Later, dispatcher
<1>10. CASE Diff
  <2>1. /\ reached' >= reached /\ reached' >= head
        /\ UNCHANGED <<todo, dispatched>>
    <3>1. head \in Nat
      BY DEF LoTypeOK
    <3>2. reached' = Later(reached, head) /\ UNCHANGED <<todo, dispatched>>
      BY <1>10 DEF Diff
    <3> QED
      BY <1>2, <3>1, <3>2 DEF Later
  <2>2. CASE Changes = {}
    BY <1>3, <1>10, <2>1, <2>2 DEF Diff
  <2>3. CASE Changes # {}
    <3> DEFINE e == [name |-> GitPolled, deps |-> Changes]
    <3>1. e \in Event /\ e.deps = Changes
      BY DEF Event, Changes, Mine
    <3>2. Trigger(e)
      BY <1>10, <2>3 DEF Diff
    <3>3. \A d \in Changes : d \in Mine /\ at[d] \in reached + 1 .. reached'
      BY <1>2, <1>10, <2>1, NewChanges
    <3> HIDE DEF e
    <3> QED
      BY <1>1, <1>2, <1>5, <2>1, <3>1, <3>2, <3>3, DeliveryTrigger
  <2> QED
    BY <2>2, <2>3
<1>11. CASE Take
  BY <1>5, <1>11, DeliveryTake
<1>12. CASE HandleNetworkChange \/ GitPolledHandled \/ RaiseFsmEvent
  <2>1. UNCHANGED <<queue, todo, dispatched, reached>>
    BY <1>12 DEF HandleNetworkChange, GitPolledHandled, RaiseFsmEvent, history
  <2> QED
    BY <1>2, <1>3, <2>1
<1>13. CASE \E d \in Deployments : DeployToEdges(d)
  BY <1>5, <1>13, DeliveryDeploy
<1>14. CASE \/ \E d \in Deployments, n \in Nodes : Publish(d, n)
            \/ \E d \in Deployments : Done(d)
  <2>1. UNCHANGED <<queue, todo, dispatched, reached>>
    BY <1>14 DEF Publish, Done, dispatcher, history
  <2> QED
    BY <1>2, <1>3, <2>1
<1>15. CASE Exit \/ \E d \in Deployments, n \in Nodes : Panic(d, n)
  BY <1>5, <1>15, DeliveryDie DEF Exit, Panic
<1>16. CASE Start \/ LoseDisk \/ \E n \in Nodes : Health(n)
  BY <1>2, <1>3, <1>16 DEF Start, LoseDisk, Health, dispatcher, history
<1> QED
  BY <1>6, <1>7, <1>8, <1>9, <1>10, <1>11, <1>12, <1>13, <1>14, <1>15, <1>16
     DEF LoNext, WatcherTurns, Dispatcher, Goroutines, Environment

LEMMA DeliveryInvariant == Spec => []DeliveryInv
<1>1. Init => DeliveryInv
  <2>1. Init => queue = <<>> /\ todo = {} /\ dispatched = {}
    BY DEF Init, LoInit
  <2>2. queue = <<>> /\ todo = {} => InQueue = {} /\ Accepted = {}
    BY DEF InQueue, Accepted
  <2> QED
    BY <2>1, <2>2 DEF DeliveryInv, HandedOnce, InCommitOrder
<1>2. /\ RepoInv /\ LoTypeOK /\ LoTypeOK' /\ CursorInv /\ DeliveryInv
      /\ [Next]_vars
      => DeliveryInv'
  BY DeliveryStep
<1>3. TypeOK => LoTypeOK
  BY DEF TypeOK
<1> QED
  BY <1>1, <1>2, <1>3, RepoOfLo, TypeCorrect, CursorInvariant, PTL DEF Spec

\* Over any number of restarts, drops and failed pulls, no deployment is given
\* to DeployToEdges twice (watcher.Start, TriggerEvent, handleGitPolled).
THEOREM DeployedOnce == Spec => []HandedOnce
<1>1. DeliveryInv => HandedOnce
  BY DEF DeliveryInv
<1> QED
  BY <1>1, DeliveryInvariant, PTL

\* Deployments leave the LO in the order of their commits.
THEOREM DeployedInOrder == Spec => []InCommitOrder
<1>1. DeliveryInv => InCommitOrder
  BY DEF DeliveryInv
<1> QED
  BY <1>1, DeliveryInvariant, PTL

-----------------------------------------------------------------------------
(* The dispatcher: one network change per process, ahead of every poll.    *)

Queued(name) == \A i \in 1 .. Len(queue) : queue[i].name = name

\* Before the watcher is started, the network change is announced, queued or in
\* the dispatcher's hand, and alone; after that only polls follow.
MachineInv ==
  /\ fsm \in {"idle", "ready"}
  /\ dpc = "take" <=> cur = ""
  /\ wpc = "off" => /\ cur # GitPolled
                    /\ Len(queue) \in {0, 1} /\ Queued(NetworkChange)
                    /\ cur = NetworkChange => dpc = "handle" /\ queue = <<>>
  /\ wpc # "off" => /\ Queued(GitPolled)
                    /\ cur = NetworkChange => dpc = "fsm"
                    /\ fsm = "ready" \/ cur = NetworkChange
  /\ mode = "" => wpc = "off" /\ queue = <<>> /\ cur = ""
  /\ ~up => mode = ""

LEMMA EmptyQueue == Len(<<>>) = 0 /\ 1 .. 0 = {}
OBVIOUS

\* What the machine does with the events it is sent.
LEMMA MachineMoves ==
  ASSUME fsm \in {"idle", "ready"}
  PROVE  /\ FsmEvent(NetworkChange) => fsm' = "ready"
         /\ FsmEvent(GitPolled) => fsm' = fsm
         /\ FsmEvent("success") => fsm' = fsm
<1>1. \A t \in Transitions : t[1] = NetworkChange => t[3] = "ready"
  BY DEF Transitions, NetworkChange, GitPolled
<1>2. \E t \in Transitions : t[1] = NetworkChange /\ t[2] = fsm
  BY DEF Transitions, NetworkChange, GitPolled
<1>3. \A t \in Transitions : t[1] = GitPolled => t[2] = t[3]
  BY DEF Transitions, NetworkChange, GitPolled
<1>4. \A t \in Transitions : t[1] = "success" => t[2] = "deploying"
  BY DEF Transitions, NetworkChange, GitPolled
<1>5. FsmEvent(NetworkChange) => fsm' = "ready"
  BY <1>1, <1>2 DEF FsmEvent
<1>6. FsmEvent(GitPolled) => fsm' = fsm
  BY <1>3 DEF FsmEvent
<1>7. FsmEvent("success") => fsm' = fsm
  BY <1>4 DEF FsmEvent
<1> QED
  BY <1>5, <1>6, <1>7

\* A queue whose events have one name keeps it when another is added.
LEMMA TriggerNames ==
  ASSUME queue \in Seq(Event), NEW e \in Event, Trigger(e)
  PROVE  /\ queue' = queue \/ Len(queue') = Len(queue) + 1
         /\ Queued(e.name) => Queued(e.name)'
BY DEF Trigger, Queued

\* A step that leaves the dispatcher, the queue and the watcher's start alone.
LEMMA MachineFrame ==
  ASSUME MachineInv, UNCHANGED <<fsm, dpc, cur, queue, mode>>,
         (wpc = "off") <=> (wpc' = "off"), ~up' => ~up
  PROVE  MachineInv'
<1>1. \A name : Queued(name) <=> Queued(name)'
  BY DEF Queued
<1> QED
  BY <1>1 DEF MachineInv

LEMMA MachineStep ==
  ASSUME LoTypeOK, MachineInv, [Next]_vars
  PROVE  MachineInv'
<1> USE DEF disk, watcher, dispatcher, history
<1>1. CASE UNCHANGED loVars
  BY <1>1, MachineFrame DEF loVars
<1>2. CASE Die
  <2>1. queue' = <<>>
    BY <1>2 DEF Die
  <2>2. Len(queue') \in {0, 1} /\ Queued(NetworkChange)'
    BY <2>1, EmptyQueue DEF Queued
  <2>3. fsm' = "idle" /\ dpc' = "take" /\ cur' = "" /\ wpc' = "off" /\ mode' = ""
    BY <1>2 DEF Die
  <2> QED
    BY <2>1, <2>2, <2>3 DEF MachineInv, GitPolled, NetworkChange
<1>3. CASE Start \/ LoseDisk \/ \E n \in Nodes : Health(n)
  <2>1. UNCHANGED <<fsm, dpc, cur, queue, mode, wpc>>
    BY <1>3 DEF Start, LoseDisk, Health
  <2>2. ~up' => ~up
    BY <1>3 DEF Start, LoseDisk, Health
  <2> QED
    BY <2>1, <2>2, MachineFrame
<1>4. CASE NetworkTick
  <2> DEFINE e == [name |-> NetworkChange, deps |-> {}]
  <2>1. e \in Event /\ e.name = NetworkChange
    BY DEF Event
  <2>2. queue = <<>> /\ cur = "" /\ wpc = "off" /\ dpc = "take" /\ up
    BY <1>4 DEF NetworkTick, MachineInv
  <2>3. Trigger(e) /\ mode' = "adaptive" /\ UNCHANGED <<up, wpc, dpc, cur, fsm>>
    BY <1>4 DEF NetworkTick
  <2> HIDE DEF e
  <2>4. Len(queue) = 0 /\ Queued(NetworkChange)
    BY <2>2, EmptyQueue DEF Queued
  <2>5. Queued(NetworkChange)' /\ Len(queue') \in {0, 1}
    <3>1. queue \in Seq(Event)
      BY DEF LoTypeOK
    <3>2. Len(queue') \in {0, 1}
      BY <2>1, <2>3, <2>4, <3>1, TriggerNames
    <3>3. Queued(NetworkChange)'
      BY <2>1, <2>3, <2>4, <3>1, TriggerNames
    <3> QED
      BY <3>2, <3>3
  <2> QED
    BY <2>2, <2>3, <2>5 DEF MachineInv, NetworkChange, GitPolled
<1>5. CASE WatcherStarts \/ Pull \/ PullHalf \/ GiveUp \/ DiffFails
  <2>1. UNCHANGED <<fsm, dpc, cur, queue, mode, up>>
    BY <1>5 DEF WatcherStarts, Open, Clone, CloneFails, Watch, Pull, PullHalf,
                GiveUp, DiffFails
  <2>2. wpc # "off" /\ wpc' # "off"
    BY <1>5 DEF WatcherStarts, Open, Clone, CloneFails, Watch, Pull, PullHalf,
                GiveUp, DiffFails
  <2> QED
    BY <2>1, <2>2, MachineFrame
<1>6. CASE Diff
  <2>1. UNCHANGED <<fsm, dpc, cur, mode, up>> /\ wpc = "diff" /\ wpc' = "wait"
    BY <1>6 DEF Diff
  <2>2. CASE Changes = {}
    BY <1>6, <2>1, <2>2, MachineFrame DEF Diff
  <2>3. CASE Changes # {}
    <3> DEFINE e == [name |-> GitPolled, deps |-> Changes]
    <3>1. e \in Event /\ e.name = GitPolled
      BY DEF Event, Changes, Mine
    <3>2. Trigger(e)
      BY <1>6, <2>3 DEF Diff
    <3> HIDE DEF e
    <3>3. Queued(GitPolled)'
      BY <2>1, <3>1, <3>2, TriggerNames DEF LoTypeOK, MachineInv
    <3>4. mode # "" /\ up
      BY <2>1 DEF MachineInv
    <3> QED
      BY <2>1, <3>3, <3>4 DEF MachineInv
  <2> QED
    BY <2>2, <2>3
<1>7. CASE Take
  <2>1. queue \in Seq(Event) /\ queue # <<>> /\ queue' = Tail(queue)
    BY <1>7 DEF Take, LoTypeOK
  <2>2. /\ \A name : Queued(name) => Queued(name)' /\ Head(queue).name = name
        /\ Len(queue) \in {0, 1} => queue' = <<>> /\ Len(queue') \in {0, 1}
    BY <2>1 DEF Queued
  <2>3. /\ dpc = "take" /\ dpc' = "handle" /\ cur' = Head(queue).name
        /\ UNCHANGED <<up, mode, wpc, fsm>>
    BY <1>7 DEF Take
  <2>4. cur = "" /\ mode # "" /\ up
    BY <2>1, <2>3 DEF MachineInv
  <2>5. CASE wpc = "off"
    <3>1. /\ cur' = NetworkChange /\ Queued(NetworkChange)'
          /\ queue' = <<>> /\ Len(queue') \in {0, 1}
      BY <2>2, <2>3, <2>5 DEF MachineInv
    <3> QED
      BY <2>3, <2>4, <2>5, <3>1 DEF MachineInv, GitPolled, NetworkChange
  <2>6. CASE wpc # "off"
    <3>1. cur' = GitPolled /\ Queued(GitPolled)' /\ fsm = "ready"
      BY <2>2, <2>3, <2>4, <2>6 DEF MachineInv, NetworkChange
    <3> QED
      BY <2>3, <2>4, <2>6, <3>1 DEF MachineInv, GitPolled, NetworkChange
  <2> QED
    BY <2>5, <2>6
<1>8. CASE HandleNetworkChange
  <2>1. /\ dpc = "handle" /\ cur = NetworkChange
        /\ wpc' = "start" /\ dpc' = "fsm"
        /\ UNCHANGED <<up, mode, queue, cur, fsm>>
    BY <1>8 DEF HandleNetworkChange
  <2>2. queue = <<>> /\ mode # ""
    BY <2>1 DEF MachineInv, NetworkChange
  <2>3. Queued(GitPolled)'
    BY <2>1, <2>2, EmptyQueue DEF Queued
  <2> QED
    BY <2>1, <2>2, <2>3 DEF MachineInv, NetworkChange
<1>9. CASE GitPolledHandled
  <2>1. /\ dpc = "handle" /\ cur = GitPolled /\ dpc' = "fsm"
        /\ UNCHANGED <<up, mode, queue, cur, fsm, wpc>>
    BY <1>9 DEF GitPolledHandled
  <2>2. \A name : Queued(name) <=> Queued(name)'
    BY <2>1 DEF Queued
  <2> QED
    BY <2>1, <2>2 DEF MachineInv, NetworkChange, GitPolled
<1>10. CASE \/ \E d \in Deployments : DeployToEdges(d)
            \/ \E d \in Deployments, n \in Nodes : Publish(d, n)
  <2>1. UNCHANGED <<fsm, dpc, cur, queue, mode, wpc, up>>
    BY <1>10 DEF DeployToEdges, Publish
  <2> QED
    BY <2>1, MachineFrame
<1>11. CASE \E d \in Deployments : Done(d)
  <2>1. UNCHANGED <<dpc, cur, queue, mode, wpc, up>> /\ FsmEvent("success")
    BY <1>11 DEF Done
  <2>2. UNCHANGED fsm
    BY <2>1, MachineMoves DEF MachineInv
  <2> QED
    BY <2>1, <2>2, MachineFrame
<1>12. CASE RaiseFsmEvent
  <2>1. /\ dpc = "fsm" /\ FsmEvent(cur) /\ dpc' = "take" /\ cur' = ""
        /\ UNCHANGED <<up, mode, wpc, queue>>
    BY <1>12 DEF RaiseFsmEvent
  <2>2. cur \in {GitPolled, NetworkChange}
    BY <2>1 DEF MachineInv, LoTypeOK
  <2>3. wpc # "off" /\ mode # ""
    BY <2>1, <2>2 DEF MachineInv, NetworkChange, GitPolled
  <2>4. fsm' = "ready"
    BY <2>1, <2>2, <2>3, MachineMoves DEF MachineInv
  <2>5. Queued(GitPolled)'
    BY <2>1, <2>3 DEF MachineInv, Queued
  <2> QED
    BY <2>1, <2>3, <2>4, <2>5 DEF MachineInv, NetworkChange
<1> QED
  BY <1>1, <1>2, <1>3, <1>4, <1>5, <1>6, <1>7, <1>8, <1>9, <1>10, <1>11, <1>12
     DEF Next, LoNext, WatcherTurns, Dispatcher, Goroutines, Environment, Exit,
         Panic, vars

LEMMA MachineInvariant == Spec => []MachineInv
<1>1. Init => MachineInv
  <2>1. LoInit => /\ queue = <<>> /\ fsm = "idle" /\ dpc = "take" /\ cur = ""
                  /\ wpc = "off" /\ mode = ""
    BY DEF LoInit
  <2>2. queue = <<>> => Len(queue) \in {0, 1} /\ Queued(NetworkChange)
    BY DEF Queued
  <2> QED
    BY <2>1, <2>2 DEF Init, MachineInv, GitPolled, NetworkChange
<1>2. LoTypeOK /\ MachineInv /\ [Next]_vars => MachineInv'
  BY MachineStep
<1>3. TypeOK => LoTypeOK
  BY DEF TypeOK
<1> QED
  BY <1>1, <1>2, <1>3, TypeCorrect, PTL DEF Spec

\* A polled event is valid whenever the machine is told of it (loader.go).
THEOREM PollsAreValid == Spec => []GitPolledIsValid
<1>1. MachineInv => GitPolledIsValid
  BY DEF MachineInv, GitPolledIsValid, GitPolled, NetworkChange
<1> QED
  BY <1>1, MachineInvariant, PTL

\* No process starts a second watcher on its clone (handleNetworkChange).
THEOREM NeverTwoWatchers == Spec => []OneWatcher
<1>1. MachineInv => OneWatcher
  <2> SUFFICES ASSUME MachineInv, dpc = "handle", cur = NetworkChange
               PROVE  /\ wpc = "off"
                      /\ \A i \in 1 .. Len(queue) : queue[i].name # NetworkChange
    BY DEF OneWatcher
  <2>1. wpc = "off" /\ queue = <<>>
    BY DEF MachineInv
  <2> QED
    BY <2>1, EmptyQueue
<1> QED
  BY <1>1, MachineInvariant, PTL

-----------------------------------------------------------------------------
(* Requests to the hosts.                                                  *)

\* A request was sent only for a deployment that was given out.
AskInv == AskedOnce /\ \A p \in sent : p[1] \in dispatched

LEMMA AskFrame ==
  ASSUME AskInv, UNCHANGED <<outbox, sent, results, dispatched>>
  PROVE  AskInv'
BY DEF AskInv, AskedOnce

LEMMA AskStep ==
  ASSUME LoTypeOK, DeliveryInv, AskInv, [Next]_vars
  PROVE  AskInv'
<1> USE DEF fanout, history
<1>1. CASE UNCHANGED loVars
  BY <1>1, AskFrame DEF loVars
<1>2. CASE Die
  BY <1>2 DEF Die, AskInv, AskedOnce
<1>3. CASE NetworkTick \/ WatcherStarts \/ WatcherTurns
  <2>1. UNCHANGED <<outbox, sent, results, dispatched>>
    BY <1>3 DEF NetworkTick, WatcherStarts, Open, Clone, CloneFails, Watch,
                WatcherTurns, Pull, PullHalf, GiveUp, DiffFails, Diff
  <2> QED
    BY <2>1, AskFrame
<1>4. CASE Take \/ HandleNetworkChange \/ GitPolledHandled \/ RaiseFsmEvent
  <2>1. UNCHANGED <<outbox, sent, results, dispatched>>
    BY <1>4 DEF Take, HandleNetworkChange, GitPolledHandled, RaiseFsmEvent
  <2> QED
    BY <2>1, AskFrame
<1>5. CASE Start \/ LoseDisk \/ \E n \in Nodes : Health(n)
  <2>1. UNCHANGED <<outbox, sent, results, dispatched>>
    BY <1>5 DEF Start, LoseDisk, Health
  <2> QED
    BY <2>1, AskFrame
<1>6. ASSUME NEW d \in Deployments, DeployToEdges(d)
      PROVE  AskInv'
  <2>1. d \notin dispatched
    BY <1>6 DEF DeployToEdges, DeliveryInv, HandedOnce, Accepted
  <2>2. PICK targets \in {hosts, {}} : outbox' = outbox \union ({d} \X targets)
    BY <1>6 DEF DeployToEdges
  <2>3. /\ dispatched' = dispatched \union {d} /\ results' = results \union {d}
        /\ sent' = sent
    BY <1>6 DEF DeployToEdges
  <2>4. \A p \in outbox' : p \in outbox \/ p[1] = d
    BY <2>2
  <2> QED
    BY <2>1, <2>3, <2>4 DEF AskInv, AskedOnce
<1>7. ASSUME NEW d \in Deployments, NEW n \in Nodes, Publish(d, n)
      PROVE  AskInv'
  <2>1. /\ <<d, n>> \in outbox /\ outbox' = outbox \ {<<d, n>>}
        /\ sent' \subseteq sent \union {<<d, n>>}
        /\ UNCHANGED <<results, dispatched>>
    BY <1>7 DEF Publish
  <2>2. d \in dispatched
    BY <2>1 DEF AskInv, AskedOnce
  <2>3. \A p \in sent' : p[1] \in dispatched
    BY <2>1, <2>2 DEF AskInv
  <2> QED
    BY <2>1, <2>3 DEF AskInv, AskedOnce
<1>8. ASSUME NEW d \in Deployments, Done(d)
      PROVE  AskInv'
  <2>1. /\ \A n \in Nodes : <<d, n>> \notin outbox
        /\ results' = results \ {d}
        /\ UNCHANGED <<outbox, sent, dispatched>>
    BY <1>8 DEF Done
  <2>2. outbox \in SUBSET (Deployments \X Nodes)
    BY DEF LoTypeOK
  <2>3. \A p \in outbox : p[1] # d
    BY <2>1, <2>2
  <2> QED
    BY <2>1, <2>3 DEF AskInv, AskedOnce
<1> QED
  BY <1>1, <1>2, <1>3, <1>4, <1>5, <1>6, <1>7, <1>8
     DEF Next, LoNext, Dispatcher, Goroutines, Environment, Exit, Panic, vars

\* No host is asked twice for one deployment, and "done" waits for every
\* goroutine of its round, over all restarts (DeployToEdges).
THEOREM HostsAskedOnce == Spec => []AskedOnce
<1>1. Init => AskInv
  BY DEF Init, LoInit, AskInv, AskedOnce
<1>2. LoTypeOK /\ DeliveryInv /\ AskInv /\ [Next]_vars => AskInv'
  BY AskStep
<1>3. TypeOK => LoTypeOK
  BY DEF TypeOK
<1>4. AskInv => AskedOnce
  BY DEF AskInv
<1> QED
  BY <1>1, <1>2, <1>3, <1>4, TypeCorrect, DeliveryInvariant, PTL DEF Spec

-----------------------------------------------------------------------------
(* The ledger.                                                             *)

\* Only the handler of a poll has deployments in hand: nothing is forgotten
\* when the dispatcher takes the next event.
TodoInv ==
  /\ dpc # "handle" \/ cur = NetworkChange => todo = {}
  /\ \A i \in 1 .. Len(queue) :
        queue[i].name = NetworkChange => queue[i].deps = {}

LEMMA TodoFrame ==
  ASSUME TodoInv, UNCHANGED <<dpc, cur, todo, queue>>
  PROVE  TodoInv'
BY DEF TodoInv

LEMMA TodoTrigger ==
  ASSUME LoTypeOK, TodoInv, UNCHANGED <<dpc, cur, todo>>,
         NEW e \in Event, e.name = NetworkChange => e.deps = {}, Trigger(e)
  PROVE  TodoInv'
<1>1. CASE queue' = queue
  BY <1>1, TodoFrame
<1>2. CASE queue' = Append(queue, e)
  <2>1. queue \in Seq(Event)
    BY DEF LoTypeOK
  <2>2. /\ Len(queue) \in Nat /\ Len(queue') = Len(queue) + 1
        /\ queue'[Len(queue) + 1] = e
        /\ \A i \in 1 .. Len(queue) : queue'[i] = queue[i]
    BY <1>2, <2>1
  <2>3. \A i \in 1 .. Len(queue') :
           queue'[i].name = NetworkChange => queue'[i].deps = {}
    BY <2>2 DEF TodoInv
  <2> QED
    BY <2>3 DEF TodoInv
<1> QED
  BY <1>1, <1>2 DEF Trigger

LEMMA TodoStep ==
  ASSUME LoTypeOK, TodoInv, [Next]_vars
  PROVE  TodoInv'
<1> USE DEF dispatcher
<1>1. CASE UNCHANGED loVars
  BY <1>1, TodoFrame DEF loVars
<1>2. CASE Die
  <2>1. queue' = <<>> /\ todo' = {}
    BY <1>2 DEF Die
  <2> QED
    BY <2>1, EmptyQueue DEF TodoInv
<1>3. CASE NetworkTick
  <2> DEFINE e == [name |-> NetworkChange, deps |-> {}]
  <2>1. e \in Event /\ e.deps = {}
    BY DEF Event
  <2>2. Trigger(e) /\ UNCHANGED <<dpc, cur, todo>>
    BY <1>3 DEF NetworkTick
  <2> HIDE DEF e
  <2> QED
    BY <2>1, <2>2, TodoTrigger
<1>4. CASE WatcherStarts \/ Pull \/ PullHalf \/ GiveUp \/ DiffFails
  <2>1. UNCHANGED <<dpc, cur, todo, queue>>
    BY <1>4 DEF WatcherStarts, Open, Clone, CloneFails, Watch, Pull, PullHalf,
                GiveUp, DiffFails
  <2> QED
    BY <2>1, TodoFrame
<1>5. CASE Diff
  <2>1. UNCHANGED <<dpc, cur, todo>>
    BY <1>5 DEF Diff
  <2>2. CASE Changes = {}
    BY <1>5, <2>1, <2>2, TodoFrame DEF Diff
  <2>3. CASE Changes # {}
    <3> DEFINE e == [name |-> GitPolled, deps |-> Changes]
    <3>1. e \in Event /\ e.name # NetworkChange
      BY DEF Event, Changes, Mine, GitPolled, NetworkChange
    <3>2. Trigger(e)
      BY <1>5, <2>3 DEF Diff
    <3> HIDE DEF e
    <3> QED
      BY <2>1, <3>1, <3>2, TodoTrigger
  <2> QED
    BY <2>2, <2>3
<1>6. CASE Take
  <2>1. queue \in Seq(Event) /\ queue # <<>> /\ queue' = Tail(queue)
    BY <1>6 DEF Take, LoTypeOK
  <2>2. cur' = Head(queue).name /\ todo' = Head(queue).deps /\ dpc' = "handle"
    BY <1>6 DEF Take
  <2>3. cur' = NetworkChange => todo' = {}
    BY <2>1, <2>2 DEF TodoInv
  <2>4. \A i \in 1 .. Len(queue') :
           queue'[i].name = NetworkChange => queue'[i].deps = {}
    BY <2>1 DEF TodoInv
  <2> QED
    BY <2>2, <2>3, <2>4 DEF TodoInv
<1>7. CASE HandleNetworkChange \/ GitPolledHandled \/ RaiseFsmEvent
  <2>1. UNCHANGED <<todo, queue>> /\ todo = {}
    BY <1>7 DEF HandleNetworkChange, GitPolledHandled, RaiseFsmEvent, TodoInv
  <2> QED
    BY <2>1 DEF TodoInv
<1>8. CASE \E d \in Deployments : DeployToEdges(d)
  <2>1. todo' \subseteq todo /\ UNCHANGED <<dpc, cur, queue>>
    BY <1>8 DEF DeployToEdges
  <2> QED
    BY <2>1 DEF TodoInv
<1>9. CASE \/ \E d \in Deployments, n \in Nodes : Publish(d, n)
           \/ \E d \in Deployments : Done(d)
  <2>1. UNCHANGED <<dpc, cur, todo, queue>>
    BY <1>9 DEF Publish, Done
  <2> QED
    BY <2>1, TodoFrame
<1>10. CASE Start \/ LoseDisk \/ \E n \in Nodes : Health(n)
  <2>1. UNCHANGED <<dpc, cur, todo, queue>>
    BY <1>10 DEF Start, LoseDisk, Health
  <2> QED
    BY <2>1, TodoFrame
<1> QED
  BY <1>1, <1>2, <1>3, <1>4, <1>5, <1>6, <1>7, <1>8, <1>9, <1>10
     DEF Next, LoNext, WatcherTurns, Dispatcher, Goroutines, Environment, Exit,
         Panic, vars

LEMMA TodoInvariant == Spec => []TodoInv
<1>1. Init => TodoInv
  <2>1. Init => queue = <<>> /\ todo = {}
    BY DEF Init, LoInit
  <2> QED
    BY <2>1, EmptyQueue DEF TodoInv
<1>2. LoTypeOK /\ TodoInv /\ [Next]_vars => TodoInv'
  BY TodoStep
<1>3. TypeOK => LoTypeOK
  BY DEF TypeOK
<1> QED
  BY <1>1, <1>2, <1>3, TypeCorrect, PTL DEF Spec

\* A step that deploys nothing and forgets nothing decides what lies between
\* the decided positions before and after it.
LEMMA LedgerDecides ==
  ASSUME LoTypeOK, LoTypeOK', DeliveryInv, at \in [Deployments -> Nat],
         UNCHANGED <<at, dispatched>>, reached' >= reached,
         Accepted \subseteq Accepted',
         \A d \in Accepted' \ Accepted :
            d \in Mine /\ at[d] \in reached + 1 .. reached'
  PROVE  Ledger!Next
<1> DEFINE taken == Accepted' \ Accepted
           passed == Missed' \ Missed
<1>1. reached \in Nat /\ reached' \in Nat
  BY DEF LoTypeOK
<1>2. Mine' = Mine /\ Mine \subseteq Deployments
  BY DEF Mine
<1>3. \A d \in Deployments : d \in Missed <=>
         d \in Mine /\ at[d] \in 1 .. reached /\ d \notin Accepted \union dispatched
  BY DEF Missed, Mine
<1>4. \A d \in Deployments : d \in Missed' <=>
         d \in Mine /\ at[d] \in 1 .. reached' /\ d \notin Accepted' \union dispatched
  BY <1>2 DEF Missed, Mine
<1>5. Missed \subseteq Deployments /\ Missed' \subseteq Deployments
  BY DEF Missed, Mine
<1>6. \A d \in taken : d \in Mine /\ at[d] \in reached + 1 .. reached'
  OBVIOUS
<1>7. \A d \in Accepted \union dispatched : at[d] \in 1 .. reached
  BY DEF DeliveryInv, HandedOnce
<1>8. Missed \subseteq Missed'
  BY <1>1, <1>3, <1>4, <1>5, <1>6
<1>9. taken \in SUBSET Ledger!Undecided
  <2>1. \A d \in taken : d \notin Accepted \union dispatched /\ d \notin Missed
    BY <1>1, <1>3, <1>5, <1>6, <1>7
  <2> QED
    BY <1>2, <1>6, <2>1 DEF Ledger!Undecided
<1>10. passed \in SUBSET Ledger!Undecided
  <2>1. \A d \in passed : d \in Deployments /\ d \notin Missed
                           /\ d \notin Accepted' \union dispatched
    BY <1>4, <1>5
  <2> QED
    BY <2>1 DEF Ledger!Undecided
<1>11. taken \intersect passed = {}
  BY <1>4, <1>5
<1>12. Accepted' = Accepted \union taken /\ Missed' = Missed \union passed
  BY <1>8
<1> HIDE DEF taken, passed
<1>13. Ledger!Decide(taken, passed)
  BY <1>11, <1>12 DEF Ledger!Decide
<1> QED
  BY <1>9, <1>10, <1>13 DEF Ledger!Next

\* The end of the process forgets all that was on the way.
LEMMA LedgerForgets ==
  ASSUME LoTypeOK, DeliveryInv, Die, UNCHANGED at
  PROVE  Ledger!Next
<1>1. /\ queue' = <<>> /\ todo' = {} /\ UNCHANGED <<dispatched, reached, at>>
  BY DEF Die, history
<1>2. Accepted' = {}
  BY <1>1, EmptyQueue DEF Accepted, InQueue
<1>3. \A d \in Accepted : d \in Mine /\ at[d] \in 1 .. reached /\ d \notin dispatched
  BY DEF DeliveryInv, HandedOnce
<1>4. Missed' = Missed \union Accepted
  BY <1>1, <1>2, <1>3 DEF Missed, Mine
<1> QED
  BY <1>1, <1>2, <1>4 DEF Ledger!Next, Ledger!Forget

\* A deployment that is given out leaves the accepted ones.
LEMMA LedgerDeploys ==
  ASSUME DeliveryInv, NEW d \in Deployments, DeployToEdges(d), UNCHANGED at
  PROVE  Ledger!Next
<1>1. /\ d \in todo /\ todo' = todo \ {d}
      /\ dispatched' = dispatched \union {d}
      /\ UNCHANGED <<queue, reached, at>>
  BY DEF DeployToEdges
<1>2. InQueue' = InQueue /\ d \notin InQueue
  BY <1>1 DEF InQueue, DeliveryInv, HandedOnce
<1>3. Accepted' = Accepted \ {d} /\ d \in Accepted
  BY <1>1, <1>2 DEF Accepted
<1>4. Missed' = Missed
  BY <1>1, <1>3 DEF Missed, Mine
<1>5. Ledger!Deploy(d)
  BY <1>1, <1>3, <1>4 DEF Ledger!Deploy
<1> QED
  BY <1>3, <1>5 DEF Ledger!Next

\* What the CO writes decides nothing: what the LO has seen stays as it was, and
\* what is published now lies ahead.
LEMMA LedgerFrame ==
  ASSUME RepoInv, LoTypeOK, CursorInv, [Next]_vars, UNCHANGED loVars
  PROVE  UNCHANGED <<Accepted, dispatched, Missed>>
<1>1. /\ UNCHANGED <<queue, todo, dispatched, reached>> /\ reached \in Nat
  BY DEF loVars, dispatcher, history, LoTypeOK
<1>2. UNCHANGED <<InQueue, Accepted, Mine>>
  BY <1>1 DEF InQueue, Accepted, Mine
<1>3. \A d \in Deployments : at'[d] \in 1 .. reached <=> at[d] \in 1 .. reached
  <2>1. /\ \A d \in Deployments : Published(d) => at'[d] = at[d]
        /\ \A d \in Deployments : at'[d] \in 1 .. origin => Published(d)
    <3>1. [RepoNext]_repoVars
      BY DEF Next, vars
    <3> QED
      BY <3>1, RepoKept, OldCommitsAreKept
  <2>2. reached <= origin
    BY DEF CursorInv, CursorsInOrder
  <2>3. origin \in Nat
    BY DEF RepoInv, RepoTypeOK
  <2>4. 1 .. reached \subseteq 1 .. origin
    BY <1>1, <2>2, <2>3
  <2> QED
    BY <2>1, <2>4 DEF Published
<1>4. UNCHANGED Missed
  BY <1>1, <1>2, <1>3 DEF Missed, Mine
<1> QED
  BY <1>1, <1>2, <1>4

LEMMA LedgerStep ==
  ASSUME RepoInv, LoTypeOK, LoTypeOK', CursorInv, DeliveryInv, TodoInv,
         [Next]_vars
  PROVE  [Ledger!Next]_(Ledger!ledger)
<1> USE DEF dispatcher, history
<1>1. at \in [Deployments -> Nat] /\ reached \in Nat /\ reached' \in Nat
  <2>1. at \in [Deployments -> Nat]
    BY DEF RepoInv, RepoTypeOK
  <2>2. reached \in Nat /\ reached' \in Nat
    BY DEF LoTypeOK
  <2> QED
    BY <2>1, <2>2
<1>2. CASE UNCHANGED loVars
  BY <1>2, LedgerFrame DEF Ledger!ledger
<1> SUFFICES ASSUME LoNext, UNCHANGED repoVars
             PROVE  Ledger!Next
  BY <1>2 DEF Next, vars
<1>3. UNCHANGED at
  BY DEF repoVars
<1>4. ASSUME UNCHANGED <<dispatched, Accepted>>, reached' >= reached
      PROVE  Ledger!Next
  BY <1>1, <1>3, <1>4, LedgerDecides
<1>5. ASSUME UNCHANGED <<queue, todo, dispatched>>, reached' >= reached
      PROVE  Ledger!Next
  BY <1>4, <1>5 DEF Accepted, InQueue
<1>6. ASSUME UNCHANGED <<todo, dispatched>>, reached' >= reached,
             NEW e \in Event, Trigger(e),
             \A d \in e.deps : d \in Mine /\ at[d] \in reached + 1 .. reached'
      PROVE  Ledger!Next
  <2>1. CASE queue' = queue
    BY <1>5, <1>6, <2>1
  <2>2. CASE queue' = Append(queue, e)
    <3>1. queue \in Seq(Event)
      BY DEF LoTypeOK
    <3>2. InQueue' = InQueue \union e.deps
      BY <2>2, <3>1, AppendedDeps
    <3>3. Accepted' = Accepted \union e.deps
      BY <1>6, <3>2 DEF Accepted
    <3> QED
      BY <1>1, <1>3, <1>6, <3>3, LedgerDecides
  <2> QED
    BY <1>6, <2>1, <2>2 DEF Trigger
<1>7. CASE NetworkTick
  <2> DEFINE e == [name |-> NetworkChange, deps |-> {}]
  <2>1. e \in Event /\ e.deps = {}
    BY DEF Event
  <2>2. Trigger(e) /\ UNCHANGED <<todo, dispatched, reached>>
    BY <1>7 DEF NetworkTick
  <2> HIDE DEF e
  <2> QED
    BY <1>1, <1>6, <2>1, <2>2
<1>8. CASE WatcherStarts
  BY <1>1, <1>5, <1>8 DEF WatcherStarts, Open, Clone, CloneFails, Watch, Later
<1>9. CASE Pull \/ PullHalf \/ GiveUp
  BY <1>1, <1>5, <1>9 DEF Pull, PullHalf, GiveUp
<1>10. CASE DiffFails
  BY <1>1, <1>5, <1>10 DEF DiffFails, Later
<1>11. CASE Diff
  <2>1. /\ reached' >= reached /\ reached' >= head
        /\ UNCHANGED <<todo, dispatched>>
    <3>1. head \in Nat
      BY DEF LoTypeOK
    <3>2. reached' = Later(reached, head) /\ UNCHANGED <<todo, dispatched>>
      BY <1>11 DEF Diff
    <3> QED
      BY <1>1, <3>1, <3>2 DEF Later
  <2>2. CASE Changes = {}
    BY <1>5, <1>11, <2>1, <2>2 DEF Diff
  <2>3. CASE Changes # {}
    <3> DEFINE e == [name |-> GitPolled, deps |-> Changes]
    <3>1. e \in Event /\ e.deps = Changes
      BY DEF Event, Changes, Mine
    <3>2. Trigger(e)
      BY <1>11, <2>3 DEF Diff
    <3>3. \A d \in Changes : d \in Mine /\ at[d] \in reached + 1 .. reached'
      BY <1>1, <1>11, <2>1, NewChanges
    <3> HIDE DEF e
    <3> QED
      BY <1>6, <2>1, <3>1, <3>2, <3>3
  <2> QED
    BY <2>2, <2>3
<1>12. CASE Take
  <2>1. queue \in Seq(Event) /\ queue # <<>> /\ queue' = Tail(queue)
    BY <1>12 DEF Take, LoTypeOK
  <2>2. todo = {} /\ todo' = Head(queue).deps /\ UNCHANGED <<dispatched, reached>>
    BY <1>12 DEF Take, TodoInv
  <2>3. Accepted' = Accepted
    BY <2>1, <2>2, TakenDeps DEF Accepted
  <2> QED
    BY <1>1, <1>4, <2>2, <2>3
<1>13. CASE HandleNetworkChange \/ GitPolledHandled \/ RaiseFsmEvent
  <2>1. UNCHANGED <<queue, todo, dispatched, reached>>
    BY <1>13 DEF HandleNetworkChange, GitPolledHandled, RaiseFsmEvent
  <2> QED
    BY <1>1, <1>5, <2>1
<1>14. CASE \E d \in Deployments : DeployToEdges(d)
  BY <1>3, <1>14, LedgerDeploys
<1>15. CASE \/ \E d \in Deployments, n \in Nodes : Publish(d, n)
            \/ \E d \in Deployments : Done(d)
  <2>1. UNCHANGED <<queue, todo, dispatched, reached>>
    BY <1>15 DEF Publish, Done
  <2> QED
    BY <1>1, <1>5, <2>1
<1>16. CASE Exit \/ \E d \in Deployments, n \in Nodes : Panic(d, n)
  BY <1>3, <1>16, LedgerForgets DEF Exit, Panic
<1>17. CASE Start \/ LoseDisk \/ \E n \in Nodes : Health(n)
  <2>1. UNCHANGED <<queue, todo, dispatched, reached>>
    BY <1>17 DEF Start, LoseDisk, Health
  <2> QED
    BY <1>1, <1>5, <2>1
<1> QED
  BY <1>7, <1>8, <1>9, <1>10, <1>11, <1>12, <1>13, <1>14, <1>15, <1>16, <1>17
     DEF LoNext, WatcherTurns, Dispatcher, Goroutines, Environment

\* The LO implements the ledger: whatever crashes, overflows or fails, each
\* deployment of the site is decided once, and no decision is taken back.
THEOREM LedgerImplemented == Spec => ImplementsLedger
<1>1. Init => Ledger!Init
  <2>1. Init => /\ queue = <<>> /\ todo = {} /\ dispatched = {} /\ reached = 0
    BY DEF Init, LoInit
  <2>2. queue = <<>> /\ todo = {} => Accepted = {}
    BY EmptyQueue DEF Accepted, InQueue
  <2>3. reached = 0 => Missed = {}
    BY DEF Missed
  <2> QED
    BY <2>1, <2>2, <2>3 DEF Ledger!Init
<1>2. /\ RepoInv /\ LoTypeOK /\ LoTypeOK' /\ CursorInv /\ DeliveryInv /\ TodoInv
      /\ [Next]_vars
      => [Ledger!Next]_(Ledger!ledger)
  BY LedgerStep
<1>3. TypeOK => LoTypeOK
  BY DEF TypeOK
<1> QED
  BY <1>1, <1>2, <1>3, RepoOfLo, TypeCorrect, CursorInvariant, TodoInvariant,
     DeliveryInvariant, PTL DEF Spec, ImplementsLedger, Ledger!Spec

\* In particular nothing is deployed again or caught up with (DeliveryLedger).
THEOREM OutcomesStay == Spec => Ledger!OutcomesAreFinal
<1>1. [Ledger!Next]_(Ledger!ledger)
        => [dispatched \subseteq dispatched' /\ Missed \subseteq Missed']_(Ledger!ledger)
  BY DEF Ledger!Next, Ledger!Decide, Ledger!Deploy, Ledger!Forget
<1> QED
  BY <1>1, LedgerImplemented, PTL
     DEF ImplementsLedger, Ledger!Spec, Ledger!OutcomesAreFinal

\* What the LO has once passed over it never gives out, whatever it restarts or pulls
\* later: there is no catching up.
THEOREM MissedForGood ==
  ASSUME NEW d \in Deployments
  PROVE  Spec => [](d \in Missed => [](d \notin dispatched))
<1>1. d \in Missed => d \notin dispatched
  BY DEF Missed
<1>2. [dispatched \subseteq dispatched' /\ Missed \subseteq Missed']_(Ledger!ledger)
        => (d \in Missed => (d \in Missed)')
  BY DEF Ledger!ledger
<1> QED
  BY <1>1, <1>2, OutcomesStay, PTL DEF Ledger!OutcomesAreFinal

-----------------------------------------------------------------------------
(* What is missed.                                                         *)

\* eventCh holds no more than its capacity.
QueueInv == Len(queue) <= QueueCap

LEMMA QueueSizes ==
  ASSUME LoTypeOK
  PROVE  queue \in Seq(Event) /\ Len(queue) \in Nat /\ QueueCap \in Nat \ {0}
<1>1. queue \in Seq(Event)
  BY DEF LoTypeOK
<1>2. Len(queue) \in Nat
  BY <1>1
<1> QED
  BY <1>1, <1>2, QueueAssumption

LEMMA QueueStep ==
  ASSUME LoTypeOK, QueueInv, [Next]_vars
  PROVE  QueueInv'
<1> USE DEF dispatcher
<1>1. queue \in Seq(Event) /\ Len(queue) \in Nat /\ QueueCap \in Nat \ {0}
  BY QueueSizes
<1>2. ASSUME UNCHANGED queue
      PROVE  QueueInv'
  BY <1>2 DEF QueueInv
<1>3. ASSUME NEW e \in Event, Trigger(e)
      PROVE  QueueInv'
  <2>1. CASE Len(queue) < QueueCap
    <3>1. queue' = Append(queue, e)
      BY <1>3, <2>1 DEF Trigger
    <3>2. Len(queue') = Len(queue) + 1
      BY <1>1, <3>1
    <3> QED
      BY <1>1, <2>1, <3>2 DEF QueueInv
  <2>2. CASE ~(Len(queue) < QueueCap)
    BY <1>2, <1>3, <2>2 DEF Trigger
  <2> QED
    BY <2>1, <2>2
<1>4. CASE Die
  <2>1. Len(queue') = 0
    BY <1>4, EmptyQueue DEF Die
  <2> QED
    BY <1>1, <2>1 DEF QueueInv
<1>5. CASE NetworkTick
  <2>1. [name |-> NetworkChange, deps |-> {}] \in Event
    BY DEF Event
  <2> QED
    BY <1>3, <1>5, <2>1 DEF NetworkTick
<1>6. CASE Diff
  <2>1. [name |-> GitPolled, deps |-> Changes] \in Event
    BY DEF Event, Changes, Mine
  <2> QED
    BY <1>2, <1>3, <1>6, <2>1 DEF Diff
<1>7. CASE Take
  <2>1. queue # <<>> /\ queue' = Tail(queue)
    BY <1>7 DEF Take
  <2>2. Len(queue') = Len(queue) - 1
    BY <1>1, <2>1
  <2> QED
    BY <1>1, <2>2 DEF QueueInv
<1>8. CASE WatcherStarts \/ Pull \/ PullHalf \/ GiveUp \/ DiffFails
  BY <1>2, <1>8 DEF WatcherStarts, Open, Clone, CloneFails, Watch, Pull,
                    PullHalf, GiveUp, DiffFails
<1>9. CASE HandleNetworkChange \/ GitPolledHandled \/ RaiseFsmEvent
  BY <1>2, <1>9 DEF HandleNetworkChange, GitPolledHandled, RaiseFsmEvent
<1>10. CASE \/ \E d \in Deployments : DeployToEdges(d) \/ Done(d)
            \/ \E d \in Deployments, n \in Nodes : Publish(d, n)
  BY <1>2, <1>10 DEF DeployToEdges, Done, Publish
<1>11. CASE \/ Start \/ LoseDisk \/ UNCHANGED loVars
            \/ \E n \in Nodes : Health(n)
  BY <1>2, <1>11 DEF Start, LoseDisk, Health, loVars
<1> QED
  BY <1>4, <1>5, <1>6, <1>7, <1>8, <1>9, <1>10, <1>11
     DEF Next, LoNext, WatcherTurns, Dispatcher, Goroutines, Environment, Exit,
         Panic, vars

LEMMA QueueInvariant == Spec => []QueueInv
<1>1. Init => QueueInv
  <2>1. Init => Len(queue) = 0
    BY EmptyQueue DEF Init, LoInit
  <2> QED
    BY <2>1, QueueAssumption DEF QueueInv
<1>2. LoTypeOK /\ QueueInv /\ [Next]_vars => QueueInv'
  BY QueueStep
<1>3. TypeOK => LoTypeOK
  BY DEF TypeOK
<1> QED
  BY <1>1, <1>2, <1>3, TypeCorrect, PTL DEF Spec

\* What may pass a deployment over in a step.
Reason(d) ==
  \/ up /\ ~up'
  \/ wpc = "start"
  \/ wpc = "diff" /\ ( \/ Len(queue) = QueueCap \/ at[d] > tree
                       \/ last = 0 \/ DiffFails )

\* A comparison passes over only what it cannot read, has nothing to compare
\* with, or finds no room for.
LEMMA DiffMisses ==
  ASSUME LoTypeOK, CursorInv, DeliveryInv, QueueInv,
         at \in [Deployments -> Nat], Diff, UNCHANGED at
  PROVE  \A d \in Missed' \ Missed : Reason(d)
<1>1. /\ reached \in Nat /\ head \in Nat /\ tree \in Nat /\ last \in Nat
      /\ queue \in Seq(Event) /\ Len(queue) \in Nat /\ QueueCap \in Nat
  BY QueueSizes DEF LoTypeOK
<1>2. /\ wpc = "diff" /\ last \in {0, reached}
      /\ reached' = Later(reached, head) /\ UNCHANGED <<todo, dispatched, Mine>>
  BY DEF Diff, CursorInv, CursorsInOrder, Mine
<1>3. ASSUME Changes # {}
      PROVE  Trigger([name |-> GitPolled, deps |-> Changes])
  BY <1>3 DEF Diff
<1>4. Changes = {} => queue' = queue
  BY DEF Diff
<1>5. Changes \subseteq Mine /\ [name |-> GitPolled, deps |-> Changes] \in Event
  BY DEF Changes, Event, Mine
<1>6. CASE queue' = queue
  <2>1. Accepted' = Accepted
    BY <1>2, <1>6 DEF Accepted, InQueue
  <2> SUFFICES ASSUME NEW d \in Missed' \ Missed, last # 0, ~(at[d] > tree)
               PROVE  Len(queue) = QueueCap
    BY <1>2 DEF Reason
  <2>2. d \in Mine /\ at[d] \in 1 .. reached' /\ d \notin Accepted \union dispatched
    BY <1>2, <2>1 DEF Missed
  <2>3. at[d] \notin 1 .. reached
    BY <2>2 DEF Missed
  <2>4. at[d] \in Nat
    BY <2>2 DEF Mine
  <2>5. at[d] \in last + 1 .. head /\ at[d] <= tree
    BY <1>1, <1>2, <2>2, <2>3, <2>4 DEF Later
  <2>6. d \in Changes
    BY <2>2, <2>5 DEF Changes
  <2>7. CASE Len(queue) < QueueCap
    <3>1. queue' = Append(queue, [name |-> GitPolled, deps |-> Changes])
      BY <1>3, <2>6, <2>7 DEF Trigger
    <3>2. Len(queue') = Len(queue) + 1
      BY <1>1, <1>5, <3>1
    <3> QED
      BY <1>1, <1>6, <3>2
  <2> QED
    BY <1>1, <2>7 DEF QueueInv
<1>7. CASE queue' # queue
  <2> DEFINE e == [name |-> GitPolled, deps |-> Changes]
  <2>1. e \in Event /\ e.deps = Changes
    BY <1>5
  <2>2. queue' = Append(queue, e)
    BY <1>3, <1>4, <1>7 DEF Trigger
  <2> HIDE DEF e
  <2>3. InQueue' = InQueue \union Changes
    BY <1>1, <2>1, <2>2, AppendedDeps
  <2>4. Accepted' = Accepted \union Changes
    BY <1>2, <2>3 DEF Accepted
  <2> SUFFICES ASSUME NEW d \in Missed' \ Missed, last # 0, ~(at[d] > tree)
               PROVE  FALSE
    BY <1>2 DEF Reason
  <2>5. /\ d \in Mine /\ at[d] \in 1 .. reached'
        /\ d \notin Accepted \union dispatched /\ d \notin Changes
    BY <1>2, <2>4 DEF Missed
  <2>6. at[d] \notin 1 .. reached
    BY <2>5 DEF Missed
  <2>7. at[d] \in Nat
    BY <2>5 DEF Mine
  <2>8. at[d] \in last + 1 .. head /\ at[d] <= tree
    BY <1>1, <1>2, <2>5, <2>6, <2>7 DEF Later
  <2> QED
    BY <2>5, <2>8 DEF Changes
<1> QED
  BY <1>6, <1>7

\* A step that passes nothing over.
LEMMA MissesNothing ==
  ASSUME UNCHANGED <<at, reached, dispatched>>, Accepted \subseteq Accepted'
  PROVE  Missed' \ Missed = {}
BY DEF Missed, Mine

LEMMA MissedStep ==
  ASSUME RepoInv, LoTypeOK, CursorInv, DeliveryInv, TodoInv, QueueInv,
         MachineInv, [Next]_vars
  PROVE  \A d \in Missed' \ Missed : Reason(d)
<1> USE DEF dispatcher, history
<1>1. at \in [Deployments -> Nat] /\ queue \in Seq(Event)
  <2>1. at \in [Deployments -> Nat]
    BY DEF RepoInv, RepoTypeOK
  <2> QED
    BY <2>1, QueueSizes
<1>2. CASE UNCHANGED loVars
  <2>1. Missed' = Missed
    BY <1>2, LedgerFrame
  <2> QED
    BY <2>1
<1> SUFFICES ASSUME LoNext, UNCHANGED repoVars
             PROVE  \A d \in Missed' \ Missed : Reason(d)
  BY <1>2 DEF Next, vars
<1>3. UNCHANGED at
  BY DEF repoVars
<1>4. ASSUME UNCHANGED <<reached, dispatched>>, Accepted \subseteq Accepted'
      PROVE  \A d \in Missed' \ Missed : Reason(d)
  BY <1>3, <1>4, MissesNothing
<1>5. ASSUME UNCHANGED <<queue, todo, dispatched, reached>>
      PROVE  \A d \in Missed' \ Missed : Reason(d)
  <2>1. Accepted' = Accepted
    BY <1>5 DEF Accepted, InQueue
  <2> QED
    BY <1>4, <1>5, <2>1
<1>6. CASE Die
  <2>1. CASE up
    <3>1. up /\ ~up'
      BY <1>6, <2>1 DEF Die
    <3> QED
      BY <3>1 DEF Reason
  <2>2. CASE ~up
    <3>1. queue = <<>> /\ dpc = "take"
      BY <2>2 DEF MachineInv, CursorInv
    <3>2. todo = {}
      BY <3>1 DEF TodoInv
    <3>3. UNCHANGED <<queue, todo, dispatched, reached>>
      BY <1>6, <3>1, <3>2 DEF Die
    <3> QED
      BY <1>5, <3>3
  <2> QED
    BY <2>1, <2>2
<1>7. CASE NetworkTick
  <2> DEFINE e == [name |-> NetworkChange, deps |-> {}]
  <2>1. e \in Event /\ e.deps = {}
    BY DEF Event
  <2>2. Trigger(e) /\ UNCHANGED <<todo, dispatched, reached>>
    BY <1>7 DEF NetworkTick
  <2> HIDE DEF e
  <2>3. CASE queue' = queue
    BY <1>5, <2>2, <2>3
  <2>4. CASE queue' = Append(queue, e)
    <3>1. InQueue' = InQueue
      BY <1>1, <2>1, <2>4, AppendedDeps
    <3>2. Accepted' = Accepted
      BY <2>2, <3>1 DEF Accepted
    <3> QED
      BY <1>4, <2>2, <3>2
  <2> QED
    BY <2>2, <2>3, <2>4 DEF Trigger
<1>8. CASE Open \/ Clone
  <2>1. wpc = "start"
    BY <1>8 DEF Open, Clone
  <2> QED
    BY <2>1 DEF Reason
<1>9. CASE CloneFails \/ Pull \/ PullHalf \/ GiveUp
  BY <1>5, <1>9 DEF CloneFails, Pull, PullHalf, GiveUp
<1>10. CASE DiffFails
  <2>1. wpc = "diff"
    BY <1>10 DEF DiffFails
  <2> QED
    BY <1>10, <2>1 DEF Reason
<1>11. CASE Diff
  BY <1>1, <1>3, <1>11, DiffMisses
<1>12. CASE Take
  <2>1. queue # <<>> /\ queue' = Tail(queue)
    BY <1>12 DEF Take
  <2>2. todo = {} /\ todo' = Head(queue).deps /\ UNCHANGED <<dispatched, reached>>
    BY <1>12 DEF Take, TodoInv
  <2>3. Accepted' = Accepted
    BY <1>1, <2>1, <2>2, TakenDeps DEF Accepted
  <2> QED
    BY <1>4, <2>2, <2>3
<1>13. CASE HandleNetworkChange \/ GitPolledHandled \/ RaiseFsmEvent
  <2>1. UNCHANGED <<queue, todo, dispatched, reached>>
    BY <1>13 DEF HandleNetworkChange, GitPolledHandled, RaiseFsmEvent
  <2> QED
    BY <1>5, <2>1
<1>14. ASSUME NEW d \in Deployments, DeployToEdges(d)
       PROVE  Missed' \ Missed = {}
  <2>1. /\ d \in todo /\ todo' = todo \ {d}
        /\ dispatched' = dispatched \union {d}
        /\ UNCHANGED <<queue, reached, at>>
    BY <1>3, <1>14 DEF DeployToEdges
  <2>2. InQueue' = InQueue
    BY <2>1 DEF InQueue
  <2>3. Accepted' \union dispatched' = Accepted \union dispatched
    BY <2>1, <2>2 DEF Accepted
  <2> QED
    BY <2>1, <2>3 DEF Missed, Mine
<1>15. CASE \/ \E d \in Deployments, n \in Nodes : Publish(d, n)
            \/ \E d \in Deployments : Done(d)
  <2>1. UNCHANGED <<queue, todo, dispatched, reached>>
    BY <1>15 DEF Publish, Done
  <2> QED
    BY <1>5, <2>1
<1>16. CASE Start \/ LoseDisk \/ \E n \in Nodes : Health(n)
  <2>1. UNCHANGED <<queue, todo, dispatched, reached>>
    BY <1>16 DEF Start, LoseDisk, Health
  <2> QED
    BY <1>5, <2>1
<1> QED
  BY <1>6, <1>7, <1>8, <1>9, <1>10, <1>11, <1>12, <1>13, <1>14, <1>15, <1>16
     DEF LoNext, WatcherStarts, WatcherTurns, Dispatcher, Goroutines,
         Environment, Exit, Panic

\* A deployment of the site that is passed over was in the memory of a process
\* that died, was there before the watch began, came to a full queue, could not
\* be read, or was compared in vain: nothing else loses one (watcher.Start,
\* TriggerEvent, the dispatcher).
THEOREM MissesHaveAReason == Spec => MissedForAReason
<1>1. RepoInv /\ LoTypeOK /\ CursorInv /\ DeliveryInv /\ TodoInv /\ QueueInv
      /\ MachineInv /\ [Next]_vars
      => [\A d \in Missed' \ Missed :
            \/ up /\ ~up'
            \/ wpc = "start"
            \/ wpc = "diff" /\ ( \/ Len(queue) = QueueCap \/ at[d] > tree
                                 \/ last = 0 \/ DiffFails )]_vars
  BY MissedStep DEF Reason
<1>2. TypeOK => LoTypeOK
  BY DEF TypeOK
<1> QED
  BY <1>1, <1>2, RepoOfLo, TypeCorrect, CursorInvariant, DeliveryInvariant,
     TodoInvariant, QueueInvariant, MachineInvariant, PTL
     DEF Spec, MissedForAReason

-----------------------------------------------------------------------------
(* A watcher that fails before its first turn.                             *)

\* Until the watcher has come through its clone nothing was polled: the dispatcher has
\* nothing left to do but to tell the machine of the network change.
NothingPolled ==
  wpc \in {"start", "dead"} => queue = <<>> /\ todo = {} /\ cur # GitPolled

LEMMA NothingPolledStep ==
  ASSUME MachineInv, TodoInv, NothingPolled, [Next]_vars
  PROVE  NothingPolled'
<1> USE DEF dispatcher, watcher
<1>1. ASSUME wpc' \in {"start", "dead"} => wpc \in {"start", "dead"},
             UNCHANGED <<queue, todo, cur>>
      PROVE  NothingPolled'
  BY <1>1 DEF NothingPolled
<1>2. CASE UNCHANGED loVars
  <2>1. UNCHANGED <<wpc, queue, todo, cur>>
    BY <1>2 DEF loVars
  <2> QED
    BY <1>1, <2>1
<1>3. CASE NetworkTick
  <2>1. mode = "" /\ wpc' = wpc
    BY <1>3 DEF NetworkTick
  <2> QED
    BY <2>1 DEF MachineInv, NothingPolled
<1>4. CASE WatcherStarts
  BY <1>1, <1>4 DEF WatcherStarts, Open, Clone, CloneFails, Watch
<1>5. CASE WatcherTurns
  <2>1. wpc' \in {"wait", "diff"}
    BY <1>5 DEF WatcherTurns, Pull, PullHalf, GiveUp, DiffFails, Diff, MachineInv
  <2> QED
    BY <2>1 DEF NothingPolled
<1>6. CASE Take
  BY <1>6 DEF Take, NothingPolled
<1>7. CASE HandleNetworkChange
  <2>1. /\ dpc = "handle" /\ cur = NetworkChange
        /\ UNCHANGED <<queue, cur, todo>>
    BY <1>7 DEF HandleNetworkChange
  <2>2. queue = <<>> /\ NetworkChange # GitPolled
    BY <2>1 DEF MachineInv, NetworkChange, GitPolled
  <2>3. todo = {}
    BY <2>1 DEF TodoInv
  <2> QED
    BY <2>1, <2>2, <2>3 DEF NothingPolled
<1>8. CASE GitPolledHandled
  <2>1. UNCHANGED <<wpc, queue, todo, cur>>
    BY <1>8 DEF GitPolledHandled
  <2> QED
    BY <1>1, <2>1
<1>9. CASE RaiseFsmEvent
  <2>1. UNCHANGED <<wpc, queue, todo>> /\ cur' = ""
    BY <1>9 DEF RaiseFsmEvent
  <2> QED
    BY <2>1 DEF NothingPolled, GitPolled
<1>10. ASSUME NEW d \in Deployments, DeployToEdges(d) PROVE NothingPolled'
  <2>1. UNCHANGED <<wpc, queue, cur>> /\ cur = GitPolled
    BY <1>10 DEF DeployToEdges
  <2> QED
    BY <2>1 DEF NothingPolled
<1>11. CASE Die
  <2>1. wpc' = "off"
    BY <1>11 DEF Die
  <2> QED
    BY <2>1 DEF NothingPolled
<1>12. CASE \/ \E d \in Deployments, n \in Nodes : Publish(d, n)
            \/ \E d \in Deployments : Done(d)
  <2>1. UNCHANGED <<wpc, queue, todo, cur>>
    BY <1>12 DEF Publish, Done
  <2> QED
    BY <1>1, <2>1
<1>13. CASE Start \/ LoseDisk \/ \E n \in Nodes : Health(n)
  <2>1. UNCHANGED <<wpc, queue, todo, cur>>
    BY <1>13 DEF Start, LoseDisk, Health
  <2> QED
    BY <1>1, <2>1
<1> QED
  BY <1>2, <1>3, <1>4, <1>5, <1>6, <1>7, <1>8, <1>9, <1>10, <1>11, <1>12, <1>13
     DEF Next, LoNext, Dispatcher, Goroutines, Environment, Exit, Panic, vars

LEMMA NothingPolledHolds == Spec => []NothingPolled
<1>1. Init => NothingPolled
  BY DEF Init, LoInit, NothingPolled
<1>2. MachineInv /\ TodoInv /\ NothingPolled /\ [Next]_vars => NothingPolled'
  BY NothingPolledStep
<1> QED
  BY <1>1, <1>2, MachineInvariant, TodoInvariant, PTL DEF Spec

\* A process whose first clone failed never watches and gives nothing out, however
\* long it runs and whatever is committed.
FailedCloneStays ==
  [][wpc = "dead" /\ up' =>
       wpc' = "dead" /\ UNCHANGED <<last, reached, queue, dispatched>>]_vars

\* StartPullMode logs the error of watcher.Start and waits; the monitor sees no second
\* change of mode: only a restart of the process starts another watcher.
THEOREM FailedCloneIsForGood == Spec => FailedCloneStays
<1>1. ASSUME MachineInv, NothingPolled, wpc = "dead", up', [Next]_vars
      PROVE  wpc' = "dead" /\ UNCHANGED <<last, reached, queue, dispatched>>
  <2> USE DEF dispatcher, watcher, history
  <2>1. mode # "" /\ up /\ queue = <<>> /\ cur # GitPolled
    BY <1>1 DEF MachineInv, NothingPolled
  <2>2. ~(dpc = "handle" /\ cur = NetworkChange)
    BY <1>1 DEF MachineInv
  <2>3. ~NetworkTick /\ ~WatcherStarts /\ ~WatcherTurns /\ ~Start /\ ~Exit
    BY <1>1, <2>1 DEF NetworkTick, WatcherStarts, Open, Clone, CloneFails, WatcherTurns, Pull,
       PullHalf, GiveUp, DiffFails, Diff, Start, Exit, Die
  <2>4. /\ ~Take /\ ~HandleNetworkChange /\ ~GitPolledHandled
        /\ \A d \in Deployments : ~DeployToEdges(d)
        /\ \A d \in Deployments, n \in Nodes : ~Panic(d, n)
    BY <1>1, <2>1, <2>2 DEF Take, HandleNetworkChange, GitPolledHandled, DeployToEdges, Panic, Die
  <2>5. CASE RaiseFsmEvent
    BY <1>1, <2>5 DEF RaiseFsmEvent
  <2>6. CASE \/ \E d \in Deployments, n \in Nodes : Publish(d, n)
             \/ \E d \in Deployments : Done(d)
    BY <1>1, <2>6 DEF Publish, Done
  <2>7. CASE LoseDisk \/ \E n \in Nodes : Health(n)
    BY <1>1, <2>7 DEF LoseDisk, Health
  <2>8. CASE UNCHANGED loVars
    BY <1>1, <2>8 DEF loVars
  <2> QED
    BY <1>1, <2>3, <2>4, <2>5, <2>6, <2>7, <2>8
       DEF Next, LoNext, Dispatcher, Goroutines, Environment, vars
<1> QED
  BY <1>1, MachineInvariant, NothingPolledHolds, PTL DEF Spec, FailedCloneStays
=============================================================================
