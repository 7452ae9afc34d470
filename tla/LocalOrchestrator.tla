-------------------------- MODULE LocalOrchestrator --------------------------
(***************************************************************************)
(* One local orchestrator (LO) process: the network monitor, the git       *)
(* watcher with its clone, the bounded event queue, the dispatcher with its *)
(* state machine, and the goroutines that publish a deployment to the edge *)
(* nodes.  The CO writes the repository as DesiredState describes it.      *)
(***************************************************************************)
EXTENDS DesiredState, Sequences, FiniteSets

CONSTANTS Nodes,      \* the hosts that may register
          Site,       \* the site of this LO
          SiteOf,     \* the site of each deployment
          Empty,      \* the deployments whose profile lists no component
          QueueCap    \* the capacity of eventCh, 20 in the code

ASSUME SiteAssumption == Empty \in SUBSET Deployments
ASSUME QueueAssumption == QueueCap \in Nat \ {0}

VARIABLES
  \* the LO's disk
  cloned,      \* the working copy has a .git that opens
  head,        \* the commit HEAD points to, 0 for none
  tree,        \* the commit whose files are in the working copy
  \* the LO's process
  up,
  mode,        \* currentMode, "" before the first tick
  wpc,         \* the watcher: "off", "start", "wait", "diff" or "dead"
  last,        \* the watcher's last, 0 for ""
  queue,       \* eventCh
  dpc,         \* the dispatcher: "take", "handle" or "fsm"
  cur,         \* the name of the event the dispatcher works on
  todo,        \* the deployments of that event still to be given out
  fsm,         \* the state of the loader's machine
  outbox,      \* publishing goroutines: pairs of deployment and host
  results,     \* deployments whose "done" the result listener has not seen
  \* the database and the broker
  hosts,       \* the rows of Host
  nilRow,      \* a DeploymentStatus row with the zero uuid
  sent,        \* the requests published: pairs of deployment and host
  \* history
  reached,     \* the highest commit the watcher has decided
  dispatched   \* the deployments given to DeployToEdges

disk == <<cloned, head, tree>>
watcher == <<wpc, last>>
dispatcher == <<queue, dpc, cur, todo, fsm>>
fanout == <<outbox, results, nilRow, sent>>
history == <<reached, dispatched>>
loVars == <<disk, up, mode, watcher, dispatcher, fanout, hosts, history>>
vars == <<repoVars, loVars>>

GitPolled == "EventGitPolled"
NetworkChange == "EventNetworkChange"
Event == [name : {GitPolled, NetworkChange}, deps : SUBSET Deployments]

LoTypeOK ==
  /\ cloned \in BOOLEAN /\ head \in Nat /\ tree \in Nat
  /\ up \in BOOLEAN /\ mode \in {"", "adaptive"}
  /\ wpc \in {"off", "start", "wait", "diff", "dead"} /\ last \in Nat
  /\ queue \in Seq(Event)
  /\ dpc \in {"take", "handle", "fsm"}
  /\ cur \in {"", GitPolled, NetworkChange}
  /\ todo \in SUBSET Deployments
  /\ fsm \in {"idle", "ready", "deploying", "error"}
  /\ outbox \in SUBSET (Deployments \X Nodes)
  /\ results \in SUBSET Deployments
  /\ hosts \in SUBSET Nodes
  /\ nilRow \in BOOLEAN
  /\ sent \in SUBSET (Deployments \X Nodes)
  /\ reached \in Nat /\ dispatched \in SUBSET Deployments
TypeOK == RepoTypeOK /\ LoTypeOK

LoInit ==
  /\ cloned = FALSE /\ head = 0 /\ tree = 0
  /\ up = FALSE /\ mode = "" /\ wpc = "off" /\ last = 0
  /\ queue = <<>> /\ dpc = "take" /\ cur = "" /\ todo = {} /\ fsm = "idle"
  /\ outbox = {} /\ results = {}
  /\ hosts = {} /\ nilRow = FALSE /\ sent = {}
  /\ reached = 0 /\ dispatched = {}

Init == RepoInit /\ LoInit

-----------------------------------------------------------------------------
Later(m, n) == IF m > n THEN m ELSE n

\* The watcher's prefix test: the deployments of this LO's site.
Mine == {d \in Deployments : SiteOf[d] = Site}

\* Mutant: the newest event is taken first.
TriggerFirst(e) ==
  queue' = IF Len(queue) < QueueCap THEN <<e>> \o queue ELSE queue

\* TriggerEvent: a full queue drops the event.
Trigger(e) == queue' = IF Len(queue) < QueueCap THEN Append(queue, e) ELSE queue

\* Mutant: a change of mode is listed for the ready state only.
TransitionsFromReady ==
  {<<NetworkChange, "ready", "ready">>, <<GitPolled, "ready", "ready">>}

\* The transitions of the loader's machine: event, source, destination.
Transitions ==
  {<<"deploy", "idle", "deploying">>, <<"deploy", "ready", "deploying">>,
   <<"success", "deploying", "ready">>, <<"fail", "deploying", "error">>,
   <<"enable_push", "idle", "ready">>, <<"enable_pull", "idle", "ready">>,
   <<"enable_offline", "ready", "ready">>,
   <<"git_update_received", "ready", "ready">>,
   <<NetworkChange, "idle", "ready">>, <<NetworkChange, "ready", "ready">>,
   <<GitPolled, "ready", "ready">>}

\* Mutant: the machine takes the event's name for its destination.
FsmEventByName(e) ==
  fsm' = IF \E t \in Transitions : t[1] = e /\ t[2] = fsm THEN e ELSE fsm

\* An event the current state does not list is an error that is only logged.
FsmEvent(e) ==
  fsm' = IF \E t \in Transitions : t[1] = e /\ t[2] = fsm
         THEN (CHOOSE t \in Transitions : t[1] = e /\ t[2] = fsm)[3]
         ELSE fsm

-----------------------------------------------------------------------------
(* The process and its host.                                               *)

Start ==
  /\ ~up
  /\ up' = TRUE
  /\ UNCHANGED <<disk, mode, watcher, dispatcher, fanout, hosts, history>>

\* The process dies: everything but the disk and the database is gone, and a
\* clone that was being made may be left without a HEAD.
Die ==
  /\ up' = FALSE /\ mode' = "" /\ wpc' = "off"
  /\ queue' = <<>> /\ dpc' = "take" /\ cur' = "" /\ todo' = {} /\ fsm' = "idle"
  /\ outbox' = {} /\ results' = {}
  /\ cloned' \in IF wpc = "start" /\ ~cloned THEN BOOLEAN ELSE {cloned}
  /\ UNCHANGED <<head, tree, last, hosts, nilRow, sent, history>>

\* A crash, a kill or the signal handler of main, at any point.
Exit == up /\ Die

\* A new container: /tmp/deployments-lo is on no volume.
LoseDisk ==
  /\ ~up /\ cloned
  /\ cloned' = FALSE /\ head' = 0 /\ tree' = 0
  /\ UNCHANGED <<up, mode, watcher, dispatcher, fanout, hosts, history>>

\* CreateEdgeNode upserts the sender of a health message; another LO that
\* uses the same database does it for the hosts of its own site.
Health(n) ==
  /\ n \notin hosts
  /\ hosts' = hosts \union {n}
  /\ UNCHANGED <<disk, up, mode, watcher, dispatcher, fanout, history>>

\* Mutant: the monitor forgets the mode it announced.
NetworkTickForgets ==
  /\ up /\ mode = ""
  /\ Trigger([name |-> NetworkChange, deps |-> {}])
  /\ UNCHANGED <<disk, up, mode, watcher, dpc, cur, todo, fsm, fanout, hosts,
                 history>>

\* Mutant: the monitor notes the mode and does not tell the dispatcher.
NetworkTickSilent ==
  /\ up /\ mode = ""
  /\ mode' = "adaptive"
  /\ UNCHANGED <<disk, up, watcher, dispatcher, fanout, hosts, history>>

\* StartNetworkMonitor: DetectMode has one answer, so one tick of a process
\* finds a change.  The mode counts as changed even when the event is dropped.
NetworkTick ==
  /\ up /\ mode = ""
  /\ mode' = "adaptive"
  /\ Trigger([name |-> NetworkChange, deps |-> {}])
  /\ UNCHANGED <<disk, up, watcher, dpc, cur, todo, fsm, fanout, hosts, history>>

-----------------------------------------------------------------------------
(* The watcher: Start, and one turn of its loop in two steps.              *)

\* EnsureClone gives a repository; its HEAD is where watching begins.
Watch(h) ==
  /\ wpc' = "wait"
  /\ last' = h
  /\ reached' = Later(reached, h)
  /\ UNCHANGED <<up, mode, dispatcher, fanout, hosts, dispatched>>

Open ==
  /\ wpc = "start" /\ cloned
  /\ Watch(head)
  /\ UNCHANGED disk

Clone ==
  /\ wpc = "start" /\ ~cloned /\ origin > 0
  /\ cloned' = TRUE /\ head' = origin /\ tree' = origin
  /\ Watch(origin)

\* The origin cannot be reached or has no commit: Start returns the error and
\* no one starts it again.
CloneFails ==
  /\ wpc = "start" /\ ~cloned
  /\ wpc' = "dead"
  /\ UNCHANGED <<disk, up, mode, last, dispatcher, fanout, hosts, history>>

\* Pull: fetch, move HEAD, then reset the working copy.
Pull ==
  /\ wpc = "wait"
  /\ head' = origin
  /\ tree' = IF origin = head THEN tree ELSE origin
  /\ wpc' = "diff"
  /\ UNCHANGED <<cloned, up, mode, last, dispatcher, fanout, hosts, history>>

\* Mutant: the working copy is reset before HEAD is moved.
PullTreeFirst ==
  /\ wpc = "wait" /\ head # origin
  /\ tree' = origin
  /\ UNCHANGED <<cloned, head, up, mode, watcher, dispatcher, fanout, hosts,
                 history>>

\* The reset fails after HEAD was moved; the next pull finds HEAD up to date.
PullHalf ==
  /\ wpc = "wait" /\ head # origin
  /\ head' = origin
  /\ UNCHANGED <<cloned, tree, up, mode, watcher, dispatcher, fanout, hosts,
                 history>>

\* The repository cannot be opened after the pull: try again next time.
GiveUp ==
  /\ wpc = "diff"
  /\ wpc' = "wait"
  /\ UNCHANGED <<disk, up, mode, last, dispatcher, fanout, hosts, history>>

\* ChangedFilesBetween fails: the commits are skipped.
DiffFails ==
  /\ wpc = "diff" /\ head # last
  /\ wpc' = "wait"
  /\ last' = head /\ reached' = Later(reached, head)
  /\ UNCHANGED <<disk, up, mode, dispatcher, fanout, hosts, dispatched>>

\* Mutant: the newest commit is left out of the comparison.
ChangesBeforeHead ==
  IF last = 0 THEN {}
  ELSE {d \in Mine : at[d] \in last + 1 .. head - 1 /\ at[d] <= tree}

\* Mutant: without a last commit every file of the tree is a change.
ChangesFromNothing == {d \in Mine : at[d] \in last + 1 .. head /\ at[d] <= tree}

\* The site's files that differ between last and HEAD and can be read from
\* the working copy.  Without a last commit the difference is empty.
Changes ==
  IF last = 0 THEN {}
  ELSE {d \in Mine : at[d] \in last + 1 .. head /\ at[d] <= tree}

\* Mutant: last stays where it was.
DiffKeepsLast ==
  /\ wpc = "diff"
  /\ wpc' = "wait"
  /\ reached' = Later(reached, head)
  /\ IF Changes = {} THEN UNCHANGED queue
     ELSE Trigger([name |-> GitPolled, deps |-> Changes])
  /\ UNCHANGED <<disk, up, mode, last, dpc, cur, todo, fsm, fanout, hosts,
                 dispatched>>

Diff ==
  /\ wpc = "diff"
  /\ wpc' = "wait"
  /\ last' = head /\ reached' = Later(reached, head)
  /\ IF Changes = {} THEN UNCHANGED queue
     ELSE Trigger([name |-> GitPolled, deps |-> Changes])
  /\ UNCHANGED <<disk, up, mode, dpc, cur, todo, fsm, fanout, hosts, dispatched>>

-----------------------------------------------------------------------------
(* The dispatcher: one event at a time, handler first, then the machine.   *)

Take ==
  /\ up /\ dpc = "take" /\ queue # <<>>
  /\ cur' = Head(queue).name
  /\ todo' = Head(queue).deps
  /\ queue' = Tail(queue)
  /\ dpc' = "handle"
  /\ UNCHANGED <<disk, up, mode, watcher, fsm, fanout, hosts, history>>

\* handleNetworkChange for "adaptive": StartPullMode starts a watcher.
HandleNetworkChange ==
  /\ dpc = "handle" /\ cur = NetworkChange
  /\ wpc' = "start"
  /\ dpc' = "fsm"
  /\ UNCHANGED <<disk, up, mode, last, queue, cur, todo, fsm, fanout, hosts,
                 history>>

\* handleGitPolled calls DeployToEdges for each deployment: one goroutine for
\* every host of the database, none when the query fails, and one more that
\* reports when these are finished.
DeployToEdges(d) ==
  /\ dpc = "handle" /\ cur = GitPolled /\ d \in todo
  /\ todo' = todo \ {d}
  /\ dispatched' = dispatched \union {d}
  /\ \E targets \in {hosts, {}} : outbox' = outbox \union ({d} \X targets)
  /\ results' = results \union {d}
  /\ UNCHANGED <<disk, up, mode, watcher, queue, dpc, cur, fsm, nilRow, sent,
                 hosts, reached>>

GitPolledHandled ==
  /\ dpc = "handle" /\ cur = GitPolled /\ todo = {}
  /\ dpc' = "fsm"
  /\ UNCHANGED <<disk, up, mode, watcher, queue, cur, todo, fsm, fanout, hosts,
                 history>>

\* Mutant: the dispatcher ends when the machine stays in its state.
RaiseFsmEventOrEnd ==
  /\ dpc = "fsm"
  /\ FsmEvent(cur)
  /\ dpc' = IF fsm' = fsm THEN "fsm" ELSE "take"
  /\ cur' = IF fsm' = fsm THEN cur ELSE ""
  /\ UNCHANGED <<disk, up, mode, watcher, queue, todo, fanout, hosts, history>>

RaiseFsmEvent ==
  /\ dpc = "fsm"
  /\ FsmEvent(cur)
  /\ dpc' = "take" /\ cur' = ""
  /\ UNCHANGED <<disk, up, mode, watcher, queue, todo, fanout, hosts, history>>

-----------------------------------------------------------------------------
(* The goroutines of DeployToEdges and the result listener.                *)

\* Components[0] of an empty list panics, which ends the process.
Panic(d, n) == <<d, n>> \in outbox /\ d \in Empty /\ Die

\* The record saved for the host is made from an empty status: its id is the
\* zero uuid, so at most one is ever inserted; the error is not looked at.
Publish(d, n) ==
  /\ <<d, n>> \in outbox /\ d \notin Empty
  /\ nilRow' \in {nilRow, TRUE}
  /\ sent' \in {sent, sent \union {<<d, n>>}}
  /\ outbox' = outbox \ {<<d, n>>}
  /\ UNCHANGED <<disk, up, mode, watcher, dispatcher, results, hosts, history>>

\* Mutant: "done" is reported without waiting for the goroutines.
DoneAtOnce(d) ==
  /\ d \in results
  /\ results' = results \ {d}
  /\ FsmEvent("success")
  /\ UNCHANGED <<disk, up, mode, watcher, queue, dpc, cur, todo, outbox, nilRow,
                 sent, hosts, history>>

\* Mutant: "done" waits for a request to every host that is registered.
DoneWhenSent(d) ==
  /\ d \in results /\ \A n \in hosts : <<d, n>> \in sent
  /\ results' = results \ {d}
  /\ FsmEvent("success")
  /\ UNCHANGED <<disk, up, mode, watcher, queue, dpc, cur, todo, outbox, nilRow,
                 sent, hosts, history>>

\* wg.Wait is over: "done" reaches resultListener, which raises "success".
Done(d) ==
  /\ d \in results /\ \A n \in Nodes : <<d, n>> \notin outbox
  /\ results' = results \ {d}
  /\ FsmEvent("success")
  /\ UNCHANGED <<disk, up, mode, watcher, queue, dpc, cur, todo, outbox, nilRow,
                 sent, hosts, history>>

-----------------------------------------------------------------------------
WatcherStarts == Open \/ Clone \/ CloneFails
WatcherTurns == Pull \/ PullHalf \/ GiveUp \/ DiffFails \/ Diff
Dispatcher ==
  \/ Take \/ HandleNetworkChange \/ GitPolledHandled \/ RaiseFsmEvent
  \/ \E d \in Deployments : DeployToEdges(d)
Goroutines ==
  \/ \E d \in Deployments, n \in Nodes : Publish(d, n) \/ Panic(d, n)
  \/ \E d \in Deployments : Done(d)
Environment == Start \/ Exit \/ LoseDisk \/ \E n \in Nodes : Health(n)

LoNext == NetworkTick \/ WatcherStarts \/ WatcherTurns \/ Dispatcher
            \/ Goroutines \/ Environment

Next ==
  \/ RepoNext /\ UNCHANGED loVars
  \/ LoNext /\ UNCHANGED repoVars

Spec == Init /\ [][Next]_vars

(***************************************************************************)
(* The Go scheduler runs every goroutine that can run, and the tickers     *)
(* fire.  Git answers in the end: a pull is not refused for ever, and a    *)
(* turn that keeps reaching the comparison makes it.  Nothing forces the   *)
(* CO, the hosts or the container runtime.                                 *)
(***************************************************************************)
Fairness ==
  /\ WF_vars(NetworkTick /\ UNCHANGED repoVars)
  /\ WF_vars(WatcherStarts /\ UNCHANGED repoVars)
  /\ WF_vars(Pull /\ UNCHANGED repoVars)
  /\ SF_vars((Diff \/ DiffFails) /\ UNCHANGED repoVars)
  /\ WF_vars(Dispatcher /\ UNCHANGED repoVars)
  /\ WF_vars(Goroutines /\ UNCHANGED repoVars)

FairSpec == Spec /\ Fairness

-----------------------------------------------------------------------------
(* Safety.                                                                 *)

InQueue == {d \in Deployments : \E i \in 1 .. Len(queue) : d \in queue[i].deps}

\* On the way from the watcher to DeployToEdges.
Accepted == InQueue \union todo

\* Decided by the watcher, and neither deployed nor on the way.
Missed == {d \in Mine : at[d] \in 1 .. reached} \ (Accepted \union dispatched)

\* The positions in the history never overtake each other: what was decided is
\* at most what HEAD showed, files are never newer than HEAD, HEAD than the
\* origin.  A watching loop continues at the decided position, or at "" when a
\* clone was cut short.  (watcher.Start, Pull, ensureCloneLocked, restarts.)
CursorsInOrder ==
  /\ tree <= head /\ head <= origin /\ reached <= origin
  /\ cloned => head = 0 \/ reached <= head
  /\ wpc \in {"wait", "diff"} => cloned /\ last <= head /\ last \in {0, reached}

\* A deployment is given out at most once, over all restarts, drops and failed
\* pulls: what is on the way is this site's, decided, in one place only, and
\* was not deployed before.  (watcher.Start, TriggerEvent, handleGitPolled.)
HandedOnce ==
  /\ \A d \in Accepted : d \in Mine /\ at[d] \in 1 .. reached
  /\ Accepted \intersect dispatched = {}
  /\ todo \intersect InQueue = {}
  /\ \A i, j \in 1 .. Len(queue) :
        i # j => queue[i].deps \intersect queue[j].deps = {}

\* Deployments go out in the order of their commits, those of one event
\* together: nothing queued is as old as what was already given out.
InCommitOrder ==
  /\ \A d \in InQueue, e \in todo \union dispatched : at[e] < at[d]
  /\ \A i, j \in 1 .. Len(queue) :
        i < j => \A d \in queue[i].deps, e \in queue[j].deps : at[d] < at[e]

\* The machine is ready whenever it is told of a poll, so that this event is
\* never an invalid one: the network change that starts the watcher has been
\* through the dispatcher first.  (loader.go, StartEventDispatcher.)
GitPolledIsValid == dpc = "fsm" /\ cur = GitPolled => fsm = "ready"

\* handleNetworkChange never finds a process to cancel, nor a second watcher
\* on the same clone: a process sees one change of mode.
OneWatcher ==
  dpc = "handle" /\ cur = NetworkChange =>
    /\ wpc = "off"
    /\ \A i \in 1 .. Len(queue) : queue[i].name # NetworkChange

\* A host is asked at most once for a deployment, and "done" is not reported
\* while a goroutine of the deployment has yet to publish.
AskedOnce ==
  \A p \in outbox : p \notin sent /\ p[1] \in dispatched \intersect results

\* A published deployment of the site is missed for one of five reasons only:
\* the process died with it in memory, it was there before the watch began, the
\* queue was full, its file could not be read, or the comparison failed or had
\* nothing to compare with.
MissedForAReason ==
  [][\A d \in Missed' \ Missed :
       \/ up /\ ~up'
       \/ wpc = "start"
       \/ wpc = "diff" /\ ( \/ Len(queue) = QueueCap \/ at[d] > tree
                            \/ last = 0 \/ DiffFails )]_vars

\* The LO implements the ledger: each deployment is decided once.
Ledger == INSTANCE DeliveryLedger
            WITH accepted <- Accepted, deployed <- dispatched, missed <- Missed
ImplementsLedger == Ledger!Spec

-----------------------------------------------------------------------------
(* Liveness.                                                               *)

\* While the watcher lives, a deployment published for its site is decided and,
\* once accepted, given out: no poll, event or handler waits for ever.
PublishedIsDecided ==
  \A d \in Mine :
    (wpc \in {"wait", "diff"} /\ Published(d))
      ~> (d \in dispatched \/ d \in Missed \/ ~up)

\* The first change of mode is not lost on the way to StartPullMode.
WatcherIsStarted == up ~> (wpc \in {"wait", "dead"} \/ ~up)

\* Every DeployToEdges comes to its "done": no goroutine is left behind.
RoundsFinish == \A d \in Deployments : d \in results ~> d \notin results

-----------------------------------------------------------------------------
(* What the documents say and the code does not do.                        *)

\* eos_design.md: "Local caching for offline operation; replay once
\* connected": nothing published for the site is passed over.
NothingIsMissed == Missed = {}
=============================================================================
